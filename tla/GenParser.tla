----------------------------- MODULE GenParser ------------------------------
(***************************************************************************)
(* The parser of the template language of the configuration generator      *)
(* (gen/template.py): Tokenizer cuts a text into tokens, parse_str builds  *)
(* the tree.                                                               *)
(*                                                                         *)
(* A text is a sequence of pieces: braces, spaces, words, strings.  Words, *)
(* blobs and case values are themselves sequences of pieces.               *)
(***************************************************************************)
EXTENDS Naturals, Sequences, SequencesExt, TLC

CONSTANTS
    Texts       \* the texts given to parse_str

TextsAssumption == \A t \in Texts : t \in Seq({t[i] : i \in DOMAIN t})

VARIABLES
    text,       \* the text given
    rest,       \* Tokenizer.__to_lex
    tokens,     \* Tokenizer.tokens
    token_pos,  \* Tokenizer.__token_pos
    stack,      \* the parser's calls in progress, outermost first
    phase,      \* "lex", "parse", "parsed" or "rejected"; "rendered" or "failed" later
    error,      \* the exception raised
    ast         \* Template.ast

vars == <<text, rest, tokens, token_pos, stack, phase, error, ast>>

Word == {"x", "l", "f", "g", "switch", "case", "endswitch", "for", "in", "endfor"}
Blank == {" ", "nl"}
Quoted == {"'a'", "'b'", "'c'"}      \* a string with its quotes
NoFilter == <<>>

StartsWith(s, prefix) == IsPrefix(prefix, s)
Drop(s, n) == SubSeq(s, n + 1, Len(s))

-----------------------------------------------------------------------------
(* Tokenizer: the helpers read one part and leave the rest; once a part    *)
(* has failed the others do nothing.  Indexing past the end of the text is *)
(* an IndexError, which is not a SyntaxError.                              *)

Reader(s) == [rest |-> s, got |-> <<>>, err |-> ""]
Fails(r, e) == [r EXCEPT !.err = e]

read_whitespace(r) ==
    IF r.err # "" THEN r
    ELSE IF r.rest = <<>> THEN Fails(r, "IndexError")
    ELSE IF Head(r.rest) # " " THEN Fails(r, "SyntaxError")
    ELSE IF Len(r.rest) = 1 THEN Fails(r, "IndexError")
    ELSE IF r.rest[2] \in Blank THEN Fails(r, "SyntaxError")
    ELSE [r EXCEPT !.rest = Tail(@)]

WordLength(s) ==
    CHOOSE n \in 0..Len(s) : /\ \A i \in 1..n : s[i] \in Word
                             /\ n < Len(s) => s[n + 1] \notin Word

read_identifier(r0) ==
    LET r == read_whitespace(r0)
        n == WordLength(r.rest)
    IN  IF r.err # "" THEN r
        ELSE IF n = Len(r.rest) THEN Fails(r, "IndexError")
        ELSE [r EXCEPT !.rest = Drop(@, n), !.got = Append(@, SubSeq(r.rest, 1, n))]

read_str(r0) ==
    LET r == read_whitespace(r0)
    IN  IF r.err # "" THEN r
        ELSE IF Head(r.rest) \notin Quoted THEN Fails(r, "SyntaxError")
        ELSE [r EXCEPT !.rest = Tail(@), !.got = Append(@, <<Head(r.rest)>>)]

(* Mutant of Expect: the slice is one too long *)
ExpectDropsOneMore(r, literal) ==
    IF r.err # "" THEN r
    ELSE IF ~StartsWith(r.rest, literal) THEN Fails(r, "SyntaxError")
    ELSE [r EXCEPT !.rest = Drop(@, Len(literal) + 1)]

Expect(r, literal) ==
    IF r.err # "" THEN r
    ELSE IF ~StartsWith(r.rest, literal) THEN Fails(r, "SyntaxError")
    ELSE [r EXCEPT !.rest = Drop(@, Len(literal))]

read_end_control_group(r) == Expect(read_whitespace(r), <<"%", "}">>)

Token(kind, r) == [kind |-> kind, val |-> r.got, rest |-> r.rest, err |-> r.err]

\* What follows "{% switch", "{% case", ...
ReadControl(s) ==
    LET r == read_whitespace(Reader(Drop(s, 2)))
        kw == IF r.err = "" THEN Head(r.rest) ELSE ""
        body == [r EXCEPT !.rest = Drop(@, 1)]
    IN  CASE r.err # "" -> Token("", r)
          [] kw = "switch" -> Token(kw, read_end_control_group(read_identifier(body)))
          [] kw = "case" -> Token(kw, read_end_control_group(read_str(body)))
          [] kw \in {"endswitch", "endfor"} -> Token(kw, read_end_control_group(body))
          [] kw = "for" ->
                Token(kw, read_end_control_group(read_identifier(
                    Expect(read_whitespace(read_identifier(body)), <<"in">>))))
          [] OTHER -> Token("", Fails(r, "SyntaxError"))

ReadReplacement(s) ==
    LET id == read_identifier(Reader(Drop(s, 2)))
        name == IF id.err = "" /\ id.got = <<<<>>>> THEN Fails(id, "SyntaxError") ELSE id
        spaced == read_whitespace(name)
        filtered == IF spaced.err = "" /\ StartsWith(spaced.rest, <<"|">>)
                    THEN read_whitespace(read_identifier([spaced EXCEPT !.rest = Tail(@)]))
                    ELSE [spaced EXCEPT !.got = Append(@, NoFilter)]
    IN  Token("replacement", Expect(filtered, <<"}", "}">>))

Blob(value, after) == [kind |-> "blob", val |-> <<value>>, rest |-> after, err |-> ""]

BlobLength(s) ==
    CHOOSE n \in 0..Len(s) : /\ \A i \in 1..n : s[i] # "{"
                             /\ n < Len(s) => s[n + 1] = "{"

\* Tokenizer.__read_token; longer prefixes are tried first
ReadToken(s) ==
    CASE s = <<>> -> [kind |-> "eof", val |-> <<>>, rest |-> <<>>, err |-> ""]
      [] s # <<>> /\ Head(s) # "{" -> Blob(SubSeq(s, 1, BlobLength(s)), Drop(s, BlobLength(s)))
      [] StartsWith(s, <<"{", "{", "{", "{">>) -> Blob(<<"{", "{">>, Drop(s, 4))
      [] StartsWith(s, <<"{", "{", "{">>) /\ ~StartsWith(s, <<"{", "{", "{", "{">>) ->
            Token("", Fails(Reader(s), "SyntaxError"))
      [] StartsWith(s, <<"{", "%">>) -> ReadControl(s)
      [] StartsWith(s, <<"{", "{">>) /\ ~StartsWith(s, <<"{", "{", "{">>) -> ReadReplacement(s)
      [] OTHER -> Blob(<<"{">>, Tail(s))

Reject(e) ==
    /\ phase' = "rejected"
    /\ error' = e

Lex ==
    /\ phase = "lex"
    /\ LET t == ReadToken(rest) IN
         IF t.err # ""
         THEN Reject(t.err) /\ UNCHANGED <<rest, tokens>>
         ELSE /\ tokens' = Append(tokens, [kind |-> t.kind, val |-> t.val])
              /\ rest' = t.rest
              /\ phase' = IF t.kind = "eof" THEN "parse" ELSE "lex"
              /\ UNCHANGED error
    /\ UNCHANGED <<text, token_pos, stack, ast>>

-----------------------------------------------------------------------------
(* parse_str: the calls of _parse_chunks, _parse_switch and _parse_for in  *)
(* progress are a stack of frames.                                         *)

Frame(kind, val) ==
    [kind |-> kind, val |-> val,
     chunks |-> <<>>,       \* the chunks read so far
     cases |-> <<>>,        \* _parse_switch: the cases closed, a dictionary
     open |-> <<>>,         \* _parse_switch: the value of the case being read, if any
     is_first |-> TRUE]

Top == stack[Len(stack)]
Peek == tokens[token_pos]
(* Mutant of ReadsChunks: the blank before the first case may be followed by chunks *)
ReadsChunksAfterBlank(frame) == frame.kind # "switch" \/ ~frame.is_first

ReadsChunks(frame) == frame.kind # "switch" \/ frame.open # <<>>

SetTop(frame) == stack' = [stack EXCEPT ![Len(stack)] = frame]
AddChunk(frame, chunk) == [frame EXCEPT !.chunks = Append(@, chunk)]

ParserReads(kinds) ==
    /\ phase = "parse"
    /\ Peek.kind \in kinds
    /\ UNCHANGED <<text, rest, tokens>>

Advance == token_pos' = token_pos + 1 /\ UNCHANGED <<phase, error, ast>>

ParseChunk ==
    /\ ParserReads({"blob", "replacement"})
    /\ ReadsChunks(Top)
    /\ SetTop(AddChunk(Top, Peek))
    /\ Advance

ParseOpening ==
    /\ ParserReads({"switch", "for"})
    /\ ReadsChunks(Top)
    /\ stack' = Append(stack, Frame(Peek.kind, Peek.val))
    /\ Advance

\* cases[value] = chunks: a later case of the same value replaces the first
CloseCase(frame) ==
    IF frame.open = <<>> THEN frame.cases ELSE (frame.open :> frame.chunks) @@ frame.cases

ParseCase ==
    /\ ParserReads({"case"})
    /\ Top.kind = "switch"
    /\ SetTop([Top EXCEPT !.cases = CloseCase(Top), !.open = Peek.val[1],
                          !.chunks = <<>>, !.is_first = FALSE])
    /\ Advance

ParseBlobInSwitch ==
    /\ ParserReads({"blob"})
    /\ ~ReadsChunks(Top)
    /\ IF ~Top.is_first
       THEN Reject("AssertionError") /\ UNCHANGED <<token_pos, stack, ast>>
       ELSE IF \E i \in DOMAIN Peek.val[1] : Peek.val[1][i] \notin Blank
       THEN Reject("ValueError") /\ UNCHANGED <<token_pos, stack, ast>>
       ELSE SetTop([Top EXCEPT !.is_first = FALSE]) /\ Advance

ParseClosing ==
    /\ ParserReads({"endswitch", "endfor"})
    /\ Peek.kind = (IF Top.kind = "switch" THEN "endswitch" ELSE "endfor")
    /\ Top.kind # "top"
    /\ LET chunk == IF Top.kind = "switch"
                    THEN [kind |-> "switch", val |-> Top.val, cases |-> CloseCase(Top)]
                    ELSE [kind |-> "for", val |-> Top.val, body |-> Top.chunks]
           outer == Front(stack)
       IN  stack' = [outer EXCEPT ![Len(outer)] = AddChunk(@, chunk)]
    /\ Advance

ParseEnd ==
    /\ ParserReads({"eof"})
    /\ Top.kind = "top"
    /\ ast' = Top.chunks
    /\ phase' = "parsed"
    /\ UNCHANGED <<token_pos, stack, error>>

Unexpected(kind, frame) ==
    \/ kind = "eof" /\ frame.kind # "top"
    \/ kind = "case" /\ frame.kind # "switch"
    \/ kind = "endswitch" /\ frame.kind # "switch"
    \/ kind = "endfor" /\ frame.kind # "for"
    \/ kind \in {"replacement", "switch", "for"} /\ ~ReadsChunks(frame)

ParseError ==
    /\ ParserReads({"eof", "case", "endswitch", "endfor", "replacement", "switch", "for"})
    /\ Unexpected(Peek.kind, Top)
    /\ Reject("ValueError")
    /\ UNCHANGED <<token_pos, stack, ast>>

-----------------------------------------------------------------------------
Init ==
    /\ text \in Texts
    /\ rest = text
    /\ tokens = <<>>
    /\ token_pos = 1
    /\ stack = <<Frame("top", <<>>)>>
    /\ phase = "lex"
    /\ error = ""
    /\ ast = <<>>

Next ==
    \/ Lex
    \/ ParseChunk
    \/ ParseOpening
    \/ ParseCase
    \/ ParseBlobInSwitch
    \/ ParseClosing
    \/ ParseEnd
    \/ ParseError

Spec == Init /\ [][Next]_vars

-----------------------------------------------------------------------------
(* Properties                                                              *)

PrintToken(t) ==
    LET Group(words) == <<"{", "%", " ">> \o words \o <<" ", "%", "}">>
    IN  CASE t.kind = "blob" -> IF t.val[1] = <<"{", "{">> THEN t.val[1] \o t.val[1] ELSE t.val[1]
          [] t.kind = "replacement" ->
                <<"{", "{", " ">> \o t.val[1]
                \o (IF t.val[2] = NoFilter THEN <<>> ELSE <<" ", "|", " ">> \o t.val[2])
                \o <<" ", "}", "}">>
          [] t.kind \in {"switch", "case"} -> Group(<<t.kind, " ">> \o t.val[1])
          [] t.kind \in {"endswitch", "endfor"} -> Group(<<t.kind>>)
          [] t.kind = "for" -> Group(<<"for", " ">> \o t.val[1] \o <<" ", "in", " ">> \o t.val[2])
          [] t.kind = "eof" -> <<>>

\* The tokenizer loses and invents nothing: what it has read, printed as the
\* template language writes it, is the text up to where it is, so that a brace
\* escaped or left alone, and every space, is accounted for
\* (gen/template.py:72-246).
TokensPrintTheText ==
    FlattenSeq([i \in DOMAIN tokens |-> PrintToken(tokens[i])]) \o rest = text

\* The language of gen/template.py:248-256, by intervals ts[i] .. ts[j - 1] of
\* the tokens: chunks -> chunk*, chunk -> blob | replacement | for chunks endfor
\* | switch [blank blob] cases endswitch, cases -> (case chunks)*.
InLanguage(ts) ==
    LET Position == 1..Len(ts)
        IsBlank(k) == ts[k].kind = "blob" /\ \A c \in DOMAIN ts[k].val[1] : ts[k].val[1][c] \in Blank
        Derives[q \in {"chunks", "cases"} \X Position \X Position] ==
            LET i == q[2]
                j == q[3]
                Chunks(a, b) == Derives[<<"chunks", a, b>>]
                Cases(a, b) == Derives[<<"cases", a, b>>]
                Chunk(m) ==
                    \/ m = i + 1 /\ ts[i].kind \in {"blob", "replacement"}
                    \/ /\ m > i + 1 /\ ts[i].kind = "for" /\ ts[m - 1].kind = "endfor"
                       /\ Chunks(i + 1, m - 1)
                    \/ /\ m > i + 1 /\ ts[i].kind = "switch" /\ ts[m - 1].kind = "endswitch"
                       /\ \/ Cases(i + 1, m - 1)
                          \/ i + 1 < m - 1 /\ IsBlank(i + 1) /\ Cases(i + 2, m - 1)
            IN  \/ i = j
                \/ /\ i < j /\ q[1] = "chunks"
                   /\ \E m \in (i + 1)..j : Chunk(m) /\ Chunks(m, j)
                \/ /\ i < j /\ q[1] = "cases" /\ ts[i].kind = "case"
                   /\ \E m \in (i + 1)..j : Chunks(i + 1, m) /\ Cases(m, j)
    IN  Derives[<<"chunks", 1, Len(ts)>>]

\* parse_str accepts exactly the language its comments define: the recursive
\* descent stops with a tree if and only if the tokens are derivable
\* (gen/template.py:426-502).
ParserAcceptsTheLanguage ==
    (phase \in {"parsed", "rejected"} /\ tokens # <<>> /\ Last(tokens).kind = "eof")
        => (phase = "parsed" <=> InLanguage(tokens))
=============================================================================
