---------------------------- MODULE GenTemplate -----------------------------
(***************************************************************************)
(* What is done with a parsed template (gen/template.py): render fills it  *)
(* in, target_from_ast says which arguments it asks for (GenParser has how *)
(* it is parsed).                                                          *)
(***************************************************************************)
EXTENDS GenParser

CONSTANTS
    Arguments,  \* the argument dictionaries given to render
    Filters     \* the filters render is given

VARIABLES
    given,      \* the arguments render is called with
    arguments,  \* what they are when it returns
    missing     \* the name an UnsetParameter carries

-----------------------------------------------------------------------------
(* Template.render.  An argument is a string or a list of strings.         *)

Str(v) == [type |-> "str", v |-> v]
List(vs) == [type |-> "list", items |-> vs]

Raises(st, e, name) == [st EXCEPT !.err = e, !.name = name]
Without(f, k) == [j \in DOMAIN f \ {k} |-> f[j]]

RECURSIVE RenderAst(_, _)

RenderSwitch(st, chunk) ==
    LET id == chunk.val[1] IN
    IF id \notin DOMAIN st.args THEN Raises(st, "UnsetParameter", id)
    ELSE IF st.args[id].type = "list" THEN Raises(st, "TypeError", <<>>)
    ELSE IF st.args[id].v \notin DOMAIN chunk.cases THEN Raises(st, "ValueError", <<>>)
    ELSE RenderAst(chunk.cases[st.args[id].v], st)

RenderReplacement(st, chunk) ==
    LET id == chunk.val[1]
        filter == chunk.val[2]
    IN  IF id \notin DOMAIN st.args THEN Raises(st, "UnsetParameter", id)
        ELSE IF filter # NoFilter /\ filter \notin Filters
        THEN Raises(st, "UnsetParameter", filter)
        ELSE st

\* The loop variable is set for each value and put back, or deleted, at the end
RenderFor(st, chunk) ==
    LET new_var == chunk.val[1]
        iterable == chunk.val[2]
        Iteration(s, value) ==
            IF s.err # "" THEN s
            ELSE RenderAst(chunk.body, [s EXCEPT !.args = (new_var :> value) @@ @])
        end == FoldLeft(Iteration, st, st.args[iterable].items)
    IN  IF iterable \notin DOMAIN st.args THEN Raises(st, "UnsetParameter", iterable)
        ELSE IF st.args[iterable].type # "list" THEN Raises(st, "AssertionError", <<>>)
        ELSE IF end.err # "" THEN end
        ELSE IF new_var \in DOMAIN st.args
        THEN [end EXCEPT !.args = (new_var :> st.args[new_var]) @@ @]
        ELSE IF new_var \in DOMAIN end.args
        THEN [end EXCEPT !.args = Without(@, new_var)]
        ELSE Raises(end, "KeyError", <<>>)

RenderAst(chunks, st0) ==
    LET RenderChunk(st, chunk) ==
            IF st.err # "" THEN st
            ELSE CASE chunk.kind = "switch" -> RenderSwitch(st, chunk)
                   [] chunk.kind = "replacement" -> RenderReplacement(st, chunk)
                   [] chunk.kind = "for" -> RenderFor(st, chunk)
                   [] chunk.kind = "blob" -> st
    IN  FoldLeft(RenderChunk, st0, chunks)

render ==
    /\ phase = "parsed"
    /\ \E args \in Arguments :
         LET end == RenderAst(ast, [args |-> args, err |-> "", name |-> <<>>]) IN
         /\ given' = args
         /\ arguments' = end.args
         /\ missing' = end.name
         /\ error' = end.err
         /\ phase' = IF end.err = "" THEN "rendered" ELSE "failed"
    /\ UNCHANGED <<text, rest, tokens, token_pos, stack, ast>>

-----------------------------------------------------------------------------
(* Target, Scope: the variables asked for, and for each switch the targets *)
(* of its cases.  Two switches on the same name must have the same cases   *)
(* (an assertion: ok).                                                     *)

EmptyTarget == [variables |-> {}, sub_scopes |-> <<>>, ok |-> TRUE]

RECURSIVE MergeTargets(_, _)
MergeTargets(a, b) ==
    LET both == DOMAIN a.sub_scopes \cap DOMAIN b.sub_scopes
        MergeScopes(s, t) == [v \in DOMAIN s |-> IF v \in DOMAIN t THEN MergeTargets(s[v], t[v])
                                                 ELSE s[v]]
    IN  [variables |-> a.variables \cup b.variables,
         sub_scopes |-> [n \in both |-> MergeScopes(a.sub_scopes[n], b.sub_scopes[n])]
                        @@ a.sub_scopes @@ b.sub_scopes,
         ok |-> /\ a.ok /\ b.ok
                /\ \A n \in both : DOMAIN a.sub_scopes[n] = DOMAIN b.sub_scopes[n]]

RECURSIVE variables_from_ast(_, _)
variables_from_ast(chunks, blacklist) ==
    LET TargetOf(chunk) ==
            CASE chunk.kind = "switch" ->
                    LET cases == [v \in DOMAIN chunk.cases |->
                                      variables_from_ast(chunk.cases[v], blacklist)]
                    IN  [EmptyTarget EXCEPT !.sub_scopes = chunk.val[1] :> cases,
                                            !.ok = \A v \in DOMAIN cases : cases[v].ok]
              [] chunk.kind = "replacement" ->
                    [EmptyTarget EXCEPT !.variables = {chunk.val[1]} \ blacklist]
              [] chunk.kind = "for" -> variables_from_ast(chunk.body, blacklist \cup {chunk.val[1]})
              [] chunk.kind = "blob" -> EmptyTarget
    IN  FoldLeft(LAMBDA target, chunk : MergeTargets(target, TargetOf(chunk)),
                 EmptyTarget, chunks)

target_from_ast == variables_from_ast(ast, {})

RECURSIVE filters_from_ast(_)
filters_from_ast(chunks) ==
    UNION {LET c == chunks[i] IN
           CASE c.kind = "switch" -> UNION {filters_from_ast(c.cases[v]) : v \in DOMAIN c.cases}
             [] c.kind = "replacement" -> {c.val[2]} \ {NoFilter}
             [] c.kind = "for" -> filters_from_ast(c.body)
             [] c.kind = "blob" -> {}
           : i \in DOMAIN chunks}

(* Mutant of get_filters: only the filters outside of switches and loops *)
TopLevelFilters ==
    {ast[i].val[2] : i \in {j \in DOMAIN ast : ast[j].kind = "replacement"}} \ {NoFilter}

get_filters == filters_from_ast(ast)

-----------------------------------------------------------------------------
TemplateInit == Init /\ given = <<>> /\ arguments = <<>> /\ missing = <<>>
TemplateNext == (Next /\ UNCHANGED <<given, arguments, missing>>) \/ render
TemplateSpec == TemplateInit /\ [][TemplateNext]_<<vars, given, arguments, missing>>

-----------------------------------------------------------------------------
(* Properties                                                              *)

\* The names a target asks for, given the values of the switches
RECURSIVE Asked(_, _)
Asked(target, args) ==
    target.variables \cup UNION
        {LET cases == target.sub_scopes[n]
             chosen == n \in DOMAIN args /\ args[n].type = "str" /\ args[n].v \in DOMAIN cases
         IN  {n} \cup IF chosen THEN Asked(cases[args[n].v], args) ELSE {}
         : n \in DOMAIN target.sub_scopes}

RECURSIVE Iterables(_)
Iterables(chunks) ==
    UNION {LET c == chunks[i] IN
           CASE c.kind = "switch" -> UNION {Iterables(c.cases[v]) : v \in DOMAIN c.cases}
             [] c.kind = "for" -> {c.val[2]} \cup Iterables(c.body)
             [] OTHER -> {}
           : i \in DOMAIN chunks}

\* What a target asks for is what rendering needs: an argument render misses is
\* one the target (or a filter list, or a loop's list) named, and a template
\* without loops renders only when all that its target asks for is there.  The
\* generator resolves the target's names and no other (gen/template.py:315-417).
TargetIsWhatRenderNeeds ==
    LET target == target_from_ast IN
    (phase \in {"rendered", "failed"} /\ target.ok) =>
        /\ error = "UnsetParameter" =>
                missing \in Asked(target, given) \cup Iterables(ast) \cup get_filters
        /\ (phase = "rendered" /\ Iterables(ast) = {}) =>
                Asked(target, given) \subseteq DOMAIN given

=============================================================================
