---------------------- MODULE AdminRouterServicesProofs ----------------------
(***************************************************************************)
(* What holds of AdminRouterServices for any apps, frameworks, names and   *)
(* paths, and any order of requests and refreshes.                         *)
(***************************************************************************)
EXTENDS AdminRouterServices, WellFoundedInduction, FiniteSetTheorems, SequenceTheorems, TLAPS

(* What a request knows as it goes on. *)
Asked == {"resolve", "dns", "done"}
ShapeInv ==
    /\ "pc" \in DOMAIN req
    /\ req.pc \in {"idle", "fetch"} \cup Asked
    /\ req.pc \in Asked => {"pc", "path", "svc", "mes", "level", "result"} \subseteq DOMAIN req

(* Once Mesos has been consulted about a part of the path, both entries    *)
(* are there, or the name is a leader's.                                   *)
MesosWasAsked == req.mes # None
OnlyALeader == req.svc = None => ServiceName \in LeaderNames
SearchInv ==
    /\ req.pc = "dns" => MesosWasAsked /\ OnlyALeader
    /\ req.pc = "done" /\ req.result.status = 404 => MesosWasAsked /\ OnlyALeader
    /\ req.pc = "done" /\ req.result.status = 200 => OnlyALeader

IInv == ShapeInv /\ SearchInv
----------------------------------------------------------------------------
LEMMA InitInv ==
  ASSUME Init
  PROVE  IInv
BY DEF Init, IInv, ShapeInv, SearchInv, NoRequest, Asked

(* The request is as it was, but for its place and its answer. *)
LEMMA AnswerKeeps ==
  ASSUME ShapeInv, req.pc \in Asked, NEW r, Answer(r)
  PROVE  /\ ShapeInv' /\ req'.pc = "done" /\ req'.result = r
         /\ UNCHANGED <<req.path, req.svc, req.mes, req.level>>
         /\ MesosWasAsked' = MesosWasAsked /\ OnlyALeader' = OnlyALeader
<1>1. /\ DOMAIN req' = DOMAIN req /\ req'.pc = "done" /\ req'.result = r
      /\ UNCHANGED <<req.path, req.svc, req.mes, req.level>>
  BY DEF Answer, ShapeInv
<1>2. ShapeInv'
  BY <1>1 DEF ShapeInv, Asked
<1>3. ServiceName' = ServiceName
  BY <1>1 DEF ServiceName, RealPath
<1> QED
  BY <1>1, <1>2, <1>3 DEF MesosWasAsked, OnlyALeader

LEMMA AnswersAreDistinct ==
  /\ NotFound.status = 404 /\ Unavailable.status = 503
  /\ \A url : Routed(url).status = 200
BY DEF NotFound, Unavailable, Routed

LEMMA NextLevelKeeps ==
  ASSUME ShapeInv, req.pc \in Asked, MesosWasAsked, OnlyALeader, NextLevel
  PROVE  IInv'
<1>1. CASE Answer(NotFound)
  BY <1>1, AnswerKeeps, AnswersAreDistinct DEF IInv, SearchInv
<1>2. CASE req' = [req EXCEPT !.pc = "resolve", !.level = @ + 1]
  <2>1. DOMAIN req' = DOMAIN req /\ req'.pc = "resolve"
    BY <1>2 DEF ShapeInv
  <2> QED BY <2>1 DEF IInv, ShapeInv, SearchInv, Asked
<1> QED
  BY <1>1, <1>2 DEF NextLevel

LEMMA RoutedKeeps ==
  ASSUME ShapeInv, req.pc \in Asked, OnlyALeader, NEW url, Answer(Routed(url))
  PROVE  IInv'
<1>1. ShapeInv' /\ req'.pc = "done" /\ req'.result = Routed(url) /\ OnlyALeader' = OnlyALeader
  BY AnswerKeeps
<1>2. req'.result.status = 200
  BY <1>1, AnswersAreDistinct
<1> QED
  BY <1>1, <1>2 DEF IInv, SearchInv

LEMMA UnavailableKeeps ==
  ASSUME ShapeInv, req.pc \in Asked, Answer(Unavailable)
  PROVE  IInv'
BY AnswerKeeps, AnswersAreDistinct DEF IInv, SearchInv

LEMMA BeginStep ==
  ASSUME Begin
  PROVE  IInv'
<1>1. PICK p \in Paths : req' = [pc |-> "fetch", path |-> p, svc |-> svcapps]
  BY DEF Begin
<1> QED
  BY <1>1 DEF IInv, ShapeInv, SearchInv, Asked

LEMMA FetchMesosStep ==
  ASSUME FetchMesos
  PROVE  IInv'
BY DEF FetchMesos, IInv, ShapeInv, SearchInv, Asked

LEMMA ResolveStep ==
  ASSUME IInv, Resolve
  PROVE  IInv'
<1>1. ShapeInv /\ req.pc \in Asked /\ req.pc = "resolve"
  BY DEF IInv, Resolve, Asked
<1>2. CASE Answer(Unavailable)
  BY <1>1, <1>2, UnavailableKeeps
<1>3. CASE ~(ServiceName \notin LeaderNames /\ req.svc = None)
  <2>1. OnlyALeader
    BY <1>3 DEF OnlyALeader
  <2>2. CASE \E url : Answer(Routed(url))
    BY <1>1, <2>1, <2>2, RoutedKeeps
  <2>3. CASE req.mes # None /\ NextLevel
    BY <1>1, <2>1, <2>3, NextLevelKeeps DEF MesosWasAsked
  <2>4. CASE req.mes # None /\ req' = [req EXCEPT !.pc = "dns"]
    <3>1. /\ DOMAIN req' = DOMAIN req /\ req'.pc = "dns"
          /\ UNCHANGED <<req.path, req.svc, req.mes, req.level>>
      BY <1>1, <2>4 DEF ShapeInv
    <3>2. ServiceName' = ServiceName
      BY <3>1 DEF ServiceName, RealPath
    <3> QED BY <1>1, <2>1, <2>4, <3>1, <3>2
            DEF IInv, ShapeInv, SearchInv, Asked, MesosWasAsked, OnlyALeader
  <2>5. \/ Answer(Unavailable) \/ \E url : Answer(Routed(url))
        \/ req.mes # None /\ (NextLevel \/ req' = [req EXCEPT !.pc = "dns"])
    BY <1>3 DEF Resolve
  <2> QED BY <1>2, <2>2, <2>3, <2>4, <2>5
<1> QED
  BY <1>2, <1>3 DEF Resolve

LEMMA MesosDnsAnswersStep ==
  ASSUME IInv, MesosDnsAnswers
  PROVE  IInv'
<1>1. ShapeInv /\ req.pc \in Asked /\ MesosWasAsked /\ OnlyALeader
  BY DEF IInv, SearchInv, MesosDnsAnswers, Asked
<1> QED
  BY <1>1, RoutedKeeps, NextLevelKeeps, UnavailableKeeps DEF MesosDnsAnswers

LEMMA FinishStep ==
  ASSUME Finish
  PROVE  IInv'
BY DEF Finish, IInv, ShapeInv, SearchInv, NoRequest, Asked

(* The caches may change at any time: the request has what it has read. *)
LEMMA OtherStep ==
  ASSUME IInv, UNCHANGED req
  PROVE  IInv'
BY DEF IInv, ShapeInv, SearchInv, MesosWasAsked, OnlyALeader, ServiceName, RealPath

(* A request for a service is answered with "not found" only if the        *)
(* entry of Mesos was there, and, without the entry of Marathon, only      *)
(* about the name of a leader, whatever the refreshes do in the meantime   *)
(* (service.lua).                                                          *)
THEOREM NotFoundIsKnown == Spec => []NotFoundIsCertain
<1>1. IInv /\ [Next]_vars => IInv'
  <2> SUFFICES ASSUME IInv, [Next]_vars PROVE IInv'
    OBVIOUS
  <2>1. CASE UNCHANGED req
    BY <2>1, OtherStep
  <2>2. CASE Begin \/ FetchMesos \/ Resolve \/ MesosDnsAnswers \/ Finish
    BY <2>2, BeginStep, FetchMesosStep, ResolveStep, MesosDnsAnswersStep, FinishStep
  <2> QED
    BY <2>1, <2>2 DEF Next, vars, MarathonAnswers, MesosAnswers, CacheTooOld
<1>2. IInv => NotFoundIsCertain
  BY DEF IInv, SearchInv, NotFoundIsCertain, Answered, MesosWasAsked, OnlyALeader
<1> QED
  BY <1>1, <1>2, InitInv, PTL DEF Spec
----------------------------------------------------------------------------
(* Induction and folds *)

LEMMA Least ==
  ASSUME NEW T, T \subseteq Nat, T # {}
  PROVE  \E x \in T : \A y \in T : x <= y
<1> DEFINE R == OpToRel(<, Nat)
<1>1. \A x, y \in Nat : y < x => <<y, x>> \in R
  BY Zenon DEF OpToRel
<1>2. IsWellFoundedOn(R, Nat)
  BY NatLessThanWellFounded
<1> HIDE DEF R
<1>3. PICK x \in T : \A y \in T : <<y, x>> \notin R
  BY <1>2, WFMin
<1>4. \A y \in T : ~ y < x
  BY <1>1, <1>3
<1> QED
  BY <1>3, <1>4

LEMMA Induction ==
  ASSUME NEW A, 0 \in A, \A n \in Nat : n \in A => n + 1 \in A
  PROVE  Nat \subseteq A
<1> SUFFICES ASSUME Nat \ A # {} PROVE FALSE
  OBVIOUS
<1>1. PICK x \in Nat \ A : \A y \in Nat \ A : x <= y
  BY Least
<1>2. x # 0 /\ x - 1 \in Nat /\ x - 1 \notin Nat \ A
  BY <1>1
<1>3. (x - 1) + 1 \in A
  BY <1>2
<1> QED
  BY <1>1, <1>3

LEMMA Greatest ==
  ASSUME NEW n \in Nat, NEW s \in SUBSET (1 .. n), s # {}
  PROVE  Max(s) \in s /\ \A y \in s : Max(s) >= y
<1>1. PICK x \in {n - y : y \in s} : \A z \in {n - y : y \in s} : x <= z
  <2>1. \A y \in s : n - y \in Nat
    OBVIOUS
  <2> DEFINE d == {n - y : y \in s}
  <2>2. d \subseteq Nat
    BY <2>1
  <2>3. d # {}
    OBVIOUS
  <2> HIDE DEF d
  <2>4. \E x \in d : \A z \in d : x <= z
    BY <2>2, <2>3, Least
  <2> USE DEF d
  <2> QED
    BY <2>4
<1>2. PICK y \in s : x = n - y
  OBVIOUS
<1>3. \A z \in s : y >= z
  BY <1>1, <1>2
<1> QED
  BY <1>3 DEF Max


Folding(T, base, step, k, f) ==
    /\ f \in [SUBSET (1 .. k) -> T]
    /\ \A s \in SUBSET (1 .. k) :
          f[s] = IF s = {} THEN base ELSE step[<<f[s \ {Max(s)}], Max(s)>>]

(* The values of a fold, of every part of a sequence. *)
LEMMA FoldExists ==
  ASSUME NEW T, NEW base \in T, NEW n \in Nat, NEW step \in [T \X (1 .. n) -> T]
  PROVE  \E f : Folding(T, base, step, n, f)
<1> DEFINE Fold(k, f) == Folding(T, base, step, k, f)
           A == {k \in Nat : k <= n => \E f : Fold(k, f)}
<1>1. 0 \in A
  <2> DEFINE f == [s \in SUBSET (1 .. 0) |-> base]
  <2>1. \A s \in SUBSET (1 .. 0) : s = {}
    OBVIOUS
  <2>2. f \in [SUBSET (1 .. 0) -> T] /\ \A s \in SUBSET (1 .. 0) : f[s] = base
    OBVIOUS
  <2> HIDE DEF f
  <2>3. Fold(0, f)
    BY <2>1, <2>2 DEF Folding
  <2> QED
    BY <2>3
<1>2. ASSUME NEW k \in Nat, k \in A
      PROVE  k + 1 \in A
  <2> SUFFICES ASSUME k + 1 <= n PROVE \E f : Fold(k + 1, f)
    OBVIOUS
  <2>1. PICK g : Fold(k, g)
    BY <1>2
  <2> DEFINE f == [s \in SUBSET (1 .. k + 1) |->
                     IF k + 1 \in s THEN step[<<g[s \ {k + 1}], k + 1>>] ELSE g[s]]
  <2>2. \A s \in SUBSET (1 .. k + 1) :
          /\ s \ {k + 1} \in SUBSET (1 .. k)
          /\ k + 1 \notin s => s \in SUBSET (1 .. k)
          /\ k + 1 \in s => Max(s) = k + 1
    <3> TAKE s \in SUBSET (1 .. k + 1)
    <3>1. \A x \in s : x \in 1 .. k + 1
      OBVIOUS
    <3>2. \A x \in s : x # k + 1 => x \in 1 .. k
      BY <3>1
    <3>3. CASE k + 1 \in s
      <4>1. s # {} /\ k + 1 \in Nat
        BY <3>3
      <4>2. Max(s) \in s /\ \A y \in s : Max(s) >= y
        BY ONLY <4>1, s \in SUBSET (1 .. k + 1), Greatest
      <4>3. Max(s) \in 1 .. k + 1 /\ Max(s) >= k + 1
        BY <3>1, <3>3, <4>2
      <4> QED
        BY <3>2, <3>3, <4>3
    <3> QED
      BY <3>2, <3>3
  <2>3. \A s \in SUBSET (1 .. k + 1) : f[s] \in T
    <3> TAKE s \in SUBSET (1 .. k + 1)
    <3>1. g[s \ {k + 1}] \in T /\ k + 1 \in 1 .. n
      BY <2>1, <2>2 DEF Folding
    <3>2. step[<<g[s \ {k + 1}], k + 1>>] \in T
      BY <3>1
    <3>3. k + 1 \notin s => g[s] \in T
      BY <2>1, <2>2 DEF Folding
    <3> QED
      BY <3>2, <3>3
  <2>4. ASSUME NEW s \in SUBSET (1 .. k + 1)
        PROVE  f[s] = IF s = {} THEN base ELSE step[<<f[s \ {Max(s)}], Max(s)>>]
    <3>1. CASE k + 1 \in s
      <4>1. f[s \ {k + 1}] = g[s \ {k + 1}]
        OBVIOUS
      <4>2. f[s] = step[<<g[s \ {k + 1}], k + 1>>]
        BY <3>1
      <4> QED
        BY <2>2, <3>1, <4>1, <4>2
    <3>2. CASE k + 1 \notin s
      <4>1. s \in SUBSET (1 .. k) /\ f[s] = g[s]
        BY <2>2, <3>2
      <4>2. g[s] = IF s = {} THEN base ELSE step[<<g[s \ {Max(s)}], Max(s)>>]
        BY <2>1, <4>1 DEF Folding
      <4>3. f[s \ {Max(s)}] = g[s \ {Max(s)}]
        BY <3>2
      <4> QED
        BY <4>1, <4>2, <4>3
    <3> QED
      BY <3>1, <3>2
  <2>5. f \in [SUBSET (1 .. k + 1) -> T]
    BY <2>3
  <2> HIDE DEF f
  <2>6. Fold(k + 1, f)
    BY <2>4, <2>5 DEF Folding
  <2> QED
    BY <2>6
<1> HIDE DEF Fold
<1> HIDE DEF A
<1>3. n \in A
  BY <1>1, <1>2, Induction
<1> QED
  BY <1>3 DEF A, Fold

(* Two folds that go through the same values. *)
LEMMA SameValues ==
  ASSUME NEW n \in Nat, NEW f, NEW g, f[{}] = g[{}],
         \A k \in 0 .. n - 1 : f[1 .. k] = g[1 .. k] => f[1 .. k + 1] = g[1 .. k + 1]
  PROVE  f[1 .. n] = g[1 .. n]
<1> DEFINE A == {k \in Nat : k <= n => f[1 .. k] = g[1 .. k]}
<1>1. 0 \in A
  <2>1. 1 .. 0 = {}
    OBVIOUS
  <2> QED
    BY <2>1
<1>2. ASSUME NEW k \in Nat, k \in A
      PROVE  k + 1 \in A
  BY <1>2
<1> HIDE DEF A
<1>3. n \in A
  BY <1>1, <1>2, Induction
<1> QED
  BY <1>3 DEF A

LEMMA UpTo ==
  ASSUME NEW k \in Nat
  PROVE  Max(1 .. k + 1) = k + 1 /\ (1 .. k + 1) \ {k + 1} = 1 .. k /\ 1 .. k + 1 # {}
<1> DEFINE s == 1 .. k + 1
<1>1. k + 1 \in s /\ k + 1 \in Nat /\ s \in SUBSET (1 .. k + 1) /\ s \ {k + 1} = 1 .. k
  OBVIOUS
<1>2. \A y \in s : y \in Nat /\ y <= k + 1
  OBVIOUS
<1> HIDE DEF s
<1>3. Max(s) \in s /\ Max(s) >= k + 1
  BY <1>1, Greatest
<1>4. Max(s) = k + 1
  BY <1>2, <1>3
<1> QED
  BY <1>1, <1>4 DEF s


(* A fold of a sequence: the value for each set of its indices.            *)
IsFold(T, S, base, step, seq, f) ==
    /\ step \in [T \X S -> T] /\ base \in T /\ seq \in Seq(S)
    /\ f \in [SUBSET (1 .. Len(seq)) -> T]
    /\ f[{}] = base
    /\ \A s \in SUBSET (1 .. Len(seq)) :
          s # {} => f[s] = step[<<f[s \ {Max(s)}], seq[Max(s)]>>]

LEMMA FoldOfSeq ==
  ASSUME NEW T, NEW S, NEW base \in T, NEW step \in [T \X S -> T], NEW seq \in Seq(S)
  PROVE  \E f : IsFold(T, S, base, step, seq, f)
<1> DEFINE n == Len(seq)
           at == [p \in T \X (1 .. n) |-> step[<<p[1], seq[p[2]]>>]]
<1>1. DOMAIN seq = 1 .. n /\ n \in Nat /\ \A i \in 1 .. n : seq[i] \in S
  BY LenProperties, ElementOfSeq
<1>2. at \in [T \X (1 .. n) -> T]
  BY <1>1
<1> HIDE DEF at
<1>3. PICK f : Folding(T, base, at, n, f)
  BY <1>1, <1>2, FoldExists
<1>4. ASSUME NEW s \in SUBSET (1 .. n), s # {}
      PROVE  f[s] = step[<<f[s \ {Max(s)}], seq[Max(s)]>>]
  <2>1. Max(s) \in 1 .. n
    BY <1>1, <1>4, Greatest
  <2>2. f[s] = at[<<f[s \ {Max(s)}], Max(s)>>] /\ f[s \ {Max(s)}] \in T
    BY <1>3, <1>4 DEF Folding
  <2> QED
    BY <2>1, <2>2 DEF at
<1> QED
  BY <1>3, <1>4 DEF IsFold, Folding

LEMMA NextValue ==
  ASSUME NEW T, NEW S, NEW base, NEW step, NEW seq, NEW f, IsFold(T, S, base, step, seq, f),
         NEW k \in 0 .. Len(seq) - 1
  PROVE  f[1 .. k + 1] = step[<<f[1 .. k], seq[k + 1]>>]
<1> DEFINE s == 1 .. k + 1
<1>0. Len(seq) \in Nat
  BY LenProperties DEF IsFold
<1>1. s \in SUBSET (1 .. Len(seq)) /\ k \in Nat
  BY <1>0
<1>2. Max(s) = k + 1 /\ s \ {k + 1} = 1 .. k /\ s # {}
  BY <1>1, UpTo
<1> HIDE DEF s
<1>3. f[s] = step[<<f[s \ {Max(s)}], seq[Max(s)]>>]
  BY <1>1, <1>2 DEF IsFold
<1> QED
  BY <1>2, <1>3 DEF s

(* An element more. *)
LEMMA FoldAppend ==
  ASSUME NEW T, NEW S, NEW base, NEW step, NEW seq, NEW c \in S,
         NEW f, IsFold(T, S, base, step, seq, f),
         NEW g, IsFold(T, S, base, step, Append(seq, c), g)
  PROVE  g[1 .. Len(Append(seq, c))] = step[<<f[1 .. Len(seq)], c>>]
<1> DEFINE n == Len(seq)
           longer == Append(seq, c)
<1>1. /\ n \in Nat /\ longer \in Seq(S) /\ Len(longer) = n + 1
      /\ longer[n + 1] = c /\ \A i \in 1 .. n : longer[i] = seq[i]
  BY LenProperties DEF IsFold
<1> HIDE DEF longer, n
<1>4. \A k \in 0 .. n - 1 : f[1 .. k + 1] = step[<<f[1 .. k], seq[k + 1]>>]
  BY NextValue DEF n
<1>5. \A k \in 0 .. n : g[1 .. k + 1] = step[<<g[1 .. k], longer[k + 1]>>]
  <2>1. n = Len(longer) - 1 /\ IsFold(T, S, base, step, longer, g)
    BY <1>1 DEF longer
  <2> QED
    BY <2>1, NextValue
<1>6. f[1 .. n] = g[1 .. n]
  <2>1. f[{}] = g[{}]
    BY DEF IsFold
  <2>2. \A k \in 0 .. n - 1 : f[1 .. k] = g[1 .. k] => f[1 .. k + 1] = g[1 .. k + 1]
    <3> TAKE k \in 0 .. n - 1
    <3>1. k \in 0 .. n /\ longer[k + 1] = seq[k + 1]
      BY <1>1
    <3> QED
      BY <1>4, <1>5, <3>1
  <2> QED
    BY <1>1, <2>1, <2>2, SameValues
<1>7. g[1 .. n + 1] = step[<<g[1 .. n], c>>]
  BY <1>1, <1>5
<1> QED
  BY <1>1, <1>6, <1>7 DEF longer, n

(* What is true of nothing, and of one more whenever it is of a sequence,  *)
(* is true of all.                                                         *)
LEMMA SeqInduction ==
  ASSUME NEW S, NEW A, <<>> \in A, \A p \in Seq(S), c \in S : p \in A => Append(p, c) \in A
  PROVE  Seq(S) \subseteq A
<1> DEFINE B == {n \in Nat : \A p \in Seq(S) : Len(p) = n => p \in A}
<1>1. 0 \in B
  BY EmptySeq
<1>2. ASSUME NEW n \in Nat, n \in B
      PROVE  n + 1 \in B
  <2> SUFFICES ASSUME NEW p \in Seq(S), Len(p) = n + 1
               PROVE  p \in A
    OBVIOUS
  <2> DEFINE q == SubSeq(p, 1, n)
  <2>1. DOMAIN p = 1 .. n + 1 /\ \A i \in 1 .. n + 1 : p[i] \in S
    BY LenProperties, ElementOfSeq
  <2>2. q \in Seq(S) /\ Len(q) = n /\ \A i \in 1 .. n : q[i] = p[i]
    BY <2>1, SubSeqProperties
  <2>3. p[n + 1] \in S
    BY <2>1
  <2> HIDE DEF q
  <2>4. p = Append(q, p[n + 1])
    BY <2>1, <2>2, <2>3, AppendProperties, SeqEqual
  <2> QED
    BY <1>2, <2>2, <2>3, <2>4
<1> HIDE DEF B
<1>3. Nat \subseteq B
  BY <1>1, <1>2, Induction
<1> QED
  BY <1>3, LenProperties DEF B
----------------------------------------------------------------------------
(* Scan *)

Scans(S) == [fields : Seq(Seq(S)), rest : Seq(S)]

LEMMA ScanOneType ==
  ASSUME NEW S, NEW acc \in Scans(S), NEW c \in S, NEW limit
  PROVE  ScanOne(acc, c, limit) \in Scans(S)
<1>1. acc.fields \in Seq(Seq(S)) /\ acc.rest \in Seq(S)
  BY DEF Scans
<1>2. Append(acc.rest, c) \in Seq(S) /\ Append(acc.fields, acc.rest) \in Seq(Seq(S)) /\ <<>> \in Seq(S)
  BY <1>1, AppendProperties
<1> QED
  BY <1>1, <1>2 DEF Scans, ScanOne

ScanStep(S, limit) == [p \in Scans(S) \X S |-> ScanOne(p[1], p[2], limit)]

LEMMA ScanIsFold ==
  ASSUME NEW S, NEW path \in Seq(S), NEW limit
  PROVE  \E f : /\ IsFold(Scans(S), S, NothingScanned, ScanStep(S, limit), path, f)
                /\ Scan(path, limit) = f[1 .. Len(path)]
<1> DEFINE n == Len(path)
           T == Scans(S)
           step == ScanStep(S, limit)
           Recursion(f) == f = [s \in SUBSET (1 .. n) |->
                                  IF s = {} THEN NothingScanned
                                  ELSE ScanOne(f[s \ {Max(s)}], path[Max(s)], limit)]
<1>1. DOMAIN path = 1 .. n /\ n \in Nat /\ \A i \in 1 .. n : path[i] \in S
  BY LenProperties, ElementOfSeq
<1>2. step \in [T \X S -> T] /\ NothingScanned \in T
  <2>1. \A p \in T \X S : ScanOne(p[1], p[2], limit) \in T
    BY ScanOneType
  <2>2. NothingScanned \in T
    BY DEF NothingScanned, Scans
  <2> HIDE DEF T
  <2> QED
    BY <2>1, <2>2 DEF ScanStep, T
<1> HIDE DEF T, step
<1>4. PICK g : IsFold(T, S, NothingScanned, step, path, g)
  BY <1>2, FoldOfSeq
<1>5. Recursion(g)
  <2>1. ASSUME NEW s \in SUBSET (1 .. n), s # {}
        PROVE  g[s] = ScanOne(g[s \ {Max(s)}], path[Max(s)], limit)
    <3>1. Max(s) \in 1 .. n
      BY <1>1, <2>1, Greatest
    <3>2. g[s] = step[<<g[s \ {Max(s)}], path[Max(s)]>>] /\ g[s \ {Max(s)}] \in T /\ path[Max(s)] \in S
      BY <1>1, <1>4, <2>1, <3>1 DEF IsFold
    <3> QED
      BY <3>2 DEF step, ScanStep, T
  <2> QED
    BY <1>4, <2>1 DEF IsFold
<1> DEFINE f == CHOOSE h : Recursion(h)
<1>6. Recursion(f)
  BY <1>5
<1>7. Scan(path, limit) = f[1 .. n]
  BY <1>1 DEF Scan, FoldLeft, MapThenFoldSet
<1>8. ASSUME NEW h, Recursion(h), NEW k \in 0 .. n - 1
      PROVE  h[1 .. k + 1] = ScanOne(h[1 .. k], path[k + 1], limit)
  <2> DEFINE s == 1 .. k + 1
  <2>3. s \in SUBSET (1 .. n) /\ k \in Nat
    BY <1>1
  <2>1. s \in SUBSET (1 .. n) /\ Max(s) = k + 1 /\ s \ {k + 1} = 1 .. k /\ s # {}
    BY <2>3, UpTo
  <2> HIDE DEF s
  <2>2. h[s] = ScanOne(h[s \ {Max(s)}], path[Max(s)], limit)
    BY <1>8, <2>1
  <2> QED
    BY <2>1, <2>2 DEF s
<1>9. f[{}] = g[{}]
  BY <1>5, <1>6
<1> HIDE DEF f, Recursion
<1>10. f[1 .. n] = g[1 .. n]
  <2>1. \A k \in 0 .. n - 1 : f[1 .. k] = g[1 .. k] => f[1 .. k + 1] = g[1 .. k + 1]
    BY <1>5, <1>6, <1>8
  <2> QED
    BY <1>1, <1>9, <2>1, SameValues
<1> QED
  BY <1>4, <1>7, <1>10 DEF T, step

LEMMA ScanAppend ==
  ASSUME NEW S, NEW path \in Seq(S), NEW c \in S, NEW limit
  PROVE  /\ Scan(Append(path, c), limit) = ScanOne(Scan(path, limit), c, limit)
         /\ Scan(path, limit) \in Scans(S)
<1>1. Append(path, c) \in Seq(S)
  BY AppendProperties
<1>2. PICK f : /\ IsFold(Scans(S), S, NothingScanned, ScanStep(S, limit), path, f)
               /\ Scan(path, limit) = f[1 .. Len(path)]
  BY ScanIsFold
<1>3. PICK g : /\ IsFold(Scans(S), S, NothingScanned, ScanStep(S, limit), Append(path, c), g)
               /\ Scan(Append(path, c), limit) = g[1 .. Len(Append(path, c))]
  BY <1>1, ScanIsFold
<1>4. Scan(Append(path, c), limit) = ScanStep(S, limit)[<<Scan(path, limit), c>>]
  BY <1>2, <1>3, FoldAppend
<1>5. Scan(path, limit) \in Scans(S)
  BY <1>2 DEF IsFold
<1> QED
  BY <1>4, <1>5 DEF ScanStep

LEMMA ScanNothing ==
  ASSUME NEW limit
  PROVE  Scan(<<>>, limit) = NothingScanned
<1>1. <<>> \in Seq({}) /\ Len(<<>>) = 0 /\ 1 .. 0 = {}
  OBVIOUS
<1> HIDE DEF NothingScanned
<1>2. PICK f : /\ IsFold(Scans({}), {}, NothingScanned, ScanStep({}, limit), <<>>, f)
               /\ Scan(<<>>, limit) = f[1 .. Len(<<>>)]
  BY <1>1, ScanIsFold
<1> QED
  BY <1>1, <1>2 DEF IsFold

JoinStep(S) == [p \in Seq(S) \X Seq(S) |-> JoinOne(p[1], p[2])]

LEMMA JoinIsFold ==
  ASSUME NEW S, Sep \in S, NEW fields \in Seq(Seq(S))
  PROVE  \E f : /\ IsFold(Seq(S), Seq(S), <<>>, JoinStep(S), fields, f)
                /\ Joined(fields) = f[1 .. Len(fields)]
<1> DEFINE n == Len(fields)
           T == Seq(S)
           step == JoinStep(S)
           Recursion(f) == f = [s \in SUBSET (1 .. n) |->
                                  IF s = {} THEN <<>> ELSE JoinOne(f[s \ {Max(s)}], fields[Max(s)])]
<1>1. DOMAIN fields = 1 .. n /\ n \in Nat /\ \A i \in 1 .. n : fields[i] \in T
  BY LenProperties, ElementOfSeq
<1>2. step \in [T \X T -> T] /\ <<>> \in T
  <2>1. \A p \in T \X T : JoinOne(p[1], p[2]) \in T
    BY ConcatProperties DEF JoinOne
  <2>2. <<>> \in T
    OBVIOUS
  <2> HIDE DEF T
  <2> QED
    BY <2>1, <2>2 DEF JoinStep, T
<1> HIDE DEF T, step
<1>4. PICK g : IsFold(T, T, <<>>, step, fields, g)
  BY <1>1, <1>2, FoldOfSeq DEF T
<1>5. Recursion(g)
  <2>1. ASSUME NEW s \in SUBSET (1 .. n), s # {}
        PROVE  g[s] = JoinOne(g[s \ {Max(s)}], fields[Max(s)])
    <3>1. Max(s) \in 1 .. n
      BY <1>1, <2>1, Greatest
    <3>2. g[s] = step[<<g[s \ {Max(s)}], fields[Max(s)]>>] /\ g[s \ {Max(s)}] \in T /\ fields[Max(s)] \in T
      BY <1>1, <1>4, <2>1, <3>1 DEF IsFold
    <3> QED
      BY <3>2 DEF step, JoinStep, T
  <2> QED
    BY <1>4, <2>1 DEF IsFold
<1> DEFINE f == CHOOSE h : Recursion(h)
<1>6. Recursion(f)
  BY <1>5
<1>7. Joined(fields) = f[1 .. n]
  BY <1>1 DEF Joined, FoldLeft, MapThenFoldSet
<1>8. ASSUME NEW h, Recursion(h), NEW k \in 0 .. n - 1
      PROVE  h[1 .. k + 1] = JoinOne(h[1 .. k], fields[k + 1])
  <2> DEFINE s == 1 .. k + 1
  <2>1. s \in SUBSET (1 .. n) /\ k \in Nat
    BY <1>1
  <2>2. Max(s) = k + 1 /\ s \ {k + 1} = 1 .. k /\ s # {}
    BY <2>1, UpTo
  <2> HIDE DEF s
  <2>3. h[s] = JoinOne(h[s \ {Max(s)}], fields[Max(s)])
    BY <1>8, <2>1, <2>2
  <2> QED
    BY <2>2, <2>3 DEF s
<1>9. f[{}] = g[{}]
  BY <1>5, <1>6
<1> HIDE DEF f, Recursion
<1>10. f[1 .. n] = g[1 .. n]
  <2>1. \A k \in 0 .. n - 1 : f[1 .. k] = g[1 .. k] => f[1 .. k + 1] = g[1 .. k + 1]
    BY <1>5, <1>6, <1>8
  <2> QED
    BY <1>1, <1>9, <2>1, SameValues
<1> QED
  BY <1>4, <1>7, <1>10 DEF T, step

LEMMA JoinAppend ==
  ASSUME NEW S, Sep \in S, NEW fields \in Seq(Seq(S)), NEW f \in Seq(S)
  PROVE  /\ Joined(Append(fields, f)) = JoinOne(Joined(fields), f)
         /\ Joined(fields) \in Seq(S)
<1>1. Append(fields, f) \in Seq(Seq(S))
  BY AppendProperties
<1>2. PICK g : /\ IsFold(Seq(S), Seq(S), <<>>, JoinStep(S), fields, g)
               /\ Joined(fields) = g[1 .. Len(fields)]
  BY JoinIsFold
<1>3. PICK h : /\ IsFold(Seq(S), Seq(S), <<>>, JoinStep(S), Append(fields, f), h)
               /\ Joined(Append(fields, f)) = h[1 .. Len(Append(fields, f))]
  BY <1>1, JoinIsFold
<1>4. Joined(Append(fields, f)) = JoinStep(S)[<<Joined(fields), f>>]
  BY <1>2, <1>3, FoldAppend
<1>5. Joined(fields) \in Seq(S)
  <2>1. g \in [SUBSET (1 .. Len(fields)) -> Seq(S)] /\ 1 .. Len(fields) \in SUBSET (1 .. Len(fields))
    BY <1>2 DEF IsFold
  <2> QED
    BY <1>2, <2>1
<1> QED
  BY <1>4, <1>5 DEF JoinStep

LEMMA JoinNothing ==
  ASSUME NEW S, Sep \in S
  PROVE  Joined(<<>>) = <<>>
<1>1. <<>> \in Seq(Seq(S)) /\ Len(<<>>) = 0 /\ 1 .. 0 = {}
  OBVIOUS
<1>2. PICK f : /\ IsFold(Seq(S), Seq(S), <<>>, JoinStep(S), <<>>, f)
               /\ Joined(<<>>) = f[1 .. Len(<<>>)]
  BY <1>1, JoinIsFold
<1> QED
  BY <1>1, <1>2 DEF IsFold

----------------------------------------------------------------------------
(* Fields *)

LEMMA Smallest ==
  ASSUME NEW n \in Nat, NEW s \in SUBSET (1 .. n), s # {}
  PROVE  Min(s) \in s /\ \A y \in s : Min(s) <= y
<1>1. s \subseteq Nat
  OBVIOUS
<1>2. PICK x \in s : \A y \in s : x <= y
  BY <1>1, Least
<1> QED
  BY <1>2 DEF Min

LEMMA NumberType ==
  ASSUME NEW path, NEW i \in Nat
  PROVE  /\ Number(path, i) \in Nat /\ Number(path, 0) = 0
         /\ Number(path, i + 1) = IF Begins(path, i + 1) THEN Number(path, i) + 1 ELSE Number(path, i)
<1> DEFINE A == {j \in 1 .. i : Begins(path, j)}
           B == {j \in 1 .. i + 1 : Begins(path, j)}
<1>1. IsFiniteSet(A)
  <2>1. IsFiniteSet(1 .. i) /\ A \in SUBSET (1 .. i)
    BY FS_Interval
  <2> HIDE DEF A
  <2> QED
    BY <2>1, FS_Subset
<1>2. Cardinality(A) \in Nat
  BY <1>1, FS_CardinalityType
<1>3. B = IF Begins(path, i + 1) THEN A \cup {i + 1} ELSE A
  OBVIOUS
<1>4. i + 1 \notin A
  OBVIOUS
<1>5. {j \in 1 .. 0 : Begins(path, j)} = {}
  OBVIOUS
<1> HIDE DEF A, B
<1>6. Cardinality(A \cup {i + 1}) = Cardinality(A) + 1
  BY <1>1, <1>4, FS_AddElement
<1>7. Number(path, i + 1) = Cardinality(B) /\ Number(path, i) = Cardinality(A)
  BY DEF Number, A, B
<1>8. Number(path, 0) = 0
  BY <1>5, FS_EmptySet DEF Number
<1> QED
  BY <1>2, <1>3, <1>6, <1>7, <1>8

(* A number grows with the place, and each up to the last is of a place.   *)
LEMMA NumberGrows ==
  ASSUME NEW path, NEW n \in Nat, NEW i \in 0 .. n
  PROVE  Number(path, i) <= Number(path, n)
<1> DEFINE A == {k \in Nat : i <= k => Number(path, i) <= Number(path, k)}
<1>1. 0 \in A
  <2>1. i <= 0 => i = 0
    OBVIOUS
  <2>2. Number(path, 0) = 0
    BY NumberType
  <2> QED
    BY <2>1, <2>2
<1>2. ASSUME NEW k \in Nat, k \in A PROVE k + 1 \in A
  <2>1. /\ Number(path, k) \in Nat /\ Number(path, k + 1) \in Nat /\ Number(path, i) \in Nat
        /\ Number(path, k + 1) \in {Number(path, k), Number(path, k) + 1}
    <3>1. Number(path, k) \in Nat /\ Number(path, i) \in Nat
      BY NumberType
    <3>2. Number(path, k + 1) = IF Begins(path, k + 1) THEN Number(path, k) + 1 ELSE Number(path, k)
      BY NumberType
    <3> QED
      BY <3>1, <3>2
  <2>2. i <= k + 1 => i = k + 1 \/ i <= k
    OBVIOUS
  <2> QED
    BY <1>2, <2>1, <2>2
<1> HIDE DEF A
<1>3. n \in A
  BY <1>1, <1>2, Induction
<1> QED
  BY <1>3 DEF A

LEMMA NumbersTaken ==
  ASSUME NEW path, NEW n \in Nat
  PROVE  \A k \in 1 .. Number(path, n) : \E i \in 1 .. n : Begins(path, i) /\ Number(path, i) = k
<1> DEFINE A == {m \in Nat : \A k \in 1 .. Number(path, m) :
                               \E i \in 1 .. m : Begins(path, i) /\ Number(path, i) = k}
<1>1. 0 \in A
  <2>1. Number(path, 0) = 0
    BY NumberType
  <2> QED
    BY <2>1
<1>2. ASSUME NEW m \in Nat, m \in A PROVE m + 1 \in A
  <2> SUFFICES ASSUME NEW k \in 1 .. Number(path, m + 1)
               PROVE  \E i \in 1 .. m + 1 : Begins(path, i) /\ Number(path, i) = k
    OBVIOUS
  <2>1. CASE k \in 1 .. Number(path, m)
    <3>1. PICK i \in 1 .. m : Begins(path, i) /\ Number(path, i) = k
      BY <1>2, <2>1
    <3> QED
      BY <3>1
  <2>2. CASE k \notin 1 .. Number(path, m)
    <3>1. Begins(path, m + 1) /\ Number(path, m + 1) = k
      <4>1. /\ Number(path, m) \in Nat
            /\ Number(path, m + 1) = IF Begins(path, m + 1) THEN Number(path, m) + 1 ELSE Number(path, m)
        BY NumberType
      <4> QED
        BY <2>2, <4>1
    <3> QED
      BY <3>1
  <2> QED
    BY <2>1, <2>2
<1> HIDE DEF A
<1>3. n \in A
  BY <1>1, <1>2, Induction
<1> QED
  BY <1>3 DEF A

LEMMA FieldType ==
  ASSUME NEW S, NEW path \in Seq(S), NEW n \in 1 .. Number(path, Len(path))
  PROVE  /\ Field(path, n) \in SUBSET (1 .. Len(path)) /\ Field(path, n) # {} /\ Len(path) \in Nat
         /\ Min(Field(path, n)) \in Field(path, n) /\ Max(Field(path, n)) \in Field(path, n)
         /\ \A i \in Field(path, n) : Min(Field(path, n)) <= i /\ i <= Max(Field(path, n))
<1>1. DOMAIN path = 1 .. Len(path) /\ Len(path) \in Nat
  BY LenProperties
<1>2. PICK i \in 1 .. Len(path) : Begins(path, i) /\ Number(path, i) = n
  BY <1>1, NumbersTaken
<1>3. Field(path, n) \in SUBSET (1 .. Len(path)) /\ Field(path, n) # {}
  BY <1>1, <1>2 DEF Field, Begins
<1> QED
  BY <1>1, <1>3, Smallest, Greatest

LEMMA FieldsType ==
  ASSUME NEW S, NEW path \in Seq(S)
  PROVE  /\ Fields(path) \in Seq(Seq(S)) /\ Len(Fields(path)) = Number(path, Len(path))
         /\ \A n \in 1 .. Len(Fields(path)) : Fields(path)[n] # <<>>
<1> DEFINE N == Number(path, Len(path))
<1>1. N \in Nat /\ Len(path) \in Nat /\ DOMAIN path = 1 .. Len(path)
  BY LenProperties, NumberType
<1>2. ASSUME NEW n \in 1 .. N
      PROVE  /\ SubSeq(path, Min(Field(path, n)), Max(Field(path, n))) \in Seq(S)
             /\ SubSeq(path, Min(Field(path, n)), Max(Field(path, n))) # <<>>
  <2>1. /\ Min(Field(path, n)) \in 1 .. Len(path) /\ Max(Field(path, n)) \in 1 .. Len(path)
        /\ Min(Field(path, n)) <= Max(Field(path, n))
    BY <1>2, FieldType
  <2> HIDE DEF N
  <2>2. /\ SubSeq(path, Min(Field(path, n)), Max(Field(path, n))) \in Seq(S)
        /\ Len(SubSeq(path, Min(Field(path, n)), Max(Field(path, n)))) =
             Max(Field(path, n)) - Min(Field(path, n)) + 1
    BY <1>1, <2>1, SubSeqProperties
  <2>3. Len(SubSeq(path, Min(Field(path, n)), Max(Field(path, n)))) # 0
    BY <1>1, <2>1, <2>2
  <2> DEFINE f == SubSeq(path, Min(Field(path, n)), Max(Field(path, n)))
  <2>4. f \in Seq(S) /\ Len(f) # 0
    BY <2>2, <2>3
  <2> HIDE DEF f
  <2>5. f # <<>>
    BY <2>4
  <2> QED
    BY <2>4, <2>5 DEF f
<1> HIDE DEF N
<1>3. Fields(path) \in [1 .. N -> Seq(S)]
  BY <1>2 DEF Fields, N
<1>4. Fields(path) \in Seq(Seq(S)) /\ Len(Fields(path)) = N
  BY <1>1, <1>3, SeqDef, LenProperties
<1> QED
  BY <1>2, <1>4 DEF Fields, N

LEMMA FieldsNothing == Fields(<<>>) = <<>>
<1>0. \A path : Number(path, 0) = 0
  BY NumberType
<1>1. Len(<<>>) = 0 /\ Number(<<>>, 0) = 0 /\ <<>> \in Seq({})
  BY <1>0
<1>2. Fields(<<>>) \in Seq(Seq({})) /\ Len(Fields(<<>>)) = 0
  BY <1>1, FieldsType
<1> QED
  BY <1>2, EmptySeq

(* A character that is none has a field.                                   *)
LEMMA NumberOfCharacter ==
  ASSUME NEW path, NEW n \in Nat \ {0}, path[n] # Sep
  PROVE  Number(path, n) >= 1
<1> DEFINE A == {k \in Nat : path[k + 1] # Sep => Number(path, k + 1) >= 1}
<1>0. \A i \in Nat : /\ Number(path, i) \in Nat
                     /\ Number(path, i + 1) = IF Begins(path, i + 1) THEN Number(path, i) + 1 ELSE Number(path, i)
  BY NumberType
<1>1. 0 \in A
  <2>1. path[0 + 1] # Sep => Begins(path, 0 + 1)
    BY DEF Begins
  <2> QED
    BY <1>0, <2>1
<1>2. ASSUME NEW k \in Nat, k \in A PROVE k + 1 \in A
  <2> SUFFICES ASSUME path[(k + 1) + 1] # Sep PROVE Number(path, (k + 1) + 1) >= 1
    OBVIOUS
  <2>1. CASE path[k + 1] = Sep
    <3>1. Begins(path, (k + 1) + 1)
      BY <2>1 DEF Begins
    <3>2. Number(path, k + 1) \in Nat /\ Number(path, (k + 1) + 1) = Number(path, k + 1) + 1
      BY <1>0, <3>1
    <3> QED
      BY <3>2
  <2>2. CASE path[k + 1] # Sep
    <3>1. Number(path, k + 1) >= 1 /\ k + 1 \in Nat
      BY <1>2, <2>2
    <3> QED
      BY <1>0, <3>1
  <2> QED
    BY <2>1, <2>2
<1> HIDE DEF A
<1>3. n - 1 \in A
  BY <1>1, <1>2, Induction
<1> QED
  BY <1>3 DEF A

(* A character more: it begins a field, or belongs to the last.            *)
LEMMA FieldsAppend ==
  ASSUME NEW S, Sep \in S, NEW p \in Seq(S), NEW c \in S
  PROVE  LET n == Len(p)
             F == Fields(p)
             N == Len(F)
         IN  Fields(Append(p, c)) =
               IF c = Sep THEN F
               ELSE IF n = 0 \/ p[n] = Sep THEN Append(F, <<c>>)
               ELSE [F EXCEPT ![N] = Append(@, c)]
<1> DEFINE n == Len(p)
           q == Append(p, c)
           F == Fields(p)
           N == Number(p, n)
           M == Number(q, n + 1)
<1>1. /\ n \in Nat /\ DOMAIN p = 1 .. n /\ q \in Seq(S) /\ Len(q) = n + 1 /\ DOMAIN q = 1 .. n + 1
      /\ q[n + 1] = c /\ \A i \in 1 .. n : q[i] = p[i] /\ p[i] \in S
  BY LenProperties, AppendProperties, ElementOfSeq
<1> HIDE DEF q, n
<1>2. \A i \in 0 .. n : Number(q, i) = Number(p, i)
  <2> TAKE i \in 0 .. n
  <2>1. \A j \in 1 .. i : Begins(q, j) <=> Begins(p, j)
    BY <1>1 DEF Begins
  <2>2. {j \in 1 .. i : Begins(q, j)} = {j \in 1 .. i : Begins(p, j)}
    BY <2>1
  <2> QED
    BY <2>2 DEF Number
<1>3. Begins(q, n + 1) <=> c # Sep /\ (n = 0 \/ p[n] = Sep)
  BY <1>1 DEF Begins
<1>4. N \in Nat /\ M = IF Begins(q, n + 1) THEN N + 1 ELSE N
  <2>1. Number(q, n) = N
    BY <1>1, <1>2
  <2> QED
    BY <1>1, <2>1, NumberType
<1>5. /\ F \in Seq(Seq(S)) /\ Len(F) = N /\ DOMAIN F = 1 .. N
      /\ \A k \in 1 .. N : F[k] = SubSeq(p, Min(Field(p, k)), Max(Field(p, k)))
  BY FieldsType, LenProperties DEF Fields, n
<1>6. /\ Fields(q) \in Seq(Seq(S)) /\ Len(Fields(q)) = M /\ DOMAIN Fields(q) = 1 .. M
      /\ \A k \in 1 .. M : Fields(q)[k] = SubSeq(q, Min(Field(q, k)), Max(Field(q, k)))
  BY <1>1, FieldsType, LenProperties DEF Fields
<1>7. \A k \in 1 .. N : /\ Field(p, k) \in SUBSET (1 .. n)
                        /\ Min(Field(p, k)) \in Field(p, k) /\ Max(Field(p, k)) \in Field(p, k)
                        /\ \A i \in Field(p, k) : Min(Field(p, k)) <= i /\ i <= Max(Field(p, k))
  BY FieldType DEF n
<1>8. \A k : Field(q, k) = IF c # Sep /\ M = k THEN Field(p, k) \cup {n + 1} ELSE Field(p, k)
  BY <1>1, <1>2 DEF Field
<1>9. \A i \in 1 .. n : Number(p, i) <= N
  BY <1>1, NumberGrows
<1>10. ASSUME NEW a \in 1 .. n, NEW b \in a .. n
       PROVE  /\ SubSeq(q, a, b) = SubSeq(p, a, b) /\ SubSeq(p, a, b) \in Seq(S)
              /\ Len(SubSeq(p, a, b)) = b - a + 1
              /\ \A i \in 1 .. b - a + 1 : SubSeq(p, a, b)[i] = p[a + i - 1]
  <2>1. /\ SubSeq(p, a, b) \in Seq(S) /\ Len(SubSeq(p, a, b)) = b - a + 1
        /\ \A i \in 1 .. b - a + 1 : SubSeq(p, a, b)[i] = p[a + i - 1]
    BY <1>1, SubSeqProperties
  <2>2. /\ SubSeq(q, a, b) \in Seq(S) /\ Len(SubSeq(q, a, b)) = b - a + 1
        /\ \A i \in 1 .. b - a + 1 : SubSeq(q, a, b)[i] = q[a + i - 1]
    BY <1>1, SubSeqProperties
  <2>3. \A i \in 1 .. b - a + 1 : q[a + i - 1] = p[a + i - 1]
    BY <1>1
  <2> DEFINE x == SubSeq(p, a, b)
             y == SubSeq(q, a, b)
  <2>4. x \in Seq(S) /\ y \in Seq(S) /\ Len(x) = Len(y) /\ \A i \in 1 .. Len(x) : x[i] = y[i]
    BY <2>1, <2>2, <2>3
  <2> HIDE DEF x, y
  <2>5. x = y
    BY <2>4, SeqEqual
  <2> QED
    BY <2>1, <2>5 DEF x, y
<1>14. ASSUME NEW k \in 1 .. N, Field(q, k) = Field(p, k)
       PROVE  Fields(q)[k] = F[k]
  <2>1. Min(Field(p, k)) \in 1 .. n /\ Max(Field(p, k)) \in Min(Field(p, k)) .. n /\ k \in 1 .. M
    BY <1>1, <1>4, <1>7
  <2> QED
    BY <1>5, <1>6, <1>10, <1>14, <2>1
<1> HIDE DEF F, N, M
<1>15. c = Sep \/ (n = 0 \/ p[n] = Sep) => \A k \in 1 .. N : Fields(q)[k] = F[k]
  <2>1. c = Sep \/ (n = 0 \/ p[n] = Sep) => \A k \in 1 .. N : Field(q, k) = Field(p, k)
    BY <1>3, <1>4, <1>8
  <2> QED
    BY <1>14, <2>1
<1>11. CASE c = Sep
  <2>1. M = N
    BY <1>3, <1>4, <1>11
  <2> HIDE DEF Fields
  <2>2. Fields(q) = F
    BY <1>5, <1>6, <1>11, <1>15, <2>1, SeqEqual
  <2> QED
    BY <1>11, <2>2 DEF F, q, n
<1>12. CASE c # Sep /\ (n = 0 \/ p[n] = Sep)
  <2>1. M = N + 1
    BY <1>3, <1>4, <1>12
  <2>2. Field(p, N + 1) = {}
    <3>1. \A i \in 1 .. n : Number(p, i) \in Nat /\ Number(p, i) # N + 1
      BY <1>1, <1>4, <1>9, NumberType
    <3> QED
      BY <1>1, <3>1 DEF Field
  <2>3. Field(q, N + 1) = {n + 1}
    BY <1>8, <1>12, <2>1, <2>2
  <2>4. Min({n + 1}) = n + 1 /\ Max({n + 1}) = n + 1
    BY <1>1 DEF Min, Max
  <2>5. Fields(q)[N + 1] = SubSeq(q, n + 1, n + 1)
    <3>1. N + 1 \in 1 .. M
      BY <1>4, <2>1
    <3>2. Fields(q)[N + 1] = SubSeq(q, Min(Field(q, N + 1)), Max(Field(q, N + 1)))
      BY <1>6, <3>1
    <3> QED
      BY <2>3, <2>4, <3>2
  <2>6. SubSeq(q, n + 1, n + 1) = <<c>>
    <3>1. /\ SubSeq(q, n + 1, n + 1) \in Seq(S) /\ Len(SubSeq(q, n + 1, n + 1)) = 1
          /\ SubSeq(q, n + 1, n + 1)[1] = c
      BY <1>1, SubSeqProperties
    <3> DEFINE x == SubSeq(q, n + 1, n + 1)
    <3>2. x \in Seq(S) /\ Len(x) = 1 /\ x[1] = c
      BY <3>1
    <3> HIDE DEF x
    <3>3. x = <<c>>
      BY <3>2, SeqEqual
    <3> QED
      BY <3>3 DEF x
  <2>7. /\ Append(F, <<c>>) \in Seq(Seq(S)) /\ Len(Append(F, <<c>>)) = N + 1
        /\ \A k \in 1 .. N : Append(F, <<c>>)[k] = F[k]
        /\ Append(F, <<c>>)[N + 1] = <<c>>
    <3>1. <<c>> \in Seq(S)
      OBVIOUS
    <3> QED
      BY <1>5, <3>1, AppendProperties
  <2>8. \A k \in 1 .. N + 1 : Fields(q)[k] = Append(F, <<c>>)[k]
    <3> TAKE k \in 1 .. N + 1
    <3>1. CASE k = N + 1
      BY <2>5, <2>6, <2>7, <3>1
    <3>2. CASE k # N + 1
      <4>1. k \in 1 .. N
        BY <1>4, <3>2
      <4>2. Fields(q)[k] = F[k]
        BY <1>12, <1>15, <4>1
      <4> QED
        BY <2>7, <4>1, <4>2
    <3> QED
      BY <3>1, <3>2
  <2> DEFINE x == Append(F, <<c>>)
             y == Fields(q)
  <2>9. x \in Seq(Seq(S)) /\ y \in Seq(Seq(S)) /\ Len(x) = Len(y) /\ \A k \in 1 .. Len(x) : x[k] = y[k]
    BY <1>6, <2>1, <2>7, <2>8
  <2> HIDE DEF x, y
  <2>10. x = y
    BY <2>9, SeqEqual
  <2> QED
    BY <1>12, <2>10 DEF x, y, F, q, n
<1>13. CASE c # Sep /\ ~(n = 0 \/ p[n] = Sep)
  <2>1. M = N
    BY <1>3, <1>4, <1>13
  <2>2. N >= 1 /\ n \in Field(p, N)
    BY <1>1, <1>13, NumberOfCharacter DEF Field, N
  <2> DEFINE a == Min(Field(p, N))
  <2>3. a \in 1 .. n /\ a \in Field(p, N) /\ Max(Field(p, N)) = n /\ \A i \in Field(p, N) : a <= i /\ i <= n
    BY <1>1, <1>4, <1>7, <2>2
  <2> HIDE DEF a
  <2>4. Field(q, N) = Field(p, N) \cup {n + 1} /\ \A k \in 1 .. N - 1 : Field(q, k) = Field(p, k)
    BY <1>4, <1>8, <1>13, <2>1
  <2>5. Min(Field(q, N)) = a /\ Max(Field(q, N)) = n + 1
    <3> DEFINE s == Field(q, N)
    <3>1. s \in SUBSET (1 .. n + 1) /\ s # {} /\ n + 1 \in Nat
      BY <1>1, <1>4, <1>7, <2>2, <2>4
    <3>2. a \in s /\ n + 1 \in s /\ \A i \in s : i \in Nat /\ a <= i /\ i <= n + 1
      BY <1>1, <2>3, <2>4, <3>1
    <3> HIDE DEF s
    <3>3. Min(s) \in s /\ (\A y \in s : Min(s) <= y) /\ Max(s) \in s /\ \A y \in s : Max(s) >= y
      BY <3>1, Smallest, Greatest
    <3>4. Min(s) = a /\ Max(s) = n + 1
      BY <3>2, <3>3
    <3> QED
      BY <3>4 DEF s
  <2>6. Fields(q)[N] = SubSeq(q, a, n + 1) /\ F[N] = SubSeq(p, a, n)
    BY <1>4, <1>5, <1>6, <2>1, <2>2, <2>3, <2>5 DEF a
  <2>7. SubSeq(q, a, n + 1) = Append(SubSeq(p, a, n), c)
    <3> DEFINE x == SubSeq(q, a, n + 1)
               z == SubSeq(p, a, n)
               y == Append(z, c)
    <3>1. x \in Seq(S) /\ Len(x) = n + 1 - a + 1 /\ \A i \in 1 .. n + 1 - a + 1 : x[i] = q[a + i - 1]
      BY <1>1, <2>3, SubSeqProperties
    <3>2. z \in Seq(S) /\ Len(z) = n - a + 1 /\ \A i \in 1 .. n - a + 1 : z[i] = p[a + i - 1]
      BY <1>1, <1>10, <2>3
    <3> HIDE DEF x, z
    <3>3. y \in Seq(S) /\ Len(y) = n - a + 1 + 1 /\ y[n - a + 1 + 1] = c /\ \A i \in 1 .. n - a + 1 : y[i] = p[a + i - 1]
      BY <3>2, AppendProperties
    <3> HIDE DEF y
    <3>4. \A i \in 1 .. n + 1 - a + 1 : x[i] = y[i]
      <4> TAKE i \in 1 .. n + 1 - a + 1
      <4>1. CASE i = n - a + 1 + 1
        BY <1>1, <2>3, <3>1, <3>3, <4>1
      <4>2. CASE i # n - a + 1 + 1
        <5>1. i \in 1 .. n - a + 1 /\ a + i - 1 \in 1 .. n
          BY <1>1, <2>3, <4>2
        <5> QED
          BY <1>1, <3>1, <3>3, <5>1
      <4> QED
        BY <4>1, <4>2
    <3>5. Len(x) = Len(y)
      BY <1>1, <2>3, <3>1, <3>3
    <3>6. x = y
      BY <3>1, <3>3, <3>4, <3>5, SeqEqual
    <3> QED
      BY <3>6 DEF x, y, z
  <2> DEFINE y == [F EXCEPT ![N] = Append(@, c)]
  <2>8. y \in Seq(Seq(S)) /\ Len(y) = N /\ y[N] = Append(F[N], c) /\ \A k \in 1 .. N - 1 : y[k] = F[k]
    <3>1. Append(F[N], c) \in Seq(S)
      BY <1>4, <1>5, <2>2, AppendProperties, ElementOfSeq
    <3> QED
      BY <1>4, <1>5, <2>2, <3>1, ExceptSeq
  <2> HIDE DEF y
  <2>9. \A k \in 1 .. N : Fields(q)[k] = y[k]
    <3> TAKE k \in 1 .. N
    <3>1. CASE k = N
      BY <2>6, <2>7, <2>8, <3>1
    <3>2. CASE k # N
      <4>1. k \in 1 .. N - 1
        BY <1>4, <3>2
      <4> QED
        BY <1>14, <2>4, <2>8, <4>1
    <3> QED
      BY <3>1, <3>2
  <2>10. Fields(q) = y
    BY <1>6, <2>1, <2>8, <2>9, SeqEqual
  <2> QED
    BY <1>5, <1>13, <2>10 DEF y, F, q, n
<1> QED
  BY <1>5, <1>11, <1>12, <1>13 DEF n, q, F, N

LEMMA ConcatLaws ==
  ASSUME NEW S, NEW s \in Seq(S), NEW t \in Seq(S), NEW c \in S
  PROVE  /\ s \o <<>> = s /\ <<>> \o s = s
         /\ s \o Append(t, c) = Append(s \o t, c) /\ s \o <<c>> = Append(s, c)
         /\ s \o t \in Seq(S) /\ Len(s \o t) = Len(s) + Len(t)
         /\ \A i \in 1 .. Len(s) : (s \o t)[i] = s[i]
         /\ \A i \in 1 .. Len(t) : (s \o t)[Len(s) + i] = t[i]
<1>0. Len(s) \in Nat /\ Len(t) \in Nat
  BY LenProperties
<1>1. /\ s \o t \in Seq(S) /\ Len(s \o t) = Len(s) + Len(t)
      /\ \A i \in 1 .. Len(s) + Len(t) : (s \o t)[i] = IF i <= Len(s) THEN s[i] ELSE t[i - Len(s)]
  BY ConcatProperties
<1>2. /\ \A i \in 1 .. Len(s) : (s \o t)[i] = s[i]
      /\ \A i \in 1 .. Len(t) : (s \o t)[Len(s) + i] = t[i]
  BY <1>0, <1>1
<1>3. s \o <<>> = s /\ <<>> \o s = s
  BY ConcatEmptySeq
<1>4. Append(s \o t, c) = (s \o t) \o <<c>> /\ Append(t, c) = t \o <<c>> /\ Append(s, c) = s \o <<c>>
  BY <1>1, AppendIsConcat
<1>5. (s \o t) \o <<c>> = s \o (t \o <<c>>)
  <2>1. <<c>> \in Seq(S)
    OBVIOUS
  <2> QED
    BY <2>1, ConcatAssociative
<1> QED
  BY <1>1, <1>2, <1>3, <1>4, <1>5

LEMMA ExceptConcat ==
  ASSUME NEW T, NEW s \in Seq(T), NEW t \in Seq(T), NEW m \in 1 .. Len(t), NEW e \in T
  PROVE  [s \o t EXCEPT ![Len(s) + m] = e] = s \o [t EXCEPT ![m] = e]
<1> DEFINE st == s \o t
           u == [t EXCEPT ![m] = e]
           x == [st EXCEPT ![Len(s) + m] = e]
           y == s \o u
<1>1. Len(s) \in Nat /\ Len(t) \in Nat
  BY LenProperties
<1>2. /\ st \in Seq(T) /\ Len(st) = Len(s) + Len(t)
      /\ \A i \in 1 .. Len(s) + Len(t) : st[i] = IF i <= Len(s) THEN s[i] ELSE t[i - Len(s)]
  BY ConcatProperties
<1>3. u \in Seq(T) /\ Len(u) = Len(t) /\ \A i \in 1 .. Len(t) : u[i] = IF i = m THEN e ELSE t[i]
  BY ExceptSeq
<1> HIDE DEF st, u
<1>4. /\ x \in Seq(T) /\ Len(x) = Len(st)
      /\ \A i \in 1 .. Len(st) : x[i] = IF i = Len(s) + m THEN e ELSE st[i]
  <2>1. Len(s) + m \in 1 .. Len(st)
    BY <1>1, <1>2
  <2> QED
    BY <1>2, <2>1, ExceptSeq
<1>5. /\ y \in Seq(T) /\ Len(y) = Len(s) + Len(u)
      /\ \A i \in 1 .. Len(s) + Len(u) : y[i] = IF i <= Len(s) THEN s[i] ELSE u[i - Len(s)]
  BY <1>3, ConcatProperties
<1> HIDE DEF x, y
<1>6. \A i \in 1 .. Len(x) : x[i] = y[i]
  <2> TAKE i \in 1 .. Len(x)
  <2>1. i \in 1 .. Len(s) + Len(t)
    BY <1>2, <1>4
  <2>2. CASE i <= Len(s)
    BY <1>1, <1>2, <1>3, <1>4, <1>5, <2>1, <2>2
  <2>3. CASE ~ i <= Len(s)
    <3>1. i - Len(s) \in 1 .. Len(t) /\ (i - Len(s) = m <=> i = Len(s) + m)
      BY <1>1, <2>1, <2>3
    <3> QED
      BY <1>1, <1>2, <1>3, <1>4, <1>5, <2>1, <2>3, <3>1
  <2> QED
    BY <2>2, <2>3
<1>7. x = y
  BY <1>2, <1>3, <1>4, <1>5, <1>6, SeqEqual
<1> QED
  BY <1>7 DEF x, y, st, u

LEMMA FieldsConcat ==
  ASSUME NEW S, Sep \in S, NEW q \in Seq(S), q = <<>> \/ q[Len(q)] = Sep, NEW r \in Seq(S)
  PROVE  Fields(q \o r) = Fields(q) \o Fields(r)
<1> DEFINE A == {t \in Seq(S) : Fields(q \o t) = Fields(q) \o Fields(t)}
<1>0. Fields(q) \in Seq(Seq(S))
  BY FieldsType
<1>1. <<>> \in A
  <2> DEFINE F == Fields(q)
             none == <<>>
  <2>1. q \o none = q /\ F \o none = F
    BY <1>0, ConcatEmptySeq
  <2>2. none \in Seq(S) /\ Fields(none) = none
    BY FieldsNothing
  <2> HIDE DEF none, F
  <2>3. Fields(q \o none) = Fields(q) \o Fields(none)
    BY <2>1, <2>2 DEF F
  <2> QED
    BY <2>2, <2>3 DEF none
<1>2. ASSUME NEW t \in Seq(S), NEW c \in S, t \in A
      PROVE  Append(t, c) \in A
  <2> DEFINE x == q \o t
             F == Fields(q)
             G == Fields(t)
             H == Fields(x)
  <2>1. /\ q \o Append(t, c) = Append(x, c) /\ x \in Seq(S) /\ Len(x) = Len(q) + Len(t)
        /\ Len(q) \in Nat /\ Len(t) \in Nat /\ Append(t, c) \in Seq(S)
        /\ \A i \in 1 .. Len(t) : x[Len(q) + i] = t[i]
    BY ConcatLaws, LenProperties, AppendProperties
  <2>2. Len(x) = 0 \/ x[Len(x)] = Sep <=> Len(t) = 0 \/ t[Len(t)] = Sep
    <3>1. CASE Len(t) = 0
      <4>1. t = <<>> /\ x = q
        BY <3>1, EmptySeq, ConcatEmptySeq
      <4> QED
        BY <3>1, <4>1
    <3>2. CASE Len(t) # 0
      <4>1. Len(t) \in 1 .. Len(t) /\ Len(x) # 0
        BY <2>1, <3>2
      <4> QED
        BY <2>1, <4>1
    <3> QED
      BY <3>1, <3>2
  <2>3. G \in Seq(Seq(S)) /\ H = F \o G /\ H \in Seq(Seq(S))
    BY <1>0, <1>2, FieldsType, ConcatProperties
  <2> HIDE DEF x, H
  <2>4. Fields(Append(x, c)) = IF c = Sep THEN H
                               ELSE IF Len(x) = 0 \/ x[Len(x)] = Sep THEN Append(H, <<c>>)
                               ELSE [H EXCEPT ![Len(H)] = Append(@, c)]
    <3>1. x \in Seq(S)
      BY <2>1
    <3> QED
      BY ONLY <3>1, Sep \in S, c \in S, FieldsAppend DEF H
  <2> HIDE DEF G
  <2>9. Fields(Append(t, c)) = IF c = Sep THEN G
                               ELSE IF Len(t) = 0 \/ t[Len(t)] = Sep THEN Append(G, <<c>>)
                               ELSE [G EXCEPT ![Len(G)] = Append(@, c)]
    BY FieldsAppend DEF G
  <2>5. t # <<>> /\ t[Len(t)] # Sep => Len(G) \in Nat \ {0}
    <3> SUFFICES ASSUME t # <<>>, t[Len(t)] # Sep PROVE Len(G) \in Nat \ {0}
      OBVIOUS
    <3>1. Len(t) \in Nat \ {0}
      BY <2>1, EmptySeq
    <3>2. Number(t, Len(t)) >= 1 /\ Number(t, Len(t)) \in Nat /\ Len(G) = Number(t, Len(t))
      BY <3>1, NumberOfCharacter, NumberType, FieldsType DEF G
    <3> QED
      BY <3>2
  <2> HIDE DEF F, G, H, x
  <2>6. Append(F \o G, <<c>>) = F \o Append(G, <<c>>)
    <3> DEFINE d == <<c>>
               T == Seq(S)
    <3>1. d \in T /\ F \in Seq(T) /\ G \in Seq(T)
      BY <1>0, <2>3 DEF F
    <3> HIDE DEF d, T
    <3>2. F \o Append(G, d) = Append(F \o G, d)
      BY <3>1, ConcatLaws
    <3> QED
      BY <3>2 DEF d
  <2>7. ASSUME Len(G) \in Nat \ {0}
        PROVE  [F \o G EXCEPT ![Len(F \o G)] = Append(@, c)] = F \o [G EXCEPT ![Len(G)] = Append(@, c)]
    <3> DEFINE m == Len(G)
               e == Append(G[m], c)
               T == Seq(S)
    <3>1. F \in Seq(T) /\ G \in Seq(T) /\ m \in 1 .. Len(G)
      BY <1>0, <2>3, <2>7 DEF F
    <3>2. Len(F \o G) = Len(F) + m /\ (F \o G)[Len(F) + m] = G[m]
      <4> HIDE DEF T, m
      <4>1. Len(F \o G) = Len(F) + Len(G) /\ (F \o G)[Len(F) + m] = G[m]
        <5>1. /\ Len(F \o G) = Len(F) + Len(G)
              /\ \A i \in 1 .. Len(F) + Len(G) : (F \o G)[i] = IF i <= Len(F) THEN F[i] ELSE G[i - Len(F)]
          BY <3>1, ConcatProperties
        <5>2. Len(F) \in Nat /\ Len(G) \in Nat
          BY <3>1, LenProperties
        <5>3. Len(F) + m \in 1 .. Len(F) + Len(G) /\ ~ Len(F) + m <= Len(F) /\ (Len(F) + m) - Len(F) = m
          BY <3>1, <5>2
        <5> QED
          BY <5>1, <5>3
      <4> QED
        BY <4>1 DEF m
    <3>3. e \in T
      BY <3>1, ElementOfSeq, AppendProperties
    <3> HIDE DEF T
    <3>4. [F \o G EXCEPT ![Len(F) + m] = e] = F \o [G EXCEPT ![m] = e]
      <4> HIDE DEF e, m
      <4> QED
        BY <3>1, <3>3, ExceptConcat
    <3>5. [F \o G EXCEPT ![Len(F \o G)] = Append(@, c)] = [F \o G EXCEPT ![Len(F) + m] = e]
      BY <3>2
    <3>6. [G EXCEPT ![Len(G)] = Append(@, c)] = [G EXCEPT ![m] = e]
      OBVIOUS
    <3> QED
      BY <3>4, <3>5, <3>6
  <2>8. Fields(Append(x, c)) = F \o Fields(Append(t, c))
    BY <2>1, <2>2, <2>3, <2>4, <2>5, <2>6, <2>7, <2>9, EmptySeq
  <2> QED
    BY <2>1, <2>8 DEF F, x
<1> HIDE DEF A
<1>3. r \in A
  BY <1>1, <1>2, SeqInduction
<1> QED
  BY <1>3 DEF A

(* Without a separator there is one field, or none.                        *)
LEMMA FieldsOne ==
  ASSUME NEW S, Sep \in S, NEW r \in Seq(S), \A i \in 1 .. Len(r) : r[i] # Sep
  PROVE  Fields(r) = IF r = <<>> THEN <<>> ELSE <<r>>
<1> DEFINE A == {t \in Seq(S) : (\A i \in 1 .. Len(t) : t[i] # Sep) =>
                                  Fields(t) = IF t = <<>> THEN <<>> ELSE <<t>>}
<1>1. <<>> \in A
  BY FieldsNothing
<1>2. ASSUME NEW t \in Seq(S), NEW c \in S, t \in A
      PROVE  Append(t, c) \in A
  <2> DEFINE x == Append(t, c)
             n == Len(t)
  <2>1. /\ x \in Seq(S) /\ Len(x) = n + 1 /\ x[n + 1] = c /\ n \in Nat
        /\ \A i \in 1 .. n : x[i] = t[i]
    BY LenProperties, AppendProperties
  <2> HIDE DEF x
  <2>2. x # <<>>
    BY <2>1
  <2> SUFFICES ASSUME \A i \in 1 .. Len(x) : x[i] # Sep
               PROVE  Fields(x) = <<x>>
    BY <2>1, <2>2 DEF x
  <2>3. c # Sep /\ \A i \in 1 .. n : t[i] # Sep
    BY <2>1
  <2>4. Fields(t) = IF t = <<>> THEN <<>> ELSE <<t>>
    BY <1>2, <2>3
  <2>5. Fields(x) = IF n = 0 \/ t[n] = Sep THEN Append(Fields(t), <<c>>)
                    ELSE [Fields(t) EXCEPT ![Len(Fields(t))] = Append(@, c)]
    BY <2>3, FieldsAppend DEF x
  <2>6. CASE n = 0
    <3>1. t = <<>>
      BY <2>6, EmptySeq
    <3>2. x = <<c>> /\ Fields(t) = <<>>
      BY <2>4, <3>1 DEF x
    <3> QED
      BY <2>5, <2>6, <3>2
  <2>7. CASE n # 0
    <3>1. t # <<>> /\ t[n] # Sep
      BY <2>1, <2>3, <2>7
    <3>2. Fields(x) = [<<t>> EXCEPT ![Len(<<t>>)] = Append(@, c)]
      BY <2>4, <2>5, <2>7, <3>1
    <3>3. [<<t>> EXCEPT ![Len(<<t>>)] = Append(@, c)] = <<Append(t, c)>>
      OBVIOUS
    <3> QED
      BY <3>2, <3>3 DEF x
  <2> QED
    BY <2>6, <2>7
<1> HIDE DEF A
<1>3. r \in A
  BY <1>1, <1>2, SeqInduction
<1> QED
  BY <1>3 DEF A

----------------------------------------------------------------------------
(* What a scan finds *)

(* A path that has been scanned: its fields are those of a part that ends  *)
(* with a separator, and the rest is what follows.                         *)
Split(S, p, limit, fields, rest, q) ==
    /\ q \in Seq(S) /\ rest \in Seq(S) /\ fields \in Seq(Seq(S))
    /\ p = q \o rest
    /\ q = <<>> \/ q[Len(q)] = Sep
    /\ Fields(q) = fields
    /\ Len(fields) # limit => \A i \in 1 .. Len(rest) : rest[i] # Sep
    /\ limit \in Nat => Len(fields) <= limit
    /\ fields # <<>> => Joined(fields) # <<>>
    /\ Clean(p) => q = IF fields = <<>> THEN <<>> ELSE Append(Joined(fields), Sep)

LEMMA SplitNothing ==
  ASSUME NEW S, Sep \in S, NEW limit
  PROVE  Split(S, <<>>, limit, <<>>, <<>>, <<>>)
<1> DEFINE none == <<>>
<1>1. none \in Seq(S) /\ none \in Seq(Seq(S)) /\ none = none \o none /\ Len(none) = 0
  OBVIOUS
<1>2. Fields(none) = none /\ Joined(none) = none
  BY FieldsNothing, JoinNothing
<1>3. limit \in Nat => Len(none) <= limit
  BY <1>1
<1> HIDE DEF none
<1>4. Split(S, none, limit, none, none, none)
  BY <1>1, <1>2, <1>3 DEF Split
<1> QED
  BY <1>4 DEF none

LEMMA CleanPrefix ==
  ASSUME NEW S, NEW p \in Seq(S), NEW c \in S, Clean(Append(p, c))
  PROVE  Clean(p) /\ (c = Sep => p # <<>> /\ p[Len(p)] # Sep)
<1> DEFINE x == Append(p, c)
<1>1. /\ Len(x) = Len(p) + 1 /\ x[Len(p) + 1] = c /\ Len(p) \in Nat
      /\ \A i \in 1 .. Len(p) : x[i] = p[i]
  BY LenProperties, AppendProperties
<1>2. x # <<>> /\ (p # <<>> => Len(p) # 0) /\ (p = <<>> => Len(p) = 0)
  BY <1>1, EmptySeq
<1> HIDE DEF x
<1>3. x[1] # Sep /\ \A i \in 2 .. Len(x) : x[i] = Sep => x[i - 1] # Sep
  BY <1>2 DEF Clean, x
<1>4. \A i \in 2 .. Len(p) : p[i] = Sep => p[i - 1] # Sep
  <2> TAKE i \in 2 .. Len(p)
  <2>1. i \in 2 .. Len(x) /\ i \in 1 .. Len(p) /\ i - 1 \in 1 .. Len(p)
    BY <1>1
  <2> QED
    BY <1>1, <1>3, <2>1
<1>5. p # <<>> => p[1] # Sep
  BY <1>1, <1>2, <1>3
<1>6. c = Sep => p # <<>> /\ p[Len(p)] # Sep
  <2> SUFFICES ASSUME c = Sep PROVE p # <<>> /\ p[Len(p)] # Sep
    OBVIOUS
  <2>1. Len(p) # 0
    BY <1>1, <1>3
  <2>2. Len(p) + 1 \in 2 .. Len(x) /\ (Len(p) + 1) - 1 = Len(p) /\ Len(p) \in 1 .. Len(p)
    BY <1>1, <2>1
  <2>3. x[(Len(p) + 1) - 1] # Sep
    BY <1>1, <1>3, <2>2
  <2>4. x[Len(p)] # Sep /\ x[Len(p)] = p[Len(p)]
    BY <1>1, <2>2, <2>3
  <2> QED
    BY <1>2, <2>1, <2>4
<1> QED
  BY <1>4, <1>5, <1>6 DEF Clean

(* A character that belongs to the rest. *)
LEMMA SplitCharacter ==
  ASSUME NEW S, Sep \in S, NEW p \in Seq(S), NEW c \in S, NEW limit,
         NEW fields, NEW rest, NEW q, Split(S, p, limit, fields, rest, q),
         c # Sep \/ Len(fields) = limit
  PROVE  Split(S, Append(p, c), limit, fields, Append(rest, c), q)
<1> DEFINE r == Append(rest, c)
<1>1. /\ q \in Seq(S) /\ rest \in Seq(S) /\ fields \in Seq(Seq(S)) /\ p = q \o rest
  BY DEF Split
<1>2. /\ r \in Seq(S) /\ Len(r) = Len(rest) + 1 /\ r[Len(rest) + 1] = c /\ Len(rest) \in Nat
      /\ \A i \in 1 .. Len(rest) : r[i] = rest[i]
  BY <1>1, LenProperties, AppendProperties
<1>3. Append(p, c) = q \o r
  <2>1. q \o Append(rest, c) = Append(q \o rest, c)
    BY <1>1, ConcatLaws
  <2> QED
    BY <1>1, <2>1
<1> HIDE DEF r
<1>4. Len(fields) # limit => \A i \in 1 .. Len(r) : r[i] # Sep
  <2> SUFFICES ASSUME Len(fields) # limit, NEW i \in 1 .. Len(r) PROVE r[i] # Sep
    OBVIOUS
  <2>1. i = Len(rest) + 1 \/ i \in 1 .. Len(rest)
    BY <1>2
  <2>2. \A j \in 1 .. Len(rest) : rest[j] # Sep
    BY DEF Split
  <2> QED
    BY <1>2, <2>1, <2>2
<1>5. Clean(Append(p, c)) => Clean(p)
  BY CleanPrefix
<1>6. Split(S, Append(p, c), limit, fields, r, q)
  BY <1>1, <1>2, <1>3, <1>4, <1>5 DEF Split
<1> QED
  BY <1>6 DEF r

(* A separator that ends a field, or follows another. *)
LEMMA SplitSeparator ==
  ASSUME NEW S, Sep \in S, NEW p \in Seq(S), NEW limit,
         NEW fields, NEW rest, NEW q, Split(S, p, limit, fields, rest, q),
         Len(fields) # limit
  PROVE  Split(S, Append(p, Sep), limit,
               IF rest = <<>> THEN fields ELSE Append(fields, rest), <<>>, Append(p, Sep))
<1> DEFINE x == Append(p, Sep)
           none == <<>>
           longer == Append(fields, rest)
           now == IF rest = none THEN fields ELSE longer
<1>1. /\ q \in Seq(S) /\ rest \in Seq(S) /\ fields \in Seq(Seq(S)) /\ p = q \o rest
      /\ \A i \in 1 .. Len(rest) : rest[i] # Sep
      /\ q = <<>> \/ q[Len(q)] = Sep
      /\ Fields(q) = fields
      /\ limit \in Nat => Len(fields) <= limit
      /\ fields # <<>> => Joined(fields) # <<>>
      /\ Clean(p) => q = IF fields = <<>> THEN <<>> ELSE Append(Joined(fields), Sep)
  BY DEF Split
<1>2. /\ x \in Seq(S) /\ Len(x) = Len(p) + 1 /\ x[Len(x)] = Sep /\ Len(x) # 0
  <2>1. Len(p) \in Nat
    BY LenProperties
  <2> QED
    BY <2>1, AppendProperties
<1>3. longer \in Seq(Seq(S)) /\ Len(longer) = Len(fields) + 1 /\ Len(fields) \in Nat
  BY <1>1, LenProperties, AppendProperties
<1>4. Fields(x) = Fields(p)
  BY FieldsAppend
<1>5. Fields(p) = fields \o Fields(rest)
  BY <1>1, FieldsConcat
<1>6. Fields(rest) = IF rest = none THEN none ELSE <<rest>>
  BY <1>1, FieldsOne
<1>7. Fields(x) = now
  <2> DEFINE T == Seq(S)
             one == <<rest>>
  <2>1. rest \in T /\ fields \in Seq(T)
    BY <1>1
  <2> HIDE DEF T
  <2>2. fields \o none = fields /\ fields \o <<rest>> = Append(fields, rest)
    BY <2>1, ConcatLaws
  <2> QED
    BY <1>4, <1>5, <1>6, <2>2
<1>8. Len(none) = 0 /\ none \in Seq(S) /\ x \o none = x
  BY <1>2, ConcatEmptySeq
<1> DEFINE J == Joined(fields)
<1>9. /\ J \in Seq(S)
      /\ Joined(longer) = IF J = none THEN rest ELSE J \o <<Sep>> \o rest
  BY <1>1, JoinAppend DEF JoinOne
<1>10. Joined(none) = none
  BY JoinNothing
<1>11. longer # none
  <2> HIDE DEF longer
  <2> QED
    BY <1>3
<1>12. J # none => J \o <<Sep>> \o rest = Append(J, Sep) \o rest /\ J \o <<Sep>> \o rest # none
  <2>1. Append(J, Sep) = J \o <<Sep>>
    BY <1>9, AppendIsConcat
  <2>2. Append(J, Sep) \in Seq(S) /\ Len(Append(J, Sep)) = Len(J) + 1 /\ Len(J) \in Nat /\ Len(rest) \in Nat
    BY <1>1, <1>9, AppendProperties, LenProperties
  <2> HIDE DEF J
  <2>3. Len(Append(J, Sep) \o rest) = Len(J) + 1 + Len(rest)
    BY <1>1, <2>2, ConcatProperties
  <2> DEFINE y == Append(J, Sep) \o rest
  <2>4. Len(y) # 0
    BY <2>2, <2>3
  <2> HIDE DEF y
  <2>5. y # none
    BY <2>4
  <2> QED
    BY <2>1, <2>5 DEF y
<1>13. now # none => Joined(now) # none
  <2> HIDE DEF J, longer, none
  <2>1. CASE rest = none
    BY <1>1, <2>1 DEF J, none
  <2>2. CASE rest # none
    BY <1>9, <1>12, <2>2
  <2> QED
    BY <2>1, <2>2
<1>14. Clean(x) => x = IF now = none THEN none ELSE Append(Joined(now), Sep)
  <2> SUFFICES ASSUME Clean(x) PROVE x = IF now = none THEN none ELSE Append(Joined(now), Sep)
    OBVIOUS
  <2>1. Clean(p) /\ p # none /\ p[Len(p)] # Sep
    BY CleanPrefix
  <2>2. rest # none
    <3> SUFFICES ASSUME rest = none PROVE FALSE
      OBVIOUS
    <3>1. p = q
      BY <1>1, ConcatEmptySeq
    <3> QED
      BY <1>1, <2>1, <3>1
  <2>3. p = Joined(longer)
    <3>1. CASE fields = none
      <4>1. q = none /\ J = none
        BY <1>1, <1>10, <2>1, <3>1
      <4>2. p = rest
        BY <1>1, <4>1, ConcatEmptySeq
      <4> QED
        BY <1>9, <4>1, <4>2
    <3>2. CASE fields # none
      <4>1. q = Append(J, Sep) /\ J # none
        BY <1>1, <2>1, <3>2
      <4> QED
        BY <1>1, <1>9, <1>12, <4>1
    <3> QED
      BY <3>1, <3>2
  <2> HIDE DEF longer
  <2>4. now = longer /\ now # none
    BY <1>11, <2>2
  <2> QED
    BY <2>3, <2>4
<1>15. limit \in Nat => Len(now) <= limit
  BY <1>1, <1>3
<1>16. now \in Seq(Seq(S))
  BY <1>1, <1>3
<1> HIDE DEF x, now, none
<1>17. Split(S, x, limit, now, none, x)
  BY <1>2, <1>7, <1>8, <1>13, <1>14, <1>15, <1>16 DEF Split, none
<1> QED
  BY <1>17 DEF x, now, none

(* Every path is split this way. *)
LEMMA ScanSplits ==
  ASSUME NEW S, Sep \in S, NEW path \in Seq(S), NEW limit
  PROVE  \E q : Split(S, path, limit, Scan(path, limit).fields, Scan(path, limit).rest, q)
<1> DEFINE A == {p \in Seq(S) : \E q : Split(S, p, limit, Scan(p, limit).fields, Scan(p, limit).rest, q)}
<1>1. <<>> \in A
  <2> DEFINE none == <<>>
  <2>1. Scan(none, limit).fields = none /\ Scan(none, limit).rest = none /\ none \in Seq(S)
    BY ScanNothing DEF NothingScanned
  <2>2. Split(S, none, limit, none, none, none)
    BY SplitNothing
  <2> HIDE DEF none
  <2>3. none \in A
    BY <2>1, <2>2
  <2> QED
    BY <2>3 DEF none
<1>2. ASSUME NEW p \in Seq(S), NEW c \in S, p \in A
      PROVE  Append(p, c) \in A
  <2> DEFINE s == Scan(p, limit)
             fields == s.fields
             rest == s.rest
             t == Scan(Append(p, c), limit)
  <2>1. t = ScanOne(s, c, limit) /\ Append(p, c) \in Seq(S)
    BY ScanAppend, AppendProperties
  <2>2. PICK q : Split(S, p, limit, fields, rest, q)
    BY <1>2
  <2>3. CASE c # Sep \/ Len(fields) = limit
    <3>1. t.fields = fields /\ t.rest = Append(rest, c)
      BY <2>1, <2>3 DEF ScanOne
    <3> HIDE DEF s, t
    <3>2. Split(S, Append(p, c), limit, fields, Append(rest, c), q)
      BY <2>2, <2>3, SplitCharacter
    <3>3. Split(S, Append(p, c), limit, t.fields, t.rest, q)
      BY <3>1, <3>2
    <3> QED
      BY <2>1, <3>3 DEF t
  <2>4. CASE c = Sep /\ Len(fields) # limit
    <3>1. t.fields = (IF rest = <<>> THEN fields ELSE Append(fields, rest)) /\ t.rest = <<>>
      BY <2>1, <2>4 DEF ScanOne
    <3> HIDE DEF s, t
    <3>2. Split(S, Append(p, Sep), limit,
                IF rest = <<>> THEN fields ELSE Append(fields, rest), <<>>, Append(p, Sep))
      BY <2>2, <2>4, SplitSeparator
    <3>3. Split(S, Append(p, c), limit, t.fields, t.rest, Append(p, c))
      BY <2>4, <3>1, <3>2
    <3> QED
      BY <2>1, <3>3 DEF t
  <2> QED
    BY <2>3, <2>4
<1> HIDE DEF A
<1>3. path \in A
  BY <1>1, <1>2, SeqInduction
<1> QED
  BY <1>3 DEF A

(* The two parts of a concatenation. *)
LEMMA ConcatParts ==
  ASSUME NEW S, NEW s \in Seq(S), NEW t \in Seq(S)
  PROVE  /\ SubSeq(s \o t, 1, Len(s)) = s
         /\ SubSeq(s \o t, Len(s) + 1, Len(s \o t)) = t
<1> DEFINE st == s \o t
           x == SubSeq(st, 1, Len(s))
           y == SubSeq(st, Len(s) + 1, Len(st))
<1>1. /\ st \in Seq(S) /\ Len(st) = Len(s) + Len(t) /\ Len(s) \in Nat /\ Len(t) \in Nat
      /\ \A i \in 1 .. Len(s) + Len(t) : st[i] = IF i <= Len(s) THEN s[i] ELSE t[i - Len(s)]
  BY ConcatProperties, LenProperties
<1>2. \A i \in 1 .. Len(s) + Len(t) : st[i] \in S
  BY <1>1, ElementOfSeq
<1> HIDE DEF st
<1>3. x \in Seq(S) /\ Len(x) = Len(s) /\ \A i \in 1 .. Len(s) : x[i] = st[i]
  <2>1. \A i \in 1 .. Len(s) : st[i] \in S
    BY <1>1, <1>2
  <2> QED
    BY <1>1, <2>1, SubSeqProperties
<1>4. y \in Seq(S) /\ Len(y) = Len(t) /\ \A i \in 1 .. Len(t) : y[i] = st[Len(s) + i]
  <2>1. \A i \in Len(s) + 1 .. Len(st) : st[i] \in S
    BY <1>1, <1>2
  <2>2. /\ y \in Seq(S) /\ Len(y) = (IF Len(s) + 1 <= Len(st) THEN Len(st) - (Len(s) + 1) + 1 ELSE 0)
        /\ \A i \in 1 .. Len(st) - (Len(s) + 1) + 1 : y[i] = st[Len(s) + 1 + i - 1]
    BY <1>1, <2>1, SubSeqProperties
  <2>3. Len(y) = Len(t)
    BY <1>1, <2>2
  <2>4. \A i \in 1 .. Len(t) : Len(s) + 1 + i - 1 = Len(s) + i
    BY <1>1
  <2> QED
    BY <1>1, <2>2, <2>3, <2>4
<1> HIDE DEF x, y
<1>5. x = s
  <2>1. \A i \in 1 .. Len(s) : x[i] = s[i]
    BY <1>1, <1>3
  <2> QED
    BY <1>3, <2>1, SeqEqual
<1>6. y = t
  <2>1. \A i \in 1 .. Len(t) : y[i] = t[i]
    <3> TAKE i \in 1 .. Len(t)
    <3>1. Len(s) + i \in 1 .. Len(s) + Len(t) /\ ~ Len(s) + i <= Len(s) /\ (Len(s) + i) - Len(s) = i
      BY <1>1
    <3> QED
      BY <1>1, <1>4, <3>1
  <2> QED
    BY <1>4, <2>1, SeqEqual
<1> QED
  BY <1>5, <1>6 DEF x, y, st

LEMMA ConcatLater ==
  ASSUME NEW S, NEW s \in Seq(S), NEW c \in S, NEW t \in Seq(S)
  PROVE  /\ Append(s, c) \o t = s \o (<<c>> \o t)
         /\ <<c>> \o t \in Seq(S) /\ Len(<<c>> \o t) = 1 + Len(t)
<1> DEFINE d == <<c>>
<1>1. d \in Seq(S) /\ Len(d) = 1 /\ Append(s, c) = s \o d
  BY AppendIsConcat
<1> HIDE DEF d
<1>2. (s \o d) \o t = s \o (d \o t) /\ d \o t \in Seq(S) /\ Len(d \o t) = 1 + Len(t)
  BY <1>1, ConcatAssociative, ConcatProperties
<1> QED
  BY <1>1, <1>2 DEF d

(* What is scanned, joined again. *)
LEMMA JoinRest ==
  ASSUME NEW S, Sep \in S, NEW p, NEW limit, NEW fields, NEW rest, NEW q,
         Split(S, p, limit, fields, rest, q), Clean(p)
  PROVE  p = Joined(Append(fields, rest))
<1> DEFINE J == Joined(fields)
           none == <<>>
<1>1. /\ q \in Seq(S) /\ rest \in Seq(S) /\ fields \in Seq(Seq(S)) /\ p = q \o rest
      /\ fields # none => J # none
      /\ q = IF fields = none THEN none ELSE Append(J, Sep)
  BY DEF Split
<1>2. J \in Seq(S) /\ Joined(Append(fields, rest)) = IF J = none THEN rest ELSE J \o <<Sep>> \o rest
  BY <1>1, JoinAppend DEF JoinOne
<1>3. CASE fields = none
  <2>1. J = none /\ q = none
    BY <1>1, <1>3, JoinNothing
  <2>2. p = rest
    BY <1>1, <2>1, ConcatEmptySeq
  <2> QED
    BY <1>2, <2>1, <2>2
<1>4. CASE fields # none
  <2>1. q = J \o <<Sep>>
    BY <1>1, <1>2, <1>4, AppendIsConcat
  <2> QED
    BY <1>1, <1>2, <1>4, <2>1
<1> QED
  BY <1>3, <1>4

(* The fields of the whole, and when the rest has any. *)
LEMMA SplitFields ==
  ASSUME NEW S, Sep \in S, NEW p, NEW limit, NEW fields, NEW rest, NEW q,
         Split(S, p, limit, fields, rest, q), ~Lost(p)
  PROVE  /\ Fields(p) = fields \o Fields(rest)
         /\ Len(fields) # limit => /\ Fields(rest) = IF Remains(rest) THEN <<rest>> ELSE <<>>
                                   /\ Fields(p) = IF Remains(rest) THEN Append(fields, rest) ELSE fields
         /\ Len(fields) = limit /\ limit \in Nat \ {0} /\ Clean(p) => (Fields(rest) # <<>> <=> Remains(rest))
<1> DEFINE none == <<>>
<1>1. /\ q \in Seq(S) /\ rest \in Seq(S) /\ fields \in Seq(Seq(S)) /\ p = q \o rest
      /\ q = none \/ q[Len(q)] = Sep
      /\ Fields(q) = fields
      /\ Len(fields) # limit => \A i \in 1 .. Len(rest) : rest[i] # Sep
  BY DEF Split
<1>2. Fields(p) = fields \o Fields(rest)
  BY <1>1, FieldsConcat
<1>3. /\ Len(p) = Len(q) + Len(rest) /\ Len(q) \in Nat /\ Len(rest) \in Nat
      /\ \A i \in 1 .. Len(q) : p[i] = q[i]
      /\ \A i \in 1 .. Len(rest) : p[Len(q) + i] = rest[i]
  <2>1. /\ Len(q \o rest) = Len(q) + Len(rest)
        /\ \A i \in 1 .. Len(q) + Len(rest) : (q \o rest)[i] = IF i <= Len(q) THEN q[i] ELSE rest[i - Len(q)]
    BY <1>1, ConcatProperties
  <2>2. Len(q) \in Nat /\ Len(rest) \in Nat
    BY <1>1, LenProperties
  <2>3. \A i \in 1 .. Len(rest) : Len(q) + i \in 1 .. Len(q) + Len(rest) /\ ~ Len(q) + i <= Len(q) /\ (Len(q) + i) - Len(q) = i
    BY <2>2
  <2> QED
    BY <1>1, <2>1, <2>2, <2>3
<1>4. rest = none <=> Len(rest) = 0
  BY <1>1, EmptySeq
<1>8. Remains(rest) <=> Len(rest) # 0 /\ Len(rest) # 1
  <2> DEFINE m == Len(rest)
  <2>1. m \in Nat
    BY <1>3
  <2> HIDE DEF m
  <2>2. m > 1 <=> m # 0 /\ m # 1
    BY <2>1
  <2> QED
    BY <2>2 DEF m, Remains
<1>5. ~(Len(rest) = 1 /\ rest[1] # Sep)
  <2> SUFFICES ASSUME Len(rest) = 1, rest[1] # Sep PROVE FALSE
    OBVIOUS
  <2>1. Len(p) = Len(q) + 1 /\ p[Len(p)] # Sep
    BY <1>3
  <2>4. p # <<>>
    BY <1>3, <2>1
  <2>2. CASE q = none
    <3>1. Len(q) = 0
      BY <2>2
    <3> QED
      BY <2>1, <2>4, <3>1 DEF Lost, Begins
  <2>3. CASE q # none
    <3>1. Len(q) \in 1 .. Len(q) /\ Len(p) - 1 = Len(q)
      BY <1>1, <1>3, <2>1, <2>3, EmptySeq
    <3>2. p[Len(p) - 1] = Sep
      BY <1>1, <1>3, <2>3, <3>1
    <3> QED
      BY <2>1, <2>4, <3>2 DEF Lost, Begins
  <2> QED
    BY <2>2, <2>3
<1>6. ASSUME Len(fields) # limit
      PROVE  /\ Fields(rest) = IF Remains(rest) THEN <<rest>> ELSE none
             /\ Fields(p) = IF Remains(rest) THEN Append(fields, rest) ELSE fields
  <2>1. Fields(rest) = IF rest = none THEN none ELSE <<rest>>
    BY <1>1, <1>6, FieldsOne
  <2>2. rest = none <=> ~Remains(rest)
    <3>1. Len(rest) # 1
      BY <1>1, <1>5, <1>6
    <3> QED
      BY <1>4, <1>8, <3>1
  <2>3. fields \o none = fields /\ fields \o <<rest>> = Append(fields, rest)
    <3> DEFINE T == Seq(S)
    <3>1. rest \in T /\ fields \in Seq(T)
      BY <1>1
    <3> HIDE DEF T
    <3> QED
      BY <3>1, ConcatLaws
  <2> QED
    BY <1>2, <2>1, <2>2, <2>3
<1>7. ASSUME Len(fields) = limit, limit \in Nat \ {0}, Clean(p)
      PROVE  Fields(rest) # none <=> Remains(rest)
  <2>1. q # none
    <3>1. fields # none
      BY <1>7
    <3> QED
      BY <1>1, <3>1, FieldsNothing
  <2>2. Len(q) \in 1 .. Len(q) /\ Len(q) # 0
    BY <1>1, <1>3, <2>1, EmptySeq
  <2>3. Len(rest) # 0 => rest[1] # Sep
    <3> SUFFICES ASSUME Len(rest) # 0 PROVE rest[1] # Sep
      OBVIOUS
    <3>1. p[Len(q)] = Sep /\ 1 \in 1 .. Len(rest) /\ p[Len(q) + 1] = rest[1]
      BY <1>1, <1>3, <2>1, <2>2
    <3>2. Len(q) + 1 \in 2 .. Len(p) /\ (Len(q) + 1) - 1 = Len(q)
      BY <1>3, <2>2
    <3>3. p[Len(q) + 1] = Sep => p[(Len(q) + 1) - 1] # Sep
      BY <1>7, <3>2 DEF Clean
    <3> QED
      BY <3>1, <3>2, <3>3
  <2>4. Remains(rest) <=> Len(rest) # 0
    BY <1>5, <1>8, <2>3
  <2>5. Len(rest) # 0 => Fields(rest) # none
    <3> SUFFICES ASSUME Len(rest) # 0, Fields(rest) = none PROVE FALSE
      OBVIOUS
    <3>1. Number(rest, 1) >= 1 /\ Number(rest, 1) \in Nat
      BY <2>3, NumberOfCharacter, NumberType
    <3>2. Number(rest, 1) <= Number(rest, Len(rest))
      BY <1>3, NumberGrows
    <3>3. Len(Fields(rest)) = Number(rest, Len(rest)) /\ Number(rest, Len(rest)) \in Nat
      BY <1>1, <1>3, FieldsType, NumberType
    <3> QED
      BY <3>1, <3>2, <3>3
  <2>6. Len(rest) = 0 => Fields(rest) = none
    BY <1>4, FieldsNothing
  <2> QED
    BY <2>4, <2>5, <2>6
<1> QED
  BY <1>2, <1>6, <1>7

(* All the fields of a name. *)
LEMMA AllFields ==
  ASSUME NEW S, Sep \in S, NEW p \in Seq(S), ~Lost(p)
  PROVE  Component(p, NoLimit).fields = Fields(p)
<1> DEFINE s == Scan(p, NoLimit)
           fields == s.fields
           rest == s.rest
<1>1. PICK q : Split(S, p, NoLimit, fields, rest, q)
  BY ScanSplits
<1>2. Component(p, NoLimit).fields =
        IF Len(fields) # NoLimit /\ Remains(rest) THEN Append(fields, rest) ELSE fields
  BY DEF Component
<1> HIDE DEF s
<1>3. Len(fields) # NoLimit
  <2>1. fields \in Seq(Seq(S))
    BY <1>1 DEF Split
  <2>2. Len(fields) \in Nat
    BY <2>1, LenProperties
  <2> QED
    BY <2>2 DEF NoLimit
<1>4. Fields(p) = IF Remains(rest) THEN Append(fields, rest) ELSE fields
  BY <1>1, <1>3, SplitFields
<1> QED
  BY <1>2, <1>3, <1>4

(* The first fields of a path, whether there are more, and what follows.   *)
LEMMA FirstFields ==
  ASSUME NEW S, Sep \in S, NEW p \in Seq(S), Clean(p), ~Lost(p),
         NEW L \in 1 .. Len(Fields(p))
  PROVE  LET real == Component(p, L).fields
             after == SubSeq(p, Len(Joined(real)) + 1, Len(p))
         IN  /\ real = SubSeq(Fields(p), 1, L)
             /\ Component(p, L).more <=> L < Len(Fields(p))
             /\ Fields(IF after = <<>> THEN <<Sep>> ELSE after) = SubSeq(Fields(p), L + 1, Len(Fields(p)))
<1> DEFINE s == Scan(p, L)
           fields == s.fields
           rest == s.rest
           real == Component(p, L).fields
           more == Component(p, L).more
           after == SubSeq(p, Len(Joined(real)) + 1, Len(p))
           none == <<>>
           F == Fields(p)
<1>1. PICK q : Split(S, p, L, fields, rest, q)
  BY ScanSplits
<1>2. /\ real = IF Len(fields) # L /\ Remains(rest) THEN Append(fields, rest) ELSE fields
      /\ more <=> Len(fields) = L /\ Remains(rest)
  BY DEF Component
<1> HIDE DEF s, real, more
<1>3. /\ q \in Seq(S) /\ rest \in Seq(S) /\ fields \in Seq(Seq(S)) /\ p = q \o rest
      /\ Len(fields) <= L /\ L \in Nat
      /\ q = IF fields = none THEN none ELSE Append(Joined(fields), Sep)
  <2>1. L \in Nat
    OBVIOUS
  <2> QED
    BY <1>1, <2>1 DEF Split
<1>4. F \in Seq(Seq(S)) /\ Len(F) \in Nat /\ Len(fields) \in Nat /\ Fields(rest) \in Seq(Seq(S))
      /\ Len(Fields(rest)) \in Nat
  BY <1>3, FieldsType, LenProperties
<1>5. /\ F = fields \o Fields(rest)
      /\ Len(fields) # L => F = IF Remains(rest) THEN Append(fields, rest) ELSE fields
      /\ Len(fields) = L => (Fields(rest) # none <=> Remains(rest))
  <2>1. L \in Nat \ {0} /\ Len(fields) \in Nat
    BY <1>4
  <2> HIDE DEF fields, rest
  <2>2. F = fields \o Fields(rest)
    BY <1>1, SplitFields
  <2>3. Len(fields) # L => F = IF Remains(rest) THEN Append(fields, rest) ELSE fields
    BY <1>1, SplitFields
  <2>4. Len(fields) = L => (Fields(rest) # none <=> Remains(rest))
    BY <1>1, <2>1, SplitFields
  <2> QED
    BY <2>2, <2>3, <2>4
<1>6. Fields(<<Sep>>) = none
  <2>1. <<Sep>> = Append(none, Sep) /\ none \in Seq(S)
    OBVIOUS
  <2>2. Fields(Append(none, Sep)) = Fields(none)
    BY <2>1, FieldsAppend
  <2> QED
    BY <2>1, <2>2, FieldsNothing
<1>7. CASE Len(fields) = L
  <2>1. real = fields /\ (more <=> Fields(rest) # none)
    BY <1>2, <1>5, <1>7
  <2> DEFINE G == Fields(rest)
             T == Seq(S)
  <2>2. /\ SubSeq(F, 1, L) = fields /\ SubSeq(F, L + 1, Len(F)) = G
        /\ Len(F) = L + Len(G) /\ (G = none <=> Len(G) = 0)
    <3>1. fields \in Seq(T) /\ G \in Seq(T) /\ F = fields \o G
      BY <1>3, <1>4, <1>5
    <3> HIDE DEF T, G, F
    <3>2. /\ SubSeq(fields \o G, 1, Len(fields)) = fields
          /\ SubSeq(fields \o G, Len(fields) + 1, Len(fields \o G)) = G
      BY <3>1, ConcatParts
    <3>3. Len(fields \o G) = Len(fields) + Len(G) /\ (G = none <=> Len(G) = 0)
      BY <3>1, ConcatProperties, EmptySeq
    <3> QED
      BY <1>7, <3>1, <3>2, <3>3
  <2> HIDE DEF T
  <2>3. more <=> L < Len(F)
    BY <1>4, <2>1, <2>2
  <2> DEFINE J == Joined(fields)
             t == <<Sep>> \o rest
  <2>4. fields # none /\ J \in Seq(S)
    <3>1. <<>> \in Seq(S)
      OBVIOUS
    <3>2. Len(fields) # 0
      BY <1>7
    <3> QED
      BY <1>3, <3>1, <3>2, JoinAppend
  <2>5. p = J \o t /\ t \in Seq(S) /\ Len(t) = 1 + Len(rest) /\ Len(rest) \in Nat
    <3>1. q = Append(J, Sep) /\ Len(rest) \in Nat
      BY <1>3, <2>4, LenProperties
    <3>3. J \in Seq(S) /\ rest \in Seq(S)
      BY <1>3, <2>4
    <3> HIDE DEF J, rest, fields, F
    <3>2. Append(J, Sep) \o rest = J \o t /\ t \in Seq(S) /\ Len(t) = 1 + Len(rest)
      BY <3>3, ConcatLater
    <3> QED
      BY <1>3, <3>1, <3>2
  <2>6. after = t
    <3> HIDE DEF J, t
    <3>1. SubSeq(J \o t, Len(J) + 1, Len(J \o t)) = t
      BY <2>4, <2>5, ConcatParts
    <3> QED
      BY <2>1, <2>5, <3>1 DEF J
  <2>7. t # none
    <3> HIDE DEF t
    <3> QED
      BY <2>5
  <2>8. Fields(t) = G
    <3> DEFINE d == <<Sep>>
    <3>1. d \in Seq(S) /\ d[Len(d)] = Sep /\ Fields(d) = none
      BY <1>6
    <3> HIDE DEF d
    <3>2. Fields(d \o rest) = Fields(d) \o Fields(rest)
      BY <1>3, <3>1, FieldsConcat
    <3>3. none \o Fields(rest) = Fields(rest)
      BY <1>4, ConcatEmptySeq
    <3> QED
      BY <3>1, <3>2, <3>3 DEF d
  <2> HIDE DEF after, t, G, F
  <2> QED
    BY <2>1, <2>2, <2>3, <2>6, <2>7, <2>8 DEF after, F, more, real
<1>8. CASE Len(fields) # L
  <2>1. Remains(rest) /\ F = Append(fields, rest) /\ Len(F) = L /\ ~more /\ real = F
    <3>1. Len(fields) < L
      BY <1>3, <1>4, <1>8
    <3>6. L <= Len(F)
      BY <1>4
    <3>2. Remains(rest)
      <4> SUFFICES ASSUME ~Remains(rest) PROVE FALSE
        OBVIOUS
      <4>1. F = fields
        BY <1>5, <1>8
      <4> HIDE DEF F
      <4> QED
        BY <1>3, <1>4, <3>1, <3>6, <4>1
    <3>3. F = Append(fields, rest)
      BY <1>5, <1>8, <3>2
    <3>4. Len(Append(fields, rest)) = Len(fields) + 1
      BY <1>3, AppendProperties
    <3>5. Len(F) = L
      BY <1>3, <1>4, <3>1, <3>3, <3>4
    <3> QED
      BY <1>2, <1>8, <3>2, <3>3, <3>5
  <2>2. p = Joined(F)
    BY <1>1, <2>1, JoinRest
  <2>3. after = none
    <3>1. Len(p) \in Nat
      BY LenProperties
    <3> HIDE DEF F
    <3> QED
      BY <2>1, <2>2, <3>1, SubSeqEmpty
  <2>4. SubSeq(F, 1, L) = F /\ SubSeq(F, L + 1, Len(F)) = none
    <3> DEFINE T == Seq(S)
    <3>1. F \in Seq(T) /\ none \in Seq(T) /\ F \o none = F
      BY <1>4, ConcatEmptySeq
    <3> HIDE DEF T, none, F
    <3>2. SubSeq(F \o none, 1, Len(F)) = F /\ SubSeq(F \o none, Len(F) + 1, Len(F \o none)) = none
      BY <3>1, ConcatParts
    <3> QED
      BY <2>1, <3>1, <3>2
  <2> HIDE DEF after, F
  <2> QED
    BY <1>3, <1>6, <2>1, <2>3, <2>4 DEF after, F, more, real
<1> QED
  BY <1>7, <1>8

(* A path has a field. *)
LEMMA SomeField ==
  ASSUME NEW S, NEW p \in Seq(S), p # <<>>, Clean(p)
  PROVE  Len(Fields(p)) \in Nat \ {0}
<1>1. p[1] # Sep /\ Len(p) \in Nat /\ Len(p) # 0
  BY LenProperties, EmptySeq DEF Clean
<1>2. Number(p, 1) >= 1 /\ Number(p, 1) \in Nat
  BY <1>1, NumberOfCharacter, NumberType
<1>3. Number(p, 1) <= Number(p, Len(p))
  BY <1>1, NumberGrows
<1>4. Len(Fields(p)) = Number(p, Len(p)) /\ Number(p, Len(p)) \in Nat
  BY <1>1, FieldsType, NumberType
<1> QED
  BY <1>2, <1>3, <1>4

----------------------------------------------------------------------------
(* What is stored of apps *)

Names(A) == {NormalizedName(a.name) : a \in A}
Tables(A) ==
    {t \in UNION {[D -> {AppEntry(a) : a \in A}] : D \in SUBSET Names(A)} :
        \A k \in DOMAIN t : \E a \in A : t[k] = AppEntry(a) /\ k = NormalizedName(a.name)}
StoreStep(A) == [p \in Tables(A) \X A |-> StoreOne(p[1], p[2])]

LEMMA NoTable ==
  ASSUME NEW A
  PROVE  <<>> \in Tables(A)
<1> DEFINE none == <<>>
           E == {AppEntry(a) : a \in A}
<1>1. DOMAIN none = {} /\ none \in [{} -> E] /\ {} \in SUBSET Names(A)
  OBVIOUS
<1> HIDE DEF none, E
<1>2. none \in UNION {[D -> E] : D \in SUBSET Names(A)}
  BY <1>1
<1>3. none \in Tables(A)
  BY <1>1, <1>2 DEF Tables, E
<1> QED
  BY <1>3 DEF none

LEMMA StoreOneType ==
  ASSUME NEW A, NEW t \in Tables(A), NEW app \in A
  PROVE  StoreOne(t, app) \in Tables(A)
<1> DEFINE E == {AppEntry(a) : a \in A}
           name == NormalizedName(app.name)
           D == DOMAIN t \cup {name}
           u == [k \in D |-> IF k = name THEN AppEntry(app) ELSE t[k]]
           Known(k, e) == \E a \in A : e = AppEntry(a) /\ k = NormalizedName(a.name)
<1>1. PICK C \in SUBSET Names(A) : t \in [C -> E]
  BY DEF Tables
<1>2. \A k \in DOMAIN t : Known(k, t[k])
  BY DEF Tables
<1>3. name \in Names(A) /\ Known(name, AppEntry(app)) /\ AppEntry(app) \in E
  BY DEF Names
<1> HIDE DEF E, Known, name
<1>4. D \in SUBSET Names(A) /\ u \in [D -> E]
  BY <1>1, <1>3
<1>5. \A k \in D : Known(k, u[k])
  BY <1>2, <1>3
<1>6. StoreOne(t, app) = IF Routable(app) THEN u ELSE t
  BY DEF StoreOne, name
<1>7. DOMAIN u = D
  OBVIOUS
<1> HIDE DEF u, D
<1>8. u \in Tables(A)
  BY <1>4, <1>5, <1>7 DEF Tables, Known, E
<1> QED
  BY <1>6, <1>8

LEMMA StoreIsFold ==
  ASSUME NEW A, NEW apps \in Seq(A)
  PROVE  StoredApps(apps) \in Tables(A)
<1> DEFINE n == Len(apps)
           T == Tables(A)
           step == StoreStep(A)
           Recursion(f) == f = [s \in SUBSET (1 .. n) |->
                                  IF s = {} THEN <<>> ELSE StoreOne(f[s \ {Max(s)}], apps[Max(s)])]
<1>1. DOMAIN apps = 1 .. n /\ n \in Nat /\ \A i \in 1 .. n : apps[i] \in A
  BY LenProperties, ElementOfSeq
<1>2. step \in [T \X A -> T] /\ <<>> \in T
  <2>1. \A p \in T \X A : StoreOne(p[1], p[2]) \in T
    BY StoreOneType
  <2>2. <<>> \in T
    BY NoTable
  <2> HIDE DEF T
  <2> QED
    BY <2>1, <2>2 DEF StoreStep, T
<1> HIDE DEF T, step
<1>4. PICK g : IsFold(T, A, <<>>, step, apps, g)
  BY <1>2, FoldOfSeq
<1>5. Recursion(g)
  <2>1. ASSUME NEW s \in SUBSET (1 .. n), s # {}
        PROVE  g[s] = StoreOne(g[s \ {Max(s)}], apps[Max(s)])
    <3>1. Max(s) \in 1 .. n
      BY <1>1, <2>1, Greatest
    <3>2. g[s] = step[<<g[s \ {Max(s)}], apps[Max(s)]>>] /\ g[s \ {Max(s)}] \in T /\ apps[Max(s)] \in A
      BY <1>1, <1>4, <2>1, <3>1 DEF IsFold
    <3> QED
      BY <3>2 DEF step, StoreStep, T
  <2> QED
    BY <1>4, <2>1 DEF IsFold
<1> DEFINE f == CHOOSE h : Recursion(h)
<1>6. Recursion(f)
  BY <1>5
<1>7. StoredApps(apps) = f[1 .. n]
  BY <1>1 DEF StoredApps, FoldLeft, MapThenFoldSet
<1>8. ASSUME NEW h, Recursion(h), NEW k \in 0 .. n - 1
      PROVE  h[1 .. k + 1] = StoreOne(h[1 .. k], apps[k + 1])
  <2> DEFINE s == 1 .. k + 1
  <2>1. s \in SUBSET (1 .. n) /\ k \in Nat
    BY <1>1
  <2>2. Max(s) = k + 1 /\ s \ {k + 1} = 1 .. k /\ s # {}
    BY <2>1, UpTo
  <2> HIDE DEF s
  <2>3. h[s] = StoreOne(h[s \ {Max(s)}], apps[Max(s)])
    BY <1>8, <2>1, <2>2
  <2> QED
    BY <2>2, <2>3 DEF s
<1>9. f[{}] = g[{}]
  BY <1>5, <1>6
<1> HIDE DEF f, Recursion
<1>10. f[1 .. n] = g[1 .. n]
  <2>1. \A k \in 0 .. n - 1 : f[1 .. k] = g[1 .. k] => f[1 .. k + 1] = g[1 .. k + 1]
    BY <1>5, <1>6, <1>8
  <2> QED
    BY <1>1, <1>9, <2>1, SameValues
<1>11. g[1 .. n] \in T
  BY <1>4 DEF IsFold
<1> QED
  BY <1>7, <1>10, <1>11 DEF T

(* An entry is found under the fields of its app's name, the last first.   *)
NamesKept(entry) ==
    entry # None => \A k \in DOMAIN entry : ~Lost(entry[k].app) => k = Reverse(Fields(entry[k].app))

LEMMA StoredUnderNames ==
  ASSUME AppAssumption, NEW apps \in Apps
  PROVE  NamesKept(StoredApps(apps))
<1> DEFINE A == ToSet(apps)
           t == StoredApps(apps)
<1>1. apps \in Seq(A) /\ \A a \in A : a.name \in Seq(ToSet(a.name))
  BY DEF AppAssumption
<1> HIDE DEF A
<1>2. t \in Tables(A)
  BY <1>1, StoreIsFold
<1>3. \A k \in DOMAIN t : \E a \in A : t[k] = AppEntry(a) /\ k = NormalizedName(a.name)
  BY <1>2 DEF Tables
<1> HIDE DEF t
<1>4. ASSUME NEW k \in DOMAIN t, ~Lost(t[k].app)
      PROVE  k = Reverse(Fields(t[k].app))
  <2>1. PICK a \in A : t[k] = AppEntry(a) /\ k = NormalizedName(a.name)
    BY <1>3
  <2>2. t[k].app = a.name
    BY <2>1 DEF AppEntry
  <2> DEFINE S == ToSet(a.name) \cup {Sep}
  <2>3. a.name \in Seq(S) /\ Sep \in S
    BY <1>1
  <2> HIDE DEF S
  <2>4. Component(a.name, NoLimit).fields = Fields(a.name)
    BY <1>4, <2>2, <2>3, AllFields
  <2> QED
    BY <2>1, <2>2, <2>4 DEF NormalizedName
<1> QED
  BY <1>4 DEF NamesKept, t

----------------------------------------------------------------------------
(* The search: a request at some level has found none for any shorter part *)
(* of its path; the level is of a part that the path has, and what is said *)
(* of the last one tried depends on where the request is.                  *)
Prefix(n) == SubSeq(Fields(req.path), 1, n)
NFields == Len(Fields(req.path))

KnownInv ==
    /\ NamesKept(svcapps)
    /\ req.pc # "idle" => req.path \in Paths /\ NamesKept(req.svc)

LevelInv ==
    /\ req.level \in 1 .. NFields /\ req.level <= ResolveLimit
    /\ \A m \in 1 .. req.level - 1 : ~IsService(Prefix(m))

AppsAnswer(result) ==
    req.svc # None /\ ServiceName \notin LeaderNames =>
        \A k \in AppsOf(Prefix(req.level)) : result.url = req.svc[k].url

AnswerInv ==
    /\ req.pc = "dns" => ~IsService(Prefix(req.level))
    /\ req.pc = "done" /\ req.result.status = 404 =>
          /\ ~IsService(Prefix(req.level))
          /\ req.level = NFields \/ req.level = ResolveLimit
    /\ req.pc = "done" /\ req.result.status = 200 =>
          req.result.service = ServiceName /\ AppsAnswer(req.result)

RouteInv == req.pc \in Asked /\ ~Lost(req.path) => LevelInv /\ AnswerInv

FindInv == ShapeInv /\ KnownInv /\ RouteInv

LEMMA PathHasFields ==
  ASSUME PathAssumption, NEW p \in Paths
  PROVE  Len(Fields(p)) \in Nat \ {0}
<1>1. p \in Seq(ToSet(p)) /\ p # <<>> /\ Clean(p)
  BY DEF PathAssumption
<1> QED
  BY <1>1, SomeField

(* What a request tries at its level, and what it would ask for. *)
LEMMA LevelFields ==
  ASSUME PathAssumption, FindInv, req.pc \in Asked, ~Lost(req.path)
  PROVE  /\ RealPath = Prefix(req.level) /\ Len(Prefix(req.level)) = req.level
         /\ Component(req.path, req.level).more <=> req.level < NFields
         /\ Fields(RewrittenPath) = SubSeq(Fields(req.path), req.level + 1, NFields)
<1> DEFINE p == req.path
           S == ToSet(p) \cup {Sep}
           L == req.level
<1>1. p \in Paths /\ L \in 1 .. Len(Fields(p))
  BY DEF FindInv, KnownInv, RouteInv, LevelInv, NFields, Asked
<1>2. p \in Seq(S) /\ Sep \in S /\ Clean(p) /\ ~Lost(p)
  BY <1>1 DEF PathAssumption
<1> HIDE DEF p, S, L
<1>3. LET real == Component(p, L).fields
          after == SubSeq(p, Len(Joined(real)) + 1, Len(p))
      IN  /\ real = SubSeq(Fields(p), 1, L)
          /\ Component(p, L).more <=> L < Len(Fields(p))
          /\ Fields(IF after = <<>> THEN <<Sep>> ELSE after) = SubSeq(Fields(p), L + 1, Len(Fields(p)))
  BY <1>1, <1>2, FirstFields
<1>4. Len(SubSeq(Fields(p), 1, L)) = L
  <2> DEFINE F == Fields(p)
             T == Seq(S)
  <2>1. F \in Seq(T) /\ L \in 1 .. Len(F)
    BY <1>1, <1>2, FieldsType
  <2> HIDE DEF F, T
  <2>2. Len(F) \in Nat /\ \A i \in 1 .. L : F[i] \in T
    BY <2>1, LenProperties, ElementOfSeq
  <2>3. Len(SubSeq(F, 1, L)) = L
    BY <2>1, <2>2, SubSeqProperties
  <2> QED
    BY <2>3 DEF F
<1> QED
  BY <1>3, <1>4 DEF p, L, RealPath, Rest, RewrittenPath, Prefix, NFields

(* Whatever app has the name that is tried is found under it. *)
LEMMA AppsUnderName ==
  ASSUME PathAssumption, FindInv, req.pc \in Asked, ~Lost(req.path), req.svc # None,
         NEW k \in AppsOf(Prefix(req.level))
  PROVE  k = ServiceName /\ k \in DOMAIN req.svc
<1>1. k \in DOMAIN req.svc /\ ~Lost(req.svc[k].app) /\ Fields(req.svc[k].app) = Prefix(req.level)
  BY DEF AppsOf
<1>2. k = Reverse(Fields(req.svc[k].app))
  BY <1>1 DEF FindInv, KnownInv, NamesKept, Asked
<1>3. RealPath = Prefix(req.level)
  BY LevelFields
<1> QED
  BY <1>1, <1>2, <1>3 DEF ServiceName

(* No app of that name: whether there is a service is up to Mesos. *)
LEMMA NoAppOfName ==
  ASSUME PathAssumption, FindInv, req.pc \in Asked, ~Lost(req.path), ~IsApp
  PROVE  /\ req.svc # None /\ ServiceName \notin LeaderNames => AppsOf(Prefix(req.level)) = {}
         /\ IsService(Prefix(req.level)) => req.mes # None /\ Framework.webui \notin {None, Empty}
<1>1. req.svc # None /\ ServiceName \notin LeaderNames => AppsOf(Prefix(req.level)) = {}
  BY AppsUnderName DEF IsApp
<1>2. Reverse(Prefix(req.level)) = ServiceName
  BY LevelFields DEF ServiceName
<1>3. Framework.webui = IF ServiceName \in DOMAIN req.mes.byId THEN req.mes.byId[ServiceName].webui
                        ELSE IF ServiceName \in DOMAIN req.mes.byName THEN req.mes.byName[ServiceName].webui
                        ELSE None
  BY DEF Framework
<1> QED
  BY <1>1, <1>2, <1>3 DEF IsService

(* What a step of the search leaves alone. *)
SameSearch == /\ ShapeInv' /\ svcapps' = svcapps
              /\ UNCHANGED <<req.path, req.svc, req.mes, req.level>>

LEMMA SearchGoesOn ==
  ASSUME FindInv, req.pc \in Asked, SameSearch, req'.pc \in Asked, ~Lost(req.path) => AnswerInv'
  PROVE  FindInv'
<1>1. KnownInv'
  BY DEF FindInv, KnownInv, SameSearch, Asked, NamesKept
<1>2. ~Lost(req.path) => LevelInv'
  BY DEF FindInv, RouteInv, LevelInv, SameSearch, NFields, Prefix, IsService, AppsOf
<1>3. Lost(req.path') <=> Lost(req.path)
  BY DEF SameSearch
<1> QED
  BY <1>1, <1>2, <1>3 DEF FindInv, RouteInv, SameSearch

LEMMA AnswerGoesOn ==
  ASSUME FindInv, req.pc \in Asked, NEW r, Answer(r), UNCHANGED svcapps,
         ~Lost(req.path) =>
             /\ r.status = 404 => /\ ~IsService(Prefix(req.level))
                                  /\ req.level = NFields \/ req.level = ResolveLimit
             /\ r.status = 200 => r.service = ServiceName /\ AppsAnswer(r)
  PROVE  FindInv'
<1>1. SameSearch /\ req'.pc = "done" /\ req'.result = r
  BY AnswerKeeps DEF FindInv, SameSearch
<1>2. /\ ServiceName' = ServiceName /\ NFields' = NFields
      /\ Prefix(req.level)' = Prefix(req.level) /\ AppsOf(Prefix(req.level))' = AppsOf(Prefix(req.level))
      /\ IsService(Prefix(req.level))' = IsService(Prefix(req.level))
  BY <1>1 DEF SameSearch, ServiceName, RealPath, NFields, Prefix, AppsOf, IsService
<1>3. AppsAnswer(r)' <=> AppsAnswer(r)
  BY <1>1, <1>2 DEF AppsAnswer, SameSearch
<1>4. ~Lost(req.path) => AnswerInv'
  BY <1>1, <1>2, <1>3 DEF AnswerInv, SameSearch, AppsAnswer
<1> QED
  BY <1>1, <1>4, SearchGoesOn DEF Asked

LEMMA NextLevelGoesOn ==
  ASSUME PathAssumption, FindInv, req.pc \in Asked, NextLevel, UNCHANGED svcapps,
         ~Lost(req.path) => ~IsService(Prefix(req.level))
  PROVE  FindInv'
<1>1. CASE Component(req.path, req.level).more /\ req.level < ResolveLimit
  <2>1. req' = [req EXCEPT !.pc = "resolve", !.level = @ + 1]
    BY <1>1 DEF NextLevel
  <2>2. /\ DOMAIN req' = DOMAIN req /\ req'.pc = "resolve" /\ req'.level = req.level + 1
        /\ UNCHANGED <<req.path, req.svc, req.mes>>
    BY <2>1 DEF FindInv, ShapeInv
  <2>3. ShapeInv'
    BY <2>2 DEF FindInv, ShapeInv, Asked
  <2>4. KnownInv'
    BY <2>2 DEF FindInv, KnownInv, Asked, NamesKept
  <2>5. ASSUME ~Lost(req.path) PROVE LevelInv' /\ AnswerInv'
    <3>1. /\ req.level \in 1 .. NFields /\ req.level <= ResolveLimit
          /\ \A m \in 1 .. req.level - 1 : ~IsService(Prefix(m))
      BY <2>5 DEF FindInv, RouteInv, LevelInv
    <3>2. req.level < NFields
      BY <1>1, <2>5, LevelFields
    <3>3. NFields' = NFields /\ \A m : IsService(Prefix(m))' = IsService(Prefix(m))
      BY <2>2 DEF NFields, Prefix, IsService, AppsOf
    <3>4. ResolveLimit \in Nat
      BY DEF PathAssumption
    <3>5. NFields \in Nat
      BY PathHasFields DEF FindInv, KnownInv, Asked, NFields
    <3>6. req'.level \in 1 .. NFields /\ req'.level <= ResolveLimit
      BY <1>1, <2>2, <3>1, <3>2, <3>4, <3>5
    <3>7. \A m \in 1 .. req'.level - 1 : ~IsService(Prefix(m))
      <4>1. \A m \in 1 .. req'.level - 1 : m = req.level \/ m \in 1 .. req.level - 1
        BY <2>2, <3>1, <3>5
      <4> QED
        BY <2>5, <3>1, <4>1
    <3>8. LevelInv'
      BY <3>3, <3>6, <3>7 DEF LevelInv
    <3> QED
      BY <2>2, <3>8 DEF AnswerInv
  <2>6. Lost(req.path') <=> Lost(req.path)
    BY <2>2
  <2> QED
    BY <2>3, <2>4, <2>5, <2>6 DEF FindInv, RouteInv
<1>2. CASE ~(Component(req.path, req.level).more /\ req.level < ResolveLimit)
  <2>1. Answer(NotFound)
    BY <1>2 DEF NextLevel
  <2>2. ~Lost(req.path) => req.level = NFields \/ req.level = ResolveLimit
    <3> SUFFICES ASSUME ~Lost(req.path) PROVE req.level = NFields \/ req.level = ResolveLimit
      OBVIOUS
    <3>1. req.level \in 1 .. NFields /\ req.level <= ResolveLimit /\ ResolveLimit \in Nat
      BY DEF FindInv, RouteInv, LevelInv, PathAssumption
    <3>2. ~(req.level < NFields) \/ ~(req.level < ResolveLimit)
      BY <1>2, LevelFields
    <3>3. NFields \in Nat
      BY PathHasFields DEF FindInv, KnownInv, Asked, NFields
    <3> QED
      BY <3>1, <3>2, <3>3
  <2> QED
    BY <2>1, <2>2, AnswerGoesOn, AnswersAreDistinct
<1> QED
  BY <1>1, <1>2

LEMMA FindInit ==
  ASSUME Init
  PROVE  FindInv
BY DEF Init, FindInv, ShapeInv, KnownInv, RouteInv, NamesKept, NoRequest, Asked

(* The request is the same, whatever the cache has now. *)
LEMMA SameRequest ==
  ASSUME FindInv, UNCHANGED req, NamesKept(svcapps)'
  PROVE  FindInv'
<1>1. ShapeInv' = ShapeInv
  BY DEF ShapeInv
<1>2. KnownInv'
  <2>1. NamesKept(req.svc)' <=> NamesKept(req.svc)
    BY DEF NamesKept
  <2> QED
    BY <2>1 DEF FindInv, KnownInv
<1>3. \A m : /\ Prefix(m)' = Prefix(m) /\ AppsOf(Prefix(m))' = AppsOf(Prefix(m))
             /\ IsService(Prefix(m))' = IsService(Prefix(m))
  BY DEF Prefix, AppsOf, IsService
<1>4. NFields' = NFields /\ ServiceName' = ServiceName /\ req' = req
  BY DEF NFields, ServiceName, RealPath
<1>5. LevelInv' = LevelInv
  BY <1>3, <1>4 DEF LevelInv
<1>6. AnswerInv' = AnswerInv
  BY <1>3, <1>4 DEF AnswerInv, AppsAnswer
<1>7. RouteInv' = RouteInv
  BY <1>4, <1>5, <1>6 DEF RouteInv
<1> QED
  BY <1>1, <1>2, <1>7 DEF FindInv

LEMMA FindCaches ==
  ASSUME AppAssumption, FindInv, MarathonAnswers \/ MesosAnswers \/ CacheTooOld
  PROVE  FindInv'
<1>1. UNCHANGED req
  BY DEF MarathonAnswers, MesosAnswers, CacheTooOld
<1>2. NamesKept(svcapps)'
  <2>1. CASE MarathonAnswers
    BY <2>1, StoredUnderNames DEF MarathonAnswers, NamesKept
  <2>2. CASE UNCHANGED svcapps \/ svcapps' = None
    BY <2>2 DEF FindInv, KnownInv, NamesKept
  <2> QED
    BY <2>1, <2>2 DEF MesosAnswers, CacheTooOld
<1> QED
  BY <1>1, <1>2, SameRequest

LEMMA FindBegin ==
  ASSUME FindInv, Begin
  PROVE  FindInv'
<1>1. PICK p \in Paths : req' = [pc |-> "fetch", path |-> p, svc |-> svcapps]
  BY DEF Begin
<1>2. svcapps' = svcapps
  BY DEF Begin
<1> QED
  BY <1>1, <1>2 DEF FindInv, ShapeInv, KnownInv, RouteInv, NamesKept, Asked

LEMMA FindFetch ==
  ASSUME PathAssumption, FindInv, FetchMesos
  PROVE  FindInv'
<1>1. /\ req'.pc = "resolve" /\ req'.level = 1 /\ req'.path = req.path /\ req'.svc = req.svc
      /\ {"pc", "path", "svc", "mes", "level", "result"} \subseteq DOMAIN req'
      /\ UNCHANGED svcapps /\ req.pc = "fetch"
  BY DEF FetchMesos
<1>2. ShapeInv' /\ KnownInv'
  BY <1>1 DEF FindInv, ShapeInv, KnownInv, NamesKept, Asked
<1>3. LevelInv'
  <2>1. req'.path \in Paths
    BY <1>1 DEF FindInv, KnownInv
  <2>2. NFields' \in Nat \ {0}
    BY <2>1, PathHasFields DEF NFields
  <2>3. ResolveLimit \in Nat \ {0}
    BY DEF PathAssumption
  <2>4. 1 .. req'.level - 1 = {}
    BY <1>1
  <2> QED
    BY <1>1, <2>2, <2>3, <2>4 DEF LevelInv
<1> QED
  BY <1>1, <1>2, <1>3 DEF FindInv, RouteInv, AnswerInv

LEMMA FindResolve ==
  ASSUME PathAssumption, FindInv, Resolve
  PROVE  FindInv'
<1>1. req.pc \in Asked /\ UNCHANGED svcapps /\ req.pc = "resolve"
  BY DEF Resolve, Asked
<1>2. CASE Answer(Unavailable)
  BY <1>1, <1>2, AnswerGoesOn, AnswersAreDistinct
<1>3. CASE IsApp /\ Answer(Routed(req.svc[ServiceName].url))
  <2> DEFINE r == Routed(req.svc[ServiceName].url)
  <2>1. r.status = 200 /\ r.service = ServiceName /\ r.url = req.svc[ServiceName].url
    BY DEF Routed
  <2>2. ~Lost(req.path) => AppsAnswer(r)
    <3> HIDE DEF r
    <3> QED
      BY <1>1, <2>1, AppsUnderName DEF AppsAnswer
  <2> HIDE DEF r
  <2>3. Answer(r)
    BY <1>3 DEF r
  <2> QED
    BY <1>1, <2>1, <2>2, <2>3, AnswerGoesOn
<1>4. CASE ~IsApp /\ req.mes # None /\ Framework.webui = None /\ NextLevel
  BY <1>1, <1>4, NoAppOfName, NextLevelGoesOn
<1>5. CASE ~IsApp /\ req.mes # None /\ Framework.webui = Empty /\ req' = [req EXCEPT !.pc = "dns"]
  <2>1. /\ DOMAIN req' = DOMAIN req /\ req'.pc = "dns"
        /\ UNCHANGED <<req.path, req.svc, req.mes, req.level>>
    BY <1>1, <1>5 DEF FindInv, ShapeInv
  <2>2. SameSearch
    BY <1>1, <2>1 DEF SameSearch, FindInv, ShapeInv, Asked
  <2>3. ~Lost(req.path) => AnswerInv'
    <3>1. IsService(Prefix(req.level))' = IsService(Prefix(req.level))
      BY <2>1 DEF Prefix, IsService, AppsOf
    <3>2. ~Lost(req.path) => ~IsService(Prefix(req.level))
      BY <1>1, <1>5, NoAppOfName
    <3> QED
      BY <2>1, <3>1, <3>2 DEF AnswerInv
  <2> QED
    BY <1>1, <2>1, <2>2, <2>3, SearchGoesOn DEF Asked
<1>6. CASE ~IsApp /\ \E url : Answer(Routed(url))
  <2>1. PICK url : Answer(Routed(url))
    BY <1>6
  <2> DEFINE r == Routed(url)
  <2>2. r.status = 200 /\ r.service = ServiceName
    BY DEF Routed
  <2> HIDE DEF r
  <2>3. Answer(r)
    BY <2>1 DEF r
  <2>4. ~Lost(req.path) => AppsAnswer(r)
    BY <1>1, <1>6, NoAppOfName DEF AppsAnswer
  <2> QED
    BY <1>1, <2>2, <2>3, <2>4, AnswerGoesOn
<1>7. \/ Answer(Unavailable)
      \/ IsApp /\ Answer(Routed(req.svc[ServiceName].url))
      \/ ~IsApp /\ req.mes # None /\ Framework.webui = None /\ NextLevel
      \/ ~IsApp /\ req.mes # None /\ Framework.webui = Empty /\ req' = [req EXCEPT !.pc = "dns"]
      \/ ~IsApp /\ \E url : Answer(Routed(url))
  BY DEF Resolve
<1> QED
  BY <1>2, <1>3, <1>4, <1>5, <1>6, <1>7

LEMMA FindDns ==
  ASSUME PathAssumption, FindInv, MesosDnsAnswers
  PROVE  FindInv'
<1>1. req.pc \in Asked /\ UNCHANGED svcapps /\ req.pc = "dns"
  BY DEF MesosDnsAnswers, Asked
<1>2. ~Lost(req.path) => ~IsService(Prefix(req.level))
  BY <1>1 DEF FindInv, RouteInv, AnswerInv
<1>3. CASE Answer(Routed(DnsAddress))
  <2> DEFINE r == Routed(DnsAddress)
  <2>1. r.status = 200 /\ r.service = ServiceName
    BY DEF Routed
  <2> HIDE DEF r
  <2>2. Answer(r)
    BY <1>3 DEF r
  <2>3. ~Lost(req.path) => AppsAnswer(r)
    <3> SUFFICES ASSUME ~Lost(req.path), req.svc # None, ServiceName \notin LeaderNames
                 PROVE  AppsOf(Prefix(req.level)) = {}
      BY DEF AppsAnswer
    <3>1. Reverse(Prefix(req.level)) = ServiceName
      BY <1>1, LevelFields DEF ServiceName
    <3> QED
      BY <1>2, <3>1 DEF IsService
  <2> QED
    BY <1>1, <2>1, <2>2, <2>3, AnswerGoesOn
<1>4. CASE NextLevel
  BY <1>1, <1>2, <1>4, NextLevelGoesOn
<1>5. CASE Answer(Unavailable)
  BY <1>1, <1>5, AnswerGoesOn, AnswersAreDistinct
<1> QED
  BY <1>3, <1>4, <1>5 DEF MesosDnsAnswers

LEMMA FindFinish ==
  ASSUME FindInv, Finish
  PROVE  FindInv'
BY DEF Finish, FindInv, ShapeInv, KnownInv, RouteInv, NamesKept, NoRequest, Asked

LEMMA FindStep ==
  ASSUME PathAssumption, AppAssumption, FindInv, [Next]_vars
  PROVE  FindInv'
<1>1. CASE UNCHANGED vars
  BY <1>1, SameRequest DEF vars, FindInv, KnownInv, NamesKept
<1>2. CASE Next
  BY <1>2, FindCaches, FindBegin, FindFetch, FindResolve, FindDns, FindFinish DEF Next
<1> QED
  BY <1>1, <1>2

LEMMA FindImplies ==
  ASSUME PathAssumption, FindInv
  PROVE  ShortestNameRouted
<1> DEFINE fields == Fields(req.path)
           noShorter(n) == \A m \in 1 .. n - 1 : ~IsService(SubSeq(fields, 1, m))
<1>1. ASSUME req.pc \in Asked, ~Lost(req.path)
      PROVE  /\ req.level \in 1 .. Len(fields) /\ req.level <= ResolveLimit /\ noShorter(req.level)
             /\ Len(fields) \in Nat /\ ResolveLimit \in Nat
  <2>1. req.path \in Paths
    BY <1>1 DEF FindInv, KnownInv, Asked
  <2>2. Len(fields) \in Nat /\ ResolveLimit \in Nat
    BY <2>1, PathHasFields DEF PathAssumption
  <2> QED
    BY <1>1, <2>2 DEF FindInv, RouteInv, LevelInv, NFields, Prefix
<1>2. ASSUME Answered(404), ~Lost(req.path)
      PROVE  noShorter(1 + (IF Len(fields) < ResolveLimit THEN Len(fields) ELSE ResolveLimit))
  <2>1. /\ req.pc \in Asked /\ ~IsService(SubSeq(fields, 1, req.level))
        /\ req.level = Len(fields) \/ req.level = ResolveLimit
    BY <1>2 DEF FindInv, RouteInv, AnswerInv, Answered, Asked, NFields, Prefix
  <2> HIDE DEF fields
  <2>2. 1 + (IF Len(fields) < ResolveLimit THEN Len(fields) ELSE ResolveLimit) = 1 + req.level
    BY <1>1, <1>2, <2>1
  <2>3. \A m \in 1 .. (1 + req.level) - 1 : m = req.level \/ m \in 1 .. req.level - 1
    BY <1>1, <1>2, <2>1
  <2>4. noShorter(1 + req.level)
    BY <1>1, <1>2, <2>1, <2>3
  <2> QED
    BY <2>2, <2>4
<1>3. ASSUME Answered(200), ~Lost(req.path)
      PROVE  LET n == Len(req.result.service) IN
             /\ req.result.service = Reverse(SubSeq(fields, 1, n))
             /\ noShorter(n)
             /\ req.svc # None /\ req.result.service \notin LeaderNames =>
                  \A k \in AppsOf(SubSeq(fields, 1, n)) : req.result.url = req.svc[k].url
             /\ Rewrites => Fields(RewrittenPath) = SubSeq(fields, n + 1, Len(fields))
  <2>1. req.pc \in Asked /\ req.result.service = ServiceName /\ AppsAnswer(req.result)
    BY <1>3 DEF FindInv, RouteInv, AnswerInv, Answered, Asked
  <2>2. /\ RealPath = SubSeq(fields, 1, req.level) /\ Len(SubSeq(fields, 1, req.level)) = req.level
        /\ Fields(RewrittenPath) = SubSeq(fields, req.level + 1, Len(fields))
    BY <1>3, <2>1, LevelFields DEF Prefix, NFields
  <2>3. ServiceName = Reverse(SubSeq(fields, 1, req.level))
    BY <2>2 DEF ServiceName
  <2>4. Len(ServiceName) = req.level
    <3> DEFINE x == SubSeq(fields, 1, req.level)
    <3>1. Len(x) = req.level /\ req.level \in Nat
      BY <1>1, <1>3, <2>1, <2>2
    <3>2. ServiceName = Reverse(x)
      BY <2>3
    <3> HIDE DEF x, fields
    <3>3. Len(Reverse(x)) = Len(x)
      BY <3>1 DEF Reverse
    <3> QED
      BY <3>1, <3>2, <3>3
  <2>5. noShorter(req.level)
    BY <1>1, <1>3, <2>1
  <2> HIDE DEF noShorter, fields
  <2> QED
    BY <2>1, <2>2, <2>3, <2>4, <2>5 DEF AppsAnswer, Prefix, fields
<1> QED
  BY <1>2, <1>3 DEF ShortestNameRouted

(* For any apps, frameworks, names and paths, and any refreshes while a    *)
(* request is resolved: the request goes to the app whose name its path    *)
(* begins with, the one with the fewest fields and before any framework,   *)
(* is refused only if there is none, and asks for the rest of its path     *)
(* (cache.lua, util.lua, service.lua).                                     *)
THEOREM ShortestNamesAreRouted == Spec => []ShortestNameRouted
<1>1. FindInv /\ [Next]_vars => FindInv'
  BY FindStep, PathAssumption, AppAssumption
<1>2. FindInv => ShortestNameRouted
  BY FindImplies, PathAssumption
<1>3. Init => FindInv
  BY FindInit
<1> QED
  BY <1>1, <1>2, <1>3, PTL DEF Spec
=============================================================================
