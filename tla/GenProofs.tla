------------------------------ MODULE GenProofs ------------------------------
(***************************************************************************)
(* What holds of GenResolver for any names, configurations and targets:    *)
(* the solution of the setters is a fixed point of their rounds, and what  *)
(* the resolver has computed so far, in any order of its search, is of it. *)
(* What holds of GenPackages for any arguments and templates: the          *)
(* configuration comes to the nodes, and no more than it.                  *)
(* What holds of GenParser for any texts: no piece of a text is lost, and  *)
(* what is parsed is the language.                                         *)
(***************************************************************************)
EXTENDS GenResolver, FiniteSetTheorems, WellFoundedInduction, SequenceTheorems, TLAPS

-----------------------------------------------------------------------------
(* Setters: what they mention are names                                    *)

IsConditions(conditions) ==
    /\ conditions \in Seq(ToSet(conditions))
    /\ \A condition \in ToSet(conditions) : condition[1] \in Names
IsSetter(s) == IsCalc(s.calc) /\ IsConditions(s.conditions)
AreScopes(scopes) ==
    /\ scopes \in Seq(ToSet(scopes))
    /\ \A scope \in ToSet(scopes) : IsScope(scope) /\ IsConditions(scope.conditions)

LEMMA OwnElements ==
  ASSUME NEW n \in Nat, NEW e, NEW s \in [1 .. n -> e]
  PROVE  s \in Seq(ToSet(s))
<1>1. \A i \in 1 .. n : s[i] \in ToSet(s)
  BY DEF ToSet
<1>2. s \in [1 .. n -> ToSet(s)]
  BY <1>1
<1> QED
  BY <1>2, SeqDef

LEMMA ConcatOf ==
  ASSUME NEW s, NEW t, s \in Seq(ToSet(s)), t \in Seq(ToSet(t))
  PROVE  s \o t \in Seq(ToSet(s \o t)) /\ ToSet(s \o t) \subseteq ToSet(s) \cup ToSet(t)
<1> DEFINE e == ToSet(s) \cup ToSet(t)
<1>1. s \in Seq(e) /\ t \in Seq(e)
  <2>1. ToSet(s) \subseteq e /\ ToSet(t) \subseteq e
    OBVIOUS
  <2> HIDE DEF e
  <2> QED
    BY <2>1
<1> HIDE DEF e
<1>2. s \o t \in Seq(e)
  BY <1>1
<1>3. \A i \in DOMAIN (s \o t) : (s \o t)[i] \in e
  BY <1>2
<1>4. s \o t \in Seq(ToSet(s \o t))
  <2>1. s \o t \in [1 .. Len(s \o t) -> e] /\ Len(s \o t) \in Nat
    BY <1>2, LenProperties
  <2> QED
    BY <2>1, OwnElements
<1>5. ToSet(s \o t) \subseteq e
  BY <1>3 DEF ToSet
<1> QED
  BY <1>4, <1>5 DEF e

LEMMA NoConditions == IsConditions(<<>>)
  BY DEF IsConditions, ToSet

LEMMA ConcatScopes ==
  ASSUME NEW s, NEW t, AreScopes(s), AreScopes(t)
  PROVE  AreScopes(s \o t)
<1>1. s \in Seq(ToSet(s)) /\ t \in Seq(ToSet(t))
  BY DEF AreScopes
<1>2. s \o t \in Seq(ToSet(s \o t)) /\ ToSet(s \o t) \subseteq ToSet(s) \cup ToSet(t)
  BY <1>1, ConcatOf
<1> QED
  BY <1>2 DEF AreScopes

LEMMA EntryScopes ==
  ASSUME NEW entry, IsEntry(entry)
  PROVE  AreScopes(add_conditional_scope(entry))
<1> DEFINE first == <<Scope(entry.must, entry.default, <<>>, FALSE)>>
           cases == entry.conditional
           AtCase(i) == Scope(cases[i].scope.must, cases[i].scope.default, cases[i].conditions, FALSE)
           further == [i \in DOMAIN cases |-> AtCase(i)]
<1>1. add_conditional_scope(entry) = first \o further
  BY DEF add_conditional_scope
<1>2. AreScopes(first)
  <2> DEFINE scope == Scope(entry.must, entry.default, <<>>, FALSE)
  <2>1. IsScope(scope)
    BY DEF Scope, IsScope, IsEntry
  <2>2. IsConditions(scope.conditions)
    BY DEF Scope, IsConditions, ToSet
  <2> HIDE DEF scope
  <2>3. <<scope>> \in Seq({scope}) /\ ToSet(<<scope>>) = {scope}
    BY DEF ToSet
  <2>4. AreScopes(<<scope>>)
    BY <2>1, <2>2, <2>3 DEF AreScopes
  <2> QED
    BY <2>4 DEF scope
<1>3. AreScopes(further)
  <2>1. ASSUME NEW i \in DOMAIN cases
        PROVE  IsScope(AtCase(i)) /\ IsConditions(AtCase(i).conditions)
    <3>1. cases[i] \in ToSet(cases)
      BY DEF ToSet
    <3>2. IsScope(cases[i].scope) /\ IsConditions(cases[i].conditions)
      BY <3>1 DEF IsEntry, IsConditions
    <3> QED
      BY <3>2 DEF Scope, IsScope
  <2>2. PICK n \in Nat : DOMAIN cases = 1 .. n
    BY DEF IsEntry
  <2> HIDE DEF AtCase, cases
  <2>3. further \in Seq(ToSet(further))
    BY <2>2 DEF ToSet
  <2>4. \A scope \in ToSet(further) : IsScope(scope) /\ IsConditions(scope.conditions)
    BY <2>1 DEF ToSet
  <2> QED
    BY <2>3, <2>4 DEF AreScopes
<1> HIDE DEF first, further
<1> QED
  BY <1>1, <1>2, <1>3, ConcatScopes

LEMMA RemovedScopes ==
  ASSUME NEW scopes, NEW entry, AreScopes(scopes)
  PROVE  AreScopes(remove_setters(scopes, entry))
<1> DEFINE Left(i) == [scopes[i] EXCEPT !.must = Without(scopes[i].must, Replaced(entry)),
                                        !.default = Without(scopes[i].default, Replaced(entry))]
           left == [i \in DOMAIN scopes |-> Left(i)]
<1>1. remove_setters(scopes, entry) = left
  BY DEF remove_setters
<1>2. ASSUME NEW i \in DOMAIN scopes
      PROVE  IsScope(Left(i)) /\ IsConditions(Left(i).conditions)
  <2>1. scopes[i] \in ToSet(scopes)
    BY DEF ToSet
  <2>2. IsScope(scopes[i]) /\ IsConditions(scopes[i].conditions)
    BY <2>1 DEF AreScopes
  <2>3. Left(i).conditions = scopes[i].conditions
    OBVIOUS
  <2> QED
    BY <2>2, <2>3 DEF IsScope, Without
<1>3. PICK n \in Nat : DOMAIN scopes = 1 .. n
  BY DEF AreScopes
<1> HIDE DEF Left
<1>4. left \in Seq(ToSet(left))
  <2>1. left \in [1 .. n -> {left[i] : i \in 1 .. n}]
    BY <1>3
  <2> HIDE DEF left
  <2> QED
    BY <2>1, OwnElements
<1>5. \A scope \in ToSet(left) : IsScope(scope) /\ IsConditions(scope.conditions)
  BY <1>2 DEF ToSet
<1> QED
  BY <1>1, <1>4, <1>5 DEF AreScopes

LEMMA AllScopes ==
  ASSUME NEW config \in Configs
  PROVE  AreScopes(Scopes(config))
<1> DEFINE base == remove_setters(add_conditional_scope(config.base), config.extension)
           extension == add_conditional_scope(config.extension)
           last == <<UserScope(config.user), LateScope(config.late)>>
<1>1. Scopes(config) = base \o extension \o last
  BY DEF Scopes
<1>2. AreScopes(base) /\ AreScopes(extension)
  BY EntryScopes, RemovedScopes, ConfigAssumption
<1>3. AreScopes(last)
  <2>1. IsScope(UserScope(config.user)) /\ IsConditions(UserScope(config.user).conditions)
    <3>1. IsScope(UserScope(config.user))
      <4> DEFINE must == [n \in DOMAIN config.user |-> Text(config.user[n])]
      <4>1. UserScope(config.user).must = must /\ UserScope(config.user).default = <<>>
        BY DEF UserScope, Scope
      <4>2. \A v : IsCalc(Text(v))
        BY DEF IsCalc, Text
      <4>3. \A n \in DOMAIN must : IsCalc(must[n])
        BY <4>2
      <4> HIDE DEF must
      <4> QED
        BY <4>1, <4>3 DEF IsScope
    <3>2. UserScope(config.user).conditions = <<>>
      BY DEF UserScope, Scope
    <3> QED
      BY <3>1, <3>2, NoConditions
  <2>2. IsScope(LateScope(config.late)) /\ IsConditions(LateScope(config.late).conditions)
    <3>1. IsScope(LateScope(config.late))
      <4> DEFINE must == [n \in config.late |-> LateExpr]
      <4>1. LateScope(config.late).must = must /\ LateScope(config.late).default = <<>>
        BY DEF LateScope, Scope
      <4>2. IsCalc(LateExpr)
        BY DEF IsCalc
      <4>3. \A n \in DOMAIN must : IsCalc(must[n])
        BY <4>2
      <4> HIDE DEF must
      <4> QED
        BY <4>1, <4>3 DEF IsScope
    <3>2. LateScope(config.late).conditions = <<>>
      BY DEF LateScope, Scope
    <3> QED
      BY <3>1, <3>2, NoConditions
  <2>3. last \in Seq(ToSet(last))
    BY DEF ToSet
  <2>4. ToSet(last) = {UserScope(config.user), LateScope(config.late)}
    BY DEF ToSet
  <2> HIDE DEF last
  <2> QED
    BY <2>1, <2>2, <2>3, <2>4 DEF AreScopes
<1> HIDE DEF base, extension, last
<1>4. AreScopes(base \o extension)
  BY <1>2, ConcatScopes
<1>5. AreScopes((base \o extension) \o last)
  BY <1>3, <1>4, ConcatScopes
<1> QED
  BY <1>1, <1>5

LEMMA SettersType ==
  ASSUME NEW config \in Configs, NEW name
  PROVE  /\ IsFiniteSet(DOMAIN Setters(config, name))
         /\ DOMAIN Setters(config, name) \subseteq Nat \X {TRUE, FALSE}
         /\ \A i \in DOMAIN Setters(config, name) : IsSetter(Setters(config, name)[i])
<1> DEFINE scopes == Scopes(config)
           numbers == {<<k, FALSE>> : k \in {k \in DOMAIN scopes : name \in DOMAIN scopes[k].must}}
                      \cup {<<k, TRUE>> : k \in {k \in DOMAIN scopes : name \in DOMAIN scopes[k].default}}
<1>1. Setters(config, name) = [i \in numbers |-> Setter(scopes[i[1]], name, i[2])]
  BY DEF Setters, SettersIn
<1>2. AreScopes(scopes)
  BY AllScopes
<1>3. ASSUME NEW i \in numbers
      PROVE  IsSetter(Setter(scopes[i[1]], name, i[2]))
  <2>1. /\ i[1] \in DOMAIN scopes
        /\ i[2] = TRUE => name \in DOMAIN scopes[i[1]].default
        /\ i[2] = FALSE => name \in DOMAIN scopes[i[1]].must
        /\ i[2] \in BOOLEAN
    <3>1. CASE \E k \in DOMAIN scopes : name \in DOMAIN scopes[k].must /\ i = <<k, FALSE>>
      <4> HIDE DEF scopes
      <4> QED
        BY <3>1
    <3>2. CASE \E k \in DOMAIN scopes : name \in DOMAIN scopes[k].default /\ i = <<k, TRUE>>
      <4> HIDE DEF scopes
      <4> QED
        BY <3>2
    <3> QED
      BY <3>1, <3>2
  <2> HIDE DEF scopes, numbers
  <2>2. scopes[i[1]] \in ToSet(scopes)
    BY <2>1 DEF ToSet
  <2>3. IsScope(scopes[i[1]]) /\ IsConditions(scopes[i[1]].conditions)
    BY <1>2, <2>2 DEF AreScopes
  <2> QED
    BY <2>1, <2>3 DEF IsSetter, Setter, IsScope
<1>4. IsFiniteSet(numbers) /\ numbers \subseteq Nat \X {TRUE, FALSE}
  <2>1. PICK n \in Nat : DOMAIN scopes = 1 .. n
    BY <1>2 DEF AreScopes
  <2>2. IsFiniteSet((1 .. n) \X {TRUE, FALSE})
    <3>1. IsFiniteSet(1 .. n)
      BY FS_Interval
    <3>2. IsFiniteSet({TRUE, FALSE})
      <4>1. IsFiniteSet({TRUE}) /\ IsFiniteSet({FALSE})
        BY FS_Singleton
      <4>2. IsFiniteSet({TRUE} \cup {FALSE})
        BY <4>1, FS_Union
      <4>3. {TRUE, FALSE} = {TRUE} \cup {FALSE}
        OBVIOUS
      <4> QED
        BY <4>2, <4>3
    <3> QED
      BY <3>1, <3>2, FS_Product
  <2>3. numbers \subseteq (1 .. n) \X {TRUE, FALSE} /\ numbers \subseteq Nat \X {TRUE, FALSE}
    <3> SUFFICES ASSUME NEW i \in numbers
                 PROVE  i \in (1 .. n) \X {TRUE, FALSE} /\ i \in Nat \X {TRUE, FALSE}
      OBVIOUS
    <3>1. CASE \E k \in DOMAIN scopes : i = <<k, FALSE>>
      <4>1. PICK k \in DOMAIN scopes : i = <<k, FALSE>>
        BY <3>1
      <4>2. k \in 1 .. n /\ k \in Nat
        BY <2>1
      <4> QED
        BY <4>1, <4>2
    <3>2. CASE \E k \in DOMAIN scopes : i = <<k, TRUE>>
      <4>1. PICK k \in DOMAIN scopes : i = <<k, TRUE>>
        BY <3>2
      <4>2. k \in 1 .. n /\ k \in Nat
        BY <2>1
      <4> QED
        BY <4>1, <4>2
    <3> QED
      BY <3>1, <3>2
  <2> HIDE DEF numbers
  <2> QED
    BY <2>2, <2>3, FS_Subset
<1> HIDE DEF numbers, scopes
<1> QED
  BY <1>1, <1>3, <1>4

Asked(s, i) == s.conditions[i][1]

LEMMA SetterFacts ==
  ASSUME NEW s, IsSetter(s)
  PROVE  /\ s.calc.parameters \subseteq Names
         /\ s.calc.kind = "late" => s.calc.parameters = {}
         /\ Len(s.conditions) \in Nat
         /\ DOMAIN s.conditions = 1 .. Len(s.conditions)
         /\ \A i \in DOMAIN s.conditions : Asked(s, i) \in Names
<1>1. s.calc.parameters \subseteq Names /\ (s.calc.kind = "late" => s.calc.parameters = {})
  <2>1. CASE \E params \in SUBSET Names : s.calc \in {Function(params), Asserting(params)}
    <3>1. PICK params \in SUBSET Names : s.calc \in {Function(params), Asserting(params)}
      BY <2>1
    <3>2. s.calc.parameters = params /\ s.calc.kind \in {"function", "asserts"}
      <4>1. /\ Function(params).parameters = params /\ Function(params).kind = "function"
            /\ Asserting(params).parameters = params /\ Asserting(params).kind = "asserts"
        BY DEF Function, Asserting
      <4> QED
        BY <3>1, <4>1
    <3> QED
      BY <3>2
  <2>2. CASE s.calc \in {LateExpr, Text(s.calc.value)}
    <3>0. LateExpr.parameters = {} /\ \A v : Text(v).parameters = {}
      BY DEF LateExpr, Text
    <3>1. s.calc.parameters = {}
      BY <2>2, <3>0
    <3> QED
      BY <3>1
  <2> QED
    BY <2>1, <2>2 DEF IsSetter, IsCalc
<1>2. s.conditions \in Seq(ToSet(s.conditions))
  BY DEF IsSetter, IsConditions
<1>3. Len(s.conditions) \in Nat /\ DOMAIN s.conditions = 1 .. Len(s.conditions)
  BY <1>2, LenProperties
<1>4. \A i \in DOMAIN s.conditions : Asked(s, i) \in Names
  BY DEF IsSetter, IsConditions, ToSet, Asked
<1> QED
  BY <1>1, <1>3, <1>4

LEMMA MentionsNames ==
  ASSUME NEW config \in Configs, NEW name
  PROVE  Mentions(config, name) \subseteq Names
<1>1. \A i \in DOMAIN Setters(config, name) : Mentioned(Setters(config, name)[i]) \subseteq Names
  BY SettersType, SetterFacts DEF Mentioned, Asked
<1> QED
  BY <1>1 DEF Mentions

-----------------------------------------------------------------------------
(* Induction                                                               *)

LEMMA Least ==
  ASSUME NEW T, T \subseteq Nat, T # {}
  PROVE  \E x \in T : \A y \in T : x <= y
<1> DEFINE R == OpToRel(<, Nat)
<1>1. \A x, y \in Nat : y < x => <<y, x>> \in R
  BY Zenon DEF OpToRel
<1>2. IsWellFoundedOn(R, Nat)
  BY NatLessThanWellFounded
<1> HIDE DEF R
<1>3. PICK x \in T : \A y \in T : <<y, x>> \notin R
  BY <1>2, WFMin
<1>4. \A y \in T : ~ y < x
  BY <1>1, <1>3
<1> QED
  BY <1>3, <1>4

LEMMA Induction ==
  ASSUME NEW A, 0 \in A, \A n \in Nat : n \in A => n + 1 \in A
  PROVE  Nat \subseteq A
<1> SUFFICES ASSUME Nat \ A # {} PROVE FALSE
  OBVIOUS
<1>1. PICK x \in Nat \ A : \A y \in Nat \ A : x <= y
  BY Least
<1>2. x # 0 /\ x - 1 \in Nat /\ x - 1 \notin Nat \ A
  BY <1>1
<1>3. (x - 1) + 1 \in A
  BY <1>2
<1> QED
  BY <1>1, <1>3

-----------------------------------------------------------------------------
(* What is decided of a setter stays so                                    *)

MetBefore(env, s, i) == \A j \in 1 .. (i - 1) : Met(env, s, j)

\* Conditions are tested one after the other: environments that agree on each
\* one whose predecessors are met agree on all that can be told of them
LEMMA SameTests ==
  ASSUME NEW s, IsSetter(s), NEW env, NEW other,
         \A i \in DOMAIN s.conditions : MetBefore(env, s, i) => other[Asked(s, i)] = env[Asked(s, i)]
  PROVE  /\ \A i \in 1 .. Len(s.conditions) + 1 : MetBefore(env, s, i) <=> MetBefore(other, s, i)
         /\ \A how : Blocks(env, s, how) <=> Blocks(other, s, how)
         /\ (\A i \in DOMAIN s.conditions : Met(env, s, i)) <=> (\A i \in DOMAIN s.conditions : Met(other, s, i))
<1> DEFINE n == Len(s.conditions)
           A == {i \in Nat : i > n \/ (MetBefore(env, s, i + 1) <=> MetBefore(other, s, i + 1))}
<1>1. n \in Nat /\ DOMAIN s.conditions = 1 .. n
  BY SetterFacts
<1> HIDE DEF n
<1>2. 0 \in A
  BY DEF MetBefore
<1>3. ASSUME NEW i \in Nat, i \in A
      PROVE  i + 1 \in A
  <2> SUFFICES ASSUME i + 1 <= n
               PROVE  MetBefore(env, s, (i + 1) + 1) <=> MetBefore(other, s, (i + 1) + 1)
    BY <1>1
  <2>1. MetBefore(env, s, i + 1) <=> MetBefore(other, s, i + 1)
    BY <1>1, <1>3
  <2>2. i + 1 \in DOMAIN s.conditions
    BY <1>1
  <2>3. MetBefore(env, s, i + 1) => (Met(env, s, i + 1) <=> Met(other, s, i + 1))
    BY <2>2 DEF Met, Asked
  <2>4. 1 .. (((i + 1) + 1) - 1) = (1 .. ((i + 1) - 1)) \cup {i + 1}
    OBVIOUS
  <2>5. \A e : MetBefore(e, s, (i + 1) + 1) <=> MetBefore(e, s, i + 1) /\ Met(e, s, i + 1)
    BY <2>4 DEF MetBefore
  <2> QED
    BY <2>1, <2>3, <2>5
<1>4. Nat \subseteq A
  <2> HIDE DEF A
  <2> QED
    BY <1>2, <1>3, Induction
<1>5. \A i \in 1 .. n + 1 : MetBefore(env, s, i) <=> MetBefore(other, s, i)
  <2> TAKE i \in 1 .. n + 1
  <2>1. i - 1 \in Nat /\ ~(i - 1 > n) /\ (i - 1) + 1 = i
    BY <1>1
  <2>2. i - 1 \in A
    BY <1>4, <2>1
  <2> QED
    BY <2>1, <2>2
<1>6. \A how : Blocks(env, s, how) <=> Blocks(other, s, how)
  <2> TAKE how
  <2>1. \A e : Blocks(e, s, how) <=>
                 \E i \in DOMAIN s.conditions : MetBefore(e, s, i) /\ e[Asked(s, i)].is = how
    BY DEF Blocks, MetBefore, Asked
  <2>2. \A i \in DOMAIN s.conditions : i \in 1 .. n + 1
    BY <1>1
  <2> QED
    BY <1>5, <2>1, <2>2
<1>7. \A e : (\A i \in DOMAIN s.conditions : Met(e, s, i)) <=> MetBefore(e, s, n + 1)
  <2>1. (n + 1) - 1 = n
    BY <1>1
  <2> QED
    BY <1>1, <2>1 DEF MetBefore
<1>8. n + 1 \in 1 .. n + 1
  BY <1>1
<1> QED
  BY <1>5, <1>6, <1>7, <1>8 DEF n

-----------------------------------------------------------------------------
(* A value, once known, stays when more is known                           *)

Grown(env, other) == \A n \in Names : env[n].is # "unresolved" => other[n] = env[n]

LEMMA Sizes ==
  ASSUME NEW some, IsFiniteSet(some)
  PROVE  /\ Cardinality(some) > 1 <=> some # {} /\ ~ \E i : some = {i}
         /\ Cardinality(some) = 1 <=> \E i : some = {i}
<1>1. Cardinality(some) \in Nat
  BY FS_CardinalityType
<1>2. Cardinality(some) = 0 <=> some = {}
  BY FS_EmptySet
<1>3. Cardinality(some) = 1 <=> \E i : some = {i}
  BY FS_Singleton
<1>4. Cardinality(some) > 1 <=> Cardinality(some) # 0 /\ Cardinality(some) # 1
  BY <1>1
<1> QED
  BY <1>2, <1>3, <1>4

LEMMA ByOneOf ==
  ASSUME NEW config, NEW name, NEW env, NEW setters, NEW some, IsFiniteSet(some)
  PROVE  /\ some = {} => ValueByOneOf(config, name, env, setters, some) = Error
         /\ \A i : some = {i} =>
              ValueByOneOf(config, name, env, setters, some) = ValueBy(config, name, env, setters[i])
         /\ (some # {} /\ ~ \E i : some = {i}) =>
              ValueByOneOf(config, name, env, setters, some) =
                IF \E i \in some : Has(env, setters[i], "unresolved") THEN Unresolved ELSE Error
<1>1. ASSUME NEW i, some = {i}
      PROVE  ValueByOneOf(config, name, env, setters, some) = ValueBy(config, name, env, setters[i])
  <2>1. (CHOOSE j \in some : TRUE) = i
    BY <1>1
  <2>2. Cardinality(some) = 1 /\ some # {}
    BY <1>1, Sizes
  <2> QED
    BY <2>1, <2>2 DEF ValueByOneOf
<1> QED
  BY <1>1, Sizes DEF ValueByOneOf

LEMMA ByGrows ==
  ASSUME NEW config, NEW name, NEW env, NEW other, NEW s, IsSetter(s), Grown(env, other),
         ValueBy(config, name, env, s) # Unresolved
  PROVE  ValueBy(config, name, other, s) = ValueBy(config, name, env, s)
<1>1. s.calc.parameters \subseteq Names
  BY SetterFacts
<1>2. CASE s.calc.kind = "late" \/ Has(env, s, "late")
  <2>1. Has(env, s, "late") => Has(other, s, "late")
    BY <1>1 DEF Has, Grown
  <2> QED
    BY <1>2, <2>1 DEF ValueBy
<1>3. CASE ~(s.calc.kind = "late" \/ Has(env, s, "late"))
  <2>1. ~Has(env, s, "unresolved")
    BY <1>3 DEF ValueBy
  <2>2. \A p \in s.calc.parameters : other[p] = env[p]
    BY <1>1, <2>1 DEF Has, Grown
  <2>3. \A how : Has(other, s, how) <=> Has(env, s, how)
    BY <2>2 DEF Has
  <2>4. Applied(s.calc, other) = Applied(s.calc, env)
    BY <2>2 DEF Applied
  <2> QED
    BY <2>3, <2>4 DEF ValueBy
<1> QED
  BY <1>2, <1>3

LEMMA Different ==
  /\ Unresolved.is = "unresolved" /\ Error.is = "error" /\ LateValue.is = "late"
  /\ \A v, u : Resolved(v, u).is = "resolved"
  BY DEF Unresolved, Error, LateValue, Resolved

LEMMA OneOfGrows ==
  ASSUME NEW config, NEW name, NEW env, NEW other, Grown(env, other),
         NEW setters, NEW some, IsFiniteSet(some), some \subseteq DOMAIN setters,
         \A i \in DOMAIN setters : IsSetter(setters[i]),
         ValueByOneOf(config, name, env, setters, Known(env, setters, some)) # Unresolved
  PROVE  ValueByOneOf(config, name, other, setters, Known(other, setters, some)) =
           ValueByOneOf(config, name, env, setters, Known(env, setters, some))
<1> DEFINE k == Known(env, setters, some)
           l == Known(other, setters, some)
<1>1. /\ IsFiniteSet(k) /\ IsFiniteSet(l)
      /\ k \subseteq some /\ l \subseteq some
  <2>1. k \subseteq some /\ l \subseteq some
    BY DEF Known
  <2> QED
    BY <2>1, FS_Subset
<1>2. \A i \in some : IsSetter(setters[i]) /\ setters[i].calc.parameters \subseteq Names
  BY SetterFacts
<1>3. \A i \in some : Has(env, setters[i], "late") => Has(other, setters[i], "late")
  BY <1>2 DEF Has, Grown
<1>4. \A i \in some :
        ~Has(env, setters[i], "unresolved") => \A how : Has(other, setters[i], how) <=> Has(env, setters[i], how)
  BY <1>2 DEF Has, Grown
<1>5. CASE some = {} \/ \E i : some = {i}
  <2>1. k = some /\ l = some
    BY <1>5, Sizes DEF Known
  <2>2. CASE some = {}
    BY <2>1, <2>2, ByOneOf
  <2>3. CASE \E i : some = {i}
    <3>1. PICK i : some = {i}
      BY <2>3
    <3>2. /\ ValueByOneOf(config, name, env, setters, k) = ValueBy(config, name, env, setters[i])
          /\ ValueByOneOf(config, name, other, setters, l) = ValueBy(config, name, other, setters[i])
      BY <2>1, <3>1, ByOneOf
    <3> QED
      BY <1>2, <3>1, <3>2, ByGrows
  <2> QED
    BY <1>5, <2>2, <2>3
<1>6. CASE some # {} /\ ~ \E i : some = {i}
  <2>1. /\ k = {i \in some : ~Has(env, setters[i], "late")}
        /\ l = {i \in some : ~Has(other, setters[i], "late")}
    BY <1>6, Sizes DEF Known
  <2>2. l \subseteq k
    BY <1>3, <2>1
  <2> DEFINE kv == ValueByOneOf(config, name, env, setters, k)
             lv == ValueByOneOf(config, name, other, setters, l)
  <2>a. kv # Unresolved
    OBVIOUS
  <2> HIDE DEF k, l
  <2>k. /\ k = {} => kv = Error
        /\ \A i : k = {i} => kv = ValueBy(config, name, env, setters[i])
        /\ (k # {} /\ ~ \E i : k = {i}) =>
             kv = IF \E i \in k : Has(env, setters[i], "unresolved") THEN Unresolved ELSE Error
    BY <1>1, ByOneOf
  <2>l. /\ l = {} => lv = Error
        /\ \A i : l = {i} => lv = ValueBy(config, name, other, setters[i])
        /\ (l # {} /\ ~ \E i : l = {i}) =>
             lv = IF \E i \in l : Has(other, setters[i], "unresolved") THEN Unresolved ELSE Error
    BY <1>1, ByOneOf
  <2> HIDE DEF kv, lv
  <2> SUFFICES lv = kv
    BY DEF k, l, kv, lv
  <2>3. CASE k = {}
    BY <2>2, <2>3, <2>k, <2>l
  <2>4. CASE \E i : k = {i}
    <3>1. PICK i : k = {i}
      BY <2>4
    <3>2. ValueBy(config, name, env, setters[i]) # Unresolved
      BY <3>1, <2>a, <2>k
    <3>3. ~Has(env, setters[i], "late") /\ i \in some
      BY <2>1, <3>1
    <3>4. ~Has(other, setters[i], "late")
      <4>1. CASE setters[i].calc.kind = "late"
        <5>1. setters[i].calc.parameters = {}
          BY <1>2, <3>3, <4>1, SetterFacts
        <5> QED
          BY <5>1 DEF Has
      <4>2. CASE setters[i].calc.kind # "late"
        <5>1. ~Has(env, setters[i], "unresolved")
          BY <3>2, <3>3, <4>2 DEF ValueBy
        <5> QED
          BY <1>4, <3>3, <5>1
      <4> QED
        BY <4>1, <4>2
    <3>5. l = {i}
      BY <2>1, <2>2, <3>1, <3>3, <3>4
    <3>6. ValueBy(config, name, other, setters[i]) = ValueBy(config, name, env, setters[i])
      BY <1>2, <3>2, <3>3, ByGrows
    <3> QED
      BY <3>1, <3>5, <3>6, <2>k, <2>l
  <2>5. CASE k # {} /\ ~ \E i : k = {i}
    <3>1. \A i \in k : ~Has(env, setters[i], "unresolved")
      BY <2>5, <2>a, <2>k
    <3>2. \A i \in k : ~Has(other, setters[i], "late") /\ ~Has(other, setters[i], "unresolved")
      BY <1>1, <1>4, <2>1, <3>1
    <3>3. l = k
      BY <1>1, <2>1, <2>2, <3>2
    <3> QED
      BY <2>5, <3>1, <3>2, <3>3, <2>k, <2>l
  <2> QED
    BY <2>3, <2>4, <2>5
<1> QED
  BY <1>5, <1>6

LEMMA ValueGrows ==
  ASSUME NEW config \in Configs, NEW name, NEW env, NEW other, Grown(env, other),
         ValueOf(config, name, env) # Unresolved
  PROVE  ValueOf(config, name, other) = ValueOf(config, name, env)
<1> DEFINE setters == Setters(config, name)
<1>1. IsFiniteSet(DOMAIN setters) /\ \A i \in DOMAIN setters : IsSetter(setters[i])
  BY SettersType
<1> HIDE DEF setters
<1>2. \A i \in DOMAIN setters : ~Blocks(env, setters[i], "unresolved")
  BY DEF ValueOf, ValueIn, setters
<1>3. ASSUME NEW i \in DOMAIN setters
      PROVE  /\ \A how : Blocks(env, setters[i], how) <=> Blocks(other, setters[i], how)
             /\ (\A k \in DOMAIN setters[i].conditions : Met(env, setters[i], k))
                  <=> (\A k \in DOMAIN setters[i].conditions : Met(other, setters[i], k))
  <2>1. IsSetter(setters[i])
    BY <1>1
  <2>2. \A k \in DOMAIN setters[i].conditions : Asked(setters[i], k) \in Names
    BY <2>1, SetterFacts
  <2>3. \A k \in DOMAIN setters[i].conditions :
          MetBefore(env, setters[i], k) => other[Asked(setters[i], k)] = env[Asked(setters[i], k)]
    BY <1>2, <2>2 DEF Grown, Blocks, MetBefore, Asked
  <2> QED
    BY <2>1, <2>3, SameTests
<1>4. Feasible(other, setters) = Feasible(env, setters)
  BY <1>3 DEF Feasible
<1> DEFINE some == Needed(setters, Feasible(env, setters))
<1>5. some \subseteq DOMAIN setters
  BY DEF Needed, Feasible
<1>6. IsFiniteSet(some)
  BY <1>1, <1>5, FS_Subset
<1> HIDE DEF some
<1>7. CASE \E i \in DOMAIN setters : Blocks(env, setters[i], "error")
  BY <1>2, <1>3, <1>7 DEF ValueOf, ValueIn, setters
<1>8. CASE ~ \E i \in DOMAIN setters : Blocks(env, setters[i], "error")
  <2>1. /\ ValueOf(config, name, env) =
             ValueByOneOf(config, name, env, setters, Known(env, setters, some))
        /\ ValueOf(config, name, other) =
             ValueByOneOf(config, name, other, setters, Known(other, setters, some))
    BY <1>2, <1>3, <1>4, <1>8 DEF ValueOf, ValueIn, setters, some
  <2> QED
    BY <1>1, <1>5, <1>6, <2>1, OneOfGrows
<1> QED
  BY <1>7, <1>8

-----------------------------------------------------------------------------
(* The rounds of Solution: they end with values that follow from each      *)
(* other                                                                   *)

Start == [n \in Names |-> Unresolved]
After(config, env) == [n \in Names |-> ValueOf(config, n, env)]
Rounds(config, m, f) == f[0] = Start /\ \A k \in 0 .. (m - 1) : f[k + 1] = After(config, f[k])

LEMMA RoundsExist ==
  ASSUME NEW config
  PROVE  \A m \in Nat : \E f : Rounds(config, m, f)
<1> DEFINE A == {m \in Nat : \E f : Rounds(config, m, f)}
<1>1. 0 \in A
  <2> DEFINE f == [k \in {0} |-> Start]
  <2>1. f[0] = Start
    OBVIOUS
  <2> HIDE DEF f
  <2>2. Rounds(config, 0, f)
    BY <2>1 DEF Rounds
  <2> QED
    BY <2>2
<1>2. ASSUME NEW m \in Nat, m \in A
      PROVE  m + 1 \in A
  <2>1. PICK g : Rounds(config, m, g)
    BY <1>2
  <2> DEFINE f == [k \in 0 .. m + 1 |-> IF k <= m THEN g[k] ELSE After(config, g[m])]
  <2>2. (\A k \in 0 .. m : f[k] = g[k]) /\ f[m + 1] = After(config, g[m])
    OBVIOUS
  <2> HIDE DEF f
  <2>3. f[0] = Start
    BY <2>1, <2>2 DEF Rounds
  <2>4. \A k \in 0 .. ((m + 1) - 1) : f[k + 1] = After(config, f[k])
    <3> TAKE k \in 0 .. ((m + 1) - 1)
    <3>1. CASE k = m
      BY <2>2, <3>1
    <3>2. CASE k # m
      <4>1. k \in 0 .. (m - 1) /\ k + 1 \in 0 .. m /\ k \in 0 .. m
        BY <3>2
      <4>2. g[k + 1] = After(config, g[k])
        BY <2>1, <4>1 DEF Rounds
      <4> QED
        BY <2>2, <4>1, <4>2
    <3> QED
      BY <3>1, <3>2
  <2>5. Rounds(config, m + 1, f)
    BY <2>3, <2>4 DEF Rounds
  <2> QED
    BY <2>5
<1> HIDE DEF A
<1>3. Nat \subseteq A
  BY <1>1, <1>2, Induction
<1> QED
  BY <1>3 DEF A

LEMMA RoundsAgree ==
  ASSUME NEW config, NEW m \in Nat, NEW f, NEW l \in Nat, NEW g,
         Rounds(config, m, f), Rounds(config, l, g)
  PROVE  \A k \in Nat : k <= m /\ k <= l => f[k] = g[k]
<1> DEFINE A == {k \in Nat : k <= m /\ k <= l => f[k] = g[k]}
<1>1. 0 \in A
  BY DEF Rounds
<1>2. ASSUME NEW k \in Nat, k \in A
      PROVE  k + 1 \in A
  <2> SUFFICES ASSUME k + 1 <= m, k + 1 <= l PROVE f[k + 1] = g[k + 1]
    OBVIOUS
  <2>1. f[k] = g[k] /\ k \in 0 .. (m - 1) /\ k \in 0 .. (l - 1)
    BY <1>2
  <2> QED
    BY <2>1 DEF Rounds
<1> HIDE DEF A
<1>3. Nat \subseteq A
  BY <1>1, <1>2, Induction
<1> QED
  BY <1>3 DEF A

LEMMA SolutionIsARound ==
  ASSUME NEW config
  PROVE  \E r : /\ r[0] = Start
                /\ \A k \in Nat : r[k + 1] = After(config, r[k])
                /\ Solution(config) = r[Cardinality(Names)]
<1> DEFINE F(k) == CHOOSE f : Rounds(config, k, f)
           R == [k \in Nat |-> F(k)[k]]
           Body(g) == [k \in Nat |-> IF k = 0 THEN [n \in Names |-> Unresolved]
                                     ELSE [n \in Names |-> ValueOf(config, n, g[k - 1])]]
           C == CHOOSE g : g = Body(g)
<1>1. \A k \in Nat : Rounds(config, k, F(k))
  BY RoundsExist
<1> HIDE DEF F
<1>2. R[0] = Start
  BY <1>1 DEF Rounds
<1>3. \A k \in Nat : R[k + 1] = After(config, R[k])
  <2> TAKE k \in Nat
  <2>1. Rounds(config, k, F(k)) /\ Rounds(config, k + 1, F(k + 1))
    BY <1>1
  <2>2. F(k + 1)[k] = F(k)[k]
    BY <2>1, RoundsAgree
  <2>3. k \in 0 .. ((k + 1) - 1)
    OBVIOUS
  <2>4. F(k + 1)[k + 1] = After(config, F(k + 1)[k])
    BY <2>1, <2>3 DEF Rounds
  <2> QED
    BY <2>2, <2>4
<1>4. R = Body(R)
  <2>1. \A k \in Nat : R[k] = IF k = 0 THEN [n \in Names |-> Unresolved]
                              ELSE [n \in Names |-> ValueOf(config, n, R[k - 1])]
    <3> HIDE DEF R
    <3> TAKE k \in Nat
    <3>1. CASE k = 0
      BY <1>2, <3>1 DEF Start
    <3>2. CASE k # 0
      <4>1. k - 1 \in Nat /\ (k - 1) + 1 = k
        BY <3>2
      <4>2. R[k] = After(config, R[k - 1])
        BY <1>3, <4>1
      <4> QED
        BY <3>2, <4>2 DEF After
    <3> QED
      BY <3>1, <3>2
  <2>2. R = [k \in Nat |-> R[k]]
    OBVIOUS
  <2> HIDE DEF R
  <2> QED
    BY <2>1, <2>2
<1> HIDE DEF R
<1>5. C = Body(C)
  <2> HIDE DEF Body
  <2>1. \E g : g = Body(g)
    BY <1>4
  <2> QED
    BY <2>1
<1>6. Solution(config) = C[Cardinality(Names)]
  BY DEF Solution
<1> HIDE DEF C
<1>7. \A k \in Nat : C[k] = IF k = 0 THEN [n \in Names |-> Unresolved]
                            ELSE [n \in Names |-> ValueOf(config, n, C[k - 1])]
  BY <1>5
<1>8. C[0] = Start
  BY <1>7 DEF Start
<1>9. \A k \in Nat : C[k + 1] = After(config, C[k])
  <2> TAKE k \in Nat
  <2>1. k + 1 \in Nat /\ k + 1 # 0 /\ (k + 1) - 1 = k
    OBVIOUS
  <2> QED
    BY <1>7, <2>1 DEF After
<1> QED
  BY <1>6, <1>8, <1>9

\* Each round knows what the one before it knew; and a name more, or as much as
\* there will ever be
LEMMA SolutionIsFixed ==
  ASSUME NEW config \in Configs
  PROVE  Solution(config) = After(config, Solution(config))
<1>1. PICK r : /\ r[0] = Start
               /\ \A k \in Nat : r[k + 1] = After(config, r[k])
               /\ Solution(config) = r[Cardinality(Names)]
  BY SolutionIsARound
<1> DEFINE size == Cardinality(Names)
           Open(k) == {n \in Names : r[k][n] = Unresolved}
<1>2. size \in Nat
  BY NamesAssumption, FS_CardinalityType
<1> HIDE DEF size
<1>3. \A k \in Nat : \A n \in Names : r[k + 1][n] = ValueOf(config, n, r[k])
  BY <1>1 DEF After
<1>4. \A k \in Nat : r[k] = [n \in Names |-> r[k][n]]
  <2> TAKE k \in Nat
  <2>1. CASE k = 0
    BY <1>1, <2>1 DEF Start
  <2>2. CASE k # 0
    <3>1. k - 1 \in Nat /\ (k - 1) + 1 = k
      BY <2>2
    <3>2. r[k] = After(config, r[k - 1])
      BY <1>1, <3>1
    <3> QED
      BY <3>2 DEF After
  <2> QED
    BY <2>1, <2>2
<1>5. \A k \in Nat : \A n \in Names : r[k][n] # Unresolved => r[k + 1][n] = r[k][n]
  <2> DEFINE A == {k \in Nat : \A n \in Names : r[k][n] # Unresolved => r[k + 1][n] = r[k][n]}
  <2>1. 0 \in A
    BY <1>1 DEF Start
  <2>2. ASSUME NEW k \in Nat, k \in A
        PROVE  k + 1 \in A
    <3>1. Grown(r[k], r[k + 1])
      BY <2>2, Different DEF Grown
    <3>2. \A n \in Names : ValueOf(config, n, r[k]) # Unresolved =>
                             ValueOf(config, n, r[k + 1]) = ValueOf(config, n, r[k])
      BY <3>1, ValueGrows
    <3>3. k + 1 \in Nat
      OBVIOUS
    <3> QED
      BY <1>3, <3>2, <3>3
  <2> HIDE DEF A
  <2>3. Nat \subseteq A
    BY <2>1, <2>2, Induction
  <2> QED
    BY <2>3 DEF A
<1>6. ASSUME NEW k \in Nat, r[k + 1] = r[k]
      PROVE  r[(k + 1) + 1] = r[k + 1]
  <2>1. k + 1 \in Nat
    OBVIOUS
  <2> QED
    BY <1>1, <1>6, <2>1
<1>7. \A k \in Nat : IsFiniteSet(Open(k)) /\ Cardinality(Open(k)) \in Nat
  <2> TAKE k \in Nat
  <2>1. Open(k) \in SUBSET Names
    OBVIOUS
  <2> HIDE DEF Open
  <2>2. IsFiniteSet(Open(k))
    BY <2>1, NamesAssumption, FS_Subset
  <2> QED
    BY <2>2, FS_CardinalityType
<1>8. \A k \in Nat : r[k + 1] = r[k] \/ Cardinality(Open(k)) <= size - k
  <2> DEFINE A == {k \in Nat : r[k + 1] = r[k] \/ Cardinality(Open(k)) <= size - k}
  <2>1. 0 \in A
    <3>1. Open(0) = Names
      BY <1>1 DEF Start
    <3> HIDE DEF Open
    <3> QED
      BY <1>2, <3>1 DEF size
  <2>2. ASSUME NEW k \in Nat, k \in A
        PROVE  k + 1 \in A
    <3>0. k + 1 \in Nat
      OBVIOUS
    <3>1. CASE r[k + 1] = r[k]
      BY <1>6, <3>0, <3>1
    <3>2. CASE r[k + 1] # r[k]
      <4>1. PICK n \in Names : r[k + 1][n] # r[k][n]
        BY <1>4, <3>0, <3>2
      <4>2. Open(k + 1) \subseteq Open(k) /\ n \in Open(k)
        BY <1>5, <4>1
      <4>3. CASE r[k + 1][n] # Unresolved
        <5>1. Open(k + 1) \subseteq Open(k) \ {n}
          BY <4>2, <4>3
        <5> HIDE DEF Open
        <5>2. IsFiniteSet(Open(k) \ {n}) /\ Cardinality(Open(k) \ {n}) = Cardinality(Open(k)) - 1
          BY <1>7, <4>2, FS_RemoveElement
        <5>3. Cardinality(Open(k + 1)) <= Cardinality(Open(k) \ {n})
          BY <5>1, <5>2, FS_Subset
        <5>4. Cardinality(Open(k)) <= size - k
          BY <2>2, <3>2
        <5>5. Cardinality(Open(k)) \in Nat /\ Cardinality(Open(k + 1)) \in Nat
          BY <1>7, <3>0
        <5>6. Cardinality(Open(k + 1)) <= size - (k + 1)
          BY <1>2, <5>2, <5>3, <5>4, <5>5
        <5> QED
          BY <3>0, <5>6
      <4>4. CASE r[k + 1][n] = Unresolved
        BY <4>1, <4>2, <4>4
      <4> QED
        BY <4>3, <4>4
    <3> QED
      BY <3>1, <3>2
  <2> HIDE DEF A
  <2>3. Nat \subseteq A
    BY <2>1, <2>2, Induction
  <2> QED
    BY <2>3 DEF A
<1>9. r[size + 1] = r[size]
  <2>1. CASE Cardinality(Open(size)) <= size - size
    <3>1. Cardinality(Open(size)) = 0
      <4> HIDE DEF Open
      <4> QED
        BY <1>2, <1>7, <2>1
    <3>2. Open(size) = {}
      <4> HIDE DEF Open
      <4> QED
        BY <1>2, <1>7, <3>1, FS_EmptySet
    <3>3. \A n \in Names : r[size + 1][n] = r[size][n]
      BY <1>2, <1>5, <3>2
    <3>4. size + 1 \in Nat
      BY <1>2
    <3> QED
      BY <1>2, <1>4, <3>3, <3>4
  <2> QED
    BY <1>2, <1>8, <2>1
<1> QED
  BY <1>1, <1>2, <1>9 DEF size

LEMMA ValueKinds ==
  ASSUME NEW config, NEW name, NEW env
  PROVE  LET value == ValueOf(config, name, env)
         IN  /\ value.is \in {"unresolved", "error", "late", "resolved"}
             /\ value.is = "unresolved" => value = Unresolved
             /\ value.is = "error" => value = Error
<1> DEFINE Fine(value) == \/ value \in {Unresolved, Error, LateValue}
                          \/ \E v, u : value = Resolved(v, u)
<1>1. \A s : Fine(ValueBy(config, name, env, s))
  BY DEF ValueBy
<1>2. \A setters, some : Fine(ValueByOneOf(config, name, env, setters, some))
  BY <1>1 DEF ValueByOneOf
<1>3. Fine(ValueOf(config, name, env))
  BY <1>2 DEF ValueOf, ValueIn
<1> QED
  BY <1>3, Different

\* What is not known depends on something else that is not
LEMMA OpenNeedsOpen ==
  ASSUME NEW config \in Configs, NEW name, NEW env, ValueOf(config, name, env) = Unresolved
  PROVE  \E m \in Mentions(config, name) : env[m].is = "unresolved"
<1> DEFINE setters == Setters(config, name)
<1>1. \A i \in DOMAIN setters : Mentioned(setters[i]) \subseteq Mentions(config, name)
  BY DEF Mentions
<1>2. IsFiniteSet(DOMAIN setters)
  BY SettersType
<1> HIDE DEF setters
<1>3. CASE \E i \in DOMAIN setters : Blocks(env, setters[i], "unresolved")
  <2>1. PICK i \in DOMAIN setters : Blocks(env, setters[i], "unresolved")
    BY <1>3
  <2>2. \E k \in DOMAIN setters[i].conditions : env[setters[i].conditions[k][1]].is = "unresolved"
    BY <2>1 DEF Blocks
  <2> QED
    BY <1>1, <2>1, <2>2 DEF Mentioned
<1>4. CASE ~ \E i \in DOMAIN setters : Blocks(env, setters[i], "unresolved")
  <2> DEFINE some == Known(env, setters, Needed(setters, Feasible(env, setters)))
  <2>1. some \subseteq DOMAIN setters
    BY DEF Known, Needed, Feasible
  <2>2. IsFiniteSet(some)
    BY <1>2, <2>1, FS_Subset
  <2>3. ValueByOneOf(config, name, env, setters, some) = Unresolved
    BY <1>4, Different DEF ValueOf, ValueIn, setters
  <2> HIDE DEF some
  <2>4. some # {}
    BY <2>2, <2>3, ByOneOf, Different
  <2>5. \E i \in some : Has(env, setters[i], "unresolved")
    <3>1. CASE \E i : some = {i}
      <4>1. PICK i : some = {i}
        BY <3>1
      <4>2. ValueBy(config, name, env, setters[i]) = Unresolved
        BY <2>2, <2>3, <4>1, ByOneOf
      <4>3. Has(env, setters[i], "unresolved")
        BY <4>2, Different DEF ValueBy
      <4> QED
        BY <4>1, <4>3
    <3>2. CASE ~ \E i : some = {i}
      BY <2>2, <2>3, <2>4, <3>2, ByOneOf, Different
    <3> QED
      BY <3>1, <3>2
  <2>6. PICK i \in some : Has(env, setters[i], "unresolved")
    BY <2>5
  <2>7. i \in DOMAIN setters
    BY <2>1
  <2> QED
    BY <1>1, <2>6, <2>7 DEF Has, Mentioned
<1> QED
  BY <1>3, <1>4

LEMMA SolutionValue ==
  ASSUME NEW config \in Configs, NEW name \in Names
  PROVE  LET value == Solution(config)[name]
         IN  /\ value = ValueOf(config, name, Solution(config))
             /\ value.is \in {"unresolved", "error", "late", "resolved"}
             /\ value.is = "unresolved" => value = Unresolved
             /\ value.is = "error" => value = Error
<1>1. Solution(config)[name] = ValueOf(config, name, Solution(config))
  BY SolutionIsFixed DEF After
<1> QED
  BY <1>1, ValueKinds

\* Without a cycle every name has a value, or is in error
LEMMA AcyclicIsSolved ==
  ASSUME NEW config \in Configs, Acyclic(config)
  PROVE  \A n \in Names : Solution(config)[n].is # "unresolved"
<1> DEFINE open == {n \in Names : Solution(config)[n].is = "unresolved"}
<1>1. ASSUME NEW n \in open
      PROVE  Mentions(config, n) \cap open # {}
  <2>1. \E m \in Mentions(config, n) : Solution(config)[m].is = "unresolved"
    BY SolutionValue, OpenNeedsOpen
  <2>2. Mentions(config, n) \subseteq Names
    BY MentionsNames
  <2> QED
    BY <2>1, <2>2
<1>2. open = {}
  BY <1>1 DEF Acyclic
<1> QED
  BY <1>2

-----------------------------------------------------------------------------
(* What a call knows of the solution                                       *)

Decided == {"resolved", "late"}
Settled(env, s) == \A i \in DOMAIN s.conditions : MetBefore(env, s, i) => env[Asked(s, i)].is \in Decided
AllMet(env, s) == \A i \in DOMAIN s.conditions : Met(env, s, i)
Passed(env, s, c) ==
    \A k \in 1 .. (c - 1) :
        k \in DOMAIN s.conditions /\ Met(env, s, k) /\ env[Asked(s, k)].is \in Decided

AllSettled(config, name) ==
    \A i \in DOMAIN Setters(config, name) : Settled(Solution(config), Setters(config, name)[i])
Candidates(config, name) ==
    Needed(Setters(config, name), Feasible(Solution(config), Setters(config, name)))
IsLate(config, name, i) == Has(Solution(config), Setters(config, name)[i], "late")

LEMMA PassedAll ==
  ASSUME NEW s, IsSetter(s), NEW env, NEW c \in Nat \ {0}, Passed(env, s, c), c > Len(s.conditions)
  PROVE  Settled(env, s) /\ AllMet(env, s)
<1>1. Len(s.conditions) \in Nat /\ DOMAIN s.conditions = 1 .. Len(s.conditions)
  BY SetterFacts
<1>2. \A i \in DOMAIN s.conditions : i \in 1 .. (c - 1)
  BY <1>1
<1> QED
  BY <1>2 DEF Settled, AllMet, Passed

LEMMA PassedFails ==
  ASSUME NEW s, IsSetter(s), NEW env, NEW c \in Nat \ {0}, Passed(env, s, c),
         c \in DOMAIN s.conditions, env[Asked(s, c)].is \in Decided, ~Met(env, s, c)
  PROVE  Settled(env, s) /\ ~AllMet(env, s)
<1>1. Len(s.conditions) \in Nat /\ DOMAIN s.conditions = 1 .. Len(s.conditions)
  BY SetterFacts
<1>2. ASSUME NEW i \in DOMAIN s.conditions, MetBefore(env, s, i)
      PROVE  env[Asked(s, i)].is \in Decided
  <2>1. ~(i > c)
    BY <1>1, <1>2 DEF MetBefore
  <2>2. i = c \/ i \in 1 .. (c - 1)
    BY <1>1, <2>1
  <2> QED
    BY <2>2 DEF Passed
<1> QED
  BY <1>2 DEF Settled, AllMet

LEMMA PassedOne ==
  ASSUME NEW s, NEW env, NEW c \in Nat \ {0}, Passed(env, s, c),
         c \in DOMAIN s.conditions, env[Asked(s, c)].is \in Decided, Met(env, s, c)
  PROVE  Passed(env, s, c + 1)
<1>1. \A k \in 1 .. ((c + 1) - 1) : k = c \/ k \in 1 .. (c - 1)
  OBVIOUS
<1> QED
  BY <1>1 DEF Passed

LEMMA SettledBlocksNot ==
  ASSUME NEW s, NEW env, Settled(env, s)
  PROVE  ~Blocks(env, s, "unresolved") /\ ~Blocks(env, s, "error")
  BY DEF Settled, Blocks, MetBefore, Asked, Decided

\* All conditions are decided: then the value is that of the one setter left
LEMMA SettledValue ==
  ASSUME NEW config \in Configs, NEW name \in Names, AllSettled(config, name)
  PROVE  /\ Solution(config)[name] =
              ValueByOneOf(config, name, Solution(config), Setters(config, name),
                           Known(Solution(config), Setters(config, name), Candidates(config, name)))
         /\ IsFiniteSet(Candidates(config, name))
         /\ Candidates(config, name) \subseteq DOMAIN Setters(config, name)
<1> DEFINE env == Solution(config)
           setters == Setters(config, name)
<1>1. \A i \in DOMAIN setters : ~Blocks(env, setters[i], "unresolved") /\ ~Blocks(env, setters[i], "error")
  BY SettledBlocksNot DEF AllSettled
<1>2. env[name] = ValueOf(config, name, env)
  BY SolutionValue
<1>3. Candidates(config, name) \subseteq DOMAIN setters
  BY DEF Candidates, Needed, Feasible
<1>4. IsFiniteSet(DOMAIN setters)
  BY SettersType
<1>5. IsFiniteSet(Candidates(config, name))
  BY <1>3, <1>4, FS_Subset
<1>6. ValueOf(config, name, env) =
        ValueByOneOf(config, name, env, setters, Known(env, setters, Candidates(config, name)))
  <2> HIDE DEF env
  <2> QED
    BY <1>1 DEF ValueOf, ValueIn, Candidates, env
<1> QED
  BY <1>2, <1>3, <1>5, <1>6

LEMMA BlockedByError ==
  ASSUME NEW config \in Configs, NEW name \in Names, Acyclic(config),
         NEW i \in DOMAIN Setters(config, name),
         Blocks(Solution(config), Setters(config, name)[i], "error")
  PROVE  Solution(config)[name] = Error
<1> DEFINE env == Solution(config)
           setters == Setters(config, name)
<1>1. ASSUME NEW j \in DOMAIN setters
      PROVE  ~Blocks(env, setters[j], "unresolved")
  <2>1. \A k \in DOMAIN setters[j].conditions : Asked(setters[j], k) \in Names
    BY SettersType, SetterFacts
  <2>2. \A n \in Names : env[n].is # "unresolved"
    BY AcyclicIsSolved
  <2> QED
    BY <2>1, <2>2 DEF Blocks, Asked
<1>2. env[name] = ValueOf(config, name, env)
  BY SolutionValue
<1> HIDE DEF env
<1> QED
  BY <1>1, <1>2 DEF ValueOf, ValueIn, env

\* The values computed so far are those of the solution; errors are its errors
\* unless there is a cycle
Agree(config, env) ==
    \A n \in Names :
        /\ env[n].is \in {"unresolved", "error", "late", "resolved"}
        /\ env[n].is \in Decided => env[n] = Solution(config)[n]
        /\ (Acyclic(config) /\ env[n].is = "error") => env[n] = Solution(config)[n]
Seen(env, p) == env[p].is \in {"error", "resolved"}

Numbers == UNION {UNION {DOMAIN Setters(config, name) : config \in Configs} : name \in Names}
Frames ==
    [name : Names, pc : {"conditions", "late", "calculate"}, setters : SUBSET Numbers,
     condition : Nat \ {0}, feasible : SUBSET Numbers, seen : SUBSET Names]

FirstOf(f, i) == i \in f.setters /\ \A j \in f.setters : ~Before(j, i)
ConditionsInv(config, f) ==
    LET setters == Setters(config, f.name)
    IN  /\ f.setters \subseteq DOMAIN setters
        /\ f.feasible \subseteq DOMAIN setters \ f.setters
        /\ f.seen = {}
        /\ \A i \in DOMAIN setters \ f.setters :
              Settled(Solution(config), setters[i]) /\ (i \in f.feasible <=> AllMet(Solution(config), setters[i]))
        /\ \A i \in f.setters : FirstOf(f, i) => Passed(Solution(config), setters[i], f.condition)
LateInv(config, env, f) ==
    LET setters == Setters(config, f.name)
    IN  /\ AllSettled(config, f.name)
        /\ f.setters \cup f.feasible \subseteq Candidates(config, f.name)
        /\ ~ \E i : Candidates(config, f.name) = {i}
        /\ \A i \in Candidates(config, f.name) \ (f.setters \cup f.feasible) : IsLate(config, f.name, i)
        /\ \A i \in f.feasible \ f.setters : \A p \in setters[i].calc.parameters : Seen(env, p)
        /\ f.feasible \cap f.setters = {}
        /\ \A p \in f.seen : Seen(env, p)
CalculateInv(config, env, f) ==
    LET setters == Setters(config, f.name)
    IN  /\ AllSettled(config, f.name)
        /\ \E i \in Candidates(config, f.name) :
              /\ f.feasible = {i}
              /\ \/ Candidates(config, f.name) = {i}
                 \/ /\ \A j \in Candidates(config, f.name) \ {i} : IsLate(config, f.name, j)
                    /\ \A p \in setters[i].calc.parameters : Seen(env, p)
        /\ \A p \in f.seen : Seen(env, p)
FrameInv(config, env, f) ==
    /\ f.pc = "conditions" => ConditionsInv(config, f)
    /\ f.pc = "late" => LateInv(config, env, f)
    /\ f.pc = "calculate" => CalculateInv(config, env, f)

\* Nothing is forgotten
LEMMA FrameKeeps ==
  ASSUME NEW config \in Configs, NEW env, NEW other, Grown(env, other), NEW f \in Frames,
         FrameInv(config, env, f)
  PROVE  FrameInv(config, other, f)
<1>1. \A p \in Names : Seen(env, p) => Seen(other, p)
  BY DEF Seen, Grown
<1>2. \A i \in DOMAIN Setters(config, f.name) : Setters(config, f.name)[i].calc.parameters \subseteq Names
  BY SettersType, SetterFacts
<1>3. f.seen \subseteq Names
  BY DEF Frames
<1>4. Candidates(config, f.name) \subseteq DOMAIN Setters(config, f.name)
  BY DEF Candidates, Needed, Feasible
<1>5. LateInv(config, env, f) => LateInv(config, other, f)
  BY <1>1, <1>2, <1>3, <1>4 DEF LateInv
<1>6. CalculateInv(config, env, f) => CalculateInv(config, other, f)
  BY <1>1, <1>2, <1>3, <1>4 DEF CalculateInv
<1> QED
  BY <1>5, <1>6 DEF FrameInv

\* What the setter left gives, when its parameters have the values of the solution
LEMMA TheOneLeft ==
  ASSUME NEW config \in Configs, NEW env, Agree(config, env), NEW f \in Frames,
         CalculateInv(config, env, f), NEW i \in f.feasible,
         \A p \in Setters(config, f.name)[i].calc.parameters :
            env[p].is = "resolved" \/ (Acyclic(config) /\ env[p].is = "error")
  PROVE  /\ Solution(config)[f.name] = ValueBy(config, f.name, Solution(config), Setters(config, f.name)[i])
         /\ \A p \in Setters(config, f.name)[i].calc.parameters : Solution(config)[p] = env[p]
<1> DEFINE setters == Setters(config, f.name)
           some == Candidates(config, f.name)
           sol == Solution(config)
<1>1. f.name \in Names
  BY DEF Frames
<1>2. /\ AllSettled(config, f.name) /\ i \in some /\ f.feasible = {i}
      /\ some = {i} \/ \A j \in some \ {i} : IsLate(config, f.name, j)
  BY DEF CalculateInv
<1>3. IsFiniteSet(some) /\ some \subseteq DOMAIN setters
  BY <1>1, <1>2, SettledValue
<1>4. setters[i].calc.parameters \subseteq Names
  BY <1>2, <1>3, SettersType, SetterFacts
<1>5. \A p \in setters[i].calc.parameters : sol[p] = env[p]
  BY <1>4 DEF Agree, Decided
<1>6. ~Has(sol, setters[i], "late")
  BY <1>5 DEF Has
<1>7. Known(sol, setters, some) = {i}
  <2>1. CASE some = {i}
    BY <1>3, <2>1, Sizes DEF Known
  <2>2. CASE some # {i}
    <3>1. \A j \in some \ {i} : Has(sol, setters[j], "late")
      BY <1>2, <2>2 DEF IsLate
    <3>2. Cardinality(some) > 1
      BY <1>2, <1>3, <2>2, Sizes
    <3> HIDE DEF setters, some, sol
    <3> QED
      BY <1>2, <1>6, <3>1, <3>2 DEF Known
  <2> QED
    BY <2>1, <2>2
<1>8. sol[f.name] = ValueByOneOf(config, f.name, sol, setters, Known(sol, setters, some))
  BY <1>1, <1>2, SettledValue
<1>9. sol[f.name] = ValueBy(config, f.name, sol, setters[i])
  <2>1. IsFiniteSet({i})
    BY FS_Singleton
  <2> HIDE DEF setters, some, sol
  <2> QED
    BY <1>7, <1>8, <2>1, ByOneOf
<1> QED
  BY <1>5, <1>9

-----------------------------------------------------------------------------
(* The invariant, and what calls, returns and exceptions do to it          *)

Visits == [variables : SUBSET Names, scopes : SUBSET Names, target : Targets]
TypeInv ==
    /\ sources \in Configs
    /\ state = [n \in Names |-> state[n]]
    /\ stack \in Seq(Frames)
    /\ walk \in Seq(Visits)
    /\ \A i \in DOMAIN walk : walk[i].scopes \subseteq DOMAIN walk[i].target.sub_scopes
StackInv ==
    /\ \A i \in DOMAIN stack :
          state[stack[i].name].is = "unresolved" /\ FrameInv(sources, state, stack[i])
    /\ \A i, j \in DOMAIN stack : stack[i].name = stack[j].name => i = j
    /\ \A i \in DOMAIN stack :
          i + 1 \in DOMAIN stack => stack[i + 1].name \in Mentions(sources, stack[i].name)

Wanted == sources.target.variables \cup DOMAIN sources.target.sub_scopes
ToAsk == IF walk = <<>> THEN {} ELSE walk[1].variables \cup walk[1].scopes
AskedInv == \A n \in Wanted : state[n].is # "unresolved" \/ OnStack(n) \/ n \in ToAsk
ErrorInv == (\E n \in Names : state[n].is = "error") => errors \cup unset # {}

Going == outcome \in {"running", "resolved"}
IInv ==
    Going => /\ TypeInv /\ StackInv /\ Agree(sources, state) /\ AskedInv /\ ErrorInv
             /\ outcome = "resolved" => stack = <<>> /\ walk = <<>>

LEMMA WantedNames ==
  ASSUME TypeInv
  PROVE  Wanted \subseteq Names
<1>1. sources.target \in Targets
  BY ConfigAssumption DEF TypeInv
<1> QED
  BY <1>1, TargetAssumption DEF Wanted

LEMMA NewFrame ==
  ASSUME TypeInv, NEW name \in Names
  PROVE  Frame(name) \in Frames /\ FrameInv(sources, state, Frame(name)) /\ Frame(name).name = name
<1> DEFINE f == Frame(name)
           setters == Setters(sources, name)
<1>1. /\ f.name = name /\ f.pc = "conditions" /\ f.setters = DOMAIN setters /\ f.condition = 1
      /\ f.feasible = {} /\ f.seen = {}
  BY DEF Frame
<1>2. DOMAIN setters \in SUBSET Numbers
  BY DEF Numbers, TypeInv
<1>3. f \in Frames
  BY <1>2 DEF Frame, Frames
<1>4. \A s : Passed(Solution(sources), s, 1)
  BY DEF Passed
<1>5. ConditionsInv(sources, f)
  <2> HIDE DEF f
  <2> QED
    BY <1>1, <1>4 DEF ConditionsInv
<1> HIDE DEF f
<1>6. FrameInv(sources, state, f)
  BY <1>1, <1>5 DEF FrameInv
<1> QED
  BY <1>1, <1>3, <1>6 DEF f

LEMMA StackFacts ==
  ASSUME TypeInv
  PROVE  /\ Len(stack) \in Nat /\ DOMAIN stack = 1 .. Len(stack)
         /\ \A i \in DOMAIN stack : stack[i] \in Frames /\ stack[i].name \in Names
         /\ stack # <<>> => Len(stack) \in DOMAIN stack /\ Top \in Frames /\ Top = stack[Len(stack)]
<1>1. Len(stack) \in Nat /\ DOMAIN stack = 1 .. Len(stack) /\ \A i \in DOMAIN stack : stack[i] \in Frames
  BY LenProperties, ElementOfSeq DEF TypeInv
<1>2. \A f \in Frames : f.name \in Names
  BY DEF Frames
<1>3. stack # <<>> => Len(stack) \in DOMAIN stack
  BY <1>1, EmptySeq DEF TypeInv
<1> QED
  BY <1>1, <1>2, <1>3 DEF Top

\* A call
LEMMA CallsKeeps ==
  ASSUME TypeInv, StackInv, NEW name \in Names, state[name].is = "unresolved", ~OnStack(name),
         stack # <<>> => name \in Mentions(sources, Top.name),
         Calls(name), UNCHANGED <<sources, state>>
  PROVE  /\ stack' \in Seq(Frames) /\ StackInv'
         /\ OnStack(name)' /\ \A n : OnStack(n) => OnStack(n)'
<1> DEFINE f == Frame(name)
           size == Len(stack)
<1>1. f \in Frames /\ FrameInv(sources, state, f) /\ f.name = name
  BY NewFrame
<1>2. stack' = Append(stack, f)
  BY DEF Calls
<1> HIDE DEF f
<1>3. /\ size \in Nat /\ DOMAIN stack = 1 .. size
      /\ stack # <<>> => size \in DOMAIN stack /\ Top = stack[size]
  BY StackFacts
<1>4. stack \in Seq(Frames)
  BY DEF TypeInv
<1>5. /\ stack' \in Seq(Frames) /\ Len(stack') = size + 1
      /\ DOMAIN stack' = 1 .. (size + 1)
      /\ \A i \in 1 .. size : stack'[i] = stack[i]
      /\ stack'[size + 1] = f
  <2>1. Append(stack, f) \in Seq(Frames) /\ Len(Append(stack, f)) = size + 1
    BY <1>1, <1>4, AppendProperties
  <2>2. /\ \A i \in 1 .. size : Append(stack, f)[i] = stack[i]
        /\ Append(stack, f)[size + 1] = f
    BY <1>1, <1>4, AppendProperties
  <2> QED
    BY <1>2, <2>1, <2>2, LenProperties
<1>6. \A i \in DOMAIN stack : stack[i].name # name
  BY DEF OnStack
<1> HIDE DEF size
<1>7. \A i \in DOMAIN stack' : i = size + 1 \/ i \in DOMAIN stack
  BY <1>3, <1>5
<1>8. \A i \in DOMAIN stack' :
        state'[stack'[i].name].is = "unresolved" /\ FrameInv(sources', state', stack'[i])
  BY <1>1, <1>3, <1>5, <1>7 DEF StackInv
<1>9. \A i, j \in DOMAIN stack' : stack'[i].name = stack'[j].name => i = j
  BY <1>1, <1>3, <1>5, <1>6, <1>7 DEF StackInv
<1>10. ASSUME NEW i \in DOMAIN stack', i + 1 \in DOMAIN stack'
       PROVE  stack'[i + 1].name \in Mentions(sources', stack'[i].name)
  <2>1. CASE i + 1 \in DOMAIN stack
    <3>1. i \in DOMAIN stack
      BY <1>3, <1>5, <2>1
    <3> QED
      BY <1>3, <1>5, <2>1, <3>1 DEF StackInv
  <2>2. CASE i + 1 \notin DOMAIN stack
    <3>1. i = size /\ i \in 1 .. size /\ stack # <<>>
      BY <1>3, <1>5, <1>7, <1>10, <2>2
    <3> QED
      BY <1>1, <1>3, <1>5, <3>1
  <2> QED
    BY <2>1, <2>2
<1>11. StackInv'
  BY <1>8, <1>9, <1>10 DEF StackInv
<1>12. OnStack(name)' /\ \A n : OnStack(n) => OnStack(n)'
  BY <1>1, <1>3, <1>5 DEF OnStack
<1> QED
  BY <1>5, <1>11, <1>12

LEMMA CallsForStep ==
  ASSUME IInv, outcome = "running", stack # <<>>, NEW name \in Mentions(sources, Top.name),
         state[name].is = "unresolved", ~OnStack(name), CallsFor(name)
  PROVE  IInv'
<1>1. name \in Names
  BY MentionsNames DEF IInv, Going, TypeInv
<1>2. UNCHANGED <<sources, walk, state, errors, unset, late, outcome>> /\ Calls(name)
  BY DEF CallsFor
<1>3. TypeInv /\ StackInv /\ Agree(sources, state) /\ AskedInv /\ ErrorInv
  BY DEF IInv, Going
<1>4. stack' \in Seq(Frames) /\ StackInv' /\ \A n : OnStack(n) => OnStack(n)'
  BY <1>1, <1>2, <1>3, CallsKeeps
<1>5. TypeInv'
  BY <1>2, <1>3, <1>4 DEF TypeInv
<1>6. AskedInv'
  <2>1. Wanted' = Wanted /\ ToAsk' = ToAsk
    BY <1>2 DEF Wanted, ToAsk
  <2> QED
    BY <1>2, <1>3, <1>4, <2>1 DEF AskedInv
<1>7. ErrorInv' /\ Agree(sources, state)'
  BY <1>2, <1>3 DEF ErrorInv
<1> QED
  BY <1>2, <1>4, <1>5, <1>6, <1>7 DEF IInv

\* The call on top goes on
LEMMA ContinuesStep ==
  ASSUME IInv, outcome = "running", stack # <<>>,
         NEW f \in Frames, f.name = Top.name, FrameInv(sources, state, f), Continues(f)
  PROVE  IInv'
<1> DEFINE size == Len(stack)
<1>1. UNCHANGED <<sources, walk, state, errors, unset, late, outcome>>
  BY DEF Continues
<1>2. stack' = [stack EXCEPT ![size] = f]
  BY DEF Continues, SetTop
<1>3. TypeInv /\ StackInv /\ Agree(sources, state) /\ AskedInv /\ ErrorInv
  BY DEF IInv, Going
<1>4. size \in Nat /\ DOMAIN stack = 1 .. size /\ size \in DOMAIN stack /\ Top = stack[size]
  BY <1>3, StackFacts
<1>5. /\ stack' \in Seq(Frames) /\ Len(stack') = size
      /\ \A i \in 1 .. size : stack'[i] = IF i = size THEN f ELSE stack[i]
  <2>1. stack \in Seq(Frames) /\ size \in 1 .. Len(stack)
    BY <1>3, <1>4 DEF TypeInv
  <2> QED
    BY <1>2, <2>1, ExceptSeq
<1>6. DOMAIN stack' = DOMAIN stack
  BY <1>4, <1>5, LenProperties
<1>7. \A i \in DOMAIN stack : stack'[i].name = stack[i].name
  BY <1>4, <1>5
<1> HIDE DEF size
<1>8. StackInv'
  <2>1. \A i \in DOMAIN stack' :
          state'[stack'[i].name].is = "unresolved" /\ FrameInv(sources', state', stack'[i])
    BY <1>1, <1>3, <1>4, <1>5, <1>6, <1>7 DEF StackInv
  <2>2. \A i, j \in DOMAIN stack' : stack'[i].name = stack'[j].name => i = j
    BY <1>3, <1>6, <1>7 DEF StackInv
  <2>3. \A i \in DOMAIN stack' :
          i + 1 \in DOMAIN stack' => stack'[i + 1].name \in Mentions(sources', stack'[i].name)
    BY <1>1, <1>3, <1>6, <1>7 DEF StackInv
  <2> QED
    BY <2>1, <2>2, <2>3 DEF StackInv
<1>9. TypeInv'
  BY <1>1, <1>3, <1>5 DEF TypeInv
<1>10. AskedInv'
  <2>1. Wanted' = Wanted /\ ToAsk' = ToAsk
    BY <1>1 DEF Wanted, ToAsk
  <2>2. \A n : OnStack(n) => OnStack(n)'
    BY <1>6, <1>7 DEF OnStack
  <2> QED
    BY <1>1, <1>3, <2>1, <2>2 DEF AskedInv
<1>11. ErrorInv' /\ Agree(sources, state)'
  BY <1>1, <1>3 DEF ErrorInv
<1> QED
  BY <1>1, <1>8, <1>9, <1>10, <1>11 DEF IInv

\* The call on top ends
LEMMA EndsStep ==
  ASSUME IInv, outcome = "running", stack # <<>>,
         NEW how, NEW newErrors, NEW newUnset, NEW newLate, Ends(how, newErrors, newUnset, newLate),
         how.is \in {"error", "late", "resolved"},
         how.is \in Decided \/ Acyclic(sources) => how = Solution(sources)[Top.name],
         how.is = "error" => newErrors \cup newUnset # {} \/ \E n \in Names : state[n].is = "error"
  PROVE  IInv'
<1> DEFINE size == Len(stack)
           name == Top.name
<1>1. /\ state' = [state EXCEPT ![name] = how] /\ stack' = Front(stack)
      /\ errors' = errors \cup newErrors /\ unset' = unset \cup newUnset
      /\ UNCHANGED <<sources, walk, outcome>>
  BY DEF Ends
<1>2. TypeInv /\ StackInv /\ Agree(sources, state) /\ AskedInv /\ ErrorInv
  BY DEF IInv, Going
<1>3. /\ size \in Nat /\ DOMAIN stack = 1 .. size /\ size \in DOMAIN stack /\ Top = stack[size]
      /\ name \in Names
      /\ \A i \in DOMAIN stack : stack[i] \in Frames /\ stack[i].name \in Names
  BY <1>2, StackFacts
<1>4. state[name].is = "unresolved"
  BY <1>2, <1>3 DEF StackInv
<1>5. /\ stack' \in Seq(Frames) /\ DOMAIN stack' = 1 .. (size - 1)
      /\ \A i \in 1 .. (size - 1) : stack'[i] = stack[i]
  <2>1. stack' = SubSeq(stack, 1, size - 1)
    BY <1>1 DEF Front
  <2>2. stack \in Seq(Frames) /\ 1 \in Int /\ size - 1 \in Int /\ \A i \in 1 .. (size - 1) : stack[i] \in Frames
    BY <1>2, <1>3 DEF TypeInv
  <2> HIDE DEF size
  <2>3. /\ SubSeq(stack, 1, size - 1) \in Seq(Frames)
        /\ Len(SubSeq(stack, 1, size - 1)) = IF 1 <= size - 1 THEN (size - 1) - 1 + 1 ELSE 0
        /\ \A i \in 1 .. (size - 1) - 1 + 1 : SubSeq(stack, 1, size - 1)[i] = stack[1 + i - 1]
    BY <2>2, SubSeqProperties
  <2>4. Len(stack') = size - 1
    BY <1>3, <2>1, <2>3
  <2>5. \A i \in 1 .. (size - 1) : 1 + i - 1 = i /\ i \in 1 .. (size - 1) - 1 + 1
    BY <1>3
  <2> QED
    BY <2>1, <2>3, <2>4, <2>5, LenProperties
<1> HIDE DEF size, name
<1>6. /\ state' = [n \in Names |-> state'[n]]
      /\ \A n \in Names : state'[n] = IF n = name THEN how ELSE state[n]
  <2>1. state = [n \in Names |-> state[n]]
    BY <1>2 DEF TypeInv
  <2> QED
    BY <1>1, <1>3, <2>1
<1>7. Grown(state, state')
  BY <1>4, <1>6 DEF Grown
<1>8. \A i \in 1 .. (size - 1) : i \in DOMAIN stack /\ stack[i].name # name
  BY <1>2, <1>3 DEF StackInv, name
<1>9. StackInv'
  <2>1. \A i \in DOMAIN stack' :
          state'[stack'[i].name].is = "unresolved" /\ FrameInv(sources', state', stack'[i])
    <3> TAKE i \in DOMAIN stack'
    <3>1. stack'[i] = stack[i] /\ i \in DOMAIN stack /\ stack[i].name # name
      BY <1>5, <1>8
    <3>2. state'[stack[i].name] = state[stack[i].name]
      BY <1>3, <1>6, <3>1
    <3>3. FrameInv(sources, state', stack[i])
      BY <1>2, <1>3, <1>7, <3>1, FrameKeeps DEF StackInv, TypeInv
    <3> QED
      BY <1>1, <1>2, <3>1, <3>2, <3>3 DEF StackInv
  <2>2. \A i, j \in DOMAIN stack' : stack'[i].name = stack'[j].name => i = j
    BY <1>2, <1>5, <1>8 DEF StackInv
  <2>3. \A i \in DOMAIN stack' :
          i + 1 \in DOMAIN stack' => stack'[i + 1].name \in Mentions(sources', stack'[i].name)
    BY <1>1, <1>2, <1>5, <1>8 DEF StackInv
  <2> QED
    BY <2>1, <2>2, <2>3 DEF StackInv
<1>10. TypeInv'
  BY <1>1, <1>2, <1>5, <1>6 DEF TypeInv
<1>11. AskedInv'
  <2>1. Wanted' = Wanted /\ ToAsk' = ToAsk /\ Wanted \subseteq Names
    BY <1>1, <1>2, WantedNames DEF Wanted, ToAsk
  <2>2. \A n \in Names : OnStack(n) => n = name \/ OnStack(n)'
    <3> TAKE n \in Names
    <3> SUFFICES ASSUME OnStack(n), n # name PROVE OnStack(n)'
      OBVIOUS
    <3>1. PICK i \in DOMAIN stack : stack[i].name = n
      BY DEF OnStack
    <3>2. i \in 1 .. (size - 1)
      BY <1>3, <3>1 DEF name
    <3> QED
      BY <1>5, <3>1, <3>2 DEF OnStack
  <2>3. \A n \in Names : n = name => state'[n].is # "unresolved"
    BY <1>6
  <2> QED
    BY <1>2, <1>6, <2>1, <2>2, <2>3 DEF AskedInv
<1>12. ErrorInv'
  BY <1>1, <1>2, <1>4, <1>6 DEF ErrorInv
<1>13. Agree(sources, state')
  <2>1. how = Error \/ how.is # "error" \/ ~Acyclic(sources) \/ how = Solution(sources)[name]
    BY DEF name
  <2>2. how.is \in Decided => how = Solution(sources)[name]
    BY DEF name
  <2>3. (Acyclic(sources) /\ how.is = "error") => how = Solution(sources)[name]
    BY DEF name
  <2> QED
    BY <1>2, <1>6, <2>2, <2>3 DEF Agree
<1> QED
  BY <1>1, <1>9, <1>10, <1>11, <1>12, <1>13 DEF IInv

\* The exception that escapes
LEMMA CrashStep ==
  ASSUME NEW exception \in {"AssertionError", "IndexError"}, Crash(exception)
  PROVE  IInv'
  BY DEF Crash, IInv, Going

-----------------------------------------------------------------------------
(* The steps of a call                                                    *)

\* Frames and their changes
LEMMA FrameFields ==
  ASSUME NEW f \in Frames
  PROVE  /\ f.name \in Names /\ f.pc \in {"conditions", "late", "calculate"}
         /\ f.setters \subseteq Numbers /\ f.condition \in Nat \ {0}
         /\ f.feasible \subseteq Numbers /\ f.seen \subseteq Names
  BY DEF Frames

LEMMA ChangedCondition ==
  ASSUME NEW f \in Frames, NEW condition \in Nat \ {0}, NEW g, g = [f EXCEPT !.condition = condition]
  PROVE  /\ g \in Frames /\ g.name = f.name /\ g.pc = f.pc /\ g.setters = f.setters
         /\ g.condition = condition /\ g.feasible = f.feasible /\ g.seen = f.seen
  BY DEF Frames

LEMMA ChangedSetters ==
  ASSUME NEW f \in Frames, NEW setters, setters \subseteq Numbers, NEW g, g = [f EXCEPT !.setters = setters]
  PROVE  /\ g \in Frames /\ g.name = f.name /\ g.pc = f.pc /\ g.setters = setters
         /\ g.condition = f.condition /\ g.feasible = f.feasible /\ g.seen = f.seen
  BY DEF Frames

LEMMA ChangedFeasible ==
  ASSUME NEW f \in Frames, NEW feasible, feasible \subseteq Numbers, NEW g, g = [f EXCEPT !.feasible = feasible]
  PROVE  /\ g \in Frames /\ g.name = f.name /\ g.pc = f.pc /\ g.setters = f.setters
         /\ g.condition = f.condition /\ g.feasible = feasible /\ g.seen = f.seen
  BY DEF Frames

LEMMA ChangedSeen ==
  ASSUME NEW f \in Frames, NEW seen, seen \subseteq Names, NEW g, g = [f EXCEPT !.seen = seen]
  PROVE  /\ g \in Frames /\ g.name = f.name /\ g.pc = f.pc /\ g.setters = f.setters
         /\ g.condition = f.condition /\ g.feasible = f.feasible /\ g.seen = seen
  BY DEF Frames

LEMMA ChangedPc ==
  ASSUME NEW f \in Frames, NEW pc \in {"conditions", "late", "calculate"}, NEW g, g = [f EXCEPT !.pc = pc]
  PROVE  /\ g \in Frames /\ g.name = f.name /\ g.pc = pc /\ g.setters = f.setters
         /\ g.condition = f.condition /\ g.feasible = f.feasible /\ g.seen = f.seen
  BY DEF Frames

\* The setters have an order
LEMMA OneFirst ==
  ASSUME NEW config \in Configs, NEW f, f.setters \subseteq DOMAIN Setters(config, f.name),
         NEW i, NEW j, FirstOf(f, i), FirstOf(f, j)
  PROVE  i = j
<1>1. i \in Nat \X {TRUE, FALSE} /\ j \in Nat \X {TRUE, FALSE}
  BY SettersType DEF FirstOf
<1>2. ~Before(i, j) /\ ~Before(j, i)
  BY DEF FirstOf
<1>3. i = <<i[1], i[2]>> /\ j = <<j[1], j[2]>> /\ i[1] \in Nat /\ j[1] \in Nat
  BY <1>1
<1>4. i[1] = j[1]
  BY <1>2, <1>3 DEF Before
<1>5. i[2] = j[2]
  <2>1. i[2] \in {TRUE, FALSE} /\ j[2] \in {TRUE, FALSE}
    BY <1>1
  <2>2. \A a, b \in {TRUE, FALSE} : a = b \/ (~a /\ b) \/ (~b /\ a)
    BY Zenon
  <2> QED
    BY <1>2, <1>4, <2>1, <2>2, Zenon DEF Before
<1> QED
  BY <1>3, <1>4, <1>5

LEMMA TopFacts ==
  ASSUME IInv, outcome = "running", stack # <<>>
  PROVE  /\ TypeInv /\ StackInv /\ Agree(sources, state) /\ ErrorInv
         /\ sources \in Configs /\ Top \in Frames /\ Top.name \in Names
         /\ FrameInv(sources, state, Top)
         /\ IsFiniteSet(DOMAIN Setters(sources, Top.name))
         /\ \A i \in DOMAIN Setters(sources, Top.name) :
               /\ IsSetter(Setters(sources, Top.name)[i])
               /\ Mentioned(Setters(sources, Top.name)[i]) \subseteq Mentions(sources, Top.name)
<1>1. TypeInv /\ StackInv /\ Agree(sources, state) /\ ErrorInv
  BY DEF IInv, Going
<1>2. sources \in Configs
  BY <1>1 DEF TypeInv
<1>3. Len(stack) \in DOMAIN stack /\ Top \in Frames /\ Top = stack[Len(stack)]
  BY <1>1, StackFacts
<1>4. Top.name \in Names
  BY <1>3 DEF Frames
<1>5. FrameInv(sources, state, Top)
  BY <1>1, <1>3 DEF StackInv
<1>6. /\ IsFiniteSet(DOMAIN Setters(sources, Top.name))
      /\ \A i \in DOMAIN Setters(sources, Top.name) : IsSetter(Setters(sources, Top.name)[i])
  BY <1>2, SettersType
<1>7. \A i \in DOMAIN Setters(sources, Top.name) :
        Mentioned(Setters(sources, Top.name)[i]) \subseteq Mentions(sources, Top.name)
  BY DEF Mentions
<1> QED
  BY <1>1, <1>2, <1>3, <1>4, <1>5, <1>6, <1>7

\* A name that asks for one further down the stack is in a cycle with it
LEMMA CycleOnStack ==
  ASSUME IInv, outcome = "running", stack # <<>>,
         NEW name \in Mentions(sources, Top.name), OnStack(name)
  PROVE  ~Acyclic(sources)
<1> DEFINE size == Len(stack)
<1>1. TypeInv /\ StackInv
  BY TopFacts
<1>2. /\ size \in Nat /\ DOMAIN stack = 1 .. size /\ Top = stack[size]
      /\ \A i \in DOMAIN stack : stack[i].name \in Names
  BY <1>1, StackFacts
<1> HIDE DEF size
<1>3. PICK k \in DOMAIN stack : stack[k].name = name
  BY DEF OnStack
<1> DEFINE some == {stack[j].name : j \in k .. size}
<1>4. some \subseteq Names /\ name \in some
  BY <1>2, <1>3
<1>5. ASSUME NEW n \in some
      PROVE  Mentions(sources, n) \cap some # {}
  <2>1. PICK j \in k .. size : n = stack[j].name
    OBVIOUS
  <2>2. CASE j = size
    BY <1>2, <1>4, <2>1, <2>2
  <2>3. CASE j # size
    <3>1. j \in DOMAIN stack /\ j + 1 \in DOMAIN stack /\ j + 1 \in k .. size
      BY <1>2, <1>3, <2>1, <2>3
    <3>2. stack[j + 1].name \in Mentions(sources, n)
      BY <1>1, <2>1, <3>1 DEF StackInv
    <3> QED
      BY <3>1, <3>2
  <2> QED
    BY <2>2, <2>3
<1> HIDE DEF some
<1> QED
  BY <1>4, <1>5 DEF Acyclic

\* The next setter's turn: this one is kept if all its conditions are met
LEMMA NextSetter ==
  ASSUME NEW config \in Configs, NEW env, NEW f \in Frames, ConditionsInv(config, f),
         NEW i \in f.setters, Settled(Solution(config), Setters(config, f.name)[i]),
         NEW g \in Frames, g.name = f.name, g.pc = "conditions", g.setters = f.setters \ {i},
         g.condition = 1, g.seen = f.seen,
         g.feasible = IF AllMet(Solution(config), Setters(config, f.name)[i])
                      THEN f.feasible \cup {i} ELSE f.feasible
  PROVE  FrameInv(config, env, g)
<1> DEFINE setters == Setters(config, f.name)
           sol == Solution(config)
<1>1. /\ f.setters \subseteq DOMAIN setters
      /\ f.feasible \subseteq DOMAIN setters \ f.setters
      /\ f.seen = {}
      /\ \A j \in DOMAIN setters \ f.setters :
            Settled(sol, setters[j]) /\ (j \in f.feasible <=> AllMet(sol, setters[j]))
  BY DEF ConditionsInv
<1>2. Settled(sol, setters[i])
  OBVIOUS
<1>3. g.feasible = IF AllMet(sol, setters[i]) THEN f.feasible \cup {i} ELSE f.feasible
  OBVIOUS
<1>4. \A s : Passed(sol, s, 1)
  BY DEF Passed
<1> HIDE DEF setters, sol
<1>5. /\ g.setters \subseteq DOMAIN setters
      /\ g.feasible \subseteq DOMAIN setters \ g.setters
      /\ g.seen = {}
  BY <1>1, <1>3
<1>6. \A j \in DOMAIN setters \ g.setters :
        Settled(sol, setters[j]) /\ (j \in g.feasible <=> AllMet(sol, setters[j]))
  BY <1>1, <1>2, <1>3
<1>7. \A j \in g.setters : FirstOf(g, j) => Passed(sol, setters[j], g.condition)
  BY <1>4
<1>8. ConditionsInv(config, g)
  BY <1>5, <1>6, <1>7 DEF ConditionsInv, setters, sol
<1> QED
  BY <1>8 DEF FrameInv

LEMMA TestConditionStep ==
  ASSUME IInv, TestCondition
  PROVE  IInv'
<1> DEFINE f == Top
           c == Top.condition
           setters == Setters(sources, Top.name)
           sol == Solution(sources)
           Next1(i) == [Top EXCEPT !.setters = @ \ {i}, !.condition = 1]
           Kept(i) == [Next1(i) EXCEPT !.feasible = @ \cup {i}]
           Further == [Top EXCEPT !.condition = @ + 1]
           At(i) == setters[i].conditions[c][1]
<1>1. outcome = "running" /\ stack # <<>> /\ f.pc = "conditions"
  BY DEF TestCondition, Running
<1>2. /\ Agree(sources, state) /\ ErrorInv /\ sources \in Configs /\ f \in Frames /\ f.name \in Names
      /\ FrameInv(sources, state, f)
      /\ \A i \in DOMAIN setters : IsSetter(setters[i])
      /\ \A i \in DOMAIN setters : Mentioned(setters[i]) \subseteq Mentions(sources, Top.name)
  BY <1>1, TopFacts
<1>3. ConditionsInv(sources, f)
  BY <1>1, <1>2 DEF FrameInv
<1>4. f.setters \subseteq DOMAIN setters /\ c \in Nat \ {0}
  BY <1>2, <1>3 DEF ConditionsInv, Frames
<1>5. ASSUME NEW i \in f.setters
      PROVE  /\ Len(setters[i].conditions) \in Nat
             /\ c > Len(setters[i].conditions) \/ c \in DOMAIN setters[i].conditions
             /\ c \in DOMAIN setters[i].conditions =>
                  /\ At(i) \in Names /\ At(i) \in Mentions(sources, Top.name)
                  /\ At(i) = Asked(setters[i], c)
                  /\ state[At(i)].is \in {"unresolved", "error", "late", "resolved"}
  <2>1. IsSetter(setters[i]) /\ Mentioned(setters[i]) \subseteq Mentions(sources, Top.name)
    BY <1>2, <1>4
  <2>2. Len(setters[i].conditions) \in Nat /\ DOMAIN setters[i].conditions = 1 .. Len(setters[i].conditions)
    BY <2>1, SetterFacts
  <2>3. c \in DOMAIN setters[i].conditions => At(i) \in Names /\ At(i) = Asked(setters[i], c)
    BY <2>1, SetterFacts DEF Asked
  <2>4. c \in DOMAIN setters[i].conditions => At(i) \in Mentioned(setters[i])
    BY DEF Mentioned
  <2> QED
    BY <1>2, <1>4, <2>1, <2>2, <2>3, <2>4 DEF Agree
<1>6. PICK i \in f.setters :
        /\ IsFirst(i)
        /\ \/ c > Len(setters[i].conditions) /\ Continues(Kept(i))
           \/ /\ c \in DOMAIN setters[i].conditions
              /\ \/ state[At(i)].is = "unresolved" /\ ~OnStack(At(i)) /\ CallsFor(At(i))
                 \/ Crash("AssertionError")
                 \/ state[At(i)].is = "error" /\ EndsSkipped
                 \/ /\ state[At(i)].is \in Decided
                    /\ \/ state[At(i)].value = setters[i].conditions[c][2] /\ Continues(Further)
                       \/ state[At(i)].value # setters[i].conditions[c][2] /\ Continues(Next1(i))
  <2>1. PICK i \in f.setters :
          /\ IsFirst(i)
          /\ IF c > Len(setters[i].conditions) THEN Continues(Kept(i))
             ELSE CASE state[At(i)].is = "unresolved" /\ ~OnStack(At(i)) -> CallsFor(At(i))
                    [] state[At(i)].is = "unresolved" /\ OnStack(At(i)) -> Crash("AssertionError")
                    [] state[At(i)].is = "error" -> EndsSkipped
                    [] state[At(i)].is \in {"resolved", "late"} ->
                          IF state[At(i)].value = setters[i].conditions[c][2]
                          THEN Continues(Further) ELSE Continues(Next1(i))
    BY DEF TestCondition
  <2>2. /\ Len(setters[i].conditions) \in Nat
        /\ c > Len(setters[i].conditions) \/ c \in DOMAIN setters[i].conditions
        /\ c \in DOMAIN setters[i].conditions =>
             state[At(i)].is \in {"unresolved", "error", "late", "resolved"}
    BY <1>5
  <2>3. CASE c > Len(setters[i].conditions)
    <3> HIDE DEF f, c, setters, Kept, Next1, Further, At
    <3> QED
      BY <2>1, <2>3
  <2>4. CASE ~(c > Len(setters[i].conditions))
    <3> HIDE DEF f, c, setters, Kept, Next1, Further, At
    <3> QED
      BY <2>1, <2>2, <2>4 DEF Decided
  <2> QED
    BY <2>3, <2>4
<1> DEFINE s == setters[i]
<1>7. i \in DOMAIN setters /\ IsSetter(s) /\ Settled(sol, s) \in BOOLEAN
  BY <1>2, <1>4 DEF Settled
<1>8. Passed(sol, s, c)
  <2>1. FirstOf(f, i)
    BY <1>6 DEF IsFirst, FirstOf
  <2> QED
    BY <1>3, <1>6, <2>1 DEF ConditionsInv
<1>9. /\ Next1(i) \in Frames /\ Next1(i).name = f.name /\ Next1(i).pc = "conditions"
      /\ Next1(i).setters = f.setters \ {i} /\ Next1(i).condition = 1 /\ Next1(i).seen = f.seen
      /\ Next1(i).feasible = f.feasible
  <2> DEFINE h == [f EXCEPT !.setters = f.setters \ {i}]
  <2>1. Next1(i) = [h EXCEPT !.condition = 1]
    OBVIOUS
  <2>2. f.setters \ {i} \subseteq Numbers
    BY <1>2, FrameFields
  <2> HIDE DEF Next1
  <2>3. /\ h \in Frames /\ h.name = f.name /\ h.pc = f.pc /\ h.setters = f.setters \ {i}
        /\ h.condition = f.condition /\ h.feasible = f.feasible /\ h.seen = f.seen
    <3>1. h = [f EXCEPT !.setters = f.setters \ {i}]
      OBVIOUS
    <3> HIDE DEF f, h
    <3> QED
      BY <1>2, <2>2, <3>1, ChangedSetters
  <2> HIDE DEF h
  <2>4. 1 \in Nat \ {0}
    OBVIOUS
  <2>5. /\ Next1(i) \in Frames /\ Next1(i).name = h.name /\ Next1(i).pc = h.pc
        /\ Next1(i).setters = h.setters /\ Next1(i).condition = 1 /\ Next1(i).seen = h.seen
        /\ Next1(i).feasible = h.feasible
    BY <2>1, <2>3, <2>4, ChangedCondition
  <2> QED
    BY <1>1, <2>3, <2>5
<1>10. /\ Kept(i) \in Frames /\ Kept(i).name = f.name /\ Kept(i).pc = "conditions"
       /\ Kept(i).setters = f.setters \ {i} /\ Kept(i).condition = 1 /\ Kept(i).seen = f.seen
       /\ Kept(i).feasible = f.feasible \cup {i}
  <2> HIDE DEF Next1, f
  <2>1. i \in Numbers /\ f.feasible \subseteq Numbers
    BY <1>2, <1>6, FrameFields
  <2>2. Kept(i) = [Next1(i) EXCEPT !.feasible = Next1(i).feasible \cup {i}]
    OBVIOUS
  <2>3. Next1(i).feasible \cup {i} \subseteq Numbers
    BY <1>9, <2>1
  <2> HIDE DEF Kept
  <2>4. /\ Kept(i) \in Frames /\ Kept(i).name = Next1(i).name /\ Kept(i).pc = Next1(i).pc
        /\ Kept(i).setters = Next1(i).setters /\ Kept(i).condition = Next1(i).condition
        /\ Kept(i).feasible = Next1(i).feasible \cup {i} /\ Kept(i).seen = Next1(i).seen
    BY <1>9, <2>2, <2>3, ChangedFeasible
  <2> QED
    BY <1>9, <2>4
<1>11. /\ Further \in Frames /\ Further.name = f.name /\ Further.pc = "conditions"
       /\ Further.setters = f.setters /\ Further.condition = c + 1 /\ Further.seen = f.seen
       /\ Further.feasible = f.feasible
  <2>1. Further = [f EXCEPT !.condition = c + 1]
    OBVIOUS
  <2>2. c + 1 \in Nat \ {0}
    BY <1>4
  <2> HIDE DEF Further, f, c
  <2> QED
    BY <1>1, <1>2, <2>1, <2>2, ChangedCondition
<1> HIDE DEF Next1, Kept, Further
<1>12. CASE c > Len(s.conditions) /\ Continues(Kept(i))
  <2>1. Settled(sol, s) /\ AllMet(sol, s)
    BY <1>4, <1>7, <1>8, <1>12, PassedAll
  <2>2. FrameInv(sources, state, Kept(i))
    <3> HIDE DEF c
    <3> QED
    BY <1>2, <1>3, <1>10, <2>1, NextSetter
  <2> QED
    BY <1>1, <1>10, <1>12, <2>2, ContinuesStep
<1>13. CASE c \in DOMAIN s.conditions /\ state[At(i)].is = "unresolved" /\ ~OnStack(At(i)) /\ CallsFor(At(i))
  BY <1>1, <1>5, <1>13, CallsForStep
<1>14. CASE Crash("AssertionError")
  BY <1>14, CrashStep
<1>15. CASE c \in DOMAIN s.conditions /\ state[At(i)].is = "error" /\ EndsSkipped
  <2>1. Acyclic(sources) => Error = sol[f.name]
    <3> SUFFICES ASSUME Acyclic(sources) PROVE Error = sol[f.name]
      OBVIOUS
    <3>1. sol[At(i)].is = "error"
      BY <1>2, <1>5, <1>15 DEF Agree
    <3>2. \A j \in 1 .. (c - 1) : Met(sol, s, j)
      BY <1>8 DEF Passed
    <3>3. Blocks(sol, s, "error")
      BY <1>15, <3>1, <3>2 DEF Blocks
    <3> QED
      BY <1>2, <1>7, <3>3, BlockedByError
  <2>2. Error.is = "error" /\ ~(Error.is \in Decided)
    BY Different DEF Decided
  <2>3. \E n \in Names : state[n].is = "error"
    BY <1>5, <1>15
  <2>4. Ends(Error, {}, {}, {})
    BY <1>15 DEF EndsSkipped
  <2> QED
    BY <1>1, <2>1, <2>2, <2>3, <2>4, EndsStep
<1>16. CASE /\ c \in DOMAIN s.conditions /\ state[At(i)].is \in Decided
            /\ \/ state[At(i)].value = s.conditions[c][2] /\ Continues(Further)
               \/ state[At(i)].value # s.conditions[c][2] /\ Continues(Next1(i))
  <2>1. sol[Asked(s, c)] = state[At(i)]
    BY <1>2, <1>5, <1>16 DEF Agree
  <2>2. sol[Asked(s, c)].is \in Decided
    BY <1>16, <2>1
  <2>3. Met(sol, s, c) <=> state[At(i)].value = s.conditions[c][2]
    BY <2>1 DEF Met, Asked
  <2>4. CASE state[At(i)].value = s.conditions[c][2] /\ Continues(Further)
    <3>1. Passed(sol, s, c + 1)
      BY <1>4, <1>8, <1>16, <2>2, <2>3, <2>4, PassedOne
    <3>2. \A j \in f.setters : FirstOf(Further, j) => j = i
      <4>1. FirstOf(f, i)
        BY <1>6 DEF IsFirst, FirstOf
      <4>2. \A j : FirstOf(Further, j) <=> FirstOf(f, j)
        BY <1>11 DEF FirstOf
      <4> QED
        BY <1>2, <1>4, <4>1, <4>2, OneFirst
    <3>3. ConditionsInv(sources, Further)
      <4>1. /\ f.setters \subseteq DOMAIN setters
            /\ f.feasible \subseteq DOMAIN setters \ f.setters
            /\ f.seen = {}
            /\ \A j \in DOMAIN setters \ f.setters :
                  Settled(sol, setters[j]) /\ (j \in f.feasible <=> AllMet(sol, setters[j]))
        BY <1>3 DEF ConditionsInv
      <4>2. \A j \in f.setters : FirstOf(Further, j) => Passed(sol, setters[j], Further.condition)
        BY <1>11, <3>1, <3>2
      <4>3. setters = Setters(sources, Further.name)
        BY <1>11
      <4> HIDE DEF f, c, setters, sol
      <4>4. LET all == Setters(sources, Further.name)
            IN  /\ Further.setters \subseteq DOMAIN all
                /\ Further.feasible \subseteq DOMAIN all \ Further.setters
                /\ Further.seen = {}
                /\ \A j \in DOMAIN all \ Further.setters :
                      Settled(sol, all[j]) /\ (j \in Further.feasible <=> AllMet(sol, all[j]))
                /\ \A j \in Further.setters : FirstOf(Further, j) => Passed(sol, all[j], Further.condition)
        BY <1>11, <4>1, <4>2, <4>3
      <4> QED
        BY <4>4 DEF ConditionsInv, sol
    <3>4. FrameInv(sources, state, Further)
      BY <1>11, <3>3 DEF FrameInv
    <3> QED
      BY <1>1, <1>11, <2>4, <3>4, ContinuesStep
  <2>5. CASE state[At(i)].value # s.conditions[c][2] /\ Continues(Next1(i))
    <3>1. Settled(sol, s) /\ ~AllMet(sol, s)
      BY <1>4, <1>7, <1>8, <1>16, <2>2, <2>3, <2>5, PassedFails
    <3>2. FrameInv(sources, state, Next1(i))
      BY <1>2, <1>3, <1>9, <3>1, NextSetter
    <3> QED
      BY <1>1, <1>9, <2>5, <3>2, ContinuesStep
  <2> QED
    BY <1>16, <2>4, <2>5
<1> QED
  BY <1>6, <1>12, <1>13, <1>14, <1>15, <1>16

\* The setters whose conditions are met are those the solution keeps
LEMMA AllTested ==
  ASSUME NEW config \in Configs, NEW f, ConditionsInv(config, f), f.setters = {}
  PROVE  /\ AllSettled(config, f.name)
         /\ f.feasible = Feasible(Solution(config), Setters(config, f.name))
         /\ f.seen = {}
<1> DEFINE setters == Setters(config, f.name)
           sol == Solution(config)
<1>1. /\ f.feasible \subseteq DOMAIN setters
      /\ f.seen = {}
      /\ \A j \in DOMAIN setters : Settled(sol, setters[j]) /\ (j \in f.feasible <=> AllMet(sol, setters[j]))
  BY DEF ConditionsInv
<1>2. \A j \in DOMAIN setters : AllMet(sol, setters[j]) <=> \A k \in DOMAIN setters[j].conditions : Met(sol, setters[j], k)
  BY DEF AllMet
<1> HIDE DEF setters, sol
<1>3. f.feasible = Feasible(sol, setters)
  BY <1>1, <1>2 DEF Feasible
<1> QED
  BY <1>1, <1>3 DEF AllSettled, setters, sol

LEMMA SelectStep ==
  ASSUME IInv, Select
  PROVE  IInv'
<1> DEFINE f == Top
           setters == Setters(sources, Top.name)
           sol == Solution(sources)
           kept == Needed(setters, f.feasible)
           One == [f EXCEPT !.pc = "calculate", !.feasible = kept]
           Several == [f EXCEPT !.pc = "late", !.setters = kept, !.feasible = {}]
<1>1. outcome = "running" /\ stack # <<>> /\ f.pc = "conditions" /\ f.setters = {}
  BY DEF Select, Running
<1>2. /\ sources \in Configs /\ f \in Frames /\ f.name \in Names
      /\ FrameInv(sources, state, f)
      /\ IsFiniteSet(DOMAIN setters)
  BY <1>1, TopFacts
<1>3. ConditionsInv(sources, f)
  BY <1>1, <1>2 DEF FrameInv
<1>4. /\ AllSettled(sources, f.name) /\ f.feasible = Feasible(sol, setters) /\ f.seen = {}
      /\ kept = Candidates(sources, f.name)
  BY <1>1, <1>2, <1>3, AllTested DEF Candidates
<1>5. /\ sol[f.name] = ValueByOneOf(sources, f.name, sol, setters, Known(sol, setters, kept))
      /\ IsFiniteSet(kept) /\ kept \subseteq DOMAIN setters
  BY <1>2, <1>4, SettledValue
<1>6. kept = IF Cardinality(f.feasible) > 1 THEN {i \in f.feasible : ~setters[i].is_optional} ELSE f.feasible
  BY DEF Needed
<1>7. \/ f.feasible = {} /\ EndsUnset
      \/ Crash("AssertionError")
      \/ Cardinality(kept) = 1 /\ Continues(One)
      \/ kept # {} /\ Cardinality(kept) # 1 /\ Continues(Several)
  <2> HIDE DEF f, One, Several
  <2>1. IF f.feasible = {} THEN EndsUnset
        ELSE IF kept = {} THEN Crash("AssertionError")
        ELSE IF Cardinality(kept) = 1 THEN Continues(One) ELSE Continues(Several)
    BY <1>6 DEF Select, f, One, Several
  <2> HIDE DEF kept
  <2> QED
    BY <2>1
<1>8. kept \subseteq Numbers /\ kept \subseteq f.feasible
  BY <1>2, <1>6, FrameFields
<1> HIDE DEF kept
<1>9. /\ One \in Frames /\ One.name = f.name /\ One.pc = "calculate" /\ One.feasible = kept
      /\ One.seen = f.seen
  <2> DEFINE h == [f EXCEPT !.pc = "calculate"]
  <2>1. h = [f EXCEPT !.pc = "calculate"]
    OBVIOUS
  <2>2. One = [h EXCEPT !.feasible = kept]
    OBVIOUS
  <2> HIDE DEF f, h, One
  <2>3. /\ h \in Frames /\ h.name = f.name /\ h.pc = "calculate" /\ h.seen = f.seen
    BY <1>2, <2>1, ChangedPc
  <2>4. kept \subseteq Numbers
    BY <1>8
  <2>5. /\ One \in Frames /\ One.name = h.name /\ One.pc = h.pc /\ One.feasible = kept
        /\ One.seen = h.seen
    BY <2>2, <2>3, <2>4, ChangedFeasible
  <2> QED
    BY <2>3, <2>5
<1>10. /\ Several \in Frames /\ Several.name = f.name /\ Several.pc = "late" /\ Several.setters = kept
       /\ Several.feasible = {} /\ Several.seen = f.seen
  <2> DEFINE g == [f EXCEPT !.pc = "late"]
             h == [g EXCEPT !.setters = kept]
  <2>1. g = [f EXCEPT !.pc = "late"]
    OBVIOUS
  <2>2. h = [g EXCEPT !.setters = kept]
    OBVIOUS
  <2>3. Several = [h EXCEPT !.feasible = {}]
    OBVIOUS
  <2> HIDE DEF f, g, h, Several
  <2>4. /\ g \in Frames /\ g.name = f.name /\ g.pc = "late" /\ g.seen = f.seen
    BY <1>2, <2>1, ChangedPc
  <2>5. kept \subseteq Numbers /\ {} \subseteq Numbers
    BY <1>8
  <2>6. /\ h \in Frames /\ h.name = g.name /\ h.pc = g.pc /\ h.seen = g.seen /\ h.setters = kept
    BY <2>2, <2>4, <2>5, ChangedSetters
  <2>7. /\ Several \in Frames /\ Several.name = h.name /\ Several.pc = h.pc /\ Several.seen = h.seen
        /\ Several.setters = h.setters /\ Several.feasible = {}
    BY <2>3, <2>5, <2>6, ChangedFeasible
  <2> QED
    BY <2>4, <2>6, <2>7
<1> HIDE DEF One, Several
<1>11. CASE f.feasible = {} /\ EndsUnset
  <2>1. kept = {}
    BY <1>8, <1>11
  <2>2. Known(sol, setters, kept) = {}
    <3> HIDE DEF sol, setters
    <3> QED
      BY <2>1 DEF Known
  <2>3. sol[f.name] = Error
    <3> HIDE DEF sol, setters
    <3> QED
      BY <1>5, <2>2, FS_EmptySet, ByOneOf
  <2>4. Ends(Error, {}, {f.name}, {})
    BY <1>11 DEF EndsUnset
  <2>5. {} \cup {f.name} # {}
    OBVIOUS
  <2> QED
    BY <1>1, <2>3, <2>4, <2>5, Different, EndsStep
<1>12. CASE Crash("AssertionError")
  BY <1>12, CrashStep
<1>13. CASE Cardinality(kept) = 1 /\ Continues(One)
  <2>1. PICK i : kept = {i}
    BY <1>5, <1>13, Sizes
  <2>2. CalculateInv(sources, state, One)
    BY <1>4, <1>9, <2>1 DEF CalculateInv
  <2>3. FrameInv(sources, state, One)
    BY <1>9, <2>2 DEF FrameInv
  <2> QED
    BY <1>1, <1>9, <1>13, <2>3, ContinuesStep
<1>14. CASE kept # {} /\ Cardinality(kept) # 1 /\ Continues(Several)
  <2>1. ~ \E i : kept = {i}
    BY <1>5, <1>14, Sizes
  <2>2. LateInv(sources, state, Several)
    BY <1>4, <1>10, <2>1 DEF LateInv
  <2>3. FrameInv(sources, state, Several)
    BY <1>10, <2>2 DEF FrameInv
  <2> QED
    BY <1>1, <1>10, <1>14, <2>3, ContinuesStep
<1> QED
  BY <1>7, <1>11, <1>12, <1>13, <1>14

\* A parameter of a setter of the call on top is looked at
LEMMA LookAtFacts ==
  ASSUME IInv, outcome = "running", stack # <<>>,
         NEW i \in DOMAIN Setters(sources, Top.name), NEW p \in Unseen(i)
  PROVE  /\ p \in Names /\ p \in Setters(sources, Top.name)[i].calc.parameters
         /\ state[p].is \in {"unresolved", "error", "late", "resolved"}
         /\ state[p].is = "late" => IsLate(sources, Top.name, i)
         /\ OnStack(p) => ~Acyclic(sources)
         /\ (state[p].is = "unresolved" /\ ~OnStack(p) /\ CallsFor(p)) => IInv'
<1> DEFINE setters == Setters(sources, Top.name)
<1>1. /\ Agree(sources, state) /\ sources \in Configs
      /\ IsSetter(setters[i]) /\ Mentioned(setters[i]) \subseteq Mentions(sources, Top.name)
  BY TopFacts
<1>2. p \in setters[i].calc.parameters
  BY DEF Unseen
<1>3. p \in Mentions(sources, Top.name)
  BY <1>1, <1>2 DEF Mentioned
<1>4. p \in Names
  BY <1>1, <1>2, SetterFacts
<1>5. state[p].is \in {"unresolved", "error", "late", "resolved"}
  BY <1>1, <1>4 DEF Agree
<1>6. state[p].is = "late" => Solution(sources)[p].is = "late"
  BY <1>1, <1>4 DEF Agree, Decided
<1>7. state[p].is = "late" => IsLate(sources, Top.name, i)
  BY <1>2, <1>6 DEF IsLate, Has
<1>8. OnStack(p) => ~Acyclic(sources)
  BY <1>3, CycleOnStack
<1>9. (state[p].is = "unresolved" /\ ~OnStack(p) /\ CallsFor(p)) => IInv'
  BY <1>3, CallsForStep
<1> QED
  BY <1>2, <1>4, <1>5, <1>7, <1>8, <1>9

LEMMA EndsInErrorStep ==
  ASSUME IInv, outcome = "running", stack # <<>>, EndsInError,
         Acyclic(sources) => Solution(sources)[Top.name] = Error
  PROVE  IInv'
<1>1. Ends(Error, {Top.name}, {}, {})
  BY DEF EndsInError
<1>2. Error.is = "error" /\ ~(Error.is \in Decided)
  BY Different DEF Decided
<1>3. {Top.name} \cup {} # {}
  OBVIOUS
<1> QED
  BY <1>1, <1>2, <1>3, EndsStep

LEMMA FilterLateStep ==
  ASSUME IInv, FilterLate
  PROVE  IInv'
<1> DEFINE f == Top
           setters == Setters(sources, Top.name)
           some == Candidates(sources, Top.name)
           Skip(i) == [f EXCEPT !.setters = f.setters \ {i}, !.seen = {}]
           Kept(i) == [Skip(i) EXCEPT !.feasible = Skip(i).feasible \cup {i}]
           More(p) == [f EXCEPT !.seen = f.seen \cup {p}]
<1>1. outcome = "running" /\ stack # <<>> /\ f.pc = "late"
  BY DEF FilterLate, Running
<1>2. /\ sources \in Configs /\ f \in Frames /\ f.name \in Names
      /\ FrameInv(sources, state, f)
  BY <1>1, TopFacts
<1>3. LateInv(sources, state, f)
  BY <1>1, <1>2 DEF FrameInv
<1>4. /\ f.setters \subseteq Numbers /\ f.feasible \subseteq Numbers /\ f.seen \subseteq Names
      /\ f.setters \subseteq some /\ some \subseteq DOMAIN setters
  BY <1>2, <1>3, FrameFields DEF LateInv, Candidates, Needed, Feasible
<1>5. PICK i \in f.setters :
        \/ Unseen(i) = {} /\ Continues(Kept(i))
        \/ \E p \in Unseen(i) : LookAt(p, Continues(Skip(i)), See(p))
  BY DEF FilterLate
<1>6. ASSUME NEW g \in Frames, g.name = f.name, g.pc = "late", g.setters = f.setters \ {i}, g.seen = {},
             \/ /\ g.feasible = f.feasible \cup {i}
                /\ \A p \in setters[i].calc.parameters : Seen(state, p)
             \/ g.feasible = f.feasible /\ IsLate(sources, f.name, i)
      PROVE  FrameInv(sources, state, g)
  <2>1. /\ AllSettled(sources, f.name)
        /\ f.setters \cup f.feasible \subseteq some
        /\ ~ \E j : some = {j}
        /\ \A j \in some \ (f.setters \cup f.feasible) : IsLate(sources, f.name, j)
        /\ \A j \in f.feasible \ f.setters : \A p \in setters[j].calc.parameters : Seen(state, p)
        /\ f.feasible \cap f.setters = {}
    BY <1>3 DEF LateInv
  <2> HIDE DEF f, setters, some
  <2>2. /\ AllSettled(sources, f.name)
        /\ g.setters \cup g.feasible \subseteq some
        /\ ~ \E j : some = {j}
        /\ \A j \in some \ (g.setters \cup g.feasible) : IsLate(sources, f.name, j)
        /\ \A j \in g.feasible \ g.setters : \A p \in setters[j].calc.parameters : Seen(state, p)
        /\ g.feasible \cap g.setters = {}
        /\ \A p \in g.seen : Seen(state, p)
    BY <1>6, <2>1
  <2>3. LateInv(sources, state, g)
    <3>1. some = Candidates(sources, g.name) /\ setters = Setters(sources, g.name)
      BY <1>6 DEF f, some, setters
    <3> QED
      BY <1>6, <2>2, <3>1 DEF LateInv
  <2> QED
    BY <1>6, <2>3 DEF FrameInv
<1>7. /\ Skip(i) \in Frames /\ Skip(i).name = f.name /\ Skip(i).pc = "late"
      /\ Skip(i).setters = f.setters \ {i} /\ Skip(i).seen = {} /\ Skip(i).feasible = f.feasible
  <2> DEFINE h == [f EXCEPT !.setters = f.setters \ {i}]
  <2>1. h = [f EXCEPT !.setters = f.setters \ {i}]
    OBVIOUS
  <2>2. Skip(i) = [h EXCEPT !.seen = {}]
    OBVIOUS
  <2>3. f.setters \ {i} \subseteq Numbers /\ {} \subseteq Names
    BY <1>4
  <2> HIDE DEF f, h, Skip
  <2>4. /\ h \in Frames /\ h.name = f.name /\ h.pc = f.pc /\ h.setters = f.setters \ {i}
        /\ h.feasible = f.feasible
    BY <1>2, <2>1, <2>3, ChangedSetters
  <2>5. /\ Skip(i) \in Frames /\ Skip(i).name = h.name /\ Skip(i).pc = h.pc
        /\ Skip(i).setters = h.setters /\ Skip(i).seen = {} /\ Skip(i).feasible = h.feasible
    BY <2>2, <2>3, <2>4, ChangedSeen
  <2> QED
    BY <1>1, <2>4, <2>5
<1> HIDE DEF Skip
<1>8. CASE Unseen(i) = {} /\ Continues(Kept(i))
  <2>1. Kept(i) = [Skip(i) EXCEPT !.feasible = Skip(i).feasible \cup {i}]
    OBVIOUS
  <2>2. Skip(i).feasible \cup {i} \subseteq Numbers
    BY <1>4, <1>7
  <2> HIDE DEF Kept
  <2>3. /\ Kept(i) \in Frames /\ Kept(i).name = Skip(i).name /\ Kept(i).pc = Skip(i).pc
        /\ Kept(i).setters = Skip(i).setters /\ Kept(i).feasible = Skip(i).feasible \cup {i}
        /\ Kept(i).seen = Skip(i).seen
    BY <1>7, <2>1, <2>2, ChangedFeasible
  <2>4. \A p \in setters[i].calc.parameters : Seen(state, p)
    BY <1>3, <1>8 DEF LateInv, Unseen
  <2>5. FrameInv(sources, state, Kept(i))
    BY <1>6, <1>7, <2>3, <2>4
  <2> QED
    BY <1>1, <1>7, <1>8, <2>3, <2>5, ContinuesStep
<1> HIDE DEF Kept
<1>9. CASE \E p \in Unseen(i) : LookAt(p, Continues(Skip(i)), See(p))
  <2>1. PICK p \in Unseen(i) : LookAt(p, Continues(Skip(i)), See(p))
    BY <1>9
  <2>2. i \in DOMAIN setters
    BY <1>4
  <2>3. /\ p \in Names
        /\ state[p].is \in {"unresolved", "error", "late", "resolved"}
        /\ state[p].is = "late" => IsLate(sources, f.name, i)
        /\ OnStack(p) => ~Acyclic(sources)
        /\ (state[p].is = "unresolved" /\ ~OnStack(p) /\ CallsFor(p)) => IInv'
    BY <1>1, <2>2, LookAtFacts
  <2>4. \/ state[p].is = "unresolved" /\ ~OnStack(p) /\ CallsFor(p)
        \/ OnStack(p) /\ EndsInError
        \/ state[p].is = "late" /\ Continues(Skip(i))
        \/ state[p].is \in {"error", "resolved"} /\ See(p)
    BY <2>1, <2>3 DEF LookAt
  <2>5. CASE state[p].is = "unresolved" /\ ~OnStack(p) /\ CallsFor(p)
    BY <2>3, <2>5
  <2>6. CASE OnStack(p) /\ EndsInError
    BY <1>1, <2>3, <2>6, EndsInErrorStep
  <2>7. CASE state[p].is = "late" /\ Continues(Skip(i))
    <3>1. FrameInv(sources, state, Skip(i))
      BY <1>6, <1>7, <2>3, <2>7
    <3> QED
      BY <1>1, <1>7, <2>7, <3>1, ContinuesStep
  <2>8. CASE state[p].is \in {"error", "resolved"} /\ See(p)
    <3>1. More(p) = [f EXCEPT !.seen = f.seen \cup {p}]
      OBVIOUS
    <3>2. Continues(More(p))
      BY <2>8 DEF See
    <3>3. f.seen \cup {p} \subseteq Names
      BY <1>4, <2>3
    <3>4. \A q \in f.seen \cup {p} : Seen(state, q)
      BY <1>3, <2>8 DEF LateInv, Seen
    <3> HIDE DEF More
    <3>5. /\ More(p) \in Frames /\ More(p).name = f.name /\ More(p).pc = f.pc
          /\ More(p).setters = f.setters /\ More(p).feasible = f.feasible
          /\ More(p).seen = f.seen \cup {p}
      <4> HIDE DEF f
      <4> QED
        BY <1>2, <3>1, <3>3, ChangedSeen
    <3>6. LateInv(sources, state, More(p))
      BY <1>3, <3>4, <3>5 DEF LateInv
    <3>7. FrameInv(sources, state, More(p))
      BY <1>1, <3>5, <3>6 DEF FrameInv
    <3> QED
      BY <1>1, <3>2, <3>5, <3>7, ContinuesStep
  <2> QED
    BY <2>4, <2>5, <2>6, <2>7, <2>8
<1> QED
  BY <1>5, <1>8, <1>9

\* Several setters are left: without a cycle the solution is an error as well
LEMMA SeveralLeft ==
  ASSUME NEW config \in Configs, NEW env, Agree(config, env), Acyclic(config),
         NEW f \in Frames, LateInv(config, env, f), f.setters = {}, Cardinality(f.feasible) > 1
  PROVE  Solution(config)[f.name] = Error
<1> DEFINE setters == Setters(config, f.name)
           some == Candidates(config, f.name)
           sol == Solution(config)
<1>1. f.name \in Names
  BY FrameFields
<1>2. /\ AllSettled(config, f.name) /\ f.feasible \subseteq some
      /\ ~ \E i : some = {i}
      /\ \A i \in some \ f.feasible : Has(sol, setters[i], "late")
      /\ \A i \in f.feasible : \A p \in setters[i].calc.parameters : Seen(env, p)
  BY DEF LateInv, IsLate
<1>3. /\ sol[f.name] = ValueByOneOf(config, f.name, sol, setters, Known(sol, setters, some))
      /\ IsFiniteSet(some) /\ some \subseteq DOMAIN setters
  BY <1>1, <1>2, SettledValue
<1>4. IsFiniteSet(f.feasible)
  BY <1>2, <1>3, FS_Subset
<1>5. f.feasible # {} /\ ~ \E i : f.feasible = {i}
  BY <1>4, Sizes
<1>6. Cardinality(some) > 1
  BY <1>2, <1>3, <1>5, Sizes
<1>7. \A i \in DOMAIN setters : \A p \in setters[i].calc.parameters : p \in Names
  BY SettersType, SetterFacts
<1>8. \A i \in f.feasible : \A p \in setters[i].calc.parameters : sol[p].is \in {"error", "resolved"}
  <2>1. \A p \in Names : Seen(env, p) => sol[p] = env[p]
    BY DEF Seen, Agree, Decided
  <2> HIDE DEF sol, setters, some
  <2> QED
    BY <1>2, <1>3, <1>7, <2>1 DEF Seen
<1>9. \A i \in f.feasible : ~Has(sol, setters[i], "late") /\ ~Has(sol, setters[i], "unresolved")
  BY <1>8 DEF Has
<1> HIDE DEF sol, setters, some
<1>10. Known(sol, setters, some) = f.feasible
  BY <1>2, <1>6, <1>9 DEF Known
<1>11. ValueByOneOf(config, f.name, sol, setters, f.feasible) = Error
  BY <1>4, <1>5, <1>9, ByOneOf
<1> QED
  BY <1>3, <1>10, <1>11 DEF sol

LEMMA ChooseOneStep ==
  ASSUME IInv, ChooseOne
  PROVE  IInv'
<1> DEFINE f == Top
           Chosen == [f EXCEPT !.pc = "calculate"]
<1>1. outcome = "running" /\ stack # <<>> /\ f.pc = "late" /\ f.setters = {}
  BY DEF ChooseOne, Running
<1>2. /\ sources \in Configs /\ f \in Frames /\ f.name \in Names /\ Agree(sources, state)
      /\ FrameInv(sources, state, f)
  BY <1>1, TopFacts
<1>3. LateInv(sources, state, f)
  BY <1>1, <1>2 DEF FrameInv
<1>4. \/ Crash("IndexError")
      \/ Cardinality(f.feasible) > 1 /\ EndsInError
      \/ f.feasible # {} /\ ~(Cardinality(f.feasible) > 1) /\ Continues(Chosen)
  <2>1. IF f.feasible = {} THEN Crash("IndexError")
        ELSE IF Cardinality(f.feasible) > 1 THEN EndsInError
        ELSE Continues(Chosen)
    BY DEF ChooseOne
  <2> HIDE DEF f, Chosen
  <2> QED
    BY <2>1
<1>5. CASE Crash("IndexError")
  BY <1>5, CrashStep
<1>6. CASE Cardinality(f.feasible) > 1 /\ EndsInError
  <2>1. Acyclic(sources) => Solution(sources)[f.name] = Error
    BY <1>1, <1>2, <1>3, <1>6, SeveralLeft
  <2> QED
    BY <1>1, <1>6, <2>1, EndsInErrorStep
<1>7. CASE f.feasible # {} /\ ~(Cardinality(f.feasible) > 1) /\ Continues(Chosen)
  <2>1. f.feasible \subseteq Candidates(sources, f.name)
    BY <1>3 DEF LateInv
  <2>2. IsFiniteSet(f.feasible)
    <3>1. f.feasible \subseteq DOMAIN Setters(sources, f.name)
      BY <2>1 DEF Candidates, Needed, Feasible
    <3> QED
      BY <1>2, <3>1, SettersType, FS_Subset
  <2>3. PICK i : f.feasible = {i}
    BY <1>7, <2>2, Sizes
  <2>4. Chosen = [f EXCEPT !.pc = "calculate"]
    OBVIOUS
  <2> HIDE DEF f, Chosen
  <2>5. /\ Chosen \in Frames /\ Chosen.name = f.name /\ Chosen.pc = "calculate"
        /\ Chosen.feasible = f.feasible /\ Chosen.seen = f.seen
    BY <1>2, <2>4, ChangedPc
  <2>6. /\ AllSettled(sources, f.name)
        /\ \A j \in Candidates(sources, f.name) \ {i} : IsLate(sources, f.name, j)
        /\ \A p \in Setters(sources, f.name)[i].calc.parameters : Seen(state, p)
        /\ \A p \in f.seen : Seen(state, p)
    BY <1>1, <1>3, <2>3 DEF LateInv
  <2>7. CalculateInv(sources, state, Chosen)
    BY <2>1, <2>3, <2>5, <2>6 DEF CalculateInv
  <2>8. FrameInv(sources, state, Chosen)
    BY <2>5, <2>7 DEF FrameInv
  <2> QED
    BY <1>1, <1>7, <2>5, <2>8, ContinuesStep DEF f
<1> QED
  BY <1>4, <1>5, <1>6, <1>7

\* A parameter of the setter that was kept is late: so is the solution
LEMMA LateParameter ==
  ASSUME NEW config \in Configs, NEW env, Agree(config, env), NEW f \in Frames,
         CalculateInv(config, env, f), NEW i \in f.feasible, IsLate(config, f.name, i),
         NEW p \in Setters(config, f.name)[i].calc.parameters, env[p].is = "late"
  PROVE  Solution(config)[f.name] = LateValue
<1> DEFINE setters == Setters(config, f.name)
           some == Candidates(config, f.name)
           sol == Solution(config)
<1>1. f.name \in Names
  BY FrameFields
<1>2. AllSettled(config, f.name) /\ some = {i}
  BY DEF CalculateInv, Seen
<1>3. sol[f.name] = ValueByOneOf(config, f.name, sol, setters, Known(sol, setters, some)) /\ IsFiniteSet(some)
  BY <1>1, <1>2, SettledValue
<1>4. Known(sol, setters, some) = some
  <2> HIDE DEF setters, some, sol
  <2> QED
    BY <1>2, <1>3, Sizes DEF Known
<1>5. sol[f.name] = ValueBy(config, f.name, sol, setters[i])
  <2> HIDE DEF setters, some, sol
  <2> QED
    BY <1>2, <1>3, <1>4, ByOneOf
<1> QED
  BY <1>5 DEF ValueBy, IsLate

LEMMA LookForLateStep ==
  ASSUME IInv, LookForLate
  PROVE  IInv'
<1> DEFINE f == Top
           More(p) == [f EXCEPT !.seen = f.seen \cup {p}]
<1>1. outcome = "running" /\ stack # <<>> /\ f.pc = "calculate"
  BY DEF LookForLate, Running
<1>2. /\ sources \in Configs /\ f \in Frames /\ f.name \in Names /\ Agree(sources, state)
      /\ FrameInv(sources, state, f)
  BY <1>1, TopFacts
<1>3. CalculateInv(sources, state, f)
  BY <1>1, <1>2 DEF FrameInv
<1>4. PICK i \in f.feasible : \E p \in Unseen(i) : LookAt(p, EndsLate, See(p))
  BY DEF LookForLate
<1>5. PICK p \in Unseen(i) : LookAt(p, EndsLate, See(p))
  BY <1>4
<1>6. i \in DOMAIN Setters(sources, f.name)
  BY <1>3 DEF CalculateInv, Candidates, Needed, Feasible
<1>7. /\ p \in Names /\ p \in Setters(sources, f.name)[i].calc.parameters
      /\ state[p].is \in {"unresolved", "error", "late", "resolved"}
      /\ state[p].is = "late" => IsLate(sources, f.name, i)
      /\ OnStack(p) => ~Acyclic(sources)
      /\ (state[p].is = "unresolved" /\ ~OnStack(p) /\ CallsFor(p)) => IInv'
  BY <1>1, <1>6, LookAtFacts
<1>8. \/ state[p].is = "unresolved" /\ ~OnStack(p) /\ CallsFor(p)
      \/ OnStack(p) /\ EndsInError
      \/ state[p].is = "late" /\ EndsLate
      \/ state[p].is \in {"error", "resolved"} /\ See(p)
  BY <1>5, <1>7 DEF LookAt
<1>9. CASE state[p].is = "unresolved" /\ ~OnStack(p) /\ CallsFor(p)
  BY <1>7, <1>9
<1>10. CASE OnStack(p) /\ EndsInError
  BY <1>1, <1>7, <1>10, EndsInErrorStep
<1>11. CASE state[p].is = "late" /\ EndsLate
  <2>1. Solution(sources)[f.name] = LateValue
    BY <1>2, <1>3, <1>7, <1>11, LateParameter
  <2>2. Ends(LateValue, {}, {}, {f.name})
    BY <1>11 DEF EndsLate
  <2> QED
    BY <1>1, <2>1, <2>2, Different, EndsStep
<1>12. CASE state[p].is \in {"error", "resolved"} /\ See(p)
  <2>1. More(p) = [f EXCEPT !.seen = f.seen \cup {p}]
    OBVIOUS
  <2>2. Continues(More(p))
    BY <1>12 DEF See
  <2>3. f.seen \cup {p} \subseteq Names
    BY <1>2, <1>7, FrameFields
  <2>4. \A q \in f.seen \cup {p} : Seen(state, q)
    BY <1>3, <1>12 DEF CalculateInv, Seen
  <2> HIDE DEF More
  <2>5. /\ More(p) \in Frames /\ More(p).name = f.name /\ More(p).pc = f.pc
        /\ More(p).feasible = f.feasible /\ More(p).seen = f.seen \cup {p}
    <3> HIDE DEF f
    <3> QED
      BY <1>2, <2>1, <2>3, ChangedSeen
  <2>6. CalculateInv(sources, state, More(p))
    <3> HIDE DEF f
    <3> QED
      BY <1>3, <2>4, <2>5 DEF CalculateInv
  <2>7. FrameInv(sources, state, More(p))
    BY <1>1, <2>5, <2>6 DEF FrameInv
  <2> QED
    BY <1>1, <2>2, <2>5, <2>7, ContinuesStep
<1> QED
  BY <1>8, <1>9, <1>10, <1>11, <1>12

LEMMA CalculateStep ==
  ASSUME IInv, Calculate
  PROVE  IInv'
<1> DEFINE f == Top
           sol == Solution(sources)
<1>1. outcome = "running" /\ stack # <<>> /\ f.pc = "calculate"
  BY DEF Calculate, Running
<1>2. /\ sources \in Configs /\ f \in Frames /\ f.name \in Names /\ Agree(sources, state)
      /\ FrameInv(sources, state, f)
      /\ \A i \in DOMAIN Setters(sources, f.name) : IsSetter(Setters(sources, f.name)[i])
  BY <1>1, TopFacts
<1>3. CalculateInv(sources, state, f)
  BY <1>1, <1>2 DEF FrameInv
<1>4. PICK i \in f.feasible :
        /\ Unseen(i) = {}
        /\ LET setter == Setters(sources, f.name)[i]
               calc == setter.calc
               value == Applied(calc, state)
           IN  IF \E p \in calc.parameters : state[p].is = "error" THEN EndsSkipped
               ELSE IF calc.kind = "late" THEN EndsLate
               ELSE IF calc.kind = "asserts" \/ ~ValidSingle(sources, f.name, value) THEN EndsInError
               ELSE EndsWith(value, setter.is_user)
  BY DEF Calculate
<1> DEFINE s == Setters(sources, f.name)[i]
           value == Applied(s.calc, state)
<1>5. i \in DOMAIN Setters(sources, f.name)
  BY <1>3 DEF CalculateInv, Candidates, Needed, Feasible
<1>6. s.calc.parameters \subseteq Names /\ (s.calc.kind = "late" => s.calc.parameters = {})
  BY <1>2, <1>5, SetterFacts
<1>7. \A p \in s.calc.parameters : state[p].is \in {"error", "resolved"}
  BY <1>3, <1>4 DEF CalculateInv, Unseen, Seen
<1>8. ASSUME Acyclic(sources) \/ \A p \in s.calc.parameters : state[p].is # "error"
      PROVE  /\ sol[f.name] = ValueBy(sources, f.name, sol, s)
             /\ \A p \in s.calc.parameters : sol[p] = state[p]
  <2>1. \A p \in s.calc.parameters :
          state[p].is = "resolved" \/ (Acyclic(sources) /\ state[p].is = "error")
    BY <1>7, <1>8
  <2> QED
    BY <1>2, <1>3, <2>1, TheOneLeft
<1>9. \/ (\E p \in s.calc.parameters : state[p].is = "error") /\ EndsSkipped
      \/ /\ \A p \in s.calc.parameters : state[p].is # "error"
         /\ \/ s.calc.kind = "late" /\ EndsLate
            \/ /\ s.calc.kind # "late"
               /\ \/ (s.calc.kind = "asserts" \/ ~ValidSingle(sources, f.name, value)) /\ EndsInError
                  \/ /\ ~(s.calc.kind = "asserts" \/ ~ValidSingle(sources, f.name, value))
                     /\ EndsWith(value, s.is_user)
  <2>1. IF \E p \in s.calc.parameters : state[p].is = "error" THEN EndsSkipped
        ELSE IF s.calc.kind = "late" THEN EndsLate
        ELSE IF s.calc.kind = "asserts" \/ ~ValidSingle(sources, f.name, value) THEN EndsInError
        ELSE EndsWith(value, s.is_user)
    BY <1>4
  <2> HIDE DEF s, value, f
  <2> QED
    BY <2>1
<1>10. CASE (\E p \in s.calc.parameters : state[p].is = "error") /\ EndsSkipped
  <2>1. Acyclic(sources) => sol[f.name] = Error
    <3> SUFFICES ASSUME Acyclic(sources) PROVE sol[f.name] = Error
      OBVIOUS
    <3>1. /\ sol[f.name] = ValueBy(sources, f.name, sol, s)
          /\ \A p \in s.calc.parameters : sol[p] = state[p]
      BY <1>8
    <3>2. Has(sol, s, "error") /\ ~Has(sol, s, "late") /\ ~Has(sol, s, "unresolved")
      BY <1>7, <1>10, <3>1 DEF Has
    <3>3. s.calc.kind # "late"
      BY <1>6, <1>10
    <3> HIDE DEF sol, s, f
    <3> QED
      BY <3>1, <3>2, <3>3 DEF ValueBy
  <2>2. Ends(Error, {}, {}, {})
    BY <1>10 DEF EndsSkipped
  <2>3. \E n \in Names : state[n].is = "error"
    BY <1>6, <1>10
  <2>4. Error.is = "error" /\ ~(Error.is \in Decided)
    BY Different DEF Decided
  <2> QED
    BY <1>1, <2>1, <2>2, <2>3, <2>4, EndsStep
<1>11. CASE \A p \in s.calc.parameters : state[p].is # "error"
  <2>1. /\ sol[f.name] = ValueBy(sources, f.name, sol, s)
        /\ \A p \in s.calc.parameters : sol[p] = state[p]
    BY <1>8, <1>11
  <2>2. ~Has(sol, s, "error") /\ ~Has(sol, s, "late") /\ ~Has(sol, s, "unresolved")
    BY <1>7, <1>11, <2>1 DEF Has
  <2>3. Applied(s.calc, sol) = value
    BY <2>1 DEF Applied
  <2>4. sol[f.name] = IF s.calc.kind = "late" THEN LateValue
                      ELSE IF s.calc.kind = "asserts" \/ ~ValidSingle(sources, f.name, value) THEN Error
                      ELSE Resolved(value, s.is_user)
    <3> HIDE DEF sol, s, f, value
    <3> QED
      BY <2>1, <2>2, <2>3 DEF ValueBy
  <2>5. CASE s.calc.kind = "late" /\ EndsLate
    <3>1. Ends(LateValue, {}, {}, {f.name})
      BY <2>5 DEF EndsLate
    <3> QED
      BY <1>1, <2>4, <2>5, <3>1, Different, EndsStep
  <2>6. CASE /\ s.calc.kind # "late"
             /\ s.calc.kind = "asserts" \/ ~ValidSingle(sources, f.name, value)
             /\ EndsInError
    <3>1. sol[f.name] = Error
      <4> HIDE DEF sol, s, f, value
      <4> QED
        BY <2>4, <2>6
    <3> QED
      BY <1>1, <2>6, <3>1, EndsInErrorStep
  <2>7. CASE /\ s.calc.kind # "late"
             /\ ~(s.calc.kind = "asserts" \/ ~ValidSingle(sources, f.name, value))
             /\ EndsWith(value, s.is_user)
    <3> DEFINE how == Resolved(value, s.is_user)
    <3>1. sol[f.name] = how
      <4> HIDE DEF sol, s, f, value
      <4> QED
        BY <2>4, <2>7
    <3>2. Ends(how, {}, {}, {})
      BY <2>7 DEF EndsWith
    <3>3. how.is = "resolved"
      BY Different
    <3> HIDE DEF how
    <3> QED
      BY <1>1, <3>1, <3>2, <3>3, EndsStep
  <2>8. \/ s.calc.kind = "late" /\ EndsLate
        \/ /\ s.calc.kind # "late"
           /\ s.calc.kind = "asserts" \/ ~ValidSingle(sources, f.name, value)
           /\ EndsInError
        \/ /\ s.calc.kind # "late"
           /\ ~(s.calc.kind = "asserts" \/ ~ValidSingle(sources, f.name, value))
           /\ EndsWith(value, s.is_user)
    <3> HIDE DEF s, f, value
    <3> QED
      BY <1>9, <1>11
  <2> QED
    BY <2>5, <2>6, <2>7, <2>8
<1>12. \/ (\E p \in s.calc.parameters : state[p].is = "error") /\ EndsSkipped
       \/ \A p \in s.calc.parameters : state[p].is # "error"
  <2> HIDE DEF s, f, value
  <2> QED
    BY <1>9
<1> QED
  BY <1>10, <1>11, <1>12

-----------------------------------------------------------------------------
(* The targets                                                             *)

LEMMA WalkFacts ==
  ASSUME IInv, outcome = "running", stack = <<>>, walk # <<>>
  PROVE  /\ TypeInv /\ StackInv /\ Agree(sources, state) /\ AskedInv /\ ErrorInv
         /\ Len(walk) \in Nat \ {0} /\ DOMAIN walk = 1 .. Len(walk) /\ Here = walk[Len(walk)]
         /\ walk \in Seq(Visits) /\ Here \in Visits
         /\ Here.variables \subseteq Names /\ Here.scopes \subseteq Names /\ Here.target \in Targets
         /\ Here.scopes \subseteq DOMAIN Here.target.sub_scopes
         /\ ToAsk = walk[1].variables \cup walk[1].scopes
         /\ \A n : ~OnStack(n)
<1>1. TypeInv /\ StackInv /\ Agree(sources, state) /\ AskedInv /\ ErrorInv
  BY DEF IInv, Going
<1>2. walk \in Seq(Visits)
  BY <1>1 DEF TypeInv
<1>3. Len(walk) \in Nat \ {0} /\ DOMAIN walk = 1 .. Len(walk)
  BY <1>2, LenProperties, EmptySeq
<1>4. Len(walk) \in DOMAIN walk /\ Here = walk[Len(walk)]
  BY <1>3 DEF Here
<1>5. Here \in Visits
  BY <1>2, <1>3, <1>4, ElementOfSeq
<1>6. Here.variables \subseteq Names /\ Here.scopes \subseteq Names /\ Here.target \in Targets
  BY <1>5 DEF Visits
<1>7. Here.scopes \subseteq DOMAIN Here.target.sub_scopes
  BY <1>1, <1>4 DEF TypeInv
<1>8. ToAsk = walk[1].variables \cup walk[1].scopes
  BY DEF ToAsk
<1>9. \A n : ~OnStack(n)
  BY DEF OnStack
<1> QED
  BY <1>1, <1>2, <1>3, <1>4, <1>5, <1>6, <1>7, <1>8, <1>9

\* The visit on top of the walk changes: what it no longer has to ask for is known, or asked for
LEMMA SetHereKeeps ==
  ASSUME IInv, outcome = "running", stack = <<>>, walk # <<>>,
         NEW visit \in Visits, visit.target = Here.target, visit.scopes \subseteq Here.scopes,
         NEW w, w = [walk EXCEPT ![Len(walk)] = visit]
  PROVE  /\ w \in Seq(Visits) /\ Len(w) = Len(walk) /\ w # <<>>
         /\ \A i \in DOMAIN w : w[i].scopes \subseteq DOMAIN w[i].target.sub_scopes
         /\ \A n \in ToAsk : n \in w[1].variables \cup w[1].scopes
                             \/ n \in (Here.variables \cup Here.scopes) \ (visit.variables \cup visit.scopes)
<1> DEFINE size == Len(walk)
<1>1. /\ size \in Nat \ {0} /\ DOMAIN walk = 1 .. size /\ Here = walk[size]
      /\ walk \in Seq(Visits) /\ Here.scopes \subseteq DOMAIN Here.target.sub_scopes
      /\ ToAsk = walk[1].variables \cup walk[1].scopes
      /\ \A i \in DOMAIN walk : walk[i].scopes \subseteq DOMAIN walk[i].target.sub_scopes
  BY WalkFacts DEF TypeInv
<1>2. /\ w \in Seq(Visits) /\ Len(w) = size
      /\ \A i \in 1 .. size : w[i] = IF i = size THEN visit ELSE walk[i]
  <2>1. size \in 1 .. Len(walk)
    BY <1>1
  <2> QED
    BY <1>1, <2>1, ExceptSeq
<1> HIDE DEF size
<1>3. DOMAIN w = 1 .. size
  BY <1>2, LenProperties
<1>4. \A i \in DOMAIN w : w[i].scopes \subseteq DOMAIN w[i].target.sub_scopes
  BY <1>1, <1>2, <1>3
<1>5. \A n \in ToAsk : n \in w[1].variables \cup w[1].scopes
                       \/ n \in (Here.variables \cup Here.scopes) \ (visit.variables \cup visit.scopes)
  <2>1. 1 \in 1 .. size
    BY <1>1
  <2>2. CASE size = 1
    BY <1>1, <1>2, <2>1, <2>2
  <2>3. CASE size # 1
    <3>1. w[1] = walk[1]
      BY <1>2, <2>1, <2>3
    <3> QED
      BY <1>1, <3>1
  <2> QED
    BY <2>2, <2>3
<1>6. w # <<>>
  BY <1>1, <1>2
<1> QED
  BY <1>2, <1>4, <1>5, <1>6 DEF size

\* A name is called for from outside, or nothing is
LEMMA AskKeeps ==
  ASSUME IInv, outcome = "running", stack = <<>>, NEW n \in Names, UNCHANGED <<sources, state>>,
         IF state[n].is = "unresolved" THEN Calls(n) ELSE UNCHANGED stack
  PROVE  /\ stack' \in Seq(Frames) /\ StackInv'
         /\ state'[n].is # "unresolved" \/ OnStack(n)'
<1>1. TypeInv /\ StackInv
  BY DEF IInv, Going
<1>2. CASE state[n].is = "unresolved"
  <2>1. Calls(n) /\ ~OnStack(n)
    BY <1>2 DEF OnStack
  <2> QED
    BY <1>1, <1>2, <2>1, CallsKeeps
<1>3. CASE state[n].is # "unresolved"
  <2>1. UNCHANGED <<stack, sources, state>>
    BY <1>3
  <2>2. StackInv'
    BY <1>1, <2>1 DEF StackInv
  <2> QED
    BY <1>1, <1>3, <2>1, <2>2 DEF TypeInv
<1> QED
  BY <1>2, <1>3

LEMMA AskVariableStep ==
  ASSUME IInv, AskVariable
  PROVE  IInv'
<1>1. outcome = "running" /\ stack = <<>> /\ walk # <<>> /\ UNCHANGED <<sources, state, errors, unset, late, outcome>>
  BY DEF AskVariable
<1>2. PICK n \in Here.variables :
        /\ SetHere([Here EXCEPT !.variables = Here.variables \ {n}])
        /\ IF state[n].is = "unresolved" THEN Calls(n) ELSE UNCHANGED stack
  BY DEF AskVariable
<1> DEFINE visit == [Here EXCEPT !.variables = Here.variables \ {n}]
<1>3. /\ TypeInv /\ StackInv /\ Agree(sources, state) /\ AskedInv /\ ErrorInv
      /\ Here \in Visits /\ Here.variables \subseteq Names /\ \A m : ~OnStack(m)
  BY <1>1, WalkFacts
<1>4. visit \in Visits /\ visit.target = Here.target /\ visit.scopes = Here.scopes
      /\ visit.variables = Here.variables \ {n}
  BY <1>3 DEF Visits
<1>5. walk' = [walk EXCEPT ![Len(walk)] = visit]
  BY <1>2 DEF SetHere
<1> HIDE DEF visit
<1>6. /\ walk' \in Seq(Visits) /\ walk' # <<>>
      /\ \A i \in DOMAIN walk' : walk'[i].scopes \subseteq DOMAIN walk'[i].target.sub_scopes
      /\ \A m \in ToAsk : m \in walk'[1].variables \cup walk'[1].scopes \/ m = n
  <2>1. visit.scopes \subseteq Here.scopes
    BY <1>4
  <2>2. /\ walk' \in Seq(Visits) /\ walk' # <<>>
        /\ \A i \in DOMAIN walk' : walk'[i].scopes \subseteq DOMAIN walk'[i].target.sub_scopes
        /\ \A m \in ToAsk : m \in walk'[1].variables \cup walk'[1].scopes
                            \/ m \in (Here.variables \cup Here.scopes) \ (visit.variables \cup visit.scopes)
    BY <1>1, <1>4, <1>5, <2>1, SetHereKeeps
  <2> QED
    BY <1>4, <2>2
<1>7. /\ stack' \in Seq(Frames) /\ StackInv'
      /\ state'[n].is # "unresolved" \/ OnStack(n)'
  BY <1>1, <1>2, <1>3, AskKeeps
<1>8. TypeInv'
  BY <1>1, <1>3, <1>6, <1>7 DEF TypeInv
<1>9. AskedInv'
  <2>1. Wanted' = Wanted
    BY <1>1 DEF Wanted
  <2>2. ToAsk' = walk'[1].variables \cup walk'[1].scopes
    BY <1>6 DEF ToAsk
  <2>3. ASSUME NEW m \in Wanted
        PROVE  state'[m].is # "unresolved" \/ OnStack(m)' \/ m \in ToAsk'
    <3>1. state[m].is # "unresolved" \/ m \in ToAsk
      BY <1>3 DEF AskedInv
    <3> QED
      BY <1>1, <1>6, <1>7, <2>2, <3>1
  <2> QED
    BY <2>1, <2>3 DEF AskedInv
<1>10. Agree(sources, state)' /\ ErrorInv'
  BY <1>1, <1>3 DEF ErrorInv
<1> QED
  BY <1>1, <1>7, <1>8, <1>9, <1>10 DEF IInv

LEMMA AskScopeStep ==
  ASSUME IInv, AskScope
  PROVE  IInv'
<1>1. outcome = "running" /\ stack = <<>> /\ walk # <<>> /\ UNCHANGED <<sources, unset, late>>
  BY DEF AskScope
<1>2. PICK n \in Here.scopes :
        LET cases == Here.target.sub_scopes[n]
            done == [Here EXCEPT !.scopes = Here.scopes \ {n}]
        IN  CASE state[n].is = "unresolved" ->
                   Calls(n) /\ UNCHANGED <<walk, state, errors, outcome>>
              [] state[n].is = "error" ->
                   SetHere(done) /\ UNCHANGED <<stack, state, errors, outcome>>
              [] state[n].is \in {"resolved", "late"} ->
                   IF state[n].value \notin DOMAIN cases
                   THEN /\ outcome' = "AssertionError"
                        /\ UNCHANGED <<walk, stack, state, errors>>
                   ELSE /\ walk' = Append([walk EXCEPT ![Len(walk)] = done],
                                          Visit(cases[state[n].value]))
                        /\ UNCHANGED <<stack, state, errors, outcome>>
  BY DEF AskScope
<1> DEFINE visit == [Here EXCEPT !.scopes = Here.scopes \ {n}]
           w == [walk EXCEPT ![Len(walk)] = visit]
           cases == Here.target.sub_scopes[n]
           further == Visit(cases[state[n].value])
<1>3. /\ TypeInv /\ StackInv /\ Agree(sources, state) /\ AskedInv /\ ErrorInv
      /\ Here \in Visits /\ Here.scopes \subseteq Names /\ Here.target \in Targets
      /\ Here.scopes \subseteq DOMAIN Here.target.sub_scopes /\ \A m : ~OnStack(m)
  BY <1>1, WalkFacts
<1>4. visit \in Visits /\ visit.target = Here.target /\ visit.scopes = Here.scopes \ {n}
      /\ visit.variables = Here.variables
  BY <1>3 DEF Visits
<1>5. n \in Names /\ state[n].is \in {"unresolved", "error", "late", "resolved"}
  BY <1>3 DEF Agree
<1>6. \/ state[n].is = "unresolved" /\ Calls(n) /\ UNCHANGED <<walk, state, errors, outcome>>
      \/ state[n].is = "error" /\ walk' = w /\ UNCHANGED <<stack, state, errors, outcome>>
      \/ outcome' = "AssertionError"
      \/ /\ state[n].is \in Decided /\ state[n].value \in DOMAIN cases
         /\ walk' = Append(w, further)
         /\ UNCHANGED <<stack, state, errors, outcome>>
  <2> HIDE DEF further
  <2>1. CASE state[n].is = "unresolved" /\ Calls(n) /\ UNCHANGED <<walk, state, errors, outcome>>
    BY <2>1
  <2>2. CASE state[n].is = "error"
    BY <1>2, <2>2 DEF SetHere
  <2>3. CASE state[n].is \in {"resolved", "late"}
    BY <1>2, <2>3 DEF further, Decided
  <2>4. state[n].is = "unresolved" => Calls(n) /\ UNCHANGED <<walk, state, errors, outcome>>
    BY <1>2
  <2> QED
    BY <1>5, <2>1, <2>2, <2>3, <2>4
<1>7. /\ w \in Seq(Visits) /\ w # <<>>
      /\ \A i \in DOMAIN w : w[i].scopes \subseteq DOMAIN w[i].target.sub_scopes
      /\ \A m \in ToAsk : m \in w[1].variables \cup w[1].scopes \/ m = n
  <2> HIDE DEF visit
  <2>1. visit.scopes \subseteq Here.scopes /\ w = [walk EXCEPT ![Len(walk)] = visit]
    BY <1>4
  <2> HIDE DEF w
  <2>2. /\ w \in Seq(Visits) /\ w # <<>>
        /\ \A i \in DOMAIN w : w[i].scopes \subseteq DOMAIN w[i].target.sub_scopes
        /\ \A m \in ToAsk : m \in w[1].variables \cup w[1].scopes
                            \/ m \in (Here.variables \cup Here.scopes) \ (visit.variables \cup visit.scopes)
    BY <1>1, <1>4, <2>1, SetHereKeeps
  <2> QED
    BY <1>4, <2>2
<1> HIDE DEF visit, w
<1>8. Wanted' = Wanted
  BY <1>1 DEF Wanted
<1>9. CASE state[n].is = "unresolved" /\ Calls(n) /\ UNCHANGED <<walk, state, errors, outcome>>
  <2>1. stack' \in Seq(Frames) /\ StackInv'
    BY <1>1, <1>5, <1>9, AskKeeps
  <2>2. TypeInv'
    BY <1>1, <1>3, <1>9, <2>1 DEF TypeInv
  <2>3. AskedInv'
    <3>1. ToAsk' = ToAsk
      BY <1>9 DEF ToAsk
    <3> QED
      BY <1>3, <1>8, <1>9, <3>1 DEF AskedInv
  <2>4. Agree(sources, state)' /\ ErrorInv'
    BY <1>1, <1>3, <1>9 DEF ErrorInv
  <2> QED
    BY <1>1, <1>9, <2>1, <2>2, <2>3, <2>4 DEF IInv
<1>10. CASE outcome' = "AssertionError"
  BY <1>10 DEF IInv, Going
<1>11. ASSUME UNCHANGED <<stack, state, errors, outcome>>, state[n].is # "unresolved",
              walk' \in Seq(Visits), walk' # <<>>, walk'[1] = w[1],
              \A i \in DOMAIN walk' : walk'[i].scopes \subseteq DOMAIN walk'[i].target.sub_scopes
       PROVE  IInv'
  <2>1. TypeInv'
    BY <1>1, <1>3, <1>11 DEF TypeInv
  <2>2. StackInv'
    BY <1>1, <1>3, <1>11 DEF StackInv
  <2>3. AskedInv'
    <3>1. ToAsk' = w[1].variables \cup w[1].scopes
      BY <1>11 DEF ToAsk
    <3>2. ASSUME NEW m \in Wanted
          PROVE  state'[m].is # "unresolved" \/ OnStack(m)' \/ m \in ToAsk'
      <4>1. state[m].is # "unresolved" \/ m \in ToAsk
        BY <1>3 DEF AskedInv
      <4> QED
        BY <1>7, <1>11, <3>1, <4>1
    <3> QED
      BY <1>8, <3>2 DEF AskedInv
  <2>4. Agree(sources, state)' /\ ErrorInv'
    BY <1>1, <1>3, <1>11 DEF ErrorInv
  <2> QED
    BY <1>1, <1>11, <2>1, <2>2, <2>3, <2>4 DEF IInv
<1>12. CASE state[n].is = "error" /\ walk' = w /\ UNCHANGED <<stack, state, errors, outcome>>
  BY <1>7, <1>11, <1>12
<1>13. CASE /\ state[n].is \in Decided /\ state[n].value \in DOMAIN cases
            /\ walk' = Append(w, further)
            /\ UNCHANGED <<stack, state, errors, outcome>>
  <2>1. cases[state[n].value] \in Targets
    BY <1>3, <1>13, TargetAssumption
  <2>2. further \in Visits /\ further.scopes \subseteq DOMAIN further.target.sub_scopes
    <3> DEFINE target == cases[state[n].value]
    <3>1. target.variables \subseteq Names /\ DOMAIN target.sub_scopes \subseteq Names
      BY <2>1, TargetAssumption
    <3> HIDE DEF cases, target
    <3>2. Visit(target) \in Visits /\ Visit(target).scopes \subseteq DOMAIN Visit(target).target.sub_scopes
      BY <2>1, <3>1 DEF Visit, Visits, target
    <3> QED
      BY <3>2 DEF target
  <2> HIDE DEF further, cases
  <2>3. /\ walk' \in Seq(Visits) /\ Len(walk') = Len(w) + 1
        /\ \A i \in 1 .. Len(w) : walk'[i] = w[i]
        /\ walk'[Len(w) + 1] = further
    BY <1>7, <1>13, <2>2, AppendProperties
  <2>4. Len(w) \in Nat \ {0} /\ DOMAIN w = 1 .. Len(w) /\ DOMAIN walk' = 1 .. (Len(w) + 1)
    BY <1>7, <2>3, LenProperties, EmptySeq
  <2>5. walk' # <<>> /\ walk'[1] = w[1]
    <3>1. 1 \in 1 .. Len(w)
      BY <2>4
    <3> QED
      BY <2>3, <2>4, <3>1
  <2>6. \A i \in DOMAIN walk' : walk'[i].scopes \subseteq DOMAIN walk'[i].target.sub_scopes
    <3> TAKE i \in DOMAIN walk'
    <3>1. i \in 1 .. Len(w) \/ i = Len(w) + 1
      BY <2>4
    <3> QED
      BY <1>7, <2>2, <2>3, <2>4, <3>1
  <2>7. state[n].is # "unresolved"
    BY <1>13 DEF Decided
  <2> QED
    BY <1>11, <1>13, <2>3, <2>5, <2>6, <2>7
<1> QED
  BY <1>6, <1>9, <1>10, <1>12, <1>13

LEMMA LeaveTargetStep ==
  ASSUME IInv, LeaveTarget
  PROVE  IInv'
<1> DEFINE size == Len(walk)
<1>1. /\ outcome = "running" /\ stack = <<>> /\ walk # <<>> /\ Here.variables = {} /\ Here.scopes = {}
      /\ walk' = Front(walk) /\ UNCHANGED <<sources, stack, state, errors, unset, late, outcome>>
  BY DEF LeaveTarget
<1>2. /\ TypeInv /\ StackInv /\ Agree(sources, state) /\ AskedInv /\ ErrorInv
      /\ size \in Nat \ {0} /\ DOMAIN walk = 1 .. size /\ Here = walk[size]
      /\ walk \in Seq(Visits)
      /\ ToAsk = walk[1].variables \cup walk[1].scopes
      /\ \A m : ~OnStack(m)
  BY <1>1, WalkFacts
<1>3. /\ walk' \in Seq(Visits) /\ DOMAIN walk' = 1 .. (size - 1) /\ Len(walk') = size - 1
      /\ \A i \in 1 .. (size - 1) : walk'[i] = walk[i]
  <2>1. walk' = SubSeq(walk, 1, size - 1)
    BY <1>1 DEF Front
  <2>2. 1 \in Int /\ size - 1 \in Int /\ \A i \in 1 .. (size - 1) : walk[i] \in Visits
    BY <1>2
  <2> HIDE DEF size
  <2>3. /\ SubSeq(walk, 1, size - 1) \in Seq(Visits)
        /\ Len(SubSeq(walk, 1, size - 1)) = IF 1 <= size - 1 THEN (size - 1) - 1 + 1 ELSE 0
        /\ \A i \in 1 .. (size - 1) - 1 + 1 : SubSeq(walk, 1, size - 1)[i] = walk[1 + i - 1]
    BY <1>2, <2>2, SubSeqProperties
  <2>4. Len(walk') = size - 1
    BY <1>2, <2>1, <2>3
  <2>5. \A i \in 1 .. (size - 1) : 1 + i - 1 = i /\ i \in 1 .. (size - 1) - 1 + 1
    BY <1>2
  <2> QED
    BY <2>1, <2>3, <2>4, <2>5, LenProperties
<1> HIDE DEF size
<1>4. \A i \in DOMAIN walk' : walk'[i].scopes \subseteq DOMAIN walk'[i].target.sub_scopes
  BY <1>2, <1>3 DEF TypeInv
<1>5. TypeInv' /\ StackInv'
  BY <1>1, <1>2, <1>3, <1>4 DEF TypeInv, StackInv
<1>6. AskedInv'
  <2>1. Wanted' = Wanted
    BY <1>1 DEF Wanted
  <2>2. ToAsk \subseteq ToAsk'
    <3>1. CASE size = 1
      BY <1>1, <1>2, <3>1
    <3>2. CASE size # 1
      <4>1. 1 \in 1 .. (size - 1)
        BY <1>2, <3>2
      <4>2. walk' # <<>> /\ walk'[1] = walk[1]
        BY <1>3, <4>1
      <4> QED
        BY <1>2, <4>2 DEF ToAsk
    <3> QED
      BY <3>1, <3>2
  <2>3. ASSUME NEW m \in Wanted
        PROVE  state'[m].is # "unresolved" \/ OnStack(m)' \/ m \in ToAsk'
    BY <1>1, <1>2, <2>2 DEF AskedInv
  <2> QED
    BY <2>1, <2>3 DEF AskedInv
<1>7. Agree(sources, state)' /\ ErrorInv'
  BY <1>1, <1>2 DEF ErrorInv
<1> QED
  BY <1>1, <1>5, <1>6, <1>7 DEF IInv

LEMMA ValidateMultiStep ==
  ASSUME IInv, ValidateMulti
  PROVE  IInv'
<1>1. /\ outcome = "running" /\ stack = <<>> /\ walk = <<>> /\ outcome' = "resolved"
      /\ errors' = errors \cup UNION MultiArgumentErrors
      /\ UNCHANGED <<sources, walk, stack, state, unset, late>>
  BY DEF ValidateMulti
<1>2. TypeInv /\ StackInv /\ Agree(sources, state) /\ AskedInv /\ ErrorInv
  BY <1>1 DEF IInv, Going
<1>3. TypeInv' /\ StackInv'
  BY <1>1, <1>2 DEF TypeInv, StackInv
<1>4. AskedInv'
  <2>1. Wanted' = Wanted /\ ToAsk' = ToAsk /\ \A m : OnStack(m)' <=> OnStack(m)
    BY <1>1 DEF Wanted, ToAsk, OnStack
  <2> QED
    BY <1>1, <1>2, <2>1 DEF AskedInv
<1>5. Agree(sources, state)' /\ ErrorInv'
  BY <1>1, <1>2 DEF ErrorInv
<1> QED
  BY <1>1, <1>3, <1>4, <1>5 DEF IInv

-----------------------------------------------------------------------------
(* The specification                                                       *)

LEMMA InitHolds == Init => IInv
<1> SUFFICES ASSUME Init PROVE IInv
  OBVIOUS
<1>1. /\ sources \in Configs /\ walk = <<Visit(sources.target)>> /\ stack = <<>>
      /\ state = [n \in Names |-> Unresolved] /\ outcome # "resolved"
  BY DEF Init
<1> DEFINE target == sources.target
<1>2. target \in Targets /\ target.variables \subseteq Names /\ DOMAIN target.sub_scopes \subseteq Names
  BY <1>1, ConfigAssumption, TargetAssumption
<1> HIDE DEF target
<1>3. /\ Visit(target) \in Visits
      /\ Visit(target).scopes \subseteq DOMAIN Visit(target).target.sub_scopes
      /\ Visit(target).variables = target.variables /\ Visit(target).scopes = DOMAIN target.sub_scopes
  BY <1>2 DEF Visit, Visits
<1> DEFINE visit == Visit(target)
<1>4. walk = <<visit>> /\ visit \in Visits
  BY <1>1, <1>3 DEF target
<1> HIDE DEF visit
<1>5. walk \in Seq(Visits) /\ DOMAIN walk = {1} /\ walk[1] = visit /\ walk # <<>>
  BY <1>4
<1>6. TypeInv
  <2>1. stack \in Seq(Frames)
    BY <1>1
  <2>2. state = [n \in Names |-> state[n]]
    BY <1>1
  <2> QED
    BY <1>1, <1>3, <1>5, <2>1, <2>2 DEF TypeInv, visit
<1>7. StackInv
  <2>1. DOMAIN stack = {}
    BY <1>1
  <2> QED
    BY <2>1 DEF StackInv
<1>8. Agree(sources, state) /\ ErrorInv
  BY <1>1, Different DEF Agree, ErrorInv, Decided
<1>9. AskedInv
  <2>1. ToAsk = Wanted
    BY <1>3, <1>5 DEF ToAsk, Wanted, visit, target
  <2> QED
    BY <2>1 DEF AskedInv
<1> QED
  BY <1>1, <1>6, <1>7, <1>8, <1>9 DEF IInv

LEMMA Stutters ==
  ASSUME IInv, UNCHANGED vars
  PROVE  IInv'
<1>1. UNCHANGED <<sources, walk, stack, state, errors, unset, late, outcome>>
  BY DEF vars
<1>2. Going' = Going /\ (TypeInv' <=> TypeInv) /\ (StackInv' <=> StackInv)
      /\ (Agree(sources, state)' <=> Agree(sources, state))
  BY <1>1 DEF Going, TypeInv, StackInv
<1>3. (AskedInv' <=> AskedInv) /\ (ErrorInv' <=> ErrorInv)
  <2>1. Wanted' = Wanted /\ ToAsk' = ToAsk /\ \A n : OnStack(n)' <=> OnStack(n)
    BY <1>1 DEF Wanted, ToAsk, OnStack
  <2> QED
    BY <1>1, <2>1 DEF AskedInv, ErrorInv
<1> QED
  BY <1>1, <1>2, <1>3 DEF IInv

LEMMA NextKeeps == IInv /\ [Next]_vars => IInv'
<1> SUFFICES ASSUME IInv, [Next]_vars PROVE IInv'
  OBVIOUS
<1>1. CASE UNCHANGED vars
  BY <1>1, Stutters
<1>2. CASE Next
  BY <1>2, TestConditionStep, SelectStep, FilterLateStep, ChooseOneStep, LookForLateStep,
     CalculateStep, AskVariableStep, AskScopeStep, LeaveTargetStep, ValidateMultiStep DEF Next
<1> QED
  BY <1>1, <1>2

LEMMA IInvImplies == IInv => NoSilentFailure /\ ResolverFindsTheSolution
<1> SUFFICES ASSUME IInv, outcome = "resolved"
             PROVE  NoSilentFailure /\ ResolverFindsTheSolution
  BY DEF NoSilentFailure, ResolverFindsTheSolution
<1>1. TypeInv /\ Agree(sources, state) /\ AskedInv /\ ErrorInv /\ stack = <<>> /\ walk = <<>>
  BY DEF IInv, Going
<1>2. NoSilentFailure
  <2> SUFFICES ASSUME Status = "ok", NEW n \in Wanted
               PROVE  state[n].is \in {"resolved", "late"}
    BY DEF NoSilentFailure, Wanted
  <2>1. errors = {} /\ unset = {}
    BY DEF Status
  <2>2. \A m \in Names : state[m].is # "error"
    BY <1>1, <2>1 DEF ErrorInv
  <2>3. state[n].is # "unresolved"
    BY <1>1 DEF AskedInv, OnStack, ToAsk
  <2>4. n \in Names
    BY <1>1, WantedNames
  <2> QED
    BY <1>1, <2>2, <2>3, <2>4 DEF Agree
<1>3. ResolverFindsTheSolution
  <2>1. ASSUME NEW n \in Names,
               state[n].is \in {"resolved", "late"} \cup (IF Acyclic(sources) THEN {"error"} ELSE {})
        PROVE  state[n] = Solution(sources)[n]
    <3>1. state[n].is \in Decided \/ (Acyclic(sources) /\ state[n].is = "error")
      BY <2>1 DEF Decided
    <3> QED
      BY <1>1, <3>1 DEF Agree
  <2> QED
    BY <2>1 DEF ResolverFindsTheSolution
<1> QED
  BY <1>2, <1>3

\* For every configuration and target, in whatever order the resolver goes
\* through its sets: when the errors it reports are none and no name was left
\* without a setter, every name the target asks for has a value, although a
\* name that failed because of another one is skipped without a message
\* (gen/internals.py:670-705, 768-802).
THEOREM NoFailureIsSilent == Spec => []NoSilentFailure
<1>1. Spec => []IInv
  BY InitHolds, NextKeeps, PTL DEF Spec
<1> QED
  BY <1>1, IInvImplies, PTL

\* For every configuration and target, in whatever order the resolver goes
\* through its sets: each value it has computed, and without a cycle among the
\* setters each error too, is that of the solution, which no order enters
\* (gen/internals.py:559-638, 646-689).
THEOREM OrderDecidesNothing == Spec => []ResolverFindsTheSolution
<1>1. Spec => []IInv
  BY InitHolds, NextKeeps, PTL DEF Spec
<1> QED
  BY <1>1, IInvImplies, PTL

-----------------------------------------------------------------------------
(* The packages: GenPackages for any arguments and templates               *)

CONSTANTS Sources, Templates, MaxRuns
VARIABLES entered, templates, ca, stage, runs, argument_dict, late_variables, rendered,
          late_files, artifacts, cloud, node, origin, surprise
Pkg == INSTANCE GenPackages

(* What is true of nothing, and of one more whenever it is of a sequence,  *)
(* is true of all.                                                         *)
LEMMA SeqInduction ==
  ASSUME NEW S, NEW A, <<>> \in A, \A p \in Seq(S), c \in S : p \in A => Append(p, c) \in A
  PROVE  Seq(S) \subseteq A
<1> DEFINE B == {n \in Nat : \A p \in Seq(S) : Len(p) = n => p \in A}
<1>1. 0 \in B
  BY EmptySeq
<1>2. ASSUME NEW n \in Nat, n \in B
      PROVE  n + 1 \in B
  <2> SUFFICES ASSUME NEW p \in Seq(S), Len(p) = n + 1
               PROVE  p \in A
    OBVIOUS
  <2> DEFINE q == SubSeq(p, 1, n)
  <2>1. DOMAIN p = 1 .. n + 1 /\ \A i \in 1 .. n + 1 : p[i] \in S
    BY LenProperties, ElementOfSeq
  <2>2. q \in Seq(S) /\ Len(q) = n /\ \A i \in 1 .. n : q[i] = p[i]
    BY <2>1, SubSeqProperties
  <2>3. p[n + 1] \in S
    BY <2>1
  <2> HIDE DEF q
  <2>4. p = Append(q, p[n + 1])
    BY <2>1, <2>2, <2>3, AppendProperties, SeqEqual
  <2> QED
    BY <1>2, <2>2, <2>3, <2>4
<1> HIDE DEF B
<1>3. Nat \subseteq B
  BY <1>1, <1>2, Induction
<1> QED
  BY <1>3, LenProperties DEF B

(* FlattenSeq, from the sequence of the texts up to each place *)
Joins(s, g) == g = [i \in 1 .. Len(s) |-> IF i = 1 THEN s[i] ELSE g[i - 1] \o s[i]]

AgreeTo(n, s, t) == \A i \in 1 .. n : s[i] = t[i]

LEMMA JoinsAgree ==
  ASSUME NEW n \in Nat, NEW s, NEW t, NEW g, NEW h, Len(s) \in Nat, Len(t) \in Nat,
         n <= Len(s), n <= Len(t), Joins(s, g), Joins(t, h), AgreeTo(n, s, t)
  PROVE  AgreeTo(n, g, h)
<1> DEFINE A == {k \in Nat : k \in 1 .. n => g[k] = h[k]}
<1>0. /\ \A i \in 1 .. Len(s) : g[i] = IF i = 1 THEN s[i] ELSE g[i - 1] \o s[i]
      /\ \A i \in 1 .. Len(t) : h[i] = IF i = 1 THEN t[i] ELSE h[i - 1] \o t[i]
  BY DEF Joins
<1>1. 0 \in A
  OBVIOUS
<1>2. ASSUME NEW k \in Nat, k \in A
      PROVE  k + 1 \in A
  <2> SUFFICES ASSUME k + 1 \in 1 .. n PROVE g[k + 1] = h[k + 1]
    OBVIOUS
  <2>1. /\ k + 1 \in 1 .. Len(s) /\ k + 1 \in 1 .. Len(t) /\ s[k + 1] = t[k + 1]
        /\ (k + 1) - 1 = k
    BY DEF AgreeTo
  <2>2. CASE k = 0
    BY <1>0, <2>1, <2>2
  <2>3. CASE k # 0
    <3>1. g[k] = h[k] /\ k + 1 # 1
      BY <1>2, <2>3
    <3>2. g[k + 1] = g[k] \o s[k + 1] /\ h[k + 1] = h[k] \o t[k + 1]
      BY <1>0, <2>1, <3>1
    <3> QED
      BY <2>1, <3>1, <3>2
  <2> QED
    BY <2>2, <2>3
<1> HIDE DEF A
<1>3. Nat \subseteq A
  BY <1>1, <1>2, Induction
<1> QED
  BY <1>3 DEF A, AgreeTo

LEMMA JoinsExist ==
  ASSUME NEW A, NEW s \in Seq(Seq(A))
  PROVE  \E g \in [1 .. Len(s) -> Seq(A)] : Joins(s, g)
<1> DEFINE B == {t \in Seq(Seq(A)) : \E g \in [1 .. Len(t) -> Seq(A)] : Joins(t, g)}
<1>1. <<>> \in B
  <2> DEFINE g == [i \in 1 .. 0 |-> <<>>]
  <2>1. g \in [1 .. 0 -> Seq(A)] /\ Len(<<>>) = 0 /\ <<>> \in Seq(Seq(A))
    BY EmptySeq
  <2>2. Joins(<<>>, g)
    BY <2>1 DEF Joins
  <2> QED
    BY <2>1, <2>2
<1>2. ASSUME NEW t \in Seq(Seq(A)), NEW p \in Seq(A), t \in B
      PROVE  Append(t, p) \in B
  <2>1. PICK g \in [1 .. Len(t) -> Seq(A)] : Joins(t, g)
    BY <1>2
  <2> DEFINE n == Len(t)
             u == Append(t, p)
             h == [i \in 1 .. n + 1 |-> IF i <= n THEN g[i] ELSE IF n = 0 THEN p ELSE g[n] \o p]
  <2>2. /\ n \in Nat /\ u \in Seq(Seq(A)) /\ Len(u) = n + 1 /\ u[n + 1] = p
        /\ \A i \in 1 .. n : u[i] = t[i]
    BY LenProperties, AppendProperties
  <2>3. \A i \in 1 .. n : g[i] = IF i = 1 THEN t[i] ELSE g[i - 1] \o t[i]
    BY <2>1 DEF Joins
  <2>4. n # 0 => g[n] \o p \in Seq(A)
    <3> SUFFICES ASSUME n # 0 PROVE g[n] \o p \in Seq(A)
      OBVIOUS
    <3>1. n \in 1 .. n
      BY <2>2
    <3>2. g[n] \in Seq(A)
      BY <2>1, <3>1
    <3> QED
      BY <3>2
  <2> HIDE DEF u
  <2>5. h \in [1 .. n + 1 -> Seq(A)]
    BY <2>2, <2>4
  <2>6. \A i \in 1 .. n + 1 : h[i] = IF i = 1 THEN u[i] ELSE h[i - 1] \o u[i]
    <3> TAKE i \in 1 .. n + 1
    <3>1. CASE i <= n
      <4>1. i \in 1 .. n /\ h[i] = g[i] /\ (i # 1 => i - 1 \in 1 .. n /\ h[i - 1] = g[i - 1])
        BY <2>2, <3>1
      <4> HIDE DEF h, n
      <4> QED
        BY <2>2, <2>3, <4>1
    <3>2. CASE i = n + 1
      <4>1. h[i] = IF n = 0 THEN p ELSE g[n] \o p
        BY <2>2, <3>2
      <4>2. n # 0 => h[i - 1] = g[n] /\ i # 1
        BY <2>2, <3>2
      <4> HIDE DEF h
      <4> QED
        BY <2>2, <3>2, <4>1, <4>2
    <3> QED
      BY <2>2, <3>1, <3>2
  <2>7. Joins(u, h)
    <3>1. DOMAIN h = 1 .. n + 1 /\ h = [i \in 1 .. n + 1 |-> h[i]]
      OBVIOUS
    <3> HIDE DEF h, n
    <3> QED
      BY <2>2, <2>6, <3>1 DEF Joins
  <2> HIDE DEF h, n
  <2> QED
    BY <2>2, <2>5, <2>7 DEF u
<1> HIDE DEF B
<1>3. Seq(Seq(A)) \subseteq B
  BY <1>1, <1>2, SeqInduction
<1> QED
  BY <1>3 DEF B

LEMMA FlattenIsJoined ==
  ASSUME NEW A, NEW s \in Seq(Seq(A)), NEW g, Joins(s, g), Len(s) # 0
  PROVE  Pkg!FlattenSeq(s) = g[Len(s)]
<1> DEFINE Body(f) == [i \in 1 .. Len(s) |-> IF i = 1 THEN s[i] ELSE f[i - 1] \o s[i]]
           C == CHOOSE f : f = Body(f)
<1>1. C = Body(C)
  <2>1. g = Body(g)
    BY DEF Joins
  <2> HIDE DEF Body
  <2> QED
    BY <2>1
<1>2. Pkg!FlattenSeq(s) = C[Len(s)]
  BY DEF Pkg!FlattenSeq
<1> HIDE DEF C
<1>3. Joins(s, C)
  BY <1>1 DEF Joins
<1>4. Len(s) \in Nat /\ Len(s) \in 1 .. Len(s)
  BY LenProperties
<1>5. AgreeTo(Len(s), C, g)
  <2>1. AgreeTo(Len(s), s, s)
    BY DEF AgreeTo
  <2> QED
    BY <1>3, <1>4, <2>1, JoinsAgree
<1> QED
  BY <1>2, <1>4, <1>5 DEF AgreeTo

LEMMA FlattenSteps ==
  ASSUME NEW A, NEW s \in Seq(Seq(A)), NEW p \in Seq(A)
  PROVE  /\ Pkg!FlattenSeq(<<>>) = <<>>
         /\ Pkg!FlattenSeq(s) \in Seq(A)
         /\ Pkg!FlattenSeq(Append(s, p)) = Pkg!FlattenSeq(s) \o p
<1> DEFINE n == Len(s)
           u == Append(s, p)
<1>1. Pkg!FlattenSeq(<<>>) = <<>>
  <2>1. Len(<<>>) = 0
    BY EmptySeq
  <2> QED
    BY <2>1 DEF Pkg!FlattenSeq
<1>2. n \in Nat /\ u \in Seq(Seq(A)) /\ Len(u) = n + 1 /\ u[n + 1] = p
      /\ \A i \in 1 .. n : u[i] = s[i]
  BY LenProperties, AppendProperties
<1>3. PICK g \in [1 .. Len(s) -> Seq(A)] : Joins(s, g)
  BY JoinsExist
<1> HIDE DEF u
<1>4. PICK h \in [1 .. Len(u) -> Seq(A)] : Joins(u, h)
  BY <1>2, JoinsExist
<1>5. Pkg!FlattenSeq(u) = h[n + 1]
  BY <1>2, <1>4, FlattenIsJoined
<1>6. h[n + 1] = IF n = 0 THEN p ELSE h[n] \o p
  <2>1. \A i \in 1 .. n + 1 : h[i] = IF i = 1 THEN u[i] ELSE h[i - 1] \o u[i]
    BY <1>2, <1>4 DEF Joins
  <2>2. n + 1 \in 1 .. n + 1 /\ (n + 1) - 1 = n /\ (n + 1 = 1 <=> n = 0)
    BY <1>2
  <2> HIDE DEF n
  <2> QED
    BY <1>2, <2>1, <2>2
<1>7. n = 0 => s = <<>>
  BY EmptySeq
<1>8. CASE n = 0
  <2>1. <<>> \o p = p
    BY ConcatEmptySeq
  <2> QED
    BY <1>1, <1>5, <1>6, <1>7, <1>8, <2>1, EmptySeq DEF u
<1>9. CASE n # 0
  <2>0. n \in 1 .. n
    BY <1>2, <1>9
  <2>1. Pkg!FlattenSeq(s) = g[n] /\ g[n] \in Seq(A)
    BY <1>3, <1>9, <2>0, FlattenIsJoined
  <2>2. AgreeTo(n, g, h)
    <3>1. n \in Nat /\ Len(s) \in Nat /\ Len(u) \in Nat /\ n <= Len(s) /\ n <= Len(u)
      BY <1>2
    <3>2. AgreeTo(n, s, u)
      BY <1>2 DEF AgreeTo
    <3>3. Joins(s, g) /\ Joins(u, h)
      BY <1>3, <1>4
    <3> HIDE DEF n
    <3> QED
      BY <3>1, <3>2, <3>3, JoinsAgree
  <2> QED
    BY <1>1, <1>5, <1>6, <1>9, <2>0, <2>1, <2>2 DEF u, AgreeTo
<1> QED
  BY <1>8, <1>9

(* What all texts are, and is kept when two are put together, the whole is *)
LEMMA FlattenClosed ==
  ASSUME NEW A, NEW S, S \subseteq Seq(A), <<>> \in S, \A a, b \in S : a \o b \in S,
         NEW s \in Seq(S)
  PROVE  Pkg!FlattenSeq(s) \in S
<1> DEFINE B == {t \in Seq(S) : Pkg!FlattenSeq(t) \in S}
<1>0. \A t \in Seq(S) : t \in Seq(Seq(A))
  BY SeqMonotonic
<1>1. <<>> \in B
  <2>1. Pkg!FlattenSeq(<<>>) = <<>>
    BY <1>0, EmptySeq, FlattenSteps
  <2> QED
    BY <2>1, EmptySeq
<1>2. ASSUME NEW t \in Seq(S), NEW p \in S, t \in B
      PROVE  Append(t, p) \in B
  <2>1. Pkg!FlattenSeq(Append(t, p)) = Pkg!FlattenSeq(t) \o p
    BY <1>0, FlattenSteps
  <2> QED
    BY <1>2, <2>1, AppendProperties
<1> HIDE DEF B
<1>3. Seq(S) \subseteq B
  BY <1>1, <1>2, SeqInduction
<1> QED
  BY <1>3 DEF B

LEMMA FlattenConcat ==
  ASSUME NEW A, NEW s \in Seq(Seq(A)), NEW t \in Seq(Seq(A))
  PROVE  Pkg!FlattenSeq(s \o t) = Pkg!FlattenSeq(s) \o Pkg!FlattenSeq(t)
<1> DEFINE B == {u \in Seq(Seq(A)) : Pkg!FlattenSeq(s \o u) = Pkg!FlattenSeq(s) \o Pkg!FlattenSeq(u)}
<1>1. <<>> \in B
  <2>1. s \o <<>> = s /\ Pkg!FlattenSeq(<<>>) = <<>> /\ Pkg!FlattenSeq(s) \in Seq(A)
    BY FlattenSteps, ConcatEmptySeq, EmptySeq
  <2>2. Pkg!FlattenSeq(s) \o <<>> = Pkg!FlattenSeq(s)
    BY <2>1, ConcatEmptySeq
  <2> QED
    BY <2>1, <2>2, EmptySeq
<1>2. ASSUME NEW u \in Seq(Seq(A)), NEW p \in Seq(A), u \in B
      PROVE  Append(u, p) \in B
  <2>1. s \o Append(u, p) = Append(s \o u, p)
    <3>1. Append(u, p) = u \o <<p>> /\ <<p>> \in Seq(Seq(A))
      BY AppendIsConcat
    <3>2. s \o u \in Seq(Seq(A))
      BY ConcatProperties
    <3>3. Append(s \o u, p) = (s \o u) \o <<p>>
      BY <3>2, AppendIsConcat
    <3> QED
      BY <3>1, <3>3, ConcatAssociative
  <2>2. s \o u \in Seq(Seq(A))
    BY ConcatProperties
  <2>3. Pkg!FlattenSeq(Append(s \o u, p)) = Pkg!FlattenSeq(s \o u) \o p
    BY <2>2, FlattenSteps
  <2>4. /\ Pkg!FlattenSeq(Append(u, p)) = Pkg!FlattenSeq(u) \o p
        /\ Pkg!FlattenSeq(s) \in Seq(A) /\ Pkg!FlattenSeq(u) \in Seq(A)
    BY FlattenSteps
  <2>5. (Pkg!FlattenSeq(s) \o Pkg!FlattenSeq(u)) \o p = Pkg!FlattenSeq(s) \o (Pkg!FlattenSeq(u) \o p)
    BY <2>4, ConcatAssociative
  <2>6. Append(u, p) \in Seq(Seq(A))
    BY AppendProperties
  <2> QED
    BY <1>2, <2>1, <2>3, <2>4, <2>5, <2>6
<1> HIDE DEF B
<1>3. Seq(Seq(A)) \subseteq B
  BY <1>1, <1>2, SeqInduction
<1> QED
  BY <1>3 DEF B

(* What a text has, the whole has *)
LEMMA FlattenHas ==
  ASSUME NEW A, NEW s \in Seq(Seq(A)), NEW i \in DOMAIN s, NEW j \in DOMAIN s[i]
  PROVE  \E k \in DOMAIN Pkg!FlattenSeq(s) : Pkg!FlattenSeq(s)[k] = s[i][j]
<1> DEFINE Occurs(t, x) == \E k \in DOMAIN t : t[k] = x
           B == {t \in Seq(Seq(A)) : \A l \in DOMAIN t : \A m \in DOMAIN t[l] : Occurs(Pkg!FlattenSeq(t), t[l][m])}
<1>1. <<>> \in B
  BY EmptySeq
<1>2. ASSUME NEW t \in Seq(Seq(A)), NEW p \in Seq(A), t \in B
      PROVE  Append(t, p) \in B
  <2> DEFINE u == Append(t, p)
             f == Pkg!FlattenSeq(t)
             w == f \o p
  <2>1. f \in Seq(A) /\ Pkg!FlattenSeq(u) = w
    BY FlattenSteps
  <2>2. /\ u \in Seq(Seq(A)) /\ Len(u) = Len(t) + 1 /\ u[Len(t) + 1] = p
        /\ \A l \in 1 .. Len(t) : u[l] = t[l]
    BY AppendProperties
  <2>3. /\ DOMAIN u = 1 .. Len(t) + 1 /\ DOMAIN t = 1 .. Len(t) /\ Len(t) \in Nat
        /\ DOMAIN f = 1 .. Len(f) /\ Len(f) \in Nat /\ DOMAIN p = 1 .. Len(p) /\ Len(p) \in Nat
    BY <2>1, <2>2, LenProperties
  <2> HIDE DEF f, u
  <2>4. /\ DOMAIN w = 1 .. Len(f) + Len(p)
        /\ \A k \in 1 .. Len(f) + Len(p) : w[k] = IF k <= Len(f) THEN f[k] ELSE p[k - Len(f)]
    <3>1. w \in Seq(A) /\ Len(w) = Len(f) + Len(p)
      BY <2>1, ConcatProperties
    <3> QED
      BY <2>1, <3>1, ConcatProperties, LenProperties
  <2>5. \A x : Occurs(f, x) => Occurs(w, x)
    <3> SUFFICES ASSUME NEW k \in DOMAIN f PROVE k \in DOMAIN w /\ w[k] = f[k]
      OBVIOUS
    <3> HIDE DEF w
    <3> QED
      BY <2>3, <2>4
  <2>6. \A m \in DOMAIN p : Occurs(w, p[m])
    <3> SUFFICES ASSUME NEW m \in DOMAIN p PROVE Len(f) + m \in DOMAIN w /\ w[Len(f) + m] = p[m]
      OBVIOUS
    <3>1. Len(f) + m \in 1 .. Len(f) + Len(p) /\ ~(Len(f) + m <= Len(f)) /\ (Len(f) + m) - Len(f) = m
      BY <2>3
    <3> HIDE DEF w
    <3> QED
      BY <2>4, <3>1
  <2> HIDE DEF w, Occurs
  <2>7. ASSUME NEW l \in DOMAIN u, NEW m \in DOMAIN u[l]
        PROVE  Occurs(w, u[l][m])
    <3>1. CASE l \in DOMAIN t
      <4>1. u[l] = t[l]
        BY <2>2, <2>3, <3>1
      <4> QED
        BY <1>2, <2>5, <3>1, <4>1 DEF f
    <3>2. CASE l = Len(t) + 1
      BY <2>2, <2>6, <3>2
    <3> QED
      BY <2>3, <3>1, <3>2
  <2> QED
    BY <2>1, <2>2, <2>7 DEF u
<1>3. Seq(Seq(A)) \subseteq B
  <2> HIDE DEF B
  <2> QED
    BY <1>1, <1>2, SeqInduction
<1> QED
  BY <1>3

(* A change of texts that keeps how they are put together *)
IsChange(h, S, A, B) ==
    /\ S \subseteq Seq(A) /\ <<>> \in S /\ \A a, b \in S : a \o b \in S
    /\ h \in [S -> Seq(B)] /\ h[<<>>] = <<>> /\ \A a, b \in S : h[a \o b] = h[a] \o h[b]

LEMMA FlattenChanges ==
  ASSUME NEW A, NEW B, NEW S, NEW h, IsChange(h, S, A, B), NEW s \in Seq(S)
  PROVE  /\ [i \in DOMAIN s |-> h[s[i]]] \in Seq(Seq(B))
         /\ h[Pkg!FlattenSeq(s)] = Pkg!FlattenSeq([i \in DOMAIN s |-> h[s[i]]])
<1> DEFINE M(t) == [i \in DOMAIN t |-> h[t[i]]]
           C == {t \in Seq(S) : M(t) \in Seq(Seq(B)) /\ h[Pkg!FlattenSeq(t)] = Pkg!FlattenSeq(M(t))}
<1>0. /\ S \subseteq Seq(A) /\ <<>> \in S /\ \A a, b \in S : a \o b \in S
      /\ h \in [S -> Seq(B)] /\ h[<<>>] = <<>> /\ \A a, b \in S : h[a \o b] = h[a] \o h[b]
  BY DEF IsChange
<1>1. <<>> \in C
  <2>1. M(<<>>) = <<>>
    OBVIOUS
  <2>2. Pkg!FlattenSeq(<<>>) = <<>> /\ <<>> \in Seq(Seq(B)) /\ <<>> \in Seq(S)
    BY EmptySeq, FlattenSteps
  <2> HIDE DEF M
  <2> QED
    BY <1>0, <2>1, <2>2
<1>2. ASSUME NEW t \in Seq(S), NEW p \in S, t \in C
      PROVE  Append(t, p) \in C
  <2> DEFINE u == Append(t, p)
  <2>1. /\ u \in Seq(S) /\ Len(u) = Len(t) + 1 /\ u[Len(t) + 1] = p
        /\ \A l \in 1 .. Len(t) : u[l] = t[l]
    BY AppendProperties
  <2>2. DOMAIN u = 1 .. Len(t) + 1 /\ DOMAIN t = 1 .. Len(t) /\ Len(t) \in Nat
    BY <2>1, LenProperties
  <2> HIDE DEF u
  <2>3. M(t) \in Seq(Seq(B)) /\ Len(M(t)) = Len(t)
    <3>1. M(t) \in Seq(Seq(B)) /\ DOMAIN M(t) = 1 .. Len(t)
      BY <1>2, <2>2
    <3> HIDE DEF M
    <3>2. Len(M(t)) \in Nat /\ DOMAIN M(t) = 1 .. Len(M(t))
      BY <3>1, LenProperties
    <3> QED
      BY <2>2, <3>1, <3>2
  <2>4. /\ Append(M(t), h[p]) \in Seq(Seq(B)) /\ Len(Append(M(t), h[p])) = Len(t) + 1
        /\ Append(M(t), h[p])[Len(t) + 1] = h[p]
        /\ \A l \in 1 .. Len(t) : Append(M(t), h[p])[l] = M(t)[l]
    <3> HIDE DEF M
    <3>1. h[p] \in Seq(B)
      BY <1>0
    <3>2. \A l \in 1 .. Len(M(t)) : Append(M(t), h[p])[l] = M(t)[l]
      BY <2>3, <3>1, AppendProperties
    <3>3. /\ Append(M(t), h[p]) \in Seq(Seq(B)) /\ Len(Append(M(t), h[p])) = Len(M(t)) + 1
          /\ Append(M(t), h[p])[Len(M(t)) + 1] = h[p]
      <4>1. M(t) \in Seq(Seq(B))
        BY <2>3
      <4> QED
        BY <3>1, <4>1, AppendProperties
    <3> QED
      BY <2>3, <3>2, <3>3
  <2>5. M(u) = Append(M(t), h[p])
    <3>1. DOMAIN M(u) = 1 .. Len(t) + 1 /\ DOMAIN M(t) = 1 .. Len(t)
      BY <2>2
    <3>2. \A l \in 1 .. Len(t) + 1 : M(u)[l] = Append(M(t), h[p])[l]
      <4> TAKE l \in 1 .. Len(t) + 1
      <4>1. M(u)[l] = h[u[l]]
        BY <2>2
      <4>2. l \in 1 .. Len(t) => M(t)[l] = h[t[l]]
        BY <2>2
      <4> HIDE DEF M
      <4>3. l \in 1 .. Len(t) \/ l = Len(t) + 1
        <5>1. \A k \in Nat : \A m \in 1 .. k + 1 : m \in 1 .. k \/ m = k + 1
          OBVIOUS
        <5> QED
          BY <2>2, <5>1
      <4> QED
        BY <2>1, <2>4, <4>1, <4>2, <4>3
    <3>3. M(u) = [l \in 1 .. Len(t) + 1 |-> M(u)[l]]
      BY <3>1
    <3>4. Append(M(t), h[p]) = [l \in 1 .. Len(t) + 1 |-> Append(M(t), h[p])[l]]
      <4> HIDE DEF M
      <4> QED
        BY <2>4, LenProperties
    <3> HIDE DEF M
    <3> QED
      BY <3>2, <3>3, <3>4
  <2>6. Pkg!FlattenSeq(u) = Pkg!FlattenSeq(t) \o p /\ Pkg!FlattenSeq(t) \in S
    <3>1. t \in Seq(Seq(A)) /\ p \in Seq(A)
      BY <1>0, SeqMonotonic
    <3>2. Pkg!FlattenSeq(u) = Pkg!FlattenSeq(t) \o p
      BY <3>1, FlattenSteps DEF u
    <3>3. Pkg!FlattenSeq(t) \in S
      BY <1>0, FlattenClosed
    <3> QED
      BY <3>2, <3>3
  <2>7. Pkg!FlattenSeq(Append(M(t), h[p])) = Pkg!FlattenSeq(M(t)) \o h[p]
    <3> HIDE DEF M
    <3>1. h[p] \in Seq(B)
      BY <1>0
    <3> QED
      BY <2>3, <3>1, FlattenSteps
  <2>8. M(u) \in Seq(Seq(B)) /\ h[Pkg!FlattenSeq(u)] = Pkg!FlattenSeq(M(u))
    <3>1. h[Pkg!FlattenSeq(t)] = Pkg!FlattenSeq(M(t))
      BY <1>2
    <3> HIDE DEF M
    <3> QED
      BY <1>0, <2>4, <2>5, <2>6, <2>7, <3>1
  <2> HIDE DEF M
  <2> QED
    BY <2>1, <2>8 DEF u
<1>3. Seq(S) \subseteq C
  <2> HIDE DEF C
  <2> QED
    BY <1>1, <1>2, SeqInduction
<1> QED
  BY <1>3

-----------------------------------------------------------------------------
(* What texts are made of                                                  *)

Typed == Pkg!AreEntered(entered) /\ Pkg!AreTemplates(Pkg!Range(templates))

Atoms(vs) ==
    {Pkg!Hidden, <<"certificate", "", {ca}>>}
    \cup {<<"text", w, {}>> : w \in Pkg!Referenced}
    \cup {Pkg!Value(v)[1] : v \in vs}

LEMMA SameFinite == \A S : Pkg!IsFiniteSet(S) <=> IsFiniteSet(S)
  BY DEF Pkg!IsFiniteSet, IsFiniteSet

LEMMA SameSize == \A S : Pkg!Cardinality(S) = Cardinality(S)
  BY DEF Pkg!Cardinality, Cardinality

LEMMA OneText ==
  ASSUME NEW a, NEW A, a \in A
  PROVE  <<a>> \in Seq(A) /\ DOMAIN <<a>> = 1 .. 1 /\ <<a>>[1] = a
  OBVIOUS

LEMMA ValueFacts ==
  ASSUME Typed, NEW v \in Pkg!Vars
  PROVE  /\ Pkg!Value(v) = <<Pkg!Value(v)[1]>>
         /\ Pkg!Value(v)[1] # Pkg!Start /\ Pkg!Value(v)[1][1] # "name"
         /\ Pkg!Value(v)[1] = Pkg!End => Pkg!Marked # {}
         /\ Pkg!Value(v)[1][1] = "value" => Pkg!Value(v)[1][2] = v
         /\ Pkg!Value(v)[1][1] \in {"calculated", "value", "end"}
<1>1. CASE entered[v].by = "calculated"
  BY <1>1 DEF Pkg!Value, Pkg!Start, Pkg!End
<1>2. CASE entered[v].by # "calculated" /\ entered[v].value = 0
  <2>1. v \in Pkg!Marked
    BY <1>2 DEF Pkg!Marked
  <2> QED
    BY <1>2, <2>1 DEF Pkg!Value, Pkg!Start, Pkg!End
<1>3. CASE entered[v].by # "calculated" /\ entered[v].value # 0
  BY <1>3 DEF Pkg!Value, Pkg!Start, Pkg!End
<1> QED
  BY <1>1, <1>2, <1>3

LEMMA AtomFacts ==
  ASSUME Typed, NEW vs, vs \subseteq Pkg!Vars, NEW a \in Atoms(vs)
  PROVE  /\ a # Pkg!Start /\ a[1] # "name"
         /\ a = Pkg!End => Pkg!Marked # {}
         /\ a[1] = "value" => a[2] \in vs
<1>1. CASE a = <<"hidden", "", {}>>
  BY <1>1 DEF Pkg!Start, Pkg!End
<1>0. CASE a = <<"certificate", "", {ca}>>
  BY <1>0 DEF Pkg!Start, Pkg!End
<1>2. CASE \E w \in Pkg!Referenced : a = <<"text", w, {}>>
  BY <1>2 DEF Pkg!Start, Pkg!End
<1>3. CASE \E v \in vs : a = Pkg!Value(v)[1]
  BY <1>3, ValueFacts
<1> QED
  BY <1>0, <1>1, <1>2, <1>3 DEF Atoms, Pkg!Hidden

LEMMA AtomsGrow ==
  ASSUME NEW vs, NEW others, vs \subseteq others
  PROVE  Atoms(vs) \subseteq Atoms(others)
  BY DEF Atoms

LEMMA SetToSeqType ==
  ASSUME NEW S, IsFiniteSet(S)
  PROVE  Pkg!SetToSeq(S) \in Seq(S)
<1> DEFINE n == Cardinality(S)
<1>1. n \in Nat /\ ExistsBijection(1 .. n, S)
  BY FS_CardinalityType
<1> HIDE DEF n
<1>2. PICK f : f \in Bijection(1 .. n, S)
  BY <1>1 DEF ExistsBijection
<1>3. f \in [1 .. n -> S] /\ Pkg!IsInjective(f)
  BY <1>2 DEF Bijection, Injection, Surjection, IsInjective, Pkg!IsInjective
<1>4. (CHOOSE g \in [1 .. n -> S] : Pkg!IsInjective(g)) \in [1 .. n -> S]
  BY <1>3
<1>5. Pkg!SetToSeq(S) \in [1 .. n -> S]
  BY <1>4, SameSize DEF Pkg!SetToSeq, n
<1> QED
  BY <1>1, <1>5, SeqDef

LEMMA FlattenType ==
  ASSUME NEW names, IsFiniteSet(names), NEW values, NEW A, \A n \in names : values[n] \in Seq(A)
  PROVE  Pkg!Flatten(values, names) \in Seq(A)
<1> DEFINE S == {values[n] : n \in names}
           f == [n \in names |-> values[n]]
<1>1. IsFiniteSet(S)
  <2>1. f \in Surjection(names, S)
    BY DEF Surjection
  <2> HIDE DEF f, S
  <2> QED
    BY <2>1, FS_Surjection
<1>2. S \subseteq Seq(A)
  OBVIOUS
<1>3. Pkg!SetToSeq(S) \in Seq(Seq(A))
  <2> HIDE DEF S
  <2>1. Pkg!SetToSeq(S) \in Seq(S)
    BY <1>1, SetToSeqType
  <2> QED
    BY <1>2, <2>1, SeqMonotonic
<1>4. Pkg!FlattenSeq(Pkg!SetToSeq(S)) \in Seq(A)
  <2> HIDE DEF S
  <2>1. <<>> \in Seq(A)
    BY EmptySeq
  <2> QED
    BY <1>3, <2>1, FlattenSteps
<1> QED
  BY <1>4 DEF Pkg!Flatten

(* Builtins: only those for it show secrets *)
LEMMA Finite ==
  ASSUME Typed, NEW vs, vs \subseteq Pkg!Vars
  PROVE  IsFiniteSet(vs)
  BY SameFinite, FS_Subset DEF Typed, Pkg!AreEntered, Pkg!Vars

LEMMA ArgumentIs ==
  ASSUME Typed, argument_dict = Pkg!get_final_arguments
  PROVE  /\ DOMAIN argument_dict \subseteq Pkg!Vars
         /\ \A v \in DOMAIN argument_dict :
               argument_dict[v] = IF Pkg!is_late(v) THEN Pkg!Placeholder(v) ELSE Pkg!Value(v)
         /\ \A v \in Pkg!Known : argument_dict[v] = Pkg!Value(v)
<1>1. DOMAIN argument_dict = {w \in Pkg!Vars : Pkg!is_finalized(w)}
  BY DEF Pkg!get_final_arguments
<1>2. \A v \in DOMAIN argument_dict :
         argument_dict[v] = IF Pkg!is_late(v) THEN Pkg!Placeholder(v) ELSE Pkg!Value(v)
  BY DEF Pkg!get_final_arguments
<1>3. \A v : Pkg!Placeholder(v) # <<>> /\ Head(Pkg!Placeholder(v)) = Pkg!Start
  BY DEF Pkg!Placeholder
<1> QED
  BY <1>1, <1>2, <1>3 DEF Pkg!Known

LEMMA BuiltinFacts ==
  ASSUME Typed, argument_dict = Pkg!get_final_arguments, NEW name \in Pkg!Builtins
  PROVE  Pkg!Builtin(name) \in
            Seq(Atoms(IF name \in Pkg!SecretBuiltins THEN Pkg!Vars ELSE Pkg!Vars \ Pkg!Secret))
<1> DEFINE All == Atoms(Pkg!Vars)
           Some == Atoms(Pkg!Vars \ Pkg!Secret)
<1>1. \A vs : vs \subseteq Pkg!Vars => \A v \in vs : Pkg!Value(v) \in Seq(Atoms(vs))
  <2> SUFFICES ASSUME NEW vs, vs \subseteq Pkg!Vars, NEW v \in vs
               PROVE  Pkg!Value(v) \in Seq(Atoms(vs))
    OBVIOUS
  <2>1. Pkg!Value(v)[1] \in Atoms(vs)
    BY DEF Atoms
  <2>2. Pkg!Value(v) = <<Pkg!Value(v)[1]>>
    BY ValueFacts
  <2> QED
    BY <2>1, <2>2, OneText
<1>2. Some \subseteq All
  <2>1. Pkg!Vars \ Pkg!Secret \subseteq Pkg!Vars
    OBVIOUS
  <2> QED
    BY <2>1, AtomsGrow
<1>3. Pkg!user_arguments_full \in Seq(All)
  <2> DEFINE values == [v \in Pkg!ByUser |-> Pkg!Value(v)]
  <2>1. Pkg!ByUser \subseteq Pkg!Vars
    BY DEF Pkg!ByUser
  <2>2. \A v \in Pkg!ByUser : values[v] \in Seq(All)
    BY <1>1, <2>1
  <2>3. IsFiniteSet(Pkg!ByUser)
    BY <2>1, Finite
  <2> HIDE DEF values, All
  <2>4. Pkg!Flatten(values, Pkg!ByUser) \in Seq(All)
    BY <2>2, <2>3, FlattenType
  <2> QED
    BY <2>4 DEF Pkg!user_arguments_full, values
<1>4. Pkg!user_arguments_masked \in Seq(Some)
  <2> DEFINE values == [v \in Pkg!ByUser |-> IF v \in Pkg!Secret THEN <<Pkg!Hidden>> ELSE Pkg!Value(v)]
  <2>1. Pkg!ByUser \subseteq Pkg!Vars
    BY DEF Pkg!ByUser
  <2>2. \A v \in Pkg!ByUser : values[v] \in Seq(Some)
    <3> TAKE v \in Pkg!ByUser
    <3>1. <<Pkg!Hidden>> \in Seq(Some)
      <4>1. Pkg!Hidden \in Some
        BY DEF Atoms
      <4> HIDE DEF Some
      <4> QED
        BY <4>1, OneText
    <3>2. v \notin Pkg!Secret => Pkg!Value(v) \in Seq(Some)
      BY <1>1, <2>1
    <3> HIDE DEF Some
    <3> QED
      BY <3>1, <3>2
  <2>3. IsFiniteSet(Pkg!ByUser)
    BY <2>1, Finite
  <2> HIDE DEF values, Some
  <2>4. Pkg!Flatten(values, Pkg!ByUser) \in Seq(Some)
    BY <2>2, <2>3, FlattenType
  <2> QED
    BY <2>4 DEF Pkg!user_arguments_masked, values
<1>5. /\ Pkg!Flatten(argument_dict, Pkg!Known) \in Seq(All)
      /\ Pkg!Flatten(argument_dict, Pkg!Known \ Pkg!Secret) \in Seq(Some)
  <2>1. Pkg!Known \subseteq Pkg!Vars
    BY ArgumentIs DEF Pkg!Known
  <2>2. /\ \A v \in Pkg!Known : argument_dict[v] \in Seq(All)
        /\ \A v \in Pkg!Known \ Pkg!Secret : argument_dict[v] \in Seq(Some)
    <3>1. \A v \in Pkg!Known : argument_dict[v] = Pkg!Value(v)
      BY ArgumentIs
    <3>2. \A v \in Pkg!Vars : Pkg!Value(v) \in Seq(All)
      BY <1>1
    <3>3. \A v \in Pkg!Vars \ Pkg!Secret : Pkg!Value(v) \in Seq(Some)
      BY <1>1
    <3> HIDE DEF All, Some
    <3> QED
      BY <2>1, <3>1, <3>2, <3>3
  <2>3. IsFiniteSet(Pkg!Known) /\ IsFiniteSet(Pkg!Known \ Pkg!Secret)
    BY <2>1, Finite
  <2> HIDE DEF All, Some
  <2> QED
    BY <2>2, <2>3, FlattenType
<1>6. <<<<"certificate", "", {ca}>>>> \in Seq(Some)
  <2>1. <<"certificate", "", {ca}>> \in Some
    BY DEF Atoms
  <2> HIDE DEF Some
  <2> QED
    BY <2>1, OneText
<1> HIDE DEF All, Some
<1>7. CASE name = "user_arguments_full"
  BY <1>3, <1>7 DEF Pkg!Builtin, Pkg!SecretBuiltins, All
<1>8. CASE name = "user_arguments"
  BY <1>4, <1>8 DEF Pkg!Builtin, Pkg!SecretBuiltins, Some
<1>9. CASE name = "expanded_config_full"
  <2>1. Pkg!user_arguments_masked \in Seq(All)
    BY <1>2, <1>4, SeqMonotonic
  <2>2. Pkg!Flatten(argument_dict, Pkg!Known) \o Pkg!user_arguments_full
          \o Pkg!user_arguments_masked \in Seq(All)
    BY <1>3, <1>5, <2>1, ConcatProperties
  <2> QED
    BY <1>9, <2>2 DEF Pkg!Builtin, Pkg!SecretBuiltins, All
<1>10. CASE name = "expanded_config"
  <2>1. Pkg!Flatten(argument_dict, Pkg!Known \ Pkg!Secret) \o Pkg!user_arguments_masked \in Seq(Some)
    BY <1>4, <1>5, ConcatProperties
  <2> QED
    BY <1>10, <2>1 DEF Pkg!Builtin, Pkg!SecretBuiltins, Some
<1>11. CASE name = "exhibitor_ca_certificate"
  BY <1>6, <1>11 DEF Pkg!Builtin, Pkg!SecretBuiltins, Some
<1> QED
  BY <1>7, <1>8, <1>9, <1>10, <1>11 DEF Pkg!Builtins, Pkg!SecretBuiltins

(* Words of templates *)
Reach(w) ==
    IF w \in Pkg!Vars THEN {w}
    ELSE IF w \in Pkg!SecretBuiltins THEN Pkg!Vars ELSE Pkg!Vars \ Pkg!Secret
ExpectedWord(w) == IF w \in Pkg!Vars THEN Pkg!Value(w) ELSE Pkg!Word(w)

LEMMA ReachFacts ==
  ASSUME NEW w
  PROVE  Reach(w) \subseteq Pkg!Vars
  BY DEF Reach

LEMMA WordFacts ==
  ASSUME Typed, argument_dict = Pkg!get_final_arguments, NEW w \in Pkg!Referenced
  PROVE  /\ w \in Pkg!Late => Pkg!Word(w) = Pkg!Placeholder(w)
         /\ w \notin Pkg!Late => Pkg!Word(w) = ExpectedWord(w)
         /\ ExpectedWord(w) \in Seq(Atoms(Reach(w)))
<1>1. CASE w \in Pkg!Vars
  <2>1. w \notin Pkg!Builtins
    BY <1>1 DEF Typed, Pkg!AreEntered, Pkg!Vars
  <2>2. w \in DOMAIN argument_dict
    BY <1>1 DEF Pkg!get_final_arguments, Pkg!is_finalized
  <2>3. Pkg!Word(w) = IF Pkg!is_late(w) THEN Pkg!Placeholder(w) ELSE Pkg!Value(w)
    BY <1>1, <2>1, <2>2, ArgumentIs DEF Pkg!Word
  <2>4. Pkg!Value(w) \in Seq(Atoms({w}))
    <3>1. Pkg!Value(w)[1] \in Atoms({w}) /\ Pkg!Value(w) = <<Pkg!Value(w)[1]>>
      BY <1>1, ValueFacts DEF Atoms
    <3> QED
      BY <3>1, OneText
  <2> QED
    BY <1>1, <2>3, <2>4 DEF Pkg!Late, ExpectedWord, Reach
<1>2. CASE w \notin Pkg!Vars /\ w \in Pkg!Builtins
  <2>1. Pkg!Word(w) = Pkg!Builtin(w) /\ w \notin Pkg!Late
    BY <1>2 DEF Pkg!Word, Pkg!Late
  <2> QED
    BY <1>2, <2>1, BuiltinFacts DEF ExpectedWord, Reach
<1>3. CASE w \notin Pkg!Vars /\ w \notin Pkg!Builtins
  <2>1. Pkg!Word(w) = <<<<"text", w, {}>>>> /\ w \notin Pkg!Late
    BY <1>3 DEF Pkg!Word, Pkg!Late
  <2>2. <<"text", w, {}>> \in Atoms(Reach(w))
    BY DEF Atoms
  <2> QED
    BY <1>3, <2>1, <2>2, OneText DEF ExpectedWord
<1> QED
  BY <1>1, <1>2, <1>3

-----------------------------------------------------------------------------
(* Texts where placeholders are whole: three atoms, and one for no other    *)
(* names than these                                                        *)

Tokens(names) == {Pkg!Start, Pkg!End} \cup {<<"name", n, {}>> : n \in names}
TidyAt(t, i, names) ==
    /\ t[i] = Pkg!Start =>
          /\ i + 1 \in DOMAIN t /\ i + 2 \in DOMAIN t /\ t[i + 2] = Pkg!End
          /\ \E n \in names : t[i + 1] = <<"name", n, {}>>
    /\ t[i][1] = "name" => i - 1 \in DOMAIN t /\ t[i - 1] = Pkg!Start
ClosedAt(t, i) == t[i] = Pkg!End => i - 2 \in DOMAIN t /\ t[i - 2] = Pkg!Start
Tidy(A, names) == {t \in Seq(A) : \A i \in DOMAIN t : TidyAt(t, i, names)}
Closed(A) == {t \in Seq(A) : \A i \in DOMAIN t : ClosedAt(t, i)}

LEMMA ConcatAt ==
  ASSUME NEW A, NEW a \in Seq(A), NEW b \in Seq(A)
  PROVE  /\ a \o b \in Seq(A)
         /\ \A i \in DOMAIN a : i \in DOMAIN (a \o b) /\ (a \o b)[i] = a[i]
         /\ \A i \in DOMAIN b : Len(a) + i \in DOMAIN (a \o b) /\ (a \o b)[Len(a) + i] = b[i]
         /\ \A i \in DOMAIN (a \o b) : i \in DOMAIN a \/ (i - Len(a) \in DOMAIN b /\ Len(a) + (i - Len(a)) = i)
         /\ Len(a) \in Nat /\ DOMAIN a \subseteq Nat /\ DOMAIN b \subseteq Nat
<1> DEFINE c == a \o b
<1>1. c \in Seq(A) /\ Len(c) = Len(a) + Len(b)
      /\ \A i \in 1 .. Len(a) + Len(b) : c[i] = IF i <= Len(a) THEN a[i] ELSE b[i - Len(a)]
  BY ConcatProperties
<1>2. Len(a) \in Nat /\ Len(b) \in Nat /\ DOMAIN a = 1 .. Len(a) /\ DOMAIN b = 1 .. Len(b)
  BY LenProperties
<1> HIDE DEF c
<1>3. DOMAIN c = 1 .. Len(a) + Len(b)
  BY <1>1, LenProperties
<1>4. \A i \in DOMAIN a : i \in DOMAIN c /\ c[i] = a[i]
  BY <1>1, <1>2, <1>3
<1>5. \A i \in DOMAIN b : Len(a) + i \in DOMAIN c /\ c[Len(a) + i] = b[i]
  <2> TAKE i \in DOMAIN b
  <2>1. Len(a) + i \in 1 .. Len(a) + Len(b) /\ ~(Len(a) + i <= Len(a)) /\ (Len(a) + i) - Len(a) = i
    BY <1>2
  <2> QED
    BY <1>1, <1>3, <2>1
<1>6. \A i \in DOMAIN c : i \in DOMAIN a \/ (i - Len(a) \in DOMAIN b /\ Len(a) + (i - Len(a)) = i)
  BY <1>2, <1>3
<1> QED
  BY <1>1, <1>2, <1>4, <1>5, <1>6 DEF c

LEMMA TidyConcat ==
  ASSUME NEW A, NEW names, NEW a \in Tidy(A, names), NEW b \in Tidy(A, names)
  PROVE  a \o b \in Tidy(A, names)
<1> DEFINE c == a \o b
           n == Len(a)
<1>1. a \in Seq(A) /\ b \in Seq(A)
  BY DEF Tidy
<1>2. /\ c \in Seq(A)
      /\ \A i \in DOMAIN a : i \in DOMAIN c /\ c[i] = a[i]
      /\ \A i \in DOMAIN b : n + i \in DOMAIN c /\ c[n + i] = b[i]
      /\ \A i \in DOMAIN c : i \in DOMAIN a \/ (i - n \in DOMAIN b /\ n + (i - n) = i)
      /\ n \in Nat /\ DOMAIN a \subseteq Nat /\ DOMAIN b \subseteq Nat
  BY <1>1, ConcatAt
<1> HIDE DEF c, n
<1>3. ASSUME NEW i \in DOMAIN a
      PROVE  TidyAt(c, i, names)
  <2>1. TidyAt(a, i, names)
    BY DEF Tidy
  <2> QED
    BY <1>2, <2>1 DEF TidyAt
<1>4. ASSUME NEW j \in DOMAIN b
      PROVE  TidyAt(c, n + j, names)
  <2>1. TidyAt(b, j, names) /\ c[n + j] = b[j]
    BY <1>2 DEF Tidy
  <2>2. /\ (n + j) + 1 = n + (j + 1) /\ (n + j) + 2 = n + (j + 2) /\ (n + j) - 1 = n + (j - 1)
    BY <1>2
  <2>3. ASSUME c[n + j] = Pkg!Start
        PROVE  /\ (n + j) + 1 \in DOMAIN c /\ (n + j) + 2 \in DOMAIN c /\ c[(n + j) + 2] = Pkg!End
               /\ \E m \in names : c[(n + j) + 1] = <<"name", m, {}>>
    <3>1. /\ j + 1 \in DOMAIN b /\ j + 2 \in DOMAIN b /\ b[j + 2] = Pkg!End
          /\ \E m \in names : b[j + 1] = <<"name", m, {}>>
      BY <2>1, <2>3 DEF TidyAt
    <3>2. /\ n + (j + 1) \in DOMAIN c /\ n + (j + 2) \in DOMAIN c
          /\ c[n + (j + 1)] = b[j + 1] /\ c[n + (j + 2)] = b[j + 2]
      BY <1>2, <3>1
    <3>3. (n + j) + 1 = n + (j + 1) /\ (n + j) + 2 = n + (j + 2)
      BY <2>2
    <3> QED
      BY <3>1, <3>2, <3>3
  <2>4. ASSUME c[n + j][1] = "name"
        PROVE  (n + j) - 1 \in DOMAIN c /\ c[(n + j) - 1] = Pkg!Start
    <3>1. j - 1 \in DOMAIN b /\ b[j - 1] = Pkg!Start
      BY <2>1, <2>4 DEF TidyAt
    <3> QED
      BY <1>2, <2>2, <3>1
  <2> QED
    BY <2>3, <2>4 DEF TidyAt
<1>5. \A i \in DOMAIN c : TidyAt(c, i, names)
  <2> TAKE i \in DOMAIN c
  <2>1. CASE i \in DOMAIN a
    BY <1>3, <2>1
  <2>2. CASE i - n \in DOMAIN b /\ n + (i - n) = i
    <3>1. TidyAt(c, n + (i - n), names)
      BY <1>4, <2>2
    <3> QED
      BY <2>2, <3>1
  <2> QED
    BY <1>2, <2>1, <2>2
<1> QED
  BY <1>2, <1>5 DEF Tidy, c

LEMMA ClosedConcat ==
  ASSUME NEW A, NEW a \in Closed(A), NEW b \in Closed(A)
  PROVE  a \o b \in Closed(A)
<1> DEFINE c == a \o b
           n == Len(a)
<1>1. a \in Seq(A) /\ b \in Seq(A)
  BY DEF Closed
<1>2. /\ c \in Seq(A)
      /\ \A i \in DOMAIN a : i \in DOMAIN c /\ c[i] = a[i]
      /\ \A i \in DOMAIN b : n + i \in DOMAIN c /\ c[n + i] = b[i]
      /\ \A i \in DOMAIN c : i \in DOMAIN a \/ (i - n \in DOMAIN b /\ n + (i - n) = i)
      /\ n \in Nat /\ DOMAIN a \subseteq Nat /\ DOMAIN b \subseteq Nat
  BY <1>1, ConcatAt
<1> HIDE DEF c, n
<1>3. ASSUME NEW i \in DOMAIN a
      PROVE  ClosedAt(c, i)
  <2>1. ClosedAt(a, i)
    BY DEF Closed
  <2> QED
    BY <1>2, <2>1 DEF ClosedAt
<1>4. ASSUME NEW j \in DOMAIN b
      PROVE  ClosedAt(c, n + j)
  <2>1. ClosedAt(b, j) /\ c[n + j] = b[j]
    BY <1>2 DEF Closed
  <2> SUFFICES ASSUME c[n + j] = Pkg!End
               PROVE  (n + j) - 2 \in DOMAIN c /\ c[(n + j) - 2] = Pkg!Start
    BY DEF ClosedAt
  <2>2. j - 2 \in DOMAIN b /\ b[j - 2] = Pkg!Start
    BY <2>1 DEF ClosedAt
  <2>3. (n + j) - 2 = n + (j - 2)
    BY <1>2
  <2> QED
    BY <1>2, <2>2, <2>3
<1>5. \A i \in DOMAIN c : ClosedAt(c, i)
  <2> TAKE i \in DOMAIN c
  <2>1. CASE i \in DOMAIN a
    BY <1>3, <2>1
  <2>2. CASE i - n \in DOMAIN b /\ n + (i - n) = i
    <3>1. ClosedAt(c, n + (i - n))
      BY <1>4, <2>2
    <3> QED
      BY <2>2, <3>1
  <2> QED
    BY <1>2, <2>1, <2>2
<1> QED
  BY <1>2, <1>5 DEF Closed, c

LEMMA OneOfText ==
  ASSUME NEW A, NEW t \in Seq(A), NEW i \in DOMAIN t
  PROVE  SubSeq(t, i, i) = <<t[i]>>
<1>1. i \in 1 .. Len(t) /\ i \in Int /\ i + 1 \in Int /\ i < i + 1 /\ i \in i .. Len(t) /\ t[i] \in A
  BY LenProperties, ElementOfSeq
<1>2. SubSeq(t, i + 1, i) = <<>>
  BY <1>1, SubSeqEmpty
<1>3. SubSeq(t, i, i) = <<t[i]>> \o SubSeq(t, i + 1, i)
  BY <1>1, SubSeqRecursiveFirst
<1>4. <<t[i]>> \in Seq(A)
  BY <1>1, OneText
<1> QED
  BY <1>2, <1>3, <1>4, ConcatEmptySeq

(* The tokens of such a text *)
LEMMA TidyToken ==
  ASSUME NEW A, NEW names, NEW t \in Tidy(A, names), NEW i \in DOMAIN t, t[i] = Pkg!Start
  PROVE  /\ Pkg!EndAfter(t, i) # {}
         /\ Pkg!Min(Pkg!EndAfter(t, i)) = i + 2
         /\ i + 1 \in DOMAIN t /\ i + 2 \in DOMAIN t /\ t[i + 2] = Pkg!End
         /\ Pkg!TokenAt(t, i) = <<t[i + 1]>>
         /\ \E n \in names : t[i + 1] = <<"name", n, {}>>
         /\ DOMAIN t \subseteq Nat
<1>1. t \in Seq(A) /\ TidyAt(t, i, names)
  BY DEF Tidy
<1>2. DOMAIN t = 1 .. Len(t) /\ Len(t) \in Nat
  BY <1>1, LenProperties
<1>3. i + 1 \in DOMAIN t /\ i + 2 \in DOMAIN t /\ t[i + 2] = Pkg!End
      /\ \E n \in names : t[i + 1] = <<"name", n, {}>>
  BY <1>1 DEF TidyAt
<1>4. t[i + 1] # Pkg!End
  <2>1. \A n : <<"name", n, {}>> # Pkg!End
    BY DEF Pkg!End
  <2> QED
    BY <1>3, <2>1
<1> DEFINE E == Pkg!EndAfter(t, i)
<1>5. i + 2 \in E
  BY <1>2, <1>3 DEF Pkg!EndAfter, Pkg!IndicesOf
<1>6. \A j \in E : j \in Nat /\ j >= i + 2
  <2> TAKE j \in E
  <2>1. j \in DOMAIN t /\ t[j] = Pkg!End /\ j > i
    BY DEF Pkg!EndAfter, Pkg!IndicesOf
  <2>2. j # i + 1
    BY <1>4, <2>1
  <2> QED
    BY <1>2, <2>1, <2>2
<1> HIDE DEF E
<1>7. Pkg!Min(E) = i + 2
  <2>1. i + 2 \in Nat
    BY <1>2
  <2>2. \A x \in E : (\A y \in E : x <= y) <=> x = i + 2
    BY <1>5, <1>6, <2>1
  <2>3. (CHOOSE x \in E : \A y \in E : x <= y) = i + 2
    BY <1>5, <2>2
  <2> QED
    BY <2>3 DEF Pkg!Min
<1>8. Pkg!TokenAt(t, i) = <<t[i + 1]>>
  <2>1. Pkg!TokenAt(t, i) = SubSeq(t, i + 1, (i + 2) - 1)
    BY <1>7 DEF Pkg!TokenAt, E
  <2>2. (i + 2) - 1 = i + 1
    BY <1>2
  <2> QED
    BY <1>1, <1>3, <2>1, <2>2, OneOfText
<1> QED
  BY <1>2, <1>3, <1>5, <1>7, <1>8 DEF E

(* render_late_content, a part at a time *)
Cells(t, values) ==
    [i \in DOMAIN t |->
        IF t[i] = Pkg!Start THEN values[Pkg!TokenAt(t, i)[1][2]]
        ELSE IF i \in Pkg!InTokens(t) THEN <<>>
        ELSE <<t[i]>>]

LEMMA RenderIsCells ==
  ASSUME NEW t, NEW values
  PROVE  Pkg!render_late_content(t, values) = Pkg!FlattenSeq(Cells(t, values))
  BY DEF Pkg!render_late_content, Cells

StartsAt(t, i) == i \in DOMAIN t /\ t[i] = Pkg!Start
Inside(t, i) == StartsAt(t, i) \/ StartsAt(t, i - 1) \/ StartsAt(t, i - 2)

LEMMA InTokensIs ==
  ASSUME NEW A, NEW names, NEW t \in Tidy(A, names), NEW i \in DOMAIN t
  PROVE  i \in Pkg!InTokens(t) <=> Inside(t, i)
<1>1. DOMAIN t \subseteq Nat
  <2>1. t \in Seq(A)
    BY DEF Tidy
  <2> QED
    BY <2>1, LenProperties
<1>2. \A k \in Pkg!IndicesOf(t, Pkg!Start) :
         k \in Nat /\ (i \in k .. Pkg!Min(Pkg!EndAfter(t, k)) <=> i \in {k, k + 1, k + 2})
  <2> TAKE k \in Pkg!IndicesOf(t, Pkg!Start)
  <2>1. k \in DOMAIN t /\ t[k] = Pkg!Start
    BY DEF Pkg!IndicesOf
  <2>2. Pkg!Min(Pkg!EndAfter(t, k)) = k + 2 /\ k \in Nat
    BY <1>1, <2>1, TidyToken
  <2>3. i \in Nat
    BY <1>1
  <2> QED
    BY <2>2, <2>3
<1>3. i \in Pkg!InTokens(t) <=> \E k \in Pkg!IndicesOf(t, Pkg!Start) : i \in {k, k + 1, k + 2}
  BY <1>2 DEF Pkg!InTokens
<1>4. ASSUME NEW k \in Pkg!IndicesOf(t, Pkg!Start), i \in {k, k + 1, k + 2}
      PROVE  Inside(t, i)
  <2>1. StartsAt(t, k) /\ k \in Nat
    BY <1>2 DEF StartsAt, Pkg!IndicesOf
  <2>2. i = k \/ i - 1 = k \/ i - 2 = k
    BY <1>4, <2>1
  <2> QED
    BY <2>1, <2>2 DEF Inside
<1>5. ASSUME NEW k \in {i, i - 1, i - 2}, StartsAt(t, k)
      PROVE  k \in Pkg!IndicesOf(t, Pkg!Start) /\ i \in {k, k + 1, k + 2}
  <2>1. k \in Pkg!IndicesOf(t, Pkg!Start)
    BY <1>5 DEF StartsAt, Pkg!IndicesOf
  <2> QED
    BY <1>1, <2>1
<1> QED
  BY <1>3, <1>4, <1>5 DEF Inside

Fit(values, names, A) == \A n \in names : values[n] \in Seq(A)

LEMMA CellsType ==
  ASSUME NEW A, NEW names, NEW values, Fit(values, names, A), NEW t \in Tidy(A, names)
  PROVE  Cells(t, values) \in Seq(Seq(A)) /\ DOMAIN Cells(t, values) = DOMAIN t
<1>1. t \in Seq(A) /\ DOMAIN t = 1 .. Len(t) /\ Len(t) \in Nat
  <2>1. t \in Seq(A)
    BY DEF Tidy
  <2> QED
    BY <2>1, LenProperties
<1>2. DOMAIN Cells(t, values) = 1 .. Len(t) /\ Cells(t, values) = [i \in 1 .. Len(t) |-> Cells(t, values)[i]]
  BY <1>1 DEF Cells
<1>3. ASSUME NEW i \in DOMAIN t
      PROVE  Cells(t, values)[i] \in Seq(A)
  <2>1. Cells(t, values)[i] = IF t[i] = Pkg!Start THEN values[Pkg!TokenAt(t, i)[1][2]]
                              ELSE IF i \in Pkg!InTokens(t) THEN <<>> ELSE <<t[i]>>
    BY DEF Cells
  <2>2. CASE t[i] = Pkg!Start
    <3>0. TidyAt(t, i, names) /\ Pkg!TokenAt(t, i) = <<t[i + 1]>>
      <4>1. TidyAt(t, i, names)
        BY DEF Tidy
      <4>2. Pkg!TokenAt(t, i) = <<t[i + 1]>>
        BY <2>2, TidyToken
      <4> QED
        BY <4>1, <4>2
    <3>1. PICK n \in names : t[i + 1] = <<"name", n, {}>>
      BY <2>2, <3>0 DEF TidyAt
    <3>2. Pkg!TokenAt(t, i) = <<<<"name", n, {}>>>>
      BY <3>0, <3>1
    <3>3. Pkg!TokenAt(t, i)[1][2] = n
      BY <3>2
    <3> QED
      BY <2>1, <2>2, <3>3 DEF Fit
  <2>3. CASE t[i] # Pkg!Start
    <3>1. <<>> \in Seq(A) /\ <<t[i]>> \in Seq(A)
      BY <1>1, OneText, EmptySeq
    <3> QED
      BY <2>1, <2>3, <3>1
  <2> QED
    BY <2>2, <2>3
<1>4. Cells(t, values) \in [1 .. Len(t) -> Seq(A)]
  BY <1>1, <1>2, <1>3
<1> QED
  BY <1>1, <1>2, <1>4, SeqDef

LEMMA CellsConcat ==
  ASSUME NEW A, NEW names, NEW values, Fit(values, names, A),
         NEW a \in Tidy(A, names), NEW b \in Tidy(A, names)
  PROVE  Cells(a \o b, values) = Cells(a, values) \o Cells(b, values)
<1> DEFINE c == a \o b
           n == Len(a)
           p == Cells(a, values)
           q == Cells(b, values)
           r == Cells(c, values)
<1>1. a \in Seq(A) /\ b \in Seq(A) /\ c \in Tidy(A, names)
  BY TidyConcat DEF Tidy
<1>2. /\ c \in Seq(A)
      /\ \A i \in DOMAIN a : i \in DOMAIN c /\ c[i] = a[i]
      /\ \A i \in DOMAIN b : n + i \in DOMAIN c /\ c[n + i] = b[i]
      /\ \A i \in DOMAIN c : i \in DOMAIN a \/ (i - n \in DOMAIN b /\ n + (i - n) = i)
      /\ n \in Nat /\ DOMAIN a \subseteq Nat /\ DOMAIN b \subseteq Nat
  BY <1>1, ConcatAt
<1>3. DOMAIN a = 1 .. n /\ DOMAIN b = 1 .. Len(b) /\ Len(b) \in Nat /\ DOMAIN c = 1 .. Len(c)
      /\ Len(c) = n + Len(b)
  BY <1>1, <1>2, LenProperties, ConcatProperties
<1>4. /\ p \in Seq(Seq(A)) /\ q \in Seq(Seq(A)) /\ r \in Seq(Seq(A))
      /\ DOMAIN p = 1 .. n /\ DOMAIN q = 1 .. Len(b) /\ DOMAIN r = 1 .. n + Len(b)
  <2> HIDE DEF c, n
  <2> QED
    BY <1>1, <1>3, CellsType
<1>5. Len(p) = n /\ Len(q) = Len(b) /\ Len(r) = n + Len(b)
  <2>1. \A s \in Seq(Seq(A)) : DOMAIN s = 1 .. Len(s) /\ Len(s) \in Nat
    BY LenProperties
  <2>2. \A k, m \in Nat : 1 .. k = 1 .. m => k = m
    OBVIOUS
  <2>3. n + Len(b) \in Nat
    BY <1>2, <1>3
  <2> HIDE DEF p, q, r, n
  <2> QED
    BY <1>2, <1>3, <1>4, <2>1, <2>2, <2>3
<1> HIDE DEF c, n
<1>6. ASSUME NEW i \in DOMAIN a
      PROVE  r[i] = p[i]
  <2>1. i \in DOMAIN c /\ c[i] = a[i] /\ i \in 1 .. n
    BY <1>2, <1>3
  <2>2. Inside(c, i) <=> Inside(a, i)
    <3>1. \A k \in {i, i - 1, i - 2} : StartsAt(c, k) <=> StartsAt(a, k)
      <4> TAKE k \in {i, i - 1, i - 2}
      <4>1. k \in DOMAIN c => k \in DOMAIN a
        BY <1>2, <1>3, <2>1
      <4> QED
        BY <1>2, <4>1 DEF StartsAt
    <3> QED
      BY <3>1 DEF Inside
  <2>3. i \in Pkg!InTokens(c) <=> i \in Pkg!InTokens(a)
    BY <1>1, <2>1, <2>2, InTokensIs
  <2>4. a[i] = Pkg!Start => Pkg!TokenAt(c, i) = Pkg!TokenAt(a, i)
    <3> SUFFICES ASSUME a[i] = Pkg!Start PROVE Pkg!TokenAt(c, i) = Pkg!TokenAt(a, i)
      OBVIOUS
    <3>1. Pkg!TokenAt(a, i) = <<a[i + 1]>> /\ i + 1 \in DOMAIN a
      BY TidyToken
    <3>2. Pkg!TokenAt(c, i) = <<c[i + 1]>>
      BY <1>1, <2>1, TidyToken
    <3> QED
      BY <1>2, <3>1, <3>2
  <2> QED
    BY <2>1, <2>3, <2>4 DEF Cells
<1>7. ASSUME NEW j \in DOMAIN b
      PROVE  r[n + j] = q[j]
  <2>1. n + j \in DOMAIN c /\ c[n + j] = b[j] /\ j \in Nat /\ j >= 1
    BY <1>2, <1>3
  <2>2. \A d \in {0, 1, 2} : StartsAt(c, (n + j) - d) <=> StartsAt(b, j - d)
    <3> TAKE d \in {0, 1, 2}
    <3>1. (n + j) - d = n + (j - d)
      BY <1>2, <2>1
    <3>2. CASE j - d \in DOMAIN b
      BY <1>2, <3>1, <3>2 DEF StartsAt
    <3>3. CASE j - d \notin DOMAIN b
      <4> SUFFICES ASSUME StartsAt(c, (n + j) - d) PROVE FALSE
        BY <3>3 DEF StartsAt
      <4> DEFINE k == (n + j) - d
      <4>1. k \in DOMAIN c /\ c[k] = Pkg!Start
        BY DEF StartsAt
      <4>2. k - n = j - d
        BY <1>2, <2>1
      <4>3. k \in DOMAIN a /\ a[k] = Pkg!Start
        BY <1>2, <3>3, <4>1, <4>2
      <4>4. k + 2 \in DOMAIN a
        BY <4>3, TidyToken
      <4>5. k + 2 >= n + 1
        BY <1>2, <2>1
      <4> QED
        BY <1>2, <1>3, <4>4, <4>5
    <3> QED
      BY <3>2, <3>3
  <2>3. Inside(c, n + j) <=> Inside(b, j)
    <3>1. (n + j) - 0 = n + j /\ j - 0 = j
      BY <1>2, <2>1
    <3>2. StartsAt(c, n + j) <=> StartsAt(b, j)
      BY <2>2, <3>1
    <3> QED
      BY <2>2, <3>2 DEF Inside
  <2>4. n + j \in Pkg!InTokens(c) <=> j \in Pkg!InTokens(b)
    BY <1>1, <2>1, <2>3, InTokensIs
  <2>5. b[j] = Pkg!Start => Pkg!TokenAt(c, n + j) = Pkg!TokenAt(b, j)
    <3> SUFFICES ASSUME b[j] = Pkg!Start PROVE Pkg!TokenAt(c, n + j) = Pkg!TokenAt(b, j)
      OBVIOUS
    <3>1. Pkg!TokenAt(b, j) = <<b[j + 1]>> /\ j + 1 \in DOMAIN b
      BY TidyToken
    <3>2. Pkg!TokenAt(c, n + j) = <<c[(n + j) + 1]>>
      BY <1>1, <2>1, TidyToken
    <3>3. (n + j) + 1 = n + (j + 1)
      BY <1>2, <2>1
    <3> QED
      BY <1>2, <3>1, <3>2, <3>3
  <2> QED
    BY <2>1, <2>4, <2>5 DEF Cells
<1> HIDE DEF p, q, r
<1>8. /\ p \o q \in Seq(Seq(A)) /\ Len(p \o q) = n + Len(b)
      /\ \A i \in 1 .. n + Len(b) : (p \o q)[i] = IF i <= n THEN p[i] ELSE q[i - n]
  <2>1. \A s, t \in Seq(Seq(A)) :
           /\ s \o t \in Seq(Seq(A)) /\ Len(s \o t) = Len(s) + Len(t)
           /\ \A i \in 1 .. Len(s) + Len(t) : (s \o t)[i] = IF i <= Len(s) THEN s[i] ELSE t[i - Len(s)]
    BY ConcatProperties
  <2>2. /\ p \o q \in Seq(Seq(A)) /\ Len(p \o q) = Len(p) + Len(q)
        /\ \A i \in 1 .. Len(p) + Len(q) : (p \o q)[i] = IF i <= Len(p) THEN p[i] ELSE q[i - Len(p)]
    BY <1>4, <2>1
  <2> QED
    BY <1>5, <2>2
<1>9. \A i \in 1 .. n + Len(b) : r[i] = (p \o q)[i]
  <2> TAKE i \in 1 .. n + Len(b)
  <2>1. CASE i <= n
    <3>1. i \in DOMAIN a
      BY <1>2, <1>3, <2>1
    <3> QED
      BY <1>6, <1>8, <2>1, <3>1
  <2>2. CASE i > n
    <3>1. i - n \in DOMAIN b /\ n + (i - n) = i /\ ~(i <= n)
      BY <1>2, <1>3, <2>2
    <3>2. r[n + (i - n)] = q[i - n]
      BY <1>7, <3>1
    <3> QED
      BY <1>8, <3>1, <3>2
  <2>3. \A k \in Nat : \A m \in 1 .. k : m \in Nat
    OBVIOUS
  <2>4. n + Len(b) \in Nat
    BY <1>2, <1>3
  <2>5. \A k, m \in Nat : k <= m \/ k > m
    OBVIOUS
  <2>6. i <= n \/ i > n
    BY <1>2, <2>3, <2>4, <2>5
  <2> QED
    BY <2>1, <2>2, <2>6
<1>10. r = p \o q
  <2>1. \A s, t \in Seq(Seq(A)) : Len(s) = Len(t) /\ (\A i \in 1 .. Len(s) : s[i] = t[i]) => s = t
    BY SeqEqual
  <2> QED
    BY <1>4, <1>5, <1>8, <1>9, <2>1
<1> QED
  BY <1>10 DEF p, q, r, c

LEMMA FlattenSingles ==
  ASSUME NEW A, NEW t \in Seq(A)
  PROVE  Pkg!FlattenSeq([i \in DOMAIN t |-> <<t[i]>>]) = t
<1> DEFINE M(u) == [i \in DOMAIN u |-> <<u[i]>>]
           B == {u \in Seq(A) : M(u) \in Seq(Seq(A)) /\ Pkg!FlattenSeq(M(u)) = u}
<1>1. <<>> \in B
  <2>1. M(<<>>) = <<>>
    OBVIOUS
  <2>2. Pkg!FlattenSeq(<<>>) = <<>> /\ <<>> \in Seq(Seq(A)) /\ <<>> \in Seq(A)
    BY EmptySeq, FlattenSteps
  <2> HIDE DEF M
  <2> QED
    BY <2>1, <2>2
<1>2. ASSUME NEW u \in Seq(A), NEW a \in A, u \in B
      PROVE  Append(u, a) \in B
  <2> DEFINE w == Append(u, a)
  <2>1. /\ w \in Seq(A) /\ Len(w) = Len(u) + 1 /\ w[Len(u) + 1] = a
        /\ \A l \in 1 .. Len(u) : w[l] = u[l]
    BY AppendProperties
  <2>2. DOMAIN w = 1 .. Len(u) + 1 /\ DOMAIN u = 1 .. Len(u) /\ Len(u) \in Nat
    BY <2>1, LenProperties
  <2> HIDE DEF w
  <2>3. M(u) \in Seq(Seq(A)) /\ DOMAIN M(u) = 1 .. Len(u) /\ <<a>> \in Seq(A)
    BY <1>2, <2>2, OneText
  <2>4. /\ \A l \in 1 .. Len(u) : M(u)[l] = <<u[l]>>
        /\ \A l \in 1 .. Len(u) + 1 : M(w)[l] = <<w[l]>>
        /\ M(w) = [l \in 1 .. Len(u) + 1 |-> M(w)[l]]
    BY <2>2
  <2> HIDE DEF M
  <2>5. Len(M(u)) = Len(u)
    <3>1. DOMAIN M(u) = 1 .. Len(M(u)) /\ Len(M(u)) \in Nat
      BY <2>3, LenProperties
    <3> QED
      BY <2>2, <2>3, <3>1
  <2>6. /\ Append(M(u), <<a>>) \in Seq(Seq(A)) /\ DOMAIN Append(M(u), <<a>>) = 1 .. Len(u) + 1
        /\ Append(M(u), <<a>>)[Len(u) + 1] = <<a>>
        /\ \A l \in 1 .. Len(u) : Append(M(u), <<a>>)[l] = M(u)[l]
    <3>1. \A s \in Seq(Seq(A)), x \in Seq(A) :
            /\ Append(s, x) \in Seq(Seq(A)) /\ DOMAIN Append(s, x) = 1 .. Len(s) + 1
            /\ Append(s, x)[Len(s) + 1] = x /\ \A l \in 1 .. Len(s) : Append(s, x)[l] = s[l]
      BY AppendProperties, LenProperties
    <3> QED
      BY <2>3, <2>5, <3>1
  <2>7. M(w) = Append(M(u), <<a>>)
    <3>1. \A l \in 1 .. Len(u) + 1 : M(w)[l] = Append(M(u), <<a>>)[l]
      <4>1. \A k \in Nat : \A m \in 1 .. k + 1 : m \in 1 .. k \/ m = k + 1
        OBVIOUS
      <4> QED
        BY <2>1, <2>2, <2>4, <2>6, <4>1
    <3>2. Append(M(u), <<a>>) = [l \in 1 .. Len(u) + 1 |-> Append(M(u), <<a>>)[l]]
      BY <2>6, LenProperties
    <3> QED
      BY <2>4, <3>1, <3>2
  <2>8. Pkg!FlattenSeq(M(w)) = Pkg!FlattenSeq(M(u)) \o <<a>>
    BY <2>3, <2>7, FlattenSteps
  <2>9. Pkg!FlattenSeq(M(u)) = u
    BY <1>2
  <2>10. w = u \o <<a>>
    BY AppendIsConcat DEF w
  <2> QED
    BY <2>1, <2>6, <2>7, <2>8, <2>9, <2>10 DEF w
<1>3. Seq(A) \subseteq B
  <2> HIDE DEF B
  <2> QED
    BY <1>1, <1>2, SeqInduction
<1> QED
  BY <1>3

LEMMA NothingInside ==
  ASSUME NEW A, NEW t \in Seq(A), NEW values, \A i \in DOMAIN t : t[i] # Pkg!Start
  PROVE  Pkg!render_late_content(t, values) = t
<1>1. Pkg!IndicesOf(t, Pkg!Start) = {}
  BY DEF Pkg!IndicesOf
<1>2. Pkg!InTokens(t) = {}
  BY <1>1 DEF Pkg!InTokens
<1>3. Cells(t, values) = [i \in DOMAIN t |-> <<t[i]>>]
  BY <1>2 DEF Cells
<1> QED
  BY <1>3, RenderIsCells, FlattenSingles

LEMMA PlaceholderFacts ==
  ASSUME NEW A, NEW names, NEW w \in names, Tokens(names) \subseteq A
  PROVE  Pkg!Placeholder(w) \in Tidy(A, names) /\ Pkg!Placeholder(w) \in Closed(A)
<1> DEFINE t == Pkg!Placeholder(w)
           a == <<"name", w, {}>>
<1>1. /\ DOMAIN t = 1 .. 3 /\ t[1] = Pkg!Start /\ t[2] = a /\ t[3] = Pkg!End
      /\ t = <<Pkg!Start, a, Pkg!End>>
  BY DEF Pkg!Placeholder
<1>2. Pkg!Start \in A /\ a \in A /\ Pkg!End \in A
  BY DEF Tokens
<1>3. /\ a # Pkg!Start /\ a # Pkg!End /\ Pkg!Start # Pkg!End
      /\ Pkg!Start[1] # "name" /\ Pkg!End[1] # "name"
  BY DEF Pkg!Start, Pkg!End
<1> HIDE DEF t, a
<1>4. t \in Seq(A)
  BY <1>1, <1>2
<1>5. TidyAt(t, 1, names)
  <2>1. 1 + 1 = 2 /\ 1 + 2 = 3 /\ 2 \in DOMAIN t /\ 3 \in DOMAIN t
    BY <1>1
  <2> QED
    BY <1>1, <1>3, <2>1 DEF TidyAt, a
<1>6. TidyAt(t, 2, names)
  <2>1. 2 - 1 = 1 /\ 1 \in DOMAIN t
    BY <1>1
  <2> QED
    BY <1>1, <1>3, <2>1 DEF TidyAt
<1>7. TidyAt(t, 3, names)
  BY <1>1, <1>3 DEF TidyAt
<1>8. ClosedAt(t, 1) /\ ClosedAt(t, 2)
  BY <1>1, <1>3 DEF ClosedAt
<1>9. ClosedAt(t, 3)
  <2>1. 3 - 2 = 1 /\ 1 \in DOMAIN t
    BY <1>1
  <2> QED
    BY <1>1, <2>1 DEF ClosedAt
<1>10. \A i \in DOMAIN t : i = 1 \/ i = 2 \/ i = 3
  BY <1>1
<1> QED
  BY <1>4, <1>5, <1>6, <1>7, <1>8, <1>9, <1>10 DEF Tidy, Closed, t

LEMMA PlaceholderRenders ==
  ASSUME NEW A, NEW w, NEW values, values[w] \in Seq(A)
  PROVE  Pkg!render_late_content(Pkg!Placeholder(w), values) = values[w]
<1> DEFINE t == Pkg!Placeholder(w)
           a == <<"name", w, {}>>
           B == Tokens({w})
           c == Cells(t, values)
<1>1. /\ DOMAIN t = 1 .. 3 /\ t[1] = Pkg!Start /\ t[2] = a /\ t[3] = Pkg!End
  BY DEF Pkg!Placeholder
<1>2. a # Pkg!Start /\ Pkg!Start # Pkg!End
  BY DEF Pkg!Start, Pkg!End
<1>3. t \in Tidy(B, {w})
  BY PlaceholderFacts
<1> HIDE DEF t, B
<1>4. 1 \in DOMAIN t /\ 2 \in DOMAIN t /\ 3 \in DOMAIN t /\ 1 + 1 = 2 /\ 2 - 1 = 1 /\ 3 - 2 = 1
  BY <1>1
<1>5. Pkg!TokenAt(t, 1) = <<a>>
  <2>1. Pkg!TokenAt(t, 1) = <<t[1 + 1]>>
    BY <1>1, <1>3, <1>4, TidyToken
  <2> QED
    BY <1>1, <1>4, <2>1
<1>6. 2 \in Pkg!InTokens(t) /\ 3 \in Pkg!InTokens(t)
  <2>1. Inside(t, 2) /\ Inside(t, 3)
    BY <1>1, <1>4 DEF Inside, StartsAt
  <2> QED
    BY <1>3, <1>4, <2>1, InTokensIs
<1>7. c[1] = values[w]
  <2>1. Pkg!TokenAt(t, 1)[1][2] = w
    BY <1>5
  <2> QED
    BY <1>1, <1>4, <2>1 DEF Cells
<1>8. c[2] = <<>> /\ c[3] = <<>>
  BY <1>1, <1>2, <1>4, <1>6 DEF Cells
<1>9. c = [i \in 1 .. 3 |-> c[i]]
  BY <1>1 DEF Cells
<1> HIDE DEF c
<1>10. Pkg!FlattenSeq(c) = values[w]
  <2> DEFINE v == values[w]
             c0 == <<>>
             c1 == Append(c0, v)
             c2 == Append(c1, <<>>)
             c3 == Append(c2, <<>>)
  <2>1. c0 \in Seq(Seq(A)) /\ <<>> \in Seq(A) /\ v \in Seq(A) /\ Len(c0) = 0
    BY EmptySeq
  <2>2. ASSUME NEW s \in Seq(Seq(A)), NEW p \in Seq(A)
        PROVE  /\ Pkg!FlattenSeq(Append(s, p)) = Pkg!FlattenSeq(s) \o p
               /\ Append(s, p) \in Seq(Seq(A)) /\ Len(Append(s, p)) = Len(s) + 1
               /\ Append(s, p)[Len(s) + 1] = p
               /\ \A l \in 1 .. Len(s) : Append(s, p)[l] = s[l]
    BY FlattenSteps, AppendProperties
  <2>3. Pkg!FlattenSeq(c0) = <<>>
    BY <2>1, FlattenSteps
  <2> HIDE DEF v, c0, c1, c2, c3
  <2>4. c1 \in Seq(Seq(A)) /\ Len(c1) = 1 /\ c1[1] = v /\ Pkg!FlattenSeq(c1) = v
    <3>1. /\ Pkg!FlattenSeq(c1) = Pkg!FlattenSeq(c0) \o v /\ c1 \in Seq(Seq(A))
          /\ Len(c1) = Len(c0) + 1 /\ c1[Len(c0) + 1] = v
      BY <2>1, <2>2 DEF c1
    <3>2. <<>> \o v = v
      BY <2>1, ConcatEmptySeq
    <3> QED
      BY <2>1, <2>3, <3>1, <3>2
  <2>5. /\ c2 \in Seq(Seq(A)) /\ Len(c2) = 2 /\ c2[1] = v /\ c2[2] = <<>>
        /\ Pkg!FlattenSeq(c2) = v
    <3>1. /\ Pkg!FlattenSeq(c2) = Pkg!FlattenSeq(c1) \o <<>> /\ c2 \in Seq(Seq(A))
          /\ Len(c2) = Len(c1) + 1 /\ c2[Len(c1) + 1] = <<>>
          /\ \A l \in 1 .. Len(c1) : c2[l] = c1[l]
      BY <2>1, <2>2, <2>4 DEF c2
    <3>2. v \o <<>> = v
      BY <2>1, ConcatEmptySeq
    <3> QED
      BY <2>4, <3>1, <3>2
  <2>6. /\ c3 \in Seq(Seq(A)) /\ Len(c3) = 3 /\ c3[1] = v /\ c3[2] = <<>> /\ c3[3] = <<>>
        /\ Pkg!FlattenSeq(c3) = v
    <3>1. /\ Pkg!FlattenSeq(c3) = Pkg!FlattenSeq(c2) \o <<>> /\ c3 \in Seq(Seq(A))
          /\ Len(c3) = Len(c2) + 1 /\ c3[Len(c2) + 1] = <<>>
          /\ \A l \in 1 .. Len(c2) : c3[l] = c2[l]
      BY <2>1, <2>2, <2>5 DEF c3
    <3>2. v \o <<>> = v
      BY <2>1, ConcatEmptySeq
    <3> QED
      BY <2>5, <3>1, <3>2
  <2>7. \A i \in 1 .. 3 : i = 1 \/ i = 2 \/ i = 3
    OBVIOUS
  <2>8. \A i \in 1 .. 3 : c[i] = c3[i]
    BY <1>7, <1>8, <2>6, <2>7 DEF v
  <2>9. c3 = [i \in 1 .. 3 |-> c3[i]]
    BY <2>6, LenProperties
  <2>10. c = c3
    BY <1>9, <2>8, <2>9
  <2> QED
    BY <2>6, <2>10 DEF v
<1> QED
  BY <1>10, RenderIsCells DEF c, t

-----------------------------------------------------------------------------
(* The content of a file *)

Pieces(f) == [i \in DOMAIN f.content |-> Pkg!Word(f.content[i])]
ExpectedPieces(f) == [i \in DOMAIN f.content |-> ExpectedWord(f.content[i])]
Content(f) == Pkg!FlattenSeq(Pieces(f))
Reached(f) == UNION {Reach(w) : w \in Pkg!Range(f.content)}
LateIn(f) == Pkg!Late \cap Pkg!Range(f.content)
Mix(f) == Atoms(Reached(f)) \cup Tokens(LateIn(f))

LEMMA FileFacts ==
  ASSUME Typed, NEW f \in Pkg!Range(templates)
  PROVE  /\ f.content \in Seq(Pkg!Range(f.content)) /\ Pkg!Range(f.content) \subseteq Pkg!Referenced
         /\ f.in \in {"dcos-config", "dcos-metadata", "cloud-config"}
         /\ Pkg!Render(f).in = f.in /\ Pkg!Render(f).path = f.path /\ Pkg!Render(f).content = Content(f)
         /\ Pkg!Expected(f) = Pkg!FlattenSeq(ExpectedPieces(f))
<1>1. f \in [in : {"dcos-config", "dcos-metadata", "cloud-config"}, path : {f.path},
             content : Seq(Pkg!Range(f.content))]
  BY DEF Typed, Pkg!AreTemplates
<1>2. Pkg!Range(f.content) \subseteq Pkg!Referenced
  BY DEF Pkg!Referenced
<1>3. Pkg!Render(f).in = f.in /\ Pkg!Render(f).path = f.path /\ Pkg!Render(f).content = Content(f)
  BY <1>1 DEF Pkg!Render, Content, Pieces
<1>4. Pkg!Expected(f) = Pkg!FlattenSeq(ExpectedPieces(f))
  BY DEF Pkg!Expected, ExpectedPieces, ExpectedWord
<1> QED
  BY <1>1, <1>2, <1>3, <1>4

LEMMA Places ==
  ASSUME NEW S, NEW c \in Seq(S), NEW T, NEW p, DOMAIN p = DOMAIN c, p = [i \in DOMAIN c |-> p[i]],
         \A i \in DOMAIN c : p[i] \in T
  PROVE  p \in Seq(T)
<1>1. DOMAIN c = 1 .. Len(c) /\ Len(c) \in Nat
  BY LenProperties
<1>2. p \in [1 .. Len(c) -> T]
  BY <1>1
<1> QED
  BY <1>1, <1>2, SeqDef

LEMMA ReachedFacts ==
  ASSUME Typed, NEW f \in Pkg!Range(templates)
  PROVE  /\ Reached(f) \subseteq Pkg!Vars
         /\ \A w \in Pkg!Range(f.content) : Atoms(Reach(w)) \subseteq Atoms(Reached(f))
         /\ Atoms(Reached(f)) \subseteq Mix(f)
<1>1. Reached(f) \subseteq Pkg!Vars
  BY ReachFacts DEF Reached
<1>2. \A w \in Pkg!Range(f.content) : Reach(w) \subseteq Reached(f)
  BY DEF Reached
<1> QED
  BY <1>1, <1>2, AtomsGrow DEF Mix

LEMMA PlainFacts ==
  ASSUME Typed, NEW vs, vs \subseteq Pkg!Vars, NEW t \in Seq(Atoms(vs)), NEW names, NEW i \in DOMAIN t
  PROVE  /\ TidyAt(t, i, names) /\ t[i] # Pkg!Start
         /\ Pkg!Marked = {} => ClosedAt(t, i) /\ t[i] # Pkg!End
<1>1. t[i] \in Atoms(vs)
  BY ElementOfSeq, LenProperties
<1>2. t[i] # Pkg!Start /\ t[i][1] # "name" /\ (t[i] = Pkg!End => Pkg!Marked # {})
  BY <1>1, AtomFacts
<1> QED
  BY <1>2 DEF TidyAt, ClosedAt

LEMMA PieceFacts ==
  ASSUME Typed, argument_dict = Pkg!get_final_arguments,
         NEW f \in Pkg!Range(templates), NEW w \in Pkg!Range(f.content)
  PROVE  /\ Pkg!Word(w) \in Tidy(Mix(f), LateIn(f))
         /\ Pkg!Marked = {} => Pkg!Word(w) \in Closed(Mix(f))
         /\ ExpectedWord(w) \in Seq(Atoms(Reached(f))) /\ ExpectedWord(w) \in Seq(Mix(f))
<1>1. w \in Pkg!Referenced /\ Reach(w) \subseteq Pkg!Vars
  BY FileFacts, ReachFacts
<1>2. ExpectedWord(w) \in Seq(Atoms(Reach(w)))
  BY <1>1, WordFacts
<1>3. ExpectedWord(w) \in Seq(Atoms(Reached(f))) /\ ExpectedWord(w) \in Seq(Mix(f))
  BY <1>2, ReachedFacts, SeqMonotonic
<1>4. CASE w \in Pkg!Late
  <2>1. Pkg!Word(w) = Pkg!Placeholder(w)
    BY <1>1, <1>4, WordFacts
  <2>2. w \in LateIn(f) /\ Tokens(LateIn(f)) \subseteq Mix(f)
    BY <1>4 DEF LateIn, Mix
  <2> QED
    BY <1>3, <2>1, <2>2, PlaceholderFacts
<1>5. CASE w \notin Pkg!Late
  <2>1. Pkg!Word(w) = ExpectedWord(w)
    BY <1>1, <1>5, WordFacts
  <2>2. \A i \in DOMAIN ExpectedWord(w) :
           /\ TidyAt(ExpectedWord(w), i, LateIn(f))
           /\ Pkg!Marked = {} => ClosedAt(ExpectedWord(w), i)
    BY <1>1, <1>2, PlainFacts
  <2> QED
    BY <1>3, <2>1, <2>2 DEF Tidy, Closed
<1> QED
  BY <1>4, <1>5

LEMMA ContentFacts ==
  ASSUME Typed, argument_dict = Pkg!get_final_arguments, NEW f \in Pkg!Range(templates)
  PROVE  /\ Pieces(f) \in Seq(Tidy(Mix(f), LateIn(f))) /\ Pieces(f) \in Seq(Seq(Mix(f)))
         /\ Content(f) \in Tidy(Mix(f), LateIn(f))
         /\ Pkg!Marked = {} => Content(f) \in Closed(Mix(f))
         /\ Pkg!Expected(f) \in Seq(Atoms(Reached(f)))
         /\ LateIn(f) = {} => Content(f) = Pkg!Expected(f)
<1> DEFINE A == Mix(f)
           S == Tidy(A, LateIn(f))
           T == Closed(A)
<1>1. S \subseteq Seq(A) /\ T \subseteq Seq(A)
  BY DEF Tidy, Closed
<1>2. <<>> \in S /\ <<>> \in T
  BY EmptySeq DEF Tidy, Closed
<1>3. f.content \in Seq(Pkg!Range(f.content)) /\ \A i \in DOMAIN f.content : f.content[i] \in Pkg!Range(f.content)
  BY FileFacts DEF Pkg!Range
<1>4. /\ \A i \in DOMAIN f.content : Pieces(f)[i] \in S /\ (Pkg!Marked = {} => Pieces(f)[i] \in T)
      /\ \A i \in DOMAIN f.content : ExpectedPieces(f)[i] \in Seq(Atoms(Reached(f)))
  BY <1>3, PieceFacts DEF Pieces, ExpectedPieces
<1>5. /\ DOMAIN Pieces(f) = DOMAIN f.content /\ Pieces(f) = [i \in DOMAIN f.content |-> Pieces(f)[i]]
      /\ DOMAIN ExpectedPieces(f) = DOMAIN f.content
      /\ ExpectedPieces(f) = [i \in DOMAIN f.content |-> ExpectedPieces(f)[i]]
  BY DEF Pieces, ExpectedPieces
<1>6. /\ Pieces(f) \in Seq(S) /\ (Pkg!Marked = {} => Pieces(f) \in Seq(T))
      /\ ExpectedPieces(f) \in Seq(Seq(Atoms(Reached(f))))
  <2> HIDE DEF S, T
  <2>1. Pieces(f) \in Seq(S)
    <3>1. \A i \in DOMAIN f.content : Pieces(f)[i] \in S
      BY <1>4
    <3> QED
      BY <1>3, <1>5, <3>1, Places
  <2>2. Pkg!Marked = {} => Pieces(f) \in Seq(T)
    <3> SUFFICES ASSUME Pkg!Marked = {} PROVE Pieces(f) \in Seq(T)
      OBVIOUS
    <3>1. \A i \in DOMAIN f.content : Pieces(f)[i] \in T
      BY <1>4
    <3> QED
      BY <1>3, <1>5, <3>1, Places
  <2>3. ExpectedPieces(f) \in Seq(Seq(Atoms(Reached(f))))
    <3> DEFINE U == Seq(Atoms(Reached(f)))
               c == f.content
               p == ExpectedPieces(f)
    <3>1. \A i \in DOMAIN c : p[i] \in U
      BY <1>4
    <3>2. c \in Seq(Pkg!Range(c)) /\ DOMAIN p = DOMAIN c /\ p = [i \in DOMAIN c |-> p[i]]
      BY <1>3, <1>5
    <3> HIDE DEF U, c, p
    <3>3. p \in Seq(U)
      BY <3>1, <3>2, Places
    <3> QED
      BY <3>3 DEF U, p
  <2> QED
    BY <2>1, <2>2, <2>3
<1>7. Pieces(f) \in Seq(Seq(A))
  <2> HIDE DEF S
  <2> QED
    BY <1>1, <1>6, SeqMonotonic
<1>8. Content(f) \in S
  <2>1. \A a, b \in S : a \o b \in S
    BY TidyConcat
  <2> HIDE DEF S, A
  <2> QED
    BY <1>1, <1>2, <1>6, <2>1, FlattenClosed DEF Content
<1>9. Pkg!Marked = {} => Content(f) \in T
  <2>1. \A a, b \in T : a \o b \in T
    BY ClosedConcat
  <2> HIDE DEF T, A
  <2> QED
    BY <1>1, <1>2, <1>6, <2>1, FlattenClosed DEF Content
<1>10. Pkg!Expected(f) \in Seq(Atoms(Reached(f)))
  <2>1. <<>> \in Seq(Atoms(Reached(f)))
    BY EmptySeq
  <2>2. Pkg!FlattenSeq(ExpectedPieces(f)) \in Seq(Atoms(Reached(f)))
    BY <1>6, <2>1, FlattenSteps
  <2> QED
    BY <2>2, FileFacts
<1>11. LateIn(f) = {} => Content(f) = Pkg!Expected(f)
  <2> SUFFICES ASSUME LateIn(f) = {} PROVE Content(f) = Pkg!Expected(f)
    OBVIOUS
  <2>1. \A i \in DOMAIN f.content : f.content[i] \notin Pkg!Late /\ f.content[i] \in Pkg!Referenced
    BY <1>3, FileFacts DEF LateIn
  <2>2. \A i \in DOMAIN f.content : Pieces(f)[i] = ExpectedPieces(f)[i]
    BY <2>1, WordFacts DEF Pieces, ExpectedPieces
  <2>3. Pieces(f) = ExpectedPieces(f)
    BY <1>5, <2>2
  <2> QED
    BY <2>3, FileFacts DEF Content
<1> QED
  BY <1>6, <1>7, <1>8, <1>9, <1>10, <1>11

(* What is late is in the content, as a placeholder *)
LEMMA LateIsThere ==
  ASSUME Typed, argument_dict = Pkg!get_final_arguments, NEW f \in Pkg!Range(templates),
         NEW w \in LateIn(f)
  PROVE  \E k \in DOMAIN Content(f) : Content(f)[k] = Pkg!Start /\ Pkg!TokenAt(Content(f), k) = <<<<"name", w, {}>>>>
<1>1. PICK i \in DOMAIN f.content : f.content[i] = w
  BY DEF LateIn, Pkg!Range
<1>2. w \in Pkg!Late /\ w \in Pkg!Referenced
  BY FileFacts DEF LateIn
<1>3. Pieces(f)[i] = Pkg!Placeholder(w) /\ i \in DOMAIN Pieces(f)
  BY <1>1, <1>2, WordFacts DEF Pieces
<1>4. 2 \in DOMAIN Pieces(f)[i] /\ Pieces(f)[i][2] = <<"name", w, {}>>
  BY <1>3 DEF Pkg!Placeholder
<1>5. Pieces(f) \in Seq(Seq(Mix(f))) /\ Content(f) \in Tidy(Mix(f), LateIn(f))
  BY ContentFacts
<1>6. PICK k \in DOMAIN Content(f) : Content(f)[k] = <<"name", w, {}>>
  BY <1>3, <1>4, <1>5, FlattenHas DEF Content
<1>7. k - 1 \in DOMAIN Content(f) /\ Content(f)[k - 1] = Pkg!Start
  <2>1. TidyAt(Content(f), k, LateIn(f))
    BY <1>5 DEF Tidy
  <2> QED
    BY <1>6, <2>1 DEF TidyAt
<1>8. Pkg!TokenAt(Content(f), k - 1) = <<Content(f)[(k - 1) + 1]>>
  BY <1>5, <1>7, TidyToken
<1>9. (k - 1) + 1 = k
  <2>1. Content(f) \in Seq(Mix(f))
    BY <1>5 DEF Tidy
  <2>2. k \in Nat
    BY <2>1, LenProperties
  <2> QED
    BY <2>2
<1> QED
  BY <1>6, <1>7, <1>8, <1>9

LEMMA TokenIsKnown ==
  ASSUME NEW t, NEW i, NEW w, NEW values, Pkg!TokenAt(t, i) = <<<<"name", w, {}>>>>
  PROVE  Pkg!IsKnown(values, Pkg!TokenAt(t, i)) <=> w \in DOMAIN values
<1>1. /\ Len(Pkg!TokenAt(t, i)) = 1 /\ Pkg!TokenAt(t, i)[1][1] = "name"
      /\ Pkg!TokenAt(t, i)[1][2] = w
  OBVIOUS
<1> QED
  BY <1>1 DEF Pkg!IsKnown

(* All late names are known where it can be rendered; and if they are, it   *)
(* can                                                                      *)
LEMMA RenderNeeds ==
  ASSUME Typed, argument_dict = Pkg!get_final_arguments, NEW f \in Pkg!Range(templates), NEW values
  PROVE  /\ Pkg!CanRender(Content(f), values) => LateIn(f) \subseteq DOMAIN values
         /\ LateIn(f) \subseteq DOMAIN values /\ Pkg!Marked = {} => Pkg!CanRender(Content(f), values)
<1> DEFINE t == Content(f)
<1>1. ASSUME Pkg!CanRender(t, values), NEW w \in LateIn(f)
      PROVE  w \in DOMAIN values
  <2>1. PICK k \in DOMAIN t : t[k] = Pkg!Start /\ Pkg!TokenAt(t, k) = <<<<"name", w, {}>>>>
    BY LateIsThere
  <2>2. k \in Pkg!IndicesOf(t, Pkg!Start)
    BY <2>1 DEF Pkg!IndicesOf
  <2>3. Pkg!IsKnown(values, Pkg!TokenAt(t, k))
    BY <1>1, <2>2 DEF Pkg!CanRender
  <2> QED
    BY <2>1, <2>3, TokenIsKnown
<1>2. ASSUME LateIn(f) \subseteq DOMAIN values, Pkg!Marked = {}
      PROVE  Pkg!CanRender(t, values)
  <2>1. t \in Tidy(Mix(f), LateIn(f)) /\ t \in Closed(Mix(f))
    BY <1>2, ContentFacts
  <2> HIDE DEF t
  <2>2. ASSUME NEW i \in Pkg!IndicesOf(t, Pkg!Start)
        PROVE  /\ Pkg!EndAfter(t, i) # {} /\ Pkg!IsKnown(values, Pkg!TokenAt(t, i))
               /\ ~\E k \in DOMAIN Pkg!TokenAt(t, i) : Pkg!TokenAt(t, i)[k] = Pkg!Start
    <3>1. i \in DOMAIN t /\ t[i] = Pkg!Start
      BY DEF Pkg!IndicesOf
    <3>2. TidyAt(t, i, LateIn(f))
      BY <2>1, <3>1 DEF Tidy
    <3>3. PICK n \in LateIn(f) : t[i + 1] = <<"name", n, {}>>
      BY <3>1, <3>2 DEF TidyAt
    <3>4. Pkg!EndAfter(t, i) # {} /\ Pkg!TokenAt(t, i) = <<t[i + 1]>>
      BY <2>1, <3>1, TidyToken
    <3>5. Pkg!TokenAt(t, i) = <<<<"name", n, {}>>>>
      BY <3>3, <3>4
    <3>6. Pkg!IsKnown(values, Pkg!TokenAt(t, i))
      BY <1>2, <3>5, TokenIsKnown
    <3>7. \A k \in DOMAIN Pkg!TokenAt(t, i) : Pkg!TokenAt(t, i)[k] = <<"name", n, {}>>
      BY <3>5
    <3>8. <<"name", n, {}>> # Pkg!Start
      BY DEF Pkg!Start
    <3> QED
      BY <3>4, <3>6, <3>7, <3>8
  <2>3. Pkg!IndicesOf(t, Pkg!End) \subseteq Pkg!InTokens(t)
    <3> SUFFICES ASSUME NEW i \in Pkg!IndicesOf(t, Pkg!End)
                 PROVE  i \in Pkg!InTokens(t)
      OBVIOUS
    <3>1. i \in DOMAIN t /\ t[i] = Pkg!End
      BY DEF Pkg!IndicesOf
    <3>2. ClosedAt(t, i)
      BY <2>1, <3>1 DEF Closed
    <3>3. Inside(t, i)
      BY <3>1, <3>2 DEF ClosedAt, Inside, StartsAt
    <3> QED
      BY <2>1, <3>1, <3>3, InTokensIs
  <2>4. Pkg!Splits(t)
    BY <2>2, <2>3 DEF Pkg!Splits
  <2> QED
    BY <2>2, <2>4 DEF Pkg!CanRender
<1> QED
  BY <1>1, <1>2

(* With all late values, the text is rendered to what is expected of it *)
LEMMA RenderIsExpected ==
  ASSUME Typed, argument_dict = Pkg!get_final_arguments, NEW f \in Pkg!Range(templates), NEW values,
         \A w \in LateIn(f) : values[w] = Pkg!Value(w)
  PROVE  Pkg!render_late_content(Content(f), values) = Pkg!Expected(f)
<1> DEFINE A == Mix(f)
           S == Tidy(A, LateIn(f))
           h == [t \in S |-> Pkg!render_late_content(t, values)]
<1>1. S \subseteq Seq(A)
  BY DEF Tidy
<1>2. \A w \in LateIn(f) : w \in Pkg!Range(f.content) /\ values[w] = ExpectedWord(w) /\ values[w] \in Seq(A)
  <2> TAKE w \in LateIn(f)
  <2>1. w \in Pkg!Range(f.content) /\ w \in Pkg!Vars
    BY DEF LateIn, Pkg!Late
  <2>2. ExpectedWord(w) = Pkg!Value(w)
    BY <2>1 DEF ExpectedWord
  <2> QED
    BY <2>1, <2>2, PieceFacts
<1>3. \A t \in S : Cells(t, values) \in Seq(Seq(A)) /\ h[t] = Pkg!FlattenSeq(Cells(t, values))
  <2>1. Fit(values, LateIn(f), A)
    BY <1>2 DEF Fit
  <2> QED
    BY <2>1, CellsType, RenderIsCells
<1>4. <<>> \in S
  BY EmptySeq DEF Tidy
<1>5. \A t \in S : h[t] \in Seq(A)
  <2>1. <<>> \in Seq(A)
    BY EmptySeq
  <2> HIDE DEF S, h, A
  <2> QED
    BY <1>3, <2>1, FlattenSteps
<1>6. h[<<>>] = <<>>
  <2>1. <<>> \in Seq(A) /\ \A i \in DOMAIN <<>> : <<>>[i] # Pkg!Start
    BY EmptySeq
  <2>2. Pkg!render_late_content(<<>>, values) = <<>>
    BY <2>1, NothingInside
  <2> HIDE DEF S
  <2> QED
    BY <1>4, <2>2
<1>7. \A a, b \in S : a \o b \in S /\ h[a \o b] = h[a] \o h[b]
  <2> TAKE a, b \in S
  <2>1. a \o b \in S
    BY TidyConcat
  <2>2. Cells(a \o b, values) = Cells(a, values) \o Cells(b, values)
    <3>1. Fit(values, LateIn(f), A)
      BY <1>2 DEF Fit
    <3>2. a \in Tidy(A, LateIn(f)) /\ b \in Tidy(A, LateIn(f))
      OBVIOUS
    <3> HIDE DEF A, S
    <3> QED
      BY <3>1, <3>2, CellsConcat
  <2> HIDE DEF S, h, A
  <2>3. Pkg!FlattenSeq(Cells(a, values) \o Cells(b, values))
          = Pkg!FlattenSeq(Cells(a, values)) \o Pkg!FlattenSeq(Cells(b, values))
    BY <1>3, FlattenConcat
  <2> QED
    BY <1>3, <2>1, <2>2, <2>3
<1>8. h \in [S -> Seq(A)]
  <2>1. h = [t \in S |-> h[t]]
    OBVIOUS
  <2> HIDE DEF h, S, A
  <2> QED
    BY <1>5, <2>1
<1>9. Pieces(f) \in Seq(S)
  BY ContentFacts
<1>10. h[Pkg!FlattenSeq(Pieces(f))] = Pkg!FlattenSeq([i \in DOMAIN Pieces(f) |-> h[Pieces(f)[i]]])
  <2> HIDE DEF h, S, A
  <2> QED
    <3>1. IsChange(h, S, A, A)
      BY <1>1, <1>4, <1>6, <1>7, <1>8 DEF IsChange
    <3> QED
      BY <1>9, <3>1, FlattenChanges
<1>11. [i \in DOMAIN Pieces(f) |-> h[Pieces(f)[i]]] = ExpectedPieces(f)
  <2>1. \A i \in DOMAIN f.content : h[Pieces(f)[i]] = ExpectedWord(f.content[i])
    <3> TAKE i \in DOMAIN f.content
    <3> DEFINE w == f.content[i]
    <3>1. w \in Pkg!Range(f.content) /\ w \in Pkg!Referenced /\ Pieces(f)[i] = Pkg!Word(w)
      BY FileFacts DEF Pkg!Range, Pieces
    <3> HIDE DEF w
    <3>2. Pkg!Word(w) \in S
      BY <3>1, PieceFacts
    <3>3. h[Pkg!Word(w)] = Pkg!render_late_content(Pkg!Word(w), values)
      BY <3>2
    <3>4. CASE w \in Pkg!Late
      <4>1. Pkg!Word(w) = Pkg!Placeholder(w) /\ w \in LateIn(f)
        BY <3>1, <3>4, WordFacts DEF LateIn
      <4>2. Pkg!render_late_content(Pkg!Placeholder(w), values) = values[w]
        BY <1>2, <4>1, PlaceholderRenders
      <4> QED
        BY <1>2, <3>1, <3>3, <4>1, <4>2 DEF w
    <3>5. CASE w \notin Pkg!Late
      <4>1. Pkg!Word(w) = ExpectedWord(w) /\ ExpectedWord(w) \in Seq(Atoms(Reach(w)))
        BY <3>1, <3>5, WordFacts
      <4>2. \A k \in DOMAIN ExpectedWord(w) : ExpectedWord(w)[k] # Pkg!Start
        BY <4>1, ReachFacts, PlainFacts
      <4>3. Pkg!render_late_content(ExpectedWord(w), values) = ExpectedWord(w)
        BY <4>1, <4>2, NothingInside
      <4> QED
        BY <3>1, <3>3, <4>1, <4>3 DEF w
    <3> QED
      BY <3>4, <3>5
  <2>2. DOMAIN Pieces(f) = DOMAIN f.content
    BY DEF Pieces
  <2> HIDE DEF h
  <2> QED
    BY <2>1, <2>2 DEF ExpectedPieces
<1>12. Content(f) \in S
  BY ContentFacts
<1> QED
  BY <1>10, <1>11, <1>12, FileFacts DEF Content

(* Nothing is in the rendered text but what is in the text, and values *)
LEMMA RenderedAtoms ==
  ASSUME Typed, argument_dict = Pkg!get_final_arguments, NEW f \in Pkg!Range(templates), NEW values,
         \A w \in LateIn(f) : values[w] = Pkg!Value(w)
  PROVE  Pkg!render_late_content(Content(f), values) \in Seq(Atoms(Reached(f)))
  BY RenderIsExpected, ContentFacts

LEMMA MixLeaks ==
  ASSUME Typed, NEW f \in Pkg!Range(templates), NEW t \in Seq(Mix(f)),
         Pkg!Leaks(t, Pkg!Secret)
  PROVE  Pkg!Mentions(f, Pkg!SecretBuiltins \cup Pkg!Secret)
<1>1. PICK i \in DOMAIN t : t[i][1] = "value" /\ t[i][2] \in Pkg!Secret
  BY DEF Pkg!Leaks
<1>2. t[i] \in Mix(f)
  BY ElementOfSeq, LenProperties
<1>3. t[i] \notin Tokens(LateIn(f))
  <2>1. /\ Pkg!Start[1] # "value" /\ Pkg!End[1] # "value"
        /\ \A n : <<"name", n, {}>>[1] # "value"
    BY DEF Pkg!Start, Pkg!End
  <2> QED
    BY <1>1, <2>1 DEF Tokens
<1>4. t[i][2] \in Reached(f)
  BY <1>1, <1>2, <1>3, AtomFacts, ReachedFacts DEF Mix
<1>5. PICK w \in Pkg!Range(f.content) : t[i][2] \in Reach(w)
  BY <1>4 DEF Reached
<1>6. w \in Pkg!SecretBuiltins \cup Pkg!Secret
  BY <1>1, <1>5 DEF Reach
<1> QED
  BY <1>6 DEF Pkg!Mentions

LEMMA NoneLeft ==
  ASSUME Typed, NEW vs, vs \subseteq Pkg!Vars, NEW t \in Seq(Atoms(vs)), Pkg!Marked = {}
  PROVE  ~Pkg!late_bind_placeholder_in(t)
  BY PlainFacts DEF Pkg!late_bind_placeholder_in

-----------------------------------------------------------------------------
(* What the packages have, from their ids and what those do not tell.  What *)
(* does not change between runs is in shape.                                *)

Shape ==
    [vars |-> Pkg!Vars, user |-> Pkg!ByUser, secret |-> Pkg!Secret,
     final |-> {v \in Pkg!Vars : Pkg!is_finalized(v)}, files |-> Pkg!Range(templates)]

Given1(v, value) == IF value = 0 THEN <<Pkg!End>> ELSE <<<<"value", v, {value}>>>>
UserValue(shape, dict, untold, v) ==
    IF v \in shape.final THEN dict[v] ELSE Given1(v, CHOOSE x : <<v, x>> \in untold[2])
FullOf(shape, dict, untold) ==
    Pkg!Flatten([v \in shape.user |-> UserValue(shape, dict, untold, v)], shape.user)
MaskedOf(shape, dict, untold) ==
    Pkg!Flatten([v \in shape.user |-> IF v \in shape.secret THEN <<Pkg!Hidden>>
                                      ELSE UserValue(shape, dict, untold, v)], shape.user)
KnownOf(dict) == {v \in DOMAIN dict : dict[v] = <<>> \/ Head(dict[v]) # Pkg!Start}
BuiltinOf(shape, dict, untold, name) ==
    CASE name = "user_arguments_full" -> FullOf(shape, dict, untold)
      [] name = "user_arguments" -> MaskedOf(shape, dict, untold)
      [] name = "expanded_config_full" ->
            Pkg!Flatten(dict, KnownOf(dict)) \o FullOf(shape, dict, untold) \o MaskedOf(shape, dict, untold)
      [] name = "expanded_config" ->
            Pkg!Flatten(dict, KnownOf(dict) \ shape.secret) \o MaskedOf(shape, dict, untold)
      [] name = "exhibitor_ca_certificate" -> <<<<"certificate", "", {untold[1]}>>>>
WordOf(shape, dict, untold, w) ==
    IF w \in Pkg!Builtins THEN BuiltinOf(shape, dict, untold, w)
    ELSE IF w \in shape.vars THEN dict[w] ELSE <<<<"text", w, {}>>>>
ContentOf(shape, dict, untold, c) ==
    Pkg!FlattenSeq([i \in DOMAIN c |-> WordOf(shape, dict, untold, c[i])])
RenderedOf(shape, dict, untold) ==
    {[f EXCEPT !.content = ContentOf(shape, dict, untold, f.content)] : f \in shape.files}
LateFilesOf(shape, dict, untold) ==
    {g \in RenderedOf(shape, dict, untold) :
        g.in = "dcos-config" /\ Pkg!late_bind_placeholder_in(g.content)}
Part(files, template) == {f \in files : f.in = template}
MadeOf(shape, id, untold) ==
    Pkg!do_gen_package(
        IF id[1] = "dcos-provider" THEN LateFilesOf(shape, id[2], untold)
        ELSE Part(RenderedOf(shape, id[2], untold) \ LateFilesOf(shape, id[2], untold), id[1]))

LEMMA UserValueIs ==
  ASSUME Typed, argument_dict = Pkg!get_final_arguments, NEW v \in Pkg!ByUser
  PROVE  UserValue(Shape, argument_dict, Pkg!Untold, v) = Pkg!Value(v)
<1>1. v \in Pkg!Vars /\ entered[v].by = "user"
  BY DEF Pkg!ByUser
<1>2. entered[v].of = {} /\ ~Pkg!is_late(v)
  <2>1. entered[v].of = {}
    BY <1>1 DEF Typed, Pkg!AreEntered, Pkg!Vars
  <2> QED
    BY <1>1, <2>1 DEF Pkg!is_late
<1>3. CASE Pkg!is_finalized(v)
  <2>1. v \in Shape.final /\ v \in DOMAIN argument_dict
    BY <1>1, <1>3 DEF Shape, Pkg!get_final_arguments
  <2> QED
    BY <1>2, <2>1, ArgumentIs DEF UserValue
<1>4. CASE ~Pkg!is_finalized(v)
  <2>1. v \notin Shape.final
    BY <1>4 DEF Shape
  <2>2. \A x : <<v, x>> \in Pkg!Untold[2] <=> x = entered[v].value
    BY <1>4 DEF Pkg!Untold
  <2>3. (CHOOSE x : <<v, x>> \in Pkg!Untold[2]) = entered[v].value
    BY <2>2
  <2>4. UserValue(Shape, argument_dict, Pkg!Untold, v) = Given1(v, entered[v].value)
    BY <2>1, <2>3 DEF UserValue
  <2>5. Pkg!Value(v) = Given1(v, entered[v].value)
    BY <1>1 DEF Given1, Pkg!Value
  <2> QED
    BY <2>4, <2>5
<1> QED
  BY <1>3, <1>4

LEMMA WordIs ==
  ASSUME Typed, argument_dict = Pkg!get_final_arguments, NEW w
  PROVE  Pkg!Word(w) = WordOf(Shape, argument_dict, Pkg!Untold, w)
<1> DEFINE s == Shape
           u == Pkg!Untold
           d == argument_dict
<1>1. s.user = Pkg!ByUser /\ s.secret = Pkg!Secret /\ s.vars = Pkg!Vars /\ u[1] = ca
  BY DEF Shape, Pkg!Untold
<1> HIDE DEF s, u
<1>2. \A v \in Pkg!ByUser : UserValue(s, d, u, v) = Pkg!Value(v)
  BY UserValueIs DEF s, u
<1>3. FullOf(s, d, u) = Pkg!user_arguments_full
  <2>1. [v \in s.user |-> UserValue(s, d, u, v)] = [v \in Pkg!ByUser |-> Pkg!Value(v)]
    BY <1>1, <1>2
  <2> QED
    BY <1>1, <2>1 DEF FullOf, Pkg!user_arguments_full
<1>4. MaskedOf(s, d, u) = Pkg!user_arguments_masked
  <2>1. [v \in s.user |-> IF v \in s.secret THEN <<Pkg!Hidden>> ELSE UserValue(s, d, u, v)]
          = [v \in Pkg!ByUser |-> IF v \in Pkg!Secret THEN <<Pkg!Hidden>> ELSE Pkg!Value(v)]
    BY <1>1, <1>2
  <2> QED
    BY <1>1, <2>1 DEF MaskedOf, Pkg!user_arguments_masked
<1>5. KnownOf(d) = Pkg!Known
  BY DEF KnownOf, Pkg!Known
<1>6. ASSUME NEW name \in Pkg!Builtins
      PROVE  BuiltinOf(s, d, u, name) = Pkg!Builtin(name)
  <2>1. name \in {"user_arguments_full", "user_arguments", "expanded_config_full", "expanded_config",
                  "exhibitor_ca_certificate"}
    BY DEF Pkg!Builtins, Pkg!SecretBuiltins
  <2> QED
    BY <1>1, <1>3, <1>4, <1>5, <2>1 DEF BuiltinOf, Pkg!Builtin
<1> QED
  BY <1>1, <1>6 DEF WordOf, Pkg!Word, s, u

LEMMA RenderedIs ==
  ASSUME Typed, argument_dict = Pkg!get_final_arguments
  PROVE  /\ RenderedOf(Shape, argument_dict, Pkg!Untold) = {Pkg!Render(f) : f \in Pkg!Range(templates)}
         /\ LateFilesOf(Shape, argument_dict, Pkg!Untold)
              = {g \in {Pkg!Render(f) : f \in Pkg!Range(templates)} :
                   g.in = "dcos-config" /\ Pkg!late_bind_placeholder_in(g.content)}
<1> DEFINE s == Shape
           u == Pkg!Untold
           d == argument_dict
<1>1. s.files = Pkg!Range(templates)
  BY DEF Shape
<1>2. \A w : WordOf(s, d, u, w) = Pkg!Word(w)
  BY WordIs
<1> HIDE DEF s, u
<1>3. \A f \in Pkg!Range(templates) :
         [f EXCEPT !.content = ContentOf(s, d, u, f.content)] = Pkg!Render(f)
  <2> TAKE f \in Pkg!Range(templates)
  <2>1. [i \in DOMAIN f.content |-> WordOf(s, d, u, f.content[i])]
          = [i \in DOMAIN f.content |-> Pkg!Word(f.content[i])]
    BY <1>2
  <2>2. ContentOf(s, d, u, f.content)
          = Pkg!FlattenSeq([i \in DOMAIN f.content |-> Pkg!Word(f.content[i])])
    BY <2>1 DEF ContentOf
  <2> QED
    BY <2>2 DEF Pkg!Render
<1>4. RenderedOf(s, d, u) = {Pkg!Render(f) : f \in Pkg!Range(templates)}
  BY <1>1, <1>3 DEF RenderedOf
<1> QED
  BY <1>4 DEF LateFilesOf, s, u

LEMMA SameShape ==
  ASSUME Typed, templates' = templates, DOMAIN entered' = DOMAIN entered,
         \A v \in DOMAIN entered : /\ entered'[v].by = entered[v].by /\ entered'[v].of = entered[v].of
                                   /\ entered'[v].secret = entered[v].secret
  PROVE  Shape' = Shape
<1>1. Pkg!Vars' = Pkg!Vars /\ Pkg!Range(templates') = Pkg!Range(templates)
  BY DEF Pkg!Vars
<1>2. Pkg!ByUser' = Pkg!ByUser /\ Pkg!Secret' = Pkg!Secret
  BY <1>1 DEF Pkg!ByUser, Pkg!Secret, Pkg!Vars
<1>3. Pkg!Referenced' = Pkg!Referenced
  BY <1>1 DEF Pkg!Referenced
<1>4. ASSUME NEW v
      PROVE  Pkg!is_finalized(v)' <=> Pkg!is_finalized(v)
  BY <1>1, <1>3 DEF Pkg!is_finalized, Pkg!Vars
<1>5. {v \in Pkg!Vars : Pkg!is_finalized(v)}' = {v \in Pkg!Vars : Pkg!is_finalized(v)}
  BY <1>1, <1>4
<1> QED
  BY <1>1, <1>2, <1>5 DEF Shape

LEMMA SameUntold ==
  ASSUME UNCHANGED <<entered, templates, ca>>
  PROVE  Pkg!Untold' = Pkg!Untold
<1>1. Pkg!Vars' = Pkg!Vars /\ Pkg!Referenced' = Pkg!Referenced /\ Pkg!ByUser' = Pkg!ByUser
  BY DEF Pkg!Vars, Pkg!Referenced, Pkg!ByUser
<1>2. ASSUME NEW v
      PROVE  Pkg!is_finalized(v)' <=> Pkg!is_finalized(v)
  BY <1>1 DEF Pkg!is_finalized
<1>3. {w \in Pkg!ByUser : ~Pkg!is_finalized(w)}' = {w \in Pkg!ByUser : ~Pkg!is_finalized(w)}
  BY <1>1, <1>2
<1> QED
  BY <1>3 DEF Pkg!Untold

LEMMA SameArguments ==
  ASSUME UNCHANGED <<entered, templates>>
  PROVE  /\ Pkg!get_final_arguments' = Pkg!get_final_arguments
         /\ Pkg!get_late_variables' = Pkg!get_late_variables
<1>1. Pkg!Vars' = Pkg!Vars /\ Pkg!Referenced' = Pkg!Referenced
  BY DEF Pkg!Vars, Pkg!Referenced
<1>2. ASSUME NEW v
      PROVE  (Pkg!is_finalized(v)' <=> Pkg!is_finalized(v)) /\ (Pkg!is_late(v)' <=> Pkg!is_late(v))
             /\ Pkg!Value(v)' = Pkg!Value(v)
  BY <1>1 DEF Pkg!is_finalized, Pkg!is_late, Pkg!Value
<1>3. Pkg!get_final_arguments' = Pkg!get_final_arguments
  BY <1>1, <1>2 DEF Pkg!get_final_arguments
<1>4. Pkg!get_late_variables' = Pkg!get_late_variables
  BY <1>1, <1>2 DEF Pkg!get_late_variables
<1> QED
  BY <1>3, <1>4

-----------------------------------------------------------------------------
(* What is made, and what comes to a node, from what it is made of         *)

Bound(others, values) == others # {} /\ DOMAIN values # {}
CloudOf(files, others, values, dict) ==
    [files |-> Pkg!do_gen_package(Part(files, "cloud-config")),
     late_config |-> IF Bound(others, values) THEN <<values>> ELSE <<>>,
     packages |-> {<<n, dict>> : n \in {"dcos-config", "dcos-metadata"}},
     late_package |-> <<"dcos-provider", dict>>]
FetchedOf(store, ids) ==
    [p \in UNION {DOMAIN store[id] : id \in ids} |->
        store[CHOOSE id \in ids : p \in DOMAIN store[id]][p]]
FilesOf(store, config) ==
    IF config.late_config = <<>> THEN FetchedOf(store, config.packages)
    ELSE [p \in DOMAIN FetchedOf(store, config.packages) \cup DOMAIN store[config.late_package] |->
            IF p \in DOMAIN store[config.late_package]
            THEN Pkg!render_late_content(store[config.late_package][p], Head(config.late_config))
            ELSE FetchedOf(store, config.packages)[p]]
Fails(store, config) ==
    /\ config.late_config # <<>>
    /\ \E p \in DOMAIN store[config.late_package] :
          ~Pkg!CanRender(store[config.late_package][p], Head(config.late_config))

StageOrder == {"entered", "resolved", "certified", "rendered", "extracted", "made", "up", "stuck"}
ArgumentsAreResolved ==
    /\ stage \in StageOrder
    /\ stage # "entered" => /\ argument_dict = Pkg!get_final_arguments
                            /\ late_variables = Pkg!get_late_variables
Rendered ==
    stage = "rendered" => rendered = RenderedOf(Shape, argument_dict, Pkg!Untold)
Extracted ==
    stage \in {"extracted", "made", "up", "stuck"} =>
       /\ late_files = LateFilesOf(Shape, argument_dict, Pkg!Untold)
       /\ rendered = RenderedOf(Shape, argument_dict, Pkg!Untold) \ late_files
Made ==
    stage \in {"made", "up", "stuck"} =>
       /\ cloud = CloudOf(rendered, late_files, late_variables, argument_dict)
       /\ \A n \in {"dcos-config", "dcos-metadata"} :
             artifacts[<<n, argument_dict>>] = Pkg!do_gen_package(Part(rendered, n))
       /\ Bound(late_files, late_variables) =>
             artifacts[<<"dcos-provider", argument_dict>>] = Pkg!do_gen_package(late_files)
Bootstrapped ==
    /\ stage = "up" => node = FilesOf(artifacts, cloud) /\ ~Fails(artifacts, cloud)
    /\ stage = "stuck" => Fails(artifacts, cloud)
Stored ==
    /\ \A id \in DOMAIN artifacts : artifacts[id] = MadeOf(Shape, id, origin[id])
    /\ ~surprise
PkgInv == Typed /\ ArgumentsAreResolved /\ Rendered /\ Extracted /\ Made /\ Bootstrapped /\ Stored

LEMMA PkgInit ==
  ASSUME Pkg!PackagesAssumption, Pkg!Init
  PROVE  PkgInv
<1>1. Typed
  BY DEF Pkg!PackagesAssumption, Pkg!Init, Typed
<1>2. ArgumentsAreResolved /\ Rendered /\ Extracted /\ Made /\ Bootstrapped /\ Stored
  BY DEF Pkg!Init, ArgumentsAreResolved, Rendered, Extracted, Made, Bootstrapped, Stored, StageOrder
<1> QED
  BY <1>1, <1>2 DEF PkgInv

(* What a step of gen.generate leaves *)
LEMMA SameEntry ==
  ASSUME PkgInv, UNCHANGED <<entered, templates>>
  PROVE  /\ Typed' /\ Shape' = Shape
         /\ Pkg!get_final_arguments' = Pkg!get_final_arguments
         /\ Pkg!get_late_variables' = Pkg!get_late_variables
         /\ UNCHANGED ca => Pkg!Untold' = Pkg!Untold
<1>1. Typed'
  BY DEF PkgInv, Typed
<1>2. Shape' = Shape
  BY SameShape DEF PkgInv
<1> QED
  BY <1>1, <1>2, SameArguments, SameUntold

LEMMA StoredStays ==
  ASSUME Stored, Shape' = Shape, UNCHANGED <<artifacts, origin, surprise>>
  PROVE  Stored'
  BY DEF Stored

LEMMA ResolveStep ==
  ASSUME PkgInv, Pkg!validate_and_raise
  PROVE  PkgInv'
<1>1. UNCHANGED <<entered, templates>> /\ stage' = "resolved"
  BY DEF Pkg!validate_and_raise, Pkg!At
<1>2. Typed' /\ Stored'
  BY <1>1, SameEntry, StoredStays DEF PkgInv, Pkg!validate_and_raise
<1>3. ArgumentsAreResolved'
  BY <1>1, SameEntry DEF Pkg!validate_and_raise, ArgumentsAreResolved, StageOrder
<1>4. Rendered' /\ Extracted' /\ Made' /\ Bootstrapped'
  BY <1>1 DEF Rendered, Extracted, Made, Bootstrapped
<1> QED
  BY <1>2, <1>3, <1>4 DEF PkgInv

LEMMA CertifyStep ==
  ASSUME PkgInv, Pkg!initialize_exhibitor_ca
  PROVE  PkgInv'
<1>1. UNCHANGED <<entered, templates, argument_dict, late_variables>> /\ stage # "entered"
      /\ stage' = "certified"
  BY DEF Pkg!initialize_exhibitor_ca, Pkg!At
<1>2. Typed' /\ Stored'
  BY <1>1, SameEntry, StoredStays DEF PkgInv, Pkg!initialize_exhibitor_ca
<1>3. ArgumentsAreResolved'
  BY <1>1, SameEntry DEF PkgInv, ArgumentsAreResolved, StageOrder
<1>4. Rendered' /\ Extracted' /\ Made' /\ Bootstrapped'
  BY <1>1 DEF Rendered, Extracted, Made, Bootstrapped
<1> QED
  BY <1>2, <1>3, <1>4 DEF PkgInv

LEMMA RenderStep ==
  ASSUME PkgInv, Pkg!render_templates
  PROVE  PkgInv'
<1>1. UNCHANGED <<entered, templates, ca, argument_dict, late_variables>> /\ stage # "entered"
      /\ stage' = "rendered"
  BY DEF Pkg!render_templates, Pkg!At
<1>2. Typed' /\ Stored'
  BY <1>1, SameEntry, StoredStays DEF PkgInv, Pkg!render_templates
<1>3. ArgumentsAreResolved'
  BY <1>1, SameEntry DEF PkgInv, ArgumentsAreResolved, StageOrder
<1>4. Rendered'
  <2>1. rendered' = RenderedOf(Shape, argument_dict, Pkg!Untold)
    BY <1>1, RenderedIs DEF Pkg!render_templates, PkgInv, ArgumentsAreResolved
  <2>2. Shape' = Shape /\ Pkg!Untold' = Pkg!Untold /\ argument_dict' = argument_dict
    BY <1>1, SameEntry
  <2> QED
    BY <2>1, <2>2 DEF Rendered
<1>5. Extracted' /\ Made' /\ Bootstrapped'
  BY <1>1 DEF Extracted, Made, Bootstrapped
<1> QED
  BY <1>2, <1>3, <1>4, <1>5 DEF PkgInv

LEMMA ExtractStep ==
  ASSUME PkgInv, Pkg!extract_files_containing_late_variables
  PROVE  PkgInv'
<1>1. UNCHANGED <<entered, templates, ca, argument_dict, late_variables>> /\ stage = "rendered"
      /\ stage' = "extracted"
  BY DEF Pkg!extract_files_containing_late_variables, Pkg!At
<1>2. Typed' /\ Stored'
  BY <1>1, SameEntry, StoredStays DEF PkgInv, Pkg!extract_files_containing_late_variables
<1>3. ArgumentsAreResolved'
  BY <1>1, SameEntry DEF PkgInv, ArgumentsAreResolved, StageOrder
<1>4. Extracted'
  <2>1. rendered = RenderedOf(Shape, argument_dict, Pkg!Untold)
    BY <1>1 DEF PkgInv, Rendered
  <2>2. /\ late_files' = LateFilesOf(Shape, argument_dict, Pkg!Untold)
        /\ rendered' = RenderedOf(Shape, argument_dict, Pkg!Untold) \ late_files'
    BY <2>1 DEF Pkg!extract_files_containing_late_variables, LateFilesOf
  <2>3. Shape' = Shape /\ Pkg!Untold' = Pkg!Untold /\ argument_dict' = argument_dict
    BY <1>1, SameEntry
  <2> QED
    BY <2>2, <2>3 DEF Extracted
<1>5. Rendered' /\ Made' /\ Bootstrapped'
  BY <1>1 DEF Rendered, Made, Bootstrapped
<1> QED
  BY <1>2, <1>3, <1>4, <1>5 DEF PkgInv

LEMMA MakeStep ==
  ASSUME PkgInv, Pkg!make_packages
  PROVE  PkgInv'
<1> DEFINE both == {"dcos-config", "dcos-metadata"}
           one == Pkg!ConfigPackages
           provided == Pkg!build_late_package
           made == [id \in DOMAIN one \cup DOMAIN provided |-> IF id \in DOMAIN one THEN one[id] ELSE provided[id]]
           u == Pkg!Untold
           provider == <<"dcos-provider", argument_dict>>
<1>1. /\ UNCHANGED <<entered, templates, ca, argument_dict, late_variables, rendered, late_files>>
      /\ stage = "extracted" /\ stage' = "made"
  BY DEF Pkg!make_packages, Pkg!At
<1>2. /\ artifacts' = [id \in DOMAIN artifacts \cup DOMAIN made |->
                          IF id \in DOMAIN made THEN made[id] ELSE artifacts[id]]
      /\ origin' = [id \in DOMAIN artifacts' |-> IF id \in DOMAIN made THEN u ELSE origin[id]]
      /\ surprise' = \E id \in DOMAIN made \cap DOMAIN artifacts :
                        made[id] # artifacts[id] /\ origin[id] = u
  BY DEF Pkg!make_packages
<1>3. /\ DOMAIN one = {<<n, argument_dict>> : n \in both}
      /\ \A n \in both : one[<<n, argument_dict>>] = Pkg!do_gen_package(Part(rendered, n))
  <2>1. one = [id \in {<<n, argument_dict>> : n \in both} |->
                  Pkg!do_gen_package({f \in rendered : f.in = id[1]})]
    BY DEF Pkg!ConfigPackages, Pkg!config_id
  <2> HIDE DEF one
  <2>2. \A n \in both : <<n, argument_dict>>[1] = n
    OBVIOUS
  <2> QED
    BY <2>1, <2>2 DEF Part
<1>4. /\ Bound(late_files, late_variables) =>
            DOMAIN provided = {provider} /\ provided[provider] = Pkg!do_gen_package(late_files)
      /\ ~Bound(late_files, late_variables) => DOMAIN provided = {}
  <2>1. Pkg!LateBound <=> Bound(late_files, late_variables)
    BY DEF Pkg!LateBound, Bound
  <2> QED
    BY <2>1 DEF Pkg!build_late_package, Pkg!config_id
<1> HIDE DEF one, provided
<1>5. /\ provider \notin DOMAIN one
      /\ \A n \in both : <<n, argument_dict>>[1] = n /\ <<n, argument_dict>>[2] = argument_dict
                         /\ n # "dcos-provider"
      /\ provider[1] = "dcos-provider" /\ provider[2] = argument_dict
  BY <1>3
<1>6. DOMAIN made = DOMAIN one \cup DOMAIN provided
  OBVIOUS
<1>7. /\ \A n \in both : <<n, argument_dict>> \in DOMAIN made /\
                         made[<<n, argument_dict>>] = Pkg!do_gen_package(Part(rendered, n))
      /\ Bound(late_files, late_variables) =>
            provider \in DOMAIN made /\ made[provider] = Pkg!do_gen_package(late_files)
  <2>1. ASSUME NEW n \in both
        PROVE  <<n, argument_dict>> \in DOMAIN made /\
               made[<<n, argument_dict>>] = Pkg!do_gen_package(Part(rendered, n))
    BY <1>3
  <2>2. ASSUME Bound(late_files, late_variables)
        PROVE  provider \in DOMAIN made /\ made[provider] = Pkg!do_gen_package(late_files)
    <3> HIDE DEF provider
    <3> QED
      BY <1>4, <1>5, <2>2
  <2> QED
    BY <2>1, <2>2
<1>8. /\ late_files = LateFilesOf(Shape, argument_dict, u)
      /\ rendered = RenderedOf(Shape, argument_dict, u) \ LateFilesOf(Shape, argument_dict, u)
  BY <1>1 DEF PkgInv, Extracted
<1>9. \A id \in DOMAIN made : made[id] = MadeOf(Shape, id, u)
  <2> TAKE id \in DOMAIN made
  <2>1. CASE \E n \in both : id = <<n, argument_dict>>
    <3>1. PICK n \in both : id = <<n, argument_dict>>
      BY <2>1
    <3>2. id[1] = n /\ id[2] = argument_dict /\ n # "dcos-provider"
      BY <1>5, <3>1
    <3>3. made[id] = Pkg!do_gen_package(Part(rendered, n))
      BY <1>7, <3>1
    <3> HIDE DEF made, u
    <3> QED
      BY <1>8, <3>2, <3>3 DEF MadeOf
  <2>2. CASE id \in DOMAIN provided
    <3>1. id = provider /\ Bound(late_files, late_variables)
      BY <1>4, <2>2
    <3>2. id[1] = "dcos-provider" /\ id[2] = argument_dict
      BY <1>5, <3>1
    <3>3. made[id] = Pkg!do_gen_package(late_files)
      BY <1>7, <3>1
    <3> HIDE DEF made, u
    <3> QED
      BY <1>8, <3>2, <3>3 DEF MadeOf
  <2> QED
    BY <1>3, <1>6, <2>1, <2>2
<1> HIDE DEF made, u, provider
<1>10. Shape' = Shape /\ Pkg!Untold' = Pkg!Untold /\ Typed'
  BY <1>1, SameEntry
<1>11. Stored'
  <2>1. DOMAIN artifacts' = DOMAIN artifacts \cup DOMAIN made
    BY <1>2
  <2>2. ASSUME NEW id \in DOMAIN artifacts'
        PROVE  artifacts'[id] = MadeOf(Shape, id, origin'[id])
    <3>1. CASE id \in DOMAIN made
      <4>1. artifacts'[id] = made[id] /\ origin'[id] = u
        BY <1>2, <3>1
      <4> QED
        BY <1>9, <3>1, <4>1
    <3>2. CASE id \notin DOMAIN made
      <4>1. artifacts'[id] = artifacts[id] /\ origin'[id] = origin[id] /\ id \in DOMAIN artifacts
        BY <1>2, <2>1, <3>2
      <4> QED
        BY <4>1 DEF PkgInv, Stored
    <3> QED
      BY <3>1, <3>2
  <2>3. ~surprise'
    BY <1>2, <1>9 DEF PkgInv, Stored
  <2> QED
    BY <1>10, <2>2, <2>3 DEF Stored
<1>12. Made'
  <2>1. cloud' = CloudOf(rendered, late_files, late_variables, argument_dict)
    <3>1. Pkg!LateBound <=> Bound(late_files, late_variables)
      BY DEF Pkg!LateBound, Bound
    <3>2. DOMAIN Pkg!ConfigPackages = {<<n, argument_dict>> : n \in both}
      BY <1>3 DEF one
    <3> QED
      BY <3>1, <3>2 DEF Pkg!make_packages, CloudOf, Part, Pkg!config_id
  <2>2. \A n \in both : artifacts'[<<n, argument_dict>>] = Pkg!do_gen_package(Part(rendered, n))
    BY <1>2, <1>7
  <2>3. Bound(late_files, late_variables) => artifacts'[provider] = Pkg!do_gen_package(late_files)
    BY <1>2, <1>7
  <2> QED
    BY <1>1, <2>1, <2>2, <2>3 DEF Made, provider
<1>13. ArgumentsAreResolved' /\ Extracted'
  <2>1. ArgumentsAreResolved'
    BY <1>1, SameEntry DEF PkgInv, ArgumentsAreResolved, StageOrder
  <2>2. Extracted'
    BY <1>1, <1>8, <1>10 DEF Extracted, u
  <2> QED
    BY <2>1, <2>2
<1>14. Rendered' /\ Bootstrapped'
  BY <1>1 DEF Rendered, Bootstrapped
<1> QED
  BY <1>10, <1>11, <1>12, <1>13, <1>14 DEF PkgInv

LEMMA BootStep ==
  ASSUME PkgInv, Pkg!do_bootstrap
  PROVE  PkgInv'
<1>1. /\ UNCHANGED <<entered, templates, ca, argument_dict, late_variables, rendered, late_files,
                     artifacts, cloud, origin, surprise>>
      /\ stage = "made" /\ stage' \in {"up", "stuck"}
  BY DEF Pkg!do_bootstrap
<1>2. Shape' = Shape /\ Pkg!Untold' = Pkg!Untold /\ Typed' /\ Stored'
  BY <1>1, SameEntry, StoredStays DEF PkgInv
<1>3. ArgumentsAreResolved' /\ Extracted' /\ Made' /\ Rendered'
  <2>1. ArgumentsAreResolved'
    BY <1>1, SameEntry DEF PkgInv, ArgumentsAreResolved, StageOrder
  <2>2. Extracted'
    BY <1>1, <1>2 DEF PkgInv, Extracted
  <2>3. Made' /\ Rendered'
    BY <1>1 DEF PkgInv, Made, Rendered
  <2> QED
    BY <2>1, <2>2, <2>3
<1>4. Pkg!Fetched(cloud.packages) = FetchedOf(artifacts, cloud.packages)
  BY DEF Pkg!Fetched, FetchedOf
<1>5. /\ stage' = "up" => node' = FilesOf(artifacts, cloud) /\ ~Fails(artifacts, cloud)
      /\ stage' = "stuck" => Fails(artifacts, cloud)
  <2>1. CASE cloud.late_config = <<>>
    BY <1>4, <2>1 DEF Pkg!do_bootstrap, FilesOf, Fails
  <2>2. CASE cloud.late_config # <<>>
    <3> DEFINE provided == artifacts[cloud.late_package]
               values == Head(cloud.late_config)
    <3>1. CASE \A p \in DOMAIN provided : Pkg!CanRender(provided[p], values)
      BY <1>4, <2>2, <3>1 DEF Pkg!do_bootstrap, FilesOf, Fails
    <3>2. CASE ~\A p \in DOMAIN provided : Pkg!CanRender(provided[p], values)
      BY <1>4, <2>2, <3>2 DEF Pkg!do_bootstrap, Fails
    <3> QED
      BY <3>1, <3>2
  <2> QED
    BY <2>1, <2>2
<1>6. Bootstrapped'
  BY <1>1, <1>5 DEF Bootstrapped
<1> QED
  BY <1>2, <1>3, <1>6 DEF PkgInv

LEMMA ReconfigureStep ==
  ASSUME PkgInv, Pkg!Reconfigure
  PROVE  PkgInv'
<1>1. UNCHANGED <<templates, artifacts, origin, surprise>> /\ stage' = "entered"
  BY DEF Pkg!Reconfigure
<1>2. PICK v \in Pkg!Vars : \E value \in {1, 2} : entered' = [entered EXCEPT ![v].value = value]
  BY DEF Pkg!Reconfigure
<1>3. PICK value \in {1, 2} : entered' = [entered EXCEPT ![v].value = value]
  BY <1>2
<1>4. entered \in [DOMAIN entered -> [by : {"user", "late", "calculated"}, value : Nat,
                                     of : SUBSET DOMAIN entered, secret : BOOLEAN]]
  BY DEF PkgInv, Typed, Pkg!AreEntered
<1>5. /\ DOMAIN entered' = DOMAIN entered
      /\ entered' \in [DOMAIN entered -> [by : {"user", "late", "calculated"}, value : Nat,
                                          of : SUBSET DOMAIN entered, secret : BOOLEAN]]
      /\ \A w \in DOMAIN entered : /\ entered'[w].by = entered[w].by /\ entered'[w].of = entered[w].of
                                   /\ entered'[w].secret = entered[w].secret
  BY <1>3, <1>4 DEF Pkg!Vars
<1>6. Pkg!AreEntered(entered')
  BY <1>5 DEF PkgInv, Typed, Pkg!AreEntered
<1>7. Typed' /\ Shape' = Shape
  BY <1>1, <1>5, <1>6, SameShape DEF PkgInv, Typed
<1>8. Stored'
  BY <1>1, <1>7, StoredStays DEF PkgInv
<1>9. ArgumentsAreResolved' /\ Rendered' /\ Extracted' /\ Made' /\ Bootstrapped'
  BY <1>1 DEF ArgumentsAreResolved, Rendered, Extracted, Made, Bootstrapped, StageOrder
<1> QED
  BY <1>7, <1>8, <1>9 DEF PkgInv

LEMMA PkgInductive ==
  ASSUME PkgInv, [Pkg!Next]_(Pkg!vars)
  PROVE  PkgInv'
<1>1. CASE UNCHANGED Pkg!vars
  <2>1. UNCHANGED <<entered, templates, ca>> /\ UNCHANGED <<artifacts, origin, surprise>>
        /\ UNCHANGED <<stage, argument_dict, late_variables, rendered, late_files, cloud, node>>
    BY <1>1 DEF Pkg!vars
  <2>2. Shape' = Shape /\ Pkg!Untold' = Pkg!Untold /\ Typed' /\ Stored'
    BY <2>1, SameEntry, StoredStays DEF PkgInv
  <2>3. ArgumentsAreResolved'
    BY <2>1, SameEntry DEF PkgInv, ArgumentsAreResolved
  <2>4. Rendered' /\ Extracted'
    BY <2>1, <2>2 DEF PkgInv, Rendered, Extracted
  <2>5. Made' /\ Bootstrapped'
    BY <2>1 DEF PkgInv, Made, Bootstrapped
  <2> QED
    BY <2>2, <2>3, <2>4, <2>5 DEF PkgInv
<1> QED
  BY <1>1, ResolveStep, CertifyStep, RenderStep, ExtractStep, MakeStep, BootStep, ReconfigureStep
  DEF Pkg!Next

-----------------------------------------------------------------------------
(* The files of a package, and those of a node *)

ComesLate(f) == f.in = "dcos-config" /\ Pkg!late_bind_placeholder_in(Content(f))
Renders(fs) == {Pkg!Render(f) : f \in fs}
InCloud(f) == f.in = "cloud-config"

LEMMA PackageHas ==
  ASSUME Typed, NEW fs, fs \subseteq Pkg!Range(templates),
         \A f, g \in fs : InCloud(f) <=> InCloud(g)
  PROVE  LET files == Pkg!do_gen_package(Renders(fs))
         IN  /\ DOMAIN files = {f.path : f \in fs}
             /\ \A f \in fs : files[f.path] = Content(f)
<1> DEFINE R == Renders(fs)
           files == Pkg!do_gen_package(R)
<1>1. \A f \in fs : /\ Pkg!Render(f) \in R /\ Pkg!Render(f).path = f.path
                    /\ Pkg!Render(f).content = Content(f)
  BY FileFacts DEF Renders
<1>2. \A g \in R : \E f \in fs : g = Pkg!Render(f) /\ g.path = f.path
  BY FileFacts DEF Renders
<1> HIDE DEF R
<1>3. {g.path : g \in R} = {f.path : f \in fs}
  BY <1>1, <1>2
<1>4. files = [p \in {g.path : g \in R} |-> (CHOOSE g \in R : g.path = p).content]
  BY DEF Pkg!do_gen_package
<1> HIDE DEF files
<1>5. ASSUME NEW f \in fs
      PROVE  files[f.path] = Content(f)
  <2> DEFINE g == CHOOSE h \in R : h.path = f.path
  <2>1. g \in R /\ g.path = f.path
    BY <1>1
  <2> HIDE DEF g
  <2>2. PICK h \in fs : g = Pkg!Render(h) /\ g.path = h.path
    BY <1>2, <2>1
  <2>3. h.path = f.path /\ (InCloud(h) <=> InCloud(f))
    BY <2>1, <2>2
  <2>4. h = f
    BY <2>3 DEF Typed, Pkg!AreTemplates, InCloud
  <2>5. g.content = Content(f)
    BY <1>1, <2>2, <2>4
  <2>6. f.path \in {k.path : k \in R}
    BY <1>3
  <2> QED
    BY <1>4, <2>5, <2>6 DEF g
<1> QED
  BY <1>3, <1>4, <1>5 DEF files, R

(* Between make_packages and the next run of gen.generate *)
LEMMA MadeFacts ==
  ASSUME PkgInv, stage \in {"made", "up", "stuck"}
  PROVE  /\ \A f \in Pkg!Range(templates) : InCloud(f) =>
               f.path \in DOMAIN cloud.files /\ cloud.files[f.path] = Content(f)
         /\ \A n \in {"dcos-config", "dcos-metadata"} :
               /\ DOMAIN artifacts[<<n, argument_dict>>]
                    = {f.path : f \in {g \in Pkg!Range(templates) : g.in = n /\ ~ComesLate(g)}}
               /\ \A f \in Pkg!Range(templates) : f.in = n /\ ~ComesLate(f) =>
                     artifacts[<<n, argument_dict>>][f.path] = Content(f)
         /\ Bound(late_files, late_variables) =>
               /\ DOMAIN artifacts[<<"dcos-provider", argument_dict>>]
                    = {f.path : f \in {g \in Pkg!Range(templates) : ComesLate(g)}}
               /\ \A f \in Pkg!Range(templates) : ComesLate(f) =>
                     artifacts[<<"dcos-provider", argument_dict>>][f.path] = Content(f)
         /\ Bound(late_files, late_variables) <=>
               DOMAIN late_variables # {} /\ \E f \in Pkg!Range(templates) : ComesLate(f)
<1> DEFINE all == Pkg!Range(templates)
<1>1. Typed /\ argument_dict = Pkg!get_final_arguments
  BY DEF PkgInv, ArgumentsAreResolved
<1>2. \A f \in all : /\ Pkg!Render(f).in = f.in /\ Pkg!Render(f).content = Content(f)
  BY <1>1, FileFacts
<1>3. late_files = Renders({f \in all : ComesLate(f)})
  <2>1. late_files = {g \in {Pkg!Render(f) : f \in all} :
                         g.in = "dcos-config" /\ Pkg!late_bind_placeholder_in(g.content)}
    BY <1>1, RenderedIs DEF PkgInv, Extracted
  <2> QED
    BY <1>2, <2>1 DEF Renders, ComesLate
<1>4. \A n : Part(rendered, n) = Renders({f \in all : f.in = n /\ ~ComesLate(f)})
  <2>1. rendered = {Pkg!Render(f) : f \in all} \ late_files
    BY <1>1, RenderedIs DEF PkgInv, Extracted
  <2>2. \A f \in all : Pkg!Render(f) \in late_files <=> ComesLate(f)
    BY <1>2, <1>3 DEF Renders, ComesLate
  <2> QED
    BY <1>2, <2>1, <2>2 DEF Renders, Part
<1> HIDE DEF all
<1>5. ASSUME NEW n
      PROVE  /\ DOMAIN Pkg!do_gen_package(Part(rendered, n))
                  = {f.path : f \in {g \in all : g.in = n /\ ~ComesLate(g)}}
             /\ \A f \in all : f.in = n /\ ~ComesLate(f) =>
                   Pkg!do_gen_package(Part(rendered, n))[f.path] = Content(f)
  <2> DEFINE fs == {f \in all : f.in = n /\ ~ComesLate(f)}
  <2>1. fs \subseteq Pkg!Range(templates) /\ \A f, g \in fs : InCloud(f) <=> InCloud(g)
    BY DEF InCloud, all
  <2>2. Part(rendered, n) = Renders(fs)
    BY <1>4
  <2>3. (\A f \in all : f.in = n /\ ~ComesLate(f) => f \in fs) /\ fs = {g \in all : g.in = n /\ ~ComesLate(g)}
    OBVIOUS
  <2> HIDE DEF fs
  <2>4. /\ DOMAIN Pkg!do_gen_package(Renders(fs)) = {f.path : f \in fs}
        /\ \A f \in fs : Pkg!do_gen_package(Renders(fs))[f.path] = Content(f)
    BY <1>1, <2>1, PackageHas
  <2> QED
    BY <2>2, <2>3, <2>4
<1>6. \A f \in all : InCloud(f) => f.path \in DOMAIN cloud.files /\ cloud.files[f.path] = Content(f)
  <2>1. cloud.files = Pkg!do_gen_package(Part(rendered, "cloud-config"))
    BY DEF PkgInv, Made, CloudOf
  <2>2. \A f \in all : InCloud(f) => f.in = "cloud-config" /\ ~ComesLate(f)
    BY DEF InCloud, ComesLate
  <2>3. /\ DOMAIN cloud.files = {f.path : f \in {g \in all : g.in = "cloud-config" /\ ~ComesLate(g)}}
        /\ \A f \in all : f.in = "cloud-config" /\ ~ComesLate(f) => cloud.files[f.path] = Content(f)
    BY <1>5, <2>1
  <2> QED
    BY <2>2, <2>3
<1>7. ASSUME NEW n \in {"dcos-config", "dcos-metadata"}
      PROVE  /\ DOMAIN artifacts[<<n, argument_dict>>]
                  = {f.path : f \in {g \in all : g.in = n /\ ~ComesLate(g)}}
             /\ \A f \in all : f.in = n /\ ~ComesLate(f) =>
                   artifacts[<<n, argument_dict>>][f.path] = Content(f)
  <2>1. artifacts[<<n, argument_dict>>] = Pkg!do_gen_package(Part(rendered, n))
    BY DEF PkgInv, Made
  <2> QED
    BY <1>5, <2>1
<1>8. ASSUME Bound(late_files, late_variables)
      PROVE  /\ DOMAIN artifacts[<<"dcos-provider", argument_dict>>]
                  = {f.path : f \in {g \in all : ComesLate(g)}}
             /\ \A f \in all : ComesLate(f) =>
                   artifacts[<<"dcos-provider", argument_dict>>][f.path] = Content(f)
  <2> DEFINE fs == {f \in all : ComesLate(f)}
  <2>1. artifacts[<<"dcos-provider", argument_dict>>] = Pkg!do_gen_package(Renders(fs))
    BY <1>3, <1>8 DEF PkgInv, Made
  <2>2. fs \subseteq Pkg!Range(templates) /\ \A f, g \in fs : InCloud(f) <=> InCloud(g)
    BY DEF InCloud, ComesLate, all
  <2>3. \A f \in all : ComesLate(f) => f \in fs
    OBVIOUS
  <2>4. fs = {g \in all : ComesLate(g)}
    OBVIOUS
  <2> HIDE DEF fs
  <2>5. /\ DOMAIN Pkg!do_gen_package(Renders(fs)) = {f.path : f \in fs}
        /\ \A f \in fs : Pkg!do_gen_package(Renders(fs))[f.path] = Content(f)
    BY <1>1, <2>2, PackageHas
  <2> QED
    BY <2>1, <2>3, <2>4, <2>5
<1>9. late_files # {} <=> \E f \in all : ComesLate(f)
  BY <1>3 DEF Renders
<1> QED
  BY <1>6, <1>7, <1>8, <1>9 DEF Bound, all

LEMMA FetchedFacts ==
  ASSUME PkgInv, stage \in {"made", "up", "stuck"}
  PROVE  /\ DOMAIN FetchedOf(artifacts, cloud.packages)
              = {f.path : f \in {g \in Pkg!Range(templates) : ~InCloud(g) /\ ~ComesLate(g)}}
         /\ \A f \in Pkg!Range(templates) : ~InCloud(f) /\ ~ComesLate(f) =>
               FetchedOf(artifacts, cloud.packages)[f.path] = Content(f)
<1> DEFINE all == Pkg!Range(templates)
           both == {"dcos-config", "dcos-metadata"}
           ids == {<<n, argument_dict>> : n \in both}
           here == {g \in all : ~InCloud(g) /\ ~ComesLate(g)}
<1>1. Typed /\ cloud.packages = ids
  BY DEF PkgInv, Made, CloudOf
<1>2. \A f \in all : ~InCloud(f) <=> f.in \in both
  BY <1>1, FileFacts DEF InCloud
<1>3. \A n \in both : /\ DOMAIN artifacts[<<n, argument_dict>>]
                           = {f.path : f \in {g \in all : g.in = n /\ ~ComesLate(g)}}
                      /\ \A f \in all : f.in = n /\ ~ComesLate(f) =>
                            artifacts[<<n, argument_dict>>][f.path] = Content(f)
  BY MadeFacts
<1>4. UNION {DOMAIN artifacts[id] : id \in ids} = {f.path : f \in here}
  <2>1. ASSUME NEW id \in ids, NEW p \in DOMAIN artifacts[id]
        PROVE  p \in {f.path : f \in here}
    <3>1. PICK n \in both : id = <<n, argument_dict>>
      OBVIOUS
    <3>2. PICK f \in all : f.in = n /\ ~ComesLate(f) /\ p = f.path
      BY <1>3, <3>1
    <3> QED
      BY <1>2, <3>2
  <2>2. ASSUME NEW f \in here
        PROVE  \E id \in ids : f.path \in DOMAIN artifacts[id]
    <3>1. f.in \in both /\ <<f.in, argument_dict>> \in ids
      BY <1>2
    <3> QED
      BY <1>3, <3>1
  <2> HIDE DEF ids, here
  <2> QED
    BY <2>1, <2>2
<1>5. ASSUME NEW f \in here
      PROVE  FetchedOf(artifacts, ids)[f.path] = Content(f)
  <2> DEFINE id == CHOOSE i \in ids : f.path \in DOMAIN artifacts[i]
  <2>1. f.path \in UNION {DOMAIN artifacts[i] : i \in ids}
    <3> HIDE DEF ids, here
    <3> QED
      BY <1>4
  <2>2. id \in ids /\ f.path \in DOMAIN artifacts[id]
    <3>1. \E i \in ids : f.path \in DOMAIN artifacts[i]
      BY <2>1
    <3> HIDE DEF ids
    <3> QED
      BY <3>1
  <2>3. FetchedOf(artifacts, ids)[f.path] = artifacts[id][f.path]
    <3> HIDE DEF ids
    <3> QED
      BY <2>1 DEF FetchedOf
  <2> HIDE DEF id
  <2>4. PICK n \in both : id = <<n, argument_dict>>
    BY <2>2
  <2>5. PICK g \in all : g.in = n /\ ~ComesLate(g) /\ f.path = g.path
    BY <1>3, <2>2, <2>4
  <2>6. g = f
    <3>1. ~InCloud(g) /\ ~InCloud(f)
      BY <1>2, <2>5
    <3> QED
      BY <1>1, <2>5, <3>1 DEF Typed, Pkg!AreTemplates, InCloud
  <2>7. artifacts[id][f.path] = Content(f)
    BY <1>3, <2>4, <2>5, <2>6
  <2> QED
    BY <2>3, <2>7
<1>6. DOMAIN FetchedOf(artifacts, ids) = UNION {DOMAIN artifacts[id] : id \in ids}
  BY DEF FetchedOf
<1> HIDE DEF ids
<1> QED
  BY <1>1, <1>4, <1>5, <1>6

-----------------------------------------------------------------------------
(* ConfigurationArrives *)

LEMMA FileText ==
  ASSUME PkgInv, stage # "entered", NEW f \in Pkg!Range(templates)
  PROVE  /\ Content(f) \in Seq(Mix(f)) /\ Pkg!Expected(f) \in Seq(Mix(f))
         /\ ~Pkg!late_bind_placeholder_in(Content(f)) => Content(f) = Pkg!Expected(f)
         /\ Pkg!Marked = {} => ~Pkg!late_bind_placeholder_in(Pkg!Expected(f))
         /\ Pkg!Marked = {} /\ LateIn(f) = {} => ~Pkg!late_bind_placeholder_in(Content(f))
<1>1. Typed /\ argument_dict = Pkg!get_final_arguments
  BY DEF PkgInv, ArgumentsAreResolved
<1>2. /\ Content(f) \in Tidy(Mix(f), LateIn(f)) /\ Pkg!Expected(f) \in Seq(Atoms(Reached(f)))
      /\ LateIn(f) = {} => Content(f) = Pkg!Expected(f)
  BY <1>1, ContentFacts
<1>3. Content(f) \in Seq(Mix(f)) /\ Pkg!Expected(f) \in Seq(Mix(f))
  <2>1. Atoms(Reached(f)) \subseteq Mix(f)
    BY <1>1, ReachedFacts
  <2> QED
    BY <1>2, <2>1, SeqMonotonic DEF Tidy
<1>4. ~Pkg!late_bind_placeholder_in(Content(f)) => LateIn(f) = {}
  <2> SUFFICES ASSUME NEW w \in LateIn(f)
               PROVE  Pkg!late_bind_placeholder_in(Content(f))
    OBVIOUS
  <2> QED
    BY <1>1, LateIsThere DEF Pkg!late_bind_placeholder_in
<1>5. Pkg!Marked = {} => ~Pkg!late_bind_placeholder_in(Pkg!Expected(f))
  BY <1>1, <1>2, ReachedFacts, NoneLeft
<1> QED
  BY <1>2, <1>3, <1>4, <1>5

(* What a file of the late package refers to has a value, or is calculated *)
LEMMA LateValues ==
  ASSUME PkgInv, stage # "entered", NEW f \in Pkg!Range(templates), NEW w \in LateIn(f)
  PROVE  /\ DOMAIN late_variables # {}
         /\ w \in DOMAIN late_variables => late_variables[w] = Pkg!Value(w)
         /\ w \notin DOMAIN late_variables => entered[w].by = "calculated" /\ w \in Pkg!Late
<1>1. Typed /\ late_variables = Pkg!get_late_variables
  BY DEF PkgInv, ArgumentsAreResolved
<1>2. w \in Pkg!Late /\ w \in Pkg!Vars /\ Pkg!is_late(w) /\ w \in Pkg!Referenced
  BY <1>1, FileFacts DEF LateIn, Pkg!Late
<1>3. /\ DOMAIN late_variables = {v \in Pkg!Vars : entered[v].by = "late" /\ Pkg!is_finalized(v)}
      /\ \A v \in DOMAIN late_variables : late_variables[v] = Pkg!Value(v)
  BY <1>1 DEF Pkg!get_late_variables
<1>4. Pkg!is_finalized(w)
  BY <1>2 DEF Pkg!is_finalized
<1>5. CASE entered[w].by = "late"
  BY <1>2, <1>3, <1>4, <1>5
<1>6. CASE entered[w].by # "late"
  <2>1. PICK p \in entered[w].of : entered[p].by = "late"
    BY <1>2, <1>6 DEF Pkg!is_late
  <2>2. entered[w].by = "calculated" /\ p \in Pkg!Vars
    BY <1>1, <1>2, <2>1 DEF Typed, Pkg!AreEntered, Pkg!Vars
  <2>3. Pkg!is_finalized(p)
    BY <1>2 DEF Pkg!is_finalized
  <2> QED
    BY <1>2, <1>3, <2>1, <2>2, <2>3
<1> QED
  BY <1>5, <1>6

(* What a node has of a file *)
LEMMA NodeHas ==
  ASSUME PkgInv, stage = "up", NEW f \in Pkg!Range(templates), ~InCloud(f)
  PROVE  /\ ~ComesLate(f) => f.path \in DOMAIN node /\ node[f.path] = Content(f)
         /\ ComesLate(f) /\ Bound(late_files, late_variables) =>
               f.path \in DOMAIN node /\ node[f.path] = Pkg!Expected(f)
         /\ ComesLate(f) /\ ~Bound(late_files, late_variables) => f.path \notin DOMAIN node
<1> DEFINE all == Pkg!Range(templates)
           got == FetchedOf(artifacts, cloud.packages)
           provided == artifacts[cloud.late_package]
<1>1. Typed /\ argument_dict = Pkg!get_final_arguments
  BY DEF PkgInv, ArgumentsAreResolved
<1>2. /\ node = FilesOf(artifacts, cloud) /\ ~Fails(artifacts, cloud)
      /\ cloud.late_package = <<"dcos-provider", argument_dict>>
      /\ cloud.late_config = IF Bound(late_files, late_variables) THEN <<late_variables>> ELSE <<>>
  BY DEF PkgInv, Bootstrapped, Made, CloudOf
<1>3. /\ DOMAIN got = {g.path : g \in {h \in all : ~InCloud(h) /\ ~ComesLate(h)}}
      /\ \A g \in all : ~InCloud(g) /\ ~ComesLate(g) => got[g.path] = Content(g)
  BY FetchedFacts
<1>4. \A g \in all : g.path = f.path /\ ~InCloud(g) => g = f
  BY <1>1 DEF Typed, Pkg!AreTemplates, InCloud
<1>5. \A g \in all : ComesLate(g) => ~InCloud(g)
  BY DEF ComesLate, InCloud
<1>6. f.path \in DOMAIN got <=> ~ComesLate(f)
  BY <1>3, <1>4
<1>7. CASE ~Bound(late_files, late_variables)
  <2>1. node = got
    BY <1>2, <1>7 DEF FilesOf
  <2> QED
    BY <1>3, <1>6, <1>7, <2>1
<1>8. CASE Bound(late_files, late_variables)
  <2>1. cloud.late_config # <<>> /\ Head(cloud.late_config) = late_variables
    BY <1>2, <1>8
  <2>2. node = [p \in DOMAIN got \cup DOMAIN provided |->
                  IF p \in DOMAIN provided THEN Pkg!render_late_content(provided[p], late_variables)
                  ELSE got[p]]
    BY <1>2, <2>1 DEF FilesOf
  <2>3. \A p \in DOMAIN provided : Pkg!CanRender(provided[p], late_variables)
    BY <1>2, <2>1 DEF Fails
  <2>4. /\ DOMAIN provided = {g.path : g \in {h \in all : ComesLate(h)}}
        /\ ComesLate(f) => provided[f.path] = Content(f)
    BY <1>2, <1>8, MadeFacts
  <2>5. f.path \in DOMAIN provided <=> ComesLate(f)
    BY <1>4, <1>5, <2>4
  <2> HIDE DEF got, provided
  <2>6. ~ComesLate(f) => f.path \in DOMAIN node /\ node[f.path] = Content(f)
    BY <1>3, <1>6, <2>2, <2>5
  <2>7. ASSUME ComesLate(f)
        PROVE  f.path \in DOMAIN node /\ node[f.path] = Pkg!Expected(f)
    <3>1. /\ f.path \in DOMAIN node
          /\ node[f.path] = Pkg!render_late_content(Content(f), late_variables)
      BY <2>2, <2>4, <2>5, <2>7
    <3>2. Pkg!CanRender(Content(f), late_variables)
      BY <2>3, <2>4, <2>5, <2>7
    <3>3. LateIn(f) \subseteq DOMAIN late_variables
      BY <1>1, <3>2, RenderNeeds
    <3>4. \A w \in LateIn(f) : late_variables[w] = Pkg!Value(w)
      BY <3>3, LateValues
    <3>5. Pkg!render_late_content(Content(f), late_variables) = Pkg!Expected(f)
      BY <1>1, <3>4, RenderIsExpected
    <3> QED
      BY <3>1, <3>5
  <2> QED
    BY <1>8, <2>6, <2>7
<1> QED
  BY <1>7, <1>8

LEMMA FilesArrive ==
  ASSUME PkgInv, stage = "up", Pkg!Marked = {}, NEW f \in Pkg!Files("dcos-config")
  PROVE  f.path \in DOMAIN node /\ node[f.path] = Pkg!Expected(f)
<1>1. f \in Pkg!Range(templates) /\ f.in = "dcos-config" /\ ~InCloud(f)
  BY DEF Pkg!Files, InCloud
<1>2. CASE ~ComesLate(f)
  <2>1. Content(f) = Pkg!Expected(f)
    BY <1>1, <1>2, FileText DEF ComesLate
  <2> QED
    BY <1>1, <1>2, <2>1, NodeHas
<1>3. CASE ComesLate(f)
  <2>1. LateIn(f) # {}
    BY <1>1, <1>3, FileText DEF ComesLate
  <2>2. PICK w \in LateIn(f) : TRUE
    BY <2>1
  <2>3. DOMAIN late_variables # {}
    BY <1>1, LateValues
  <2>4. Bound(late_files, late_variables)
    BY <1>1, <1>3, <2>3, MadeFacts
  <2> QED
    BY <1>1, <1>3, <2>4, NodeHas
<1> QED
  BY <1>2, <1>3

LEMMA DownForAReason ==
  ASSUME PkgInv, stage = "stuck", Pkg!Marked = {}
  PROVE  \E f \in Pkg!Files("dcos-config") : \E v \in Pkg!Late :
            entered[v].by = "calculated" /\ Pkg!Mentions(f, {v})
<1>1. Typed /\ argument_dict = Pkg!get_final_arguments
  BY DEF PkgInv, ArgumentsAreResolved
<1>2. /\ Fails(artifacts, cloud) /\ cloud.late_package = <<"dcos-provider", argument_dict>>
      /\ cloud.late_config = IF Bound(late_files, late_variables) THEN <<late_variables>> ELSE <<>>
  BY DEF PkgInv, Bootstrapped, Made, CloudOf
<1>3. Bound(late_files, late_variables) /\ Head(cloud.late_config) = late_variables
  BY <1>2 DEF Fails
<1>4. PICK p \in DOMAIN artifacts[<<"dcos-provider", argument_dict>>] :
         ~Pkg!CanRender(artifacts[<<"dcos-provider", argument_dict>>][p], late_variables)
  BY <1>2, <1>3 DEF Fails
<1>5. PICK f \in Pkg!Range(templates) : ComesLate(f) /\ p = f.path
  BY <1>3, <1>4, MadeFacts
<1>6. artifacts[<<"dcos-provider", argument_dict>>][p] = Content(f)
  BY <1>3, <1>5, MadeFacts
<1>7. ~(LateIn(f) \subseteq DOMAIN late_variables)
  BY <1>1, <1>4, <1>6, RenderNeeds
<1>8. PICK w \in LateIn(f) : w \notin DOMAIN late_variables
  BY <1>7
<1>9. entered[w].by = "calculated" /\ w \in Pkg!Late
  BY <1>8, LateValues
<1>10. f \in Pkg!Files("dcos-config") /\ Pkg!Mentions(f, {w})
  BY <1>5, <1>8 DEF ComesLate, Pkg!Files, Pkg!Mentions, LateIn
<1> QED
  BY <1>9, <1>10

Shown(f) ==
    IF f.in = "cloud-config" THEN cloud.files[f.path]
    ELSE IF f.path \in DOMAIN node THEN node[f.path] ELSE <<>>

LEMMA NothingIsShown ==
  ASSUME PkgInv, stage = "up", NEW f \in Pkg!Range(templates)
  PROVE  /\ Pkg!Leaks(Shown(f), Pkg!Secret) => Pkg!Mentions(f, Pkg!SecretBuiltins \cup Pkg!Secret)
         /\ Pkg!late_bind_placeholder_in(Shown(f)) =>
               Pkg!Marked # {} \/ (f.in # "dcos-config" /\ Pkg!Mentions(f, Pkg!Late))
<1>0. Typed
  BY DEF PkgInv
<1>1. LateIn(f) # {} => Pkg!Mentions(f, Pkg!Late)
  BY DEF LateIn, Pkg!Mentions
<1>2. CASE Shown(f) = Content(f) /\ ~ComesLate(f)
  <2>1. Pkg!late_bind_placeholder_in(Content(f)) => f.in # "dcos-config"
    BY <1>2 DEF ComesLate
  <2> QED
    BY <1>0, <1>1, <1>2, <2>1, FileText, MixLeaks
<1>3. CASE Shown(f) = Pkg!Expected(f)
  BY <1>0, <1>3, FileText, MixLeaks
<1>4. CASE Shown(f) = <<>>
  BY <1>4 DEF Pkg!Leaks, Pkg!late_bind_placeholder_in
<1>5. CASE InCloud(f)
  <2>1. Shown(f) = Content(f) /\ ~ComesLate(f)
    BY <1>5, MadeFacts DEF Shown, InCloud, ComesLate
  <2> QED
    BY <1>2, <2>1
<1>6. CASE ~InCloud(f)
  <2>1. \/ Shown(f) = Content(f) /\ ~ComesLate(f)
        \/ Shown(f) = Pkg!Expected(f)
        \/ Shown(f) = <<>>
    BY <1>6, NodeHas DEF Shown, InCloud
  <2> QED
    BY <1>2, <1>3, <1>4, <2>1
<1> QED
  BY <1>5, <1>6

LEMMA ArrivesFromInv ==
  ASSUME PkgInv
  PROVE  Pkg!ConfigurationArrives
<1>1. (stage = "up" /\ Pkg!Marked = {}) =>
         \A f \in Pkg!Files("dcos-config") : f.path \in DOMAIN node /\ node[f.path] = Pkg!Expected(f)
  BY FilesArrive
<1>2. stage = "stuck" =>
         \/ Pkg!Marked # {}
         \/ \E f \in Pkg!Files("dcos-config") : \E v \in Pkg!Late :
               entered[v].by = "calculated" /\ Pkg!Mentions(f, {v})
  BY DownForAReason
<1>3. stage = "up" =>
         \A f \in Pkg!Range(templates) :
            /\ Pkg!Leaks(Shown(f), Pkg!Secret) => Pkg!Mentions(f, Pkg!SecretBuiltins \cup Pkg!Secret)
            /\ Pkg!late_bind_placeholder_in(Shown(f)) =>
                  Pkg!Marked # {} \/ (f.in # "dcos-config" /\ Pkg!Mentions(f, Pkg!Late))
  BY NothingIsShown
<1>4. ~surprise
  BY DEF PkgInv, Stored
<1> QED
  BY <1>1, <1>2, <1>3, <1>4 DEF Pkg!ConfigurationArrives, Shown

(* gen.generate and do_bootstrap (gen/__init__.py:593-804,                  *)
(* pkgpanda/actions.py:228-260): whatever is entered for the arguments, and *)
(* whatever the templates are, with any number of runs, every file of the   *)
(* configuration comes to a node with its final values if no value has a    *)
(* marker of a placeholder, a node stays down only for what is calculated   *)
(* from a late value, no file shows a secret it has not asked for, nothing  *)
(* is left unbound, and an id of a package tells all that its content has   *)
(* but for the certificate and arguments nothing refers to.                 *)
THEOREM ConfigurationsArrive ==
  ASSUME Pkg!PackagesAssumption
  PROVE  Pkg!Spec => []Pkg!ConfigurationArrives
<1>1. Pkg!Init => PkgInv
  BY PkgInit
<1>2. PkgInv /\ [Pkg!Next]_(Pkg!vars) => PkgInv'
  BY PkgInductive
<1>3. PkgInv => Pkg!ConfigurationArrives
  BY ArrivesFromInv
<1> QED
  BY <1>1, <1>2, <1>3, PTL DEF Pkg!Spec

-----------------------------------------------------------------------------
(* The parser: GenParser for any texts                                     *)

CONSTANTS Texts
VARIABLES parse_text, parse_rest, parse_tokens, parse_pos, parse_stack, parse_phase,
          parse_error, parse_ast
Parser == INSTANCE GenParser WITH text <- parse_text, rest <- parse_rest, tokens <- parse_tokens,
    token_pos <- parse_pos, stack <- parse_stack, phase <- parse_phase, error <- parse_error,
    ast <- parse_ast

(* Sequences put together *)
LEMMA PairOf ==
  ASSUME NEW S, NEW a \in S, NEW b \in S
  PROVE  <<a, b>> = <<a>> \o <<b>>
<1> DEFINE t == <<a>> \o <<b>>
<1>1. /\ <<a>> \in Seq(S) /\ <<b>> \in Seq(S) /\ <<a, b>> \in Seq(S)
      /\ Len(<<a>>) = 1 /\ Len(<<b>>) = 1 /\ Len(<<a, b>>) = 2
      /\ <<a>>[1] = a /\ <<b>>[1] = b /\ <<a, b>>[1] = a /\ <<a, b>>[2] = b
  OBVIOUS
<1>2. t \in Seq(S) /\ Len(t) = 2 /\ t[1] = a /\ t[2] = b
  <2>1. /\ \A i \in 1 .. 1 + 1 : t[i] = IF i <= 1 THEN <<a>>[i] ELSE <<b>>[i - 1]
        /\ t \in Seq(S) /\ Len(t) = 1 + 1
    BY <1>1, ConcatProperties
  <2>2. 1 \in 1 .. 1 + 1 /\ 2 \in 1 .. 1 + 1 /\ 2 - 1 = 1 /\ 1 + 1 = 2 /\ ~(2 <= 1) /\ 1 <= 1
    OBVIOUS
  <2> HIDE DEF t
  <2> QED
    BY <1>1, <2>1, <2>2
<1>3. \A i \in 1 .. 2 : i = 1 \/ i = 2
  OBVIOUS
<1> HIDE DEF t
<1>4. Len(t) = Len(<<a, b>>) /\ \A i \in 1 .. Len(t) : <<a, b>>[i] = t[i]
  BY <1>1, <1>2, <1>3
<1> QED
  BY <1>1, <1>2, <1>4, SeqEqual DEF t

LEMMA ShortSeqs ==
  ASSUME NEW S, NEW a \in S, NEW b \in S, NEW c \in S
  PROVE  <<a>> \in Seq(S) /\ <<a, b>> \in Seq(S) /\ <<a, b, c>> \in Seq(S)
         /\ Len(<<a>>) = 1 /\ Len(<<a, b>>) = 2
  OBVIOUS

LEMMA TripleOf ==
  ASSUME NEW S, NEW a \in S, NEW b \in S, NEW c \in S
  PROVE  /\ <<a, b, c>> = <<a>> \o <<b, c>>
         /\ <<a, b, c>> = <<a, b>> \o <<c>>
<1> DEFINE t == <<a>> \o <<b, c>>
<1>1. /\ <<a>> \in Seq(S) /\ <<b, c>> \in Seq(S) /\ <<a, b, c>> \in Seq(S)
      /\ Len(<<a>>) = 1 /\ Len(<<b, c>>) = 2 /\ Len(<<a, b, c>>) = 3
      /\ <<a>>[1] = a /\ <<b, c>>[1] = b /\ <<b, c>>[2] = c
      /\ <<a, b, c>>[1] = a /\ <<a, b, c>>[2] = b /\ <<a, b, c>>[3] = c
  OBVIOUS
<1>2. t \in Seq(S) /\ Len(t) = 3 /\ t[1] = a /\ t[2] = b /\ t[3] = c
  <2>1. /\ \A i \in 1 .. 1 + 2 : t[i] = IF i <= 1 THEN <<a>>[i] ELSE <<b, c>>[i - 1]
        /\ t \in Seq(S) /\ Len(t) = 1 + 2
    BY <1>1, ConcatProperties
  <2>2. /\ 1 \in 1 .. 1 + 2 /\ 2 \in 1 .. 1 + 2 /\ 3 \in 1 .. 1 + 2 /\ 2 - 1 = 1 /\ 3 - 1 = 2
        /\ 1 + 2 = 3 /\ ~(2 <= 1) /\ ~(3 <= 1) /\ 1 <= 1
    OBVIOUS
  <2> HIDE DEF t
  <2> QED
    BY <1>1, <2>1, <2>2
<1>3. \A i \in 1 .. 3 : i = 1 \/ i = 2 \/ i = 3
  OBVIOUS
<1> HIDE DEF t
<1>4. Len(t) = Len(<<a, b, c>>) /\ \A i \in 1 .. Len(t) : <<a, b, c>>[i] = t[i]
  BY <1>1, <1>2, <1>3
<1>5. <<a, b, c>> = <<a>> \o <<b, c>>
  BY <1>1, <1>2, <1>4, SeqEqual DEF t
<1>6. <<b, c>> = <<b>> \o <<c>> /\ <<a, b>> = <<a>> \o <<b>>
  BY PairOf
<1>7. <<b>> \in Seq(S) /\ <<c>> \in Seq(S)
  OBVIOUS
<1> QED
  BY <1>1, <1>5, <1>6, <1>7, ConcatAssociative

LEMMA SplitAt ==
  ASSUME NEW S, NEW s \in Seq(S), NEW n \in 0 .. Len(s)
  PROVE  /\ s = SubSeq(s, 1, n) \o Parser!Drop(s, n)
         /\ SubSeq(s, 1, n) \in Seq(S) /\ Parser!Drop(s, n) \in Seq(S)
         /\ Len(SubSeq(s, 1, n)) = n
<1>1. 1 \in 1 .. Len(s) + 1 /\ n \in (1 - 1) .. Len(s) /\ Len(s) \in n .. Len(s) /\ Len(s) \in Nat
  BY LenProperties
<1>2. SubSeq(s, 1, n) \o SubSeq(s, n + 1, Len(s)) = SubSeq(s, 1, Len(s))
  BY <1>1, ConcatAdjacentSubSeq
<1>3. SubSeq(s, 1, Len(s)) = s
  BY SubSeqFull
<1>4. /\ SubSeq(s, 1, n) \in Seq(S) /\ SubSeq(s, n + 1, Len(s)) \in Seq(S)
      /\ Len(SubSeq(s, 1, n)) = n
  <2>1. n \in Nat /\ 1 \in 1 .. n + 1 /\ n + 1 \in 1 .. Len(s) + 1
    BY <1>1
  <2> QED
    BY <1>1, <2>1, SubSeqProperties
<1> QED
  BY <1>2, <1>3, <1>4 DEF Parser!Drop

LEMMA SplitPrefix ==
  ASSUME NEW S, NEW s \in Seq(S), NEW p \in Seq(S), Parser!StartsWith(s, p)
  PROVE  s = p \o Parser!Drop(s, Len(p)) /\ Parser!Drop(s, Len(p)) \in Seq(S)
<1>1. Len(p) \in 0 .. Len(s) /\ SubSeq(p, 1, Len(p)) = SubSeq(s, 1, Len(p))
  BY LenProperties DEF Parser!StartsWith, Parser!IsPrefix
<1>2. SubSeq(p, 1, Len(p)) = p
  BY SubSeqFull
<1> QED
  BY <1>1, <1>2, SplitAt

(* A run of pieces of one kind has an end *)
LEMMA RunEnds ==
  ASSUME NEW S, NEW s \in Seq(S), NEW W
  PROVE  \E n \in 0 .. Len(s) : /\ \A i \in 1 .. n : s[i] \in W
                                /\ n < Len(s) => s[n + 1] \notin W
<1> DEFINE Run(n) == \A i \in 1 .. n : s[i] \in W
           EndsWell == \E n \in 0 .. Len(s) : Run(n) /\ (n < Len(s) => s[n + 1] \notin W)
           B == {n \in Nat : EndsWell \/ (n <= Len(s) => Run(n))}
<1>1. Len(s) \in Nat
  BY LenProperties
<1>2. 0 \in B
  OBVIOUS
<1>3. \A n \in Nat : n \in B => n + 1 \in B
  <2> TAKE n \in Nat
  <2> HAVE n \in B
  <2>1. ASSUME ~EndsWell, n + 1 <= Len(s)
        PROVE  Run(n + 1)
    <3>1. Run(n) /\ n < Len(s) /\ n \in 0 .. Len(s)
      BY <1>1, <2>1
    <3>2. s[n + 1] \in W
      BY <2>1, <3>1
    <3>3. \A i \in 1 .. n + 1 : i \in 1 .. n \/ i = n + 1
      OBVIOUS
    <3> QED
      BY <3>1, <3>2, <3>3
  <2>2. n + 1 \in Nat
    OBVIOUS
  <2> HIDE DEF EndsWell, Run
  <2> QED
    BY <2>1, <2>2
<1>4. Len(s) \in B
  <2> HIDE DEF B
  <2> QED
    BY <1>1, <1>2, <1>3, Induction
<1>5. CASE EndsWell
  BY <1>5
<1>6. CASE Run(Len(s))
  <2>1. Len(s) \in 0 .. Len(s) /\ ~(Len(s) < Len(s))
    BY <1>1
  <2> QED
    BY <1>6, <2>1
<1> QED
  BY <1>1, <1>4, <1>5, <1>6

LEMMA HeadAndTail ==
  ASSUME NEW S, NEW s \in Seq(S), s # <<>>
  PROVE  /\ s = <<Head(s)>> \o Tail(s) /\ <<Head(s)>> \in Seq(S) /\ Tail(s) \in Seq(S)
         /\ Len(s) # 1 => Tail(s) # <<>> /\ Head(Tail(s)) = s[2]
<1>1. s = <<Head(s)>> \o Tail(s)
  OBVIOUS
<1>2. Head(s) \in S /\ Tail(s) \in Seq(S)
  BY HeadTailProperties
<1>3. <<Head(s)>> \in Seq(S)
  <2> DEFINE h == Head(s)
  <2>1. h \in S
    BY <1>2
  <2> HIDE DEF h
  <2>2. <<h>> \in Seq(S)
    BY <2>1
  <2> QED
    BY <2>2 DEF h
<1>4. ASSUME Len(s) # 1
      PROVE  Tail(s) # <<>> /\ Head(Tail(s)) = s[2]
  <2>0. Len(s) \in Nat /\ Len(s) # 0
    BY LenProperties, EmptySeq
  <2>1. Len(s) \in Nat /\ Len(s) > 1 /\ Len(Tail(s)) = Len(s) - 1
    BY <1>4, <2>0, HeadTailProperties
  <2>2. Tail(s) # <<>>
    <3> DEFINE t == Tail(s)
    <3>1. t \in Seq(S) /\ Len(t) # 0
      BY <1>2, <2>1
    <3> HIDE DEF t
    <3>2. t # <<>>
      BY <3>1, EmptySeq
    <3> QED
      BY <3>2 DEF t
  <2>3. Head(Tail(s)) = Tail(s)[1] /\ Tail(s)[1] = s[1 + 1]
    BY <2>1, HeadTailProperties
  <2> QED
    BY <2>2, <2>3
<1> QED
  BY <1>1, <1>2, <1>3, <1>4

Then(s, t) == s \o t
IsText(Q) ==
    /\ \A s, t \in Q : Then(s, t) \in Q
    /\ \A s, t, u \in Q : Then(Then(s, t), u) = Then(s, Then(t, u))

LEMMA Regroup ==
  ASSUME NEW S
  PROVE  IsText(Seq(S))
<1>1. \A s, t \in Seq(S) : s \o t \in Seq(S)
  BY ConcatProperties
<1>2. \A s, t, u \in Seq(S) : (s \o t) \o u = s \o (t \o u)
  BY ConcatAssociative
<1> QED
  BY <1>1, <1>2 DEF IsText, Then

-----------------------------------------------------------------------------
(* Tokenizer: what a helper has read is before what it leaves              *)

Literals == {"{", "%", " ", "}", "|", "in", "switch", "case", "endswitch", "for", "endfor"}
Errors == {"", "IndexError", "SyntaxError"}
IsReader(A, r) ==
    r \in [rest : Seq(A), got : Seq(Seq(A)), err : Errors]

LEMMA WhitespaceReads ==
  ASSUME NEW A, NEW r, IsReader(A, r), Parser!read_whitespace(r).err = ""
  PROVE  LET x == Parser!read_whitespace(r)
         IN  /\ r.err = "" /\ IsReader(A, x) /\ x.got = r.got
             /\ r.rest = <<" ">> \o x.rest
             /\ x.rest # <<>> /\ Head(x.rest) \notin Parser!Blank
<1> DEFINE x == Parser!read_whitespace(r)
           s == r.rest
<1>1. r \in [rest : Seq(A), got : Seq(Seq(A)), err : Errors]
  BY DEF IsReader
<1>2. s \in Seq(A)
  BY <1>1
<1>3. \A e \in {"IndexError", "SyntaxError"} : Parser!Fails(r, e).err = e
  BY <1>1 DEF Parser!Fails
<1>4. /\ r.err = "" /\ s # <<>> /\ Head(s) = " " /\ Len(s) # 1 /\ s[2] \notin Parser!Blank
      /\ x = [r EXCEPT !.rest = Tail(@)]
  BY <1>3 DEF Parser!read_whitespace
<1>6. /\ s = <<Head(s)>> \o Tail(s) /\ Tail(s) # <<>> /\ Head(Tail(s)) = s[2]
      /\ Tail(s) \in Seq(A)
  <2> HIDE DEF s
  <2> QED
    BY <1>2, <1>4, HeadAndTail
<1>5. x.rest = Tail(s) /\ x.got = r.got /\ IsReader(A, x)
  <2> DEFINE t == Tail(s)
  <2>1. t \in Seq(A) /\ x = [r EXCEPT !.rest = t]
    BY <1>4, <1>6
  <2> HIDE DEF t, x
  <2>2. x.rest = t /\ x.got = r.got /\ IsReader(A, x)
    BY <1>1, <2>1 DEF IsReader
  <2> QED
    BY <2>2 DEF t
<1> QED
  BY <1>4, <1>5, <1>6

LEMMA IdentifierReads ==
  ASSUME NEW A, NEW r, IsReader(A, r), Parser!read_identifier(r).err = ""
  PROVE  LET x == Parser!read_identifier(r)
         IN  /\ r.err = "" /\ IsReader(A, x)
             /\ \E w \in Seq(A) : /\ r.rest = <<" ">> \o (w \o x.rest) /\ x.got = Append(r.got, w)
                                  /\ w = <<>> => x.rest # <<>> /\ Head(x.rest) # " "
<1> DEFINE y == Parser!read_whitespace(r)
           n == Parser!WordLength(y.rest)
           x == Parser!read_identifier(r)
           w == SubSeq(y.rest, 1, n)
<1>1. y.err = "" => IsReader(A, y) /\ y \in [rest : Seq(A), got : Seq(Seq(A)), err : Errors]
  BY WhitespaceReads DEF IsReader
<1>2. y.err = "" /\ n # Len(y.rest)
      /\ x = [y EXCEPT !.rest = Parser!Drop(@, n), !.got = Append(@, w)]
  <2>1. y.err = ""
    BY DEF Parser!read_identifier
  <2>2. n # Len(y.rest)
    <3>1. Parser!Fails(y, "IndexError").err = "IndexError"
      BY <1>1, <2>1 DEF Parser!Fails
    <3> QED
      BY <2>1, <3>1 DEF Parser!read_identifier
  <2> QED
    BY <2>1, <2>2 DEF Parser!read_identifier
<1>3. /\ r.err = "" /\ IsReader(A, y) /\ y.got = r.got /\ r.rest = <<" ">> \o y.rest
      /\ y.rest # <<>> /\ Head(y.rest) \notin Parser!Blank
  BY <1>2, WhitespaceReads
<1>4. y.rest \in Seq(A) /\ y.got \in Seq(Seq(A))
  BY <1>3 DEF IsReader
<1> HIDE DEF y
<1>5. n \in 0 .. Len(y.rest)
  BY <1>4, RunEnds DEF Parser!WordLength
<1>6. y.rest = w \o Parser!Drop(y.rest, n) /\ w \in Seq(A) /\ Parser!Drop(y.rest, n) \in Seq(A)
  BY <1>4, <1>5, SplitAt
<1>7. /\ x.rest = Parser!Drop(y.rest, n) /\ x.got = Append(r.got, w) /\ x.err = y.err
      /\ IsReader(A, x)
  <2>1. y \in [rest : Seq(A), got : Seq(Seq(A)), err : Errors]
    BY <1>1, <1>2
  <2>2. Append(y.got, w) \in Seq(Seq(A))
    BY <1>4, <1>6, AppendProperties
  <2> HIDE DEF w, n
  <2> QED
    BY <1>2, <1>3, <1>6, <2>1, <2>2 DEF IsReader
<1>8. w = <<>> => x.rest = y.rest
  BY <1>4, <1>6, <1>7, ConcatEmptySeq
<1>9. y.rest # <<>> /\ Head(y.rest) # " "
  BY <1>3 DEF Parser!Blank
<1> HIDE DEF w, n, x
<1> QED
  BY <1>3, <1>6, <1>7, <1>8, <1>9 DEF x

LEMMA StringReads ==
  ASSUME NEW A, NEW r, IsReader(A, r), Parser!read_str(r).err = ""
  PROVE  LET x == Parser!read_str(r)
         IN  /\ r.err = "" /\ IsReader(A, x)
             /\ \E w \in Seq(A) : r.rest = <<" ">> \o (w \o x.rest) /\ x.got = Append(r.got, w) /\ w # <<>>
<1> DEFINE y == Parser!read_whitespace(r)
           x == Parser!read_str(r)
           w == <<Head(y.rest)>>
<1>1. y.err = "" => IsReader(A, y) /\ y \in [rest : Seq(A), got : Seq(Seq(A)), err : Errors]
  BY WhitespaceReads DEF IsReader
<1>2. y.err = "" /\ x = [y EXCEPT !.rest = Tail(@), !.got = Append(@, w)]
  <2>1. y.err = ""
    BY DEF Parser!read_str
  <2>2. Head(y.rest) \in Parser!Quoted
    <3>1. Parser!Fails(y, "SyntaxError").err = "SyntaxError"
      BY <1>1, <2>1 DEF Parser!Fails
    <3> QED
      BY <2>1, <3>1 DEF Parser!read_str
  <2> QED
    BY <2>1, <2>2 DEF Parser!read_str
<1>3. /\ r.err = "" /\ IsReader(A, y) /\ y.got = r.got /\ r.rest = <<" ">> \o y.rest
      /\ y.rest # <<>>
  BY <1>2, WhitespaceReads
<1>4. y.rest \in Seq(A) /\ y.got \in Seq(Seq(A))
  BY <1>3 DEF IsReader
<1> HIDE DEF y
<1>5. y.rest = w \o Tail(y.rest) /\ w \in Seq(A) /\ Tail(y.rest) \in Seq(A)
  BY <1>3, <1>4, HeadAndTail
<1>6. /\ x.rest = Tail(y.rest) /\ x.got = Append(r.got, w) /\ x.err = y.err
      /\ IsReader(A, x)
  <2>1. y \in [rest : Seq(A), got : Seq(Seq(A)), err : Errors]
    BY <1>1, <1>2
  <2>2. Append(y.got, w) \in Seq(Seq(A))
    BY <1>4, <1>5, AppendProperties
  <2> HIDE DEF w
  <2> QED
    BY <1>2, <1>3, <1>5, <2>1, <2>2 DEF IsReader
<1>7. w # <<>>
  OBVIOUS
<1> HIDE DEF w, x
<1> QED
  BY <1>3, <1>5, <1>6, <1>7 DEF x

LEMMA ExpectReads ==
  ASSUME NEW A, NEW r, IsReader(A, r), NEW literal \in Seq(A), Parser!Expect(r, literal).err = ""
  PROVE  LET x == Parser!Expect(r, literal)
         IN  r.err = "" /\ IsReader(A, x) /\ x.got = r.got /\ r.rest = literal \o x.rest
<1> DEFINE x == Parser!Expect(r, literal)
<1>1. r \in [rest : Seq(A), got : Seq(Seq(A)), err : Errors]
  BY DEF IsReader
<1>2. Parser!Fails(r, "SyntaxError").err = "SyntaxError"
  BY <1>1 DEF Parser!Fails
<1>3. /\ r.err = "" /\ Parser!StartsWith(r.rest, literal)
      /\ x = [r EXCEPT !.rest = Parser!Drop(@, Len(literal))]
  BY <1>2 DEF Parser!Expect
<1>4. /\ r.rest = literal \o Parser!Drop(r.rest, Len(literal))
      /\ Parser!Drop(r.rest, Len(literal)) \in Seq(A)
  BY <1>1, <1>3, SplitPrefix
<1> QED
  BY <1>1, <1>3, <1>4 DEF IsReader

(* How the pieces of a control group are put together *)
LEMMA GroupEnd ==
  ASSUME NEW A, Literals \subseteq A, NEW t \in Seq(A)
  PROVE  /\ <<" ", "%", "}">> \in Seq(A) /\ <<"%", "}">> \in Seq(A) /\ <<" ">> \in Seq(A)
         /\ <<" ", "%", "}">> \o t = <<" ">> \o (<<"%", "}">> \o t)
<1> DEFINE p == <<" ">>
           q == <<"%", "}">>
           Q == Seq(A)
<1>1. " " \in A /\ "%" \in A /\ "}" \in A
  BY DEF Literals
<1>2. /\ p \in Q /\ q \in Q /\ <<" ", "%", "}">> \in Q
      /\ <<" ", "%", "}">> = Then(p, q)
  BY <1>1, ShortSeqs, TripleOf DEF Then
<1>3. p \in Q /\ q \in Q /\ t \in Q /\ IsText(Q)
  BY <1>2, Regroup
<1> HIDE DEF p, q, Q
<1>4. Then(Then(p, q), t) = Then(p, Then(q, t))
  BY <1>3 DEF IsText
<1>5. <<" ", "%", "}">> \o t = p \o (q \o t)
  BY <1>2, <1>4 DEF Then
<1> QED
  BY <1>2, <1>5 DEF p, q, Q

LEMMA EndReads ==
  ASSUME NEW A, Literals \subseteq A, NEW r, IsReader(A, r),
         Parser!read_end_control_group(r).err = ""
  PROVE  LET x == Parser!read_end_control_group(r)
         IN  r.err = "" /\ IsReader(A, x) /\ x.got = r.got
             /\ r.rest = <<" ", "%", "}">> \o x.rest
<1> DEFINE y == Parser!read_whitespace(r)
           x == Parser!read_end_control_group(r)
<1>1. /\ " " \in A /\ "%" \in A /\ "}" \in A /\ <<"%", "}">> \in Seq(A) /\ <<" ">> \in Seq(A)
  <2>1. " " \in A /\ "%" \in A /\ "}" \in A
    BY DEF Literals
  <2> QED
    BY <2>1, ShortSeqs
<1>2. x = Parser!Expect(y, <<"%", "}">>)
  BY DEF Parser!read_end_control_group
<1>3. y.err = ""
  BY <1>2 DEF Parser!Expect
<1>4. r.err = "" /\ IsReader(A, y) /\ y.got = r.got /\ r.rest = <<" ">> \o y.rest
  BY <1>3, WhitespaceReads
<1>5. IsReader(A, x) /\ x.got = y.got /\ y.rest = <<"%", "}">> \o x.rest
  <2> DEFINE p == <<"%", "}">>
  <2>1. p \in Seq(A) /\ x = Parser!Expect(y, p) /\ x.err = "" /\ IsReader(A, y)
    BY <1>1, <1>2, <1>4
  <2> HIDE DEF p, x, y
  <2>2. IsReader(A, x) /\ x.got = y.got /\ y.rest = p \o x.rest
    BY <2>1, ExpectReads
  <2> QED
    BY <2>2 DEF p
<1>6. x.rest \in Seq(A)
  BY <1>5 DEF IsReader
<1>7. <<" ", "%", "}">> \o x.rest = <<" ">> \o (<<"%", "}">> \o x.rest)
  <2> HIDE DEF x
  <2> QED
    BY <1>6, GroupEnd
<1> HIDE DEF x, y
<1> QED
  BY <1>4, <1>5, <1>7 DEF x

(* Tokenizer: a token printed is the text it was read from *)

LEMMA GroupPrints ==
  ASSUME NEW A, Literals \subseteq A, NEW words \in Seq(A), NEW t \in Seq(A)
  PROVE  LET g == <<"{", "%", " ">> \o words \o <<" ", "%", "}">>
         IN  /\ g \in Seq(A)
             /\ g \o t = <<"{", "%">> \o (<<" ">> \o (words \o (<<" ", "%", "}">> \o t)))
<1> DEFINE p == <<"{", "%">>
           q == <<" ">>
           e == <<" ", "%", "}">>
           Q == Seq(A)
<1>1. " " \in A /\ "%" \in A /\ "}" \in A /\ "{" \in A
  BY DEF Literals
<1>2. p \in Q /\ q \in Q /\ e \in Q /\ <<"{", "%", " ">> = Then(p, q)
  BY <1>1, ShortSeqs, TripleOf DEF Then
<1>3. p \in Q /\ q \in Q /\ e \in Q /\ words \in Q /\ t \in Q /\ IsText(Q)
  BY <1>2, Regroup
<1> HIDE DEF p, q, e, Q
<1>4. /\ Then(Then(Then(p, q), words), e) \in Q
      /\ Then(Then(Then(Then(p, q), words), e), t) = Then(p, Then(q, Then(words, Then(e, t))))
  <2>1. /\ Then(p, q) \in Q /\ Then(Then(p, q), words) \in Q
        /\ Then(Then(Then(p, q), words), e) \in Q /\ Then(e, t) \in Q
        /\ Then(words, Then(e, t)) \in Q
    BY <1>3 DEF IsText
  <2>2. /\ Then(Then(Then(Then(p, q), words), e), t) = Then(Then(Then(p, q), words), Then(e, t))
        /\ Then(Then(Then(p, q), words), Then(e, t)) = Then(Then(p, q), Then(words, Then(e, t)))
        /\ Then(Then(p, q), Then(words, Then(e, t))) = Then(p, Then(q, Then(words, Then(e, t))))
    BY <1>3, <2>1 DEF IsText
  <2> QED
    BY <2>1, <2>2
<1>5. /\ ((<<"{", "%", " ">> \o words) \o e) \in Q
      /\ ((<<"{", "%", " ">> \o words) \o e) \o t = p \o (q \o (words \o (e \o t)))
  BY <1>2, <1>4 DEF Then
<1> QED
  BY <1>5 DEF p, q, e, Q

NamePrints(A, k, w, t) ==
    /\ <<k, " ">> \o w \in Seq(A)
    /\ (<<k, " ">> \o w) \o t = <<k>> \o (<<" ">> \o (w \o t))

LEMMA NameWords ==
  ASSUME NEW A, Literals \subseteq A, NEW k \in A, NEW w \in Seq(A), NEW t \in Seq(A)
  PROVE  NamePrints(A, k, w, t)
<1> DEFINE p == <<k>>
           q == <<" ">>
           Q == Seq(A)
<1>1. " " \in A
  BY DEF Literals
<1>2. p \in Q /\ q \in Q /\ <<k, " ">> = Then(p, q)
  BY <1>1, ShortSeqs, PairOf DEF Then
<1>3. p \in Q /\ q \in Q /\ w \in Q /\ t \in Q /\ IsText(Q)
  BY <1>2, Regroup
<1> HIDE DEF p, q, Q
<1>4. /\ Then(Then(p, q), w) \in Q
      /\ Then(Then(Then(p, q), w), t) = Then(p, Then(q, Then(w, t)))
  BY <1>3 DEF IsText
<1>5. /\ <<k, " ">> \o w \in Q
      /\ (<<k, " ">> \o w) \o t = p \o (q \o (w \o t))
  BY <1>2, <1>4 DEF Then
<1> QED
  BY <1>5 DEF p, q, Q, NamePrints

ForPrints(A, v, w, t) ==
    LET words == <<"for", " ">> \o v \o <<" ", "in", " ">> \o w
    IN  /\ words \in Seq(A)
        /\ words \o t = <<"for">> \o (<<" ">> \o (v \o (<<" ">> \o (<<"in">> \o
                            (<<" ">> \o (w \o t))))))

LEMMA ForWords ==
  ASSUME NEW A, Literals \subseteq A, NEW v \in Seq(A), NEW w \in Seq(A), NEW t \in Seq(A)
  PROVE  ForPrints(A, v, w, t)
<1> DEFINE f == <<"for">>
           n == <<"in">>
           q == <<" ">>
           Q == Seq(A)
<1>1. " " \in A /\ "for" \in A /\ "in" \in A
  BY DEF Literals
<1>2. /\ f \in Q /\ n \in Q /\ q \in Q
      /\ <<"for", " ">> = Then(f, q)
      /\ <<" ", "in", " ">> = Then(q, Then(n, q))
  <2>1. f \in Q /\ n \in Q /\ q \in Q
    BY <1>1, ShortSeqs
  <2>2. <<"for", " ">> = f \o q
    BY <1>1, PairOf
  <2>3. <<"in", " ">> = n \o q
    BY <1>1, PairOf
  <2>4. <<" ", "in", " ">> = q \o <<"in", " ">>
    BY <1>1, TripleOf
  <2> QED
    BY <2>1, <2>2, <2>3, <2>4 DEF Then
<1>3. f \in Q /\ n \in Q /\ q \in Q /\ v \in Q /\ w \in Q /\ t \in Q /\ IsText(Q)
  BY <1>2, Regroup
<1> HIDE DEF f, n, q, Q
<1>4. /\ Then(Then(Then(Then(f, q), v), Then(q, Then(n, q))), w) \in Q
      /\ Then(Then(Then(Then(Then(f, q), v), Then(q, Then(n, q))), w), t)
            = Then(f, Then(q, Then(v, Then(q, Then(n, Then(q, Then(w, t)))))))
  <2> DEFINE a == Then(Then(f, q), v)
             b == Then(q, Then(n, q))
             u == Then(w, t)
  <2>1. a \in Q /\ b \in Q /\ u \in Q
    <3>1. Then(f, q) \in Q /\ Then(n, q) \in Q
      BY <1>3 DEF IsText
    <3> QED
      BY <1>3, <3>1 DEF IsText
  <2>2. /\ Then(b, u) = Then(q, Then(n, Then(q, u))) /\ Then(b, u) \in Q
    <3>1. Then(n, q) \in Q
      BY <1>3 DEF IsText
    <3>2. Then(b, u) = Then(q, Then(Then(n, q), u))
      <4> HIDE DEF u
      <4> QED
        BY <1>3, <2>1, <3>1 DEF IsText
    <3>3. Then(Then(n, q), u) = Then(n, Then(q, u))
      <4> HIDE DEF u
      <4> QED
        BY <1>3, <2>1, <3>1 DEF IsText
    <3>4. Then(b, u) \in Q
      <4> HIDE DEF b, u
      <4> QED
        BY <1>3, <2>1 DEF IsText
    <3> QED
      BY <3>2, <3>3, <3>4
  <2>3. \A y \in Q : Then(a, y) = Then(f, Then(q, Then(v, y)))
    <3> TAKE y \in Q
    <3>1. Then(f, q) \in Q /\ Then(v, y) \in Q
      BY <1>3 DEF IsText
    <3>2. Then(a, y) = Then(Then(f, q), Then(v, y))
      BY <1>3, <3>1 DEF IsText
    <3>3. Then(Then(f, q), Then(v, y)) = Then(f, Then(q, Then(v, y)))
      BY <1>3, <3>1 DEF IsText
    <3> QED
      BY <3>2, <3>3
  <2>4. Then(a, b) \in Q /\ Then(Then(a, b), w) \in Q
        /\ Then(Then(Then(a, b), w), t) = Then(a, Then(b, u))
    <3> HIDE DEF a, b
    <3>1. Then(a, b) \in Q
      BY <1>3, <2>1 DEF IsText
    <3>2. Then(Then(a, b), w) \in Q /\ Then(Then(Then(a, b), w), t) = Then(Then(a, b), Then(w, t))
      BY <1>3, <3>1 DEF IsText
    <3>3. Then(Then(a, b), Then(w, t)) = Then(a, Then(b, Then(w, t)))
      BY <1>3, <2>1 DEF IsText
    <3> QED
      BY <3>1, <3>2, <3>3
  <2>5. Then(Then(Then(a, b), w), t)
            = Then(f, Then(q, Then(v, Then(q, Then(n, Then(q, u))))))
    BY <2>2, <2>3, <2>4
  <2> QED
    BY <2>4, <2>5
<1>5. /\ (((<<"for", " ">> \o v) \o <<" ", "in", " ">>) \o w) \in Q
      /\ (((<<"for", " ">> \o v) \o <<" ", "in", " ">>) \o w) \o t
            = f \o (q \o (v \o (q \o (n \o (q \o (w \o t))))))
  BY <1>2, <1>4 DEF Then
<1> QED
  BY <1>5 DEF f, n, q, Q, ForPrints

(* Once a part has failed the others do nothing *)
LEMMA ErrorsStay ==
  ASSUME NEW r, r.err # ""
  PROVE  /\ Parser!read_whitespace(r) = r /\ Parser!read_identifier(r) = r
         /\ Parser!read_str(r) = r /\ \A literal : Parser!Expect(r, literal) = r
         /\ Parser!read_end_control_group(r) = r
<1>1. Parser!read_whitespace(r) = r
  BY Zenon DEF Parser!read_whitespace
<1>2. \A literal : Parser!Expect(r, literal) = r
  BY Zenon DEF Parser!Expect
<1>3. Parser!read_identifier(r) = r
  BY <1>1, Zenon DEF Parser!read_identifier
<1>4. Parser!read_str(r) = r
  BY <1>1, Zenon DEF Parser!read_str
<1>5. Parser!read_end_control_group(r) = r
  BY <1>1, <1>2, Zenon DEF Parser!read_end_control_group
<1> QED
  BY <1>1, <1>2, <1>3, <1>4, <1>5

LEMMA PrintedKinds ==
  ASSUME NEW t
  PROVE  /\ t.kind = "eof" => Parser!PrintToken(t) = <<>>
         /\ t.kind = "for" => Parser!PrintToken(t) = <<"{", "%", " ">>
                \o (<<"for", " ">> \o t.val[1] \o <<" ", "in", " ">> \o t.val[2]) \o <<" ", "%", "}">>
         /\ t.kind \in {"endswitch", "endfor"} => Parser!PrintToken(t) = <<"{", "%", " ">>
                \o <<t.kind>> \o <<" ", "%", "}">>
         /\ t.kind \in {"switch", "case"} => Parser!PrintToken(t) = <<"{", "%", " ">>
                \o (<<t.kind, " ">> \o t.val[1]) \o <<" ", "%", "}">>
         /\ t.kind = "replacement" => Parser!PrintToken(t) = <<"{", "{", " ">> \o t.val[1]
                \o (IF t.val[2] = Parser!NoFilter THEN <<>> ELSE <<" ", "|", " ">> \o t.val[2])
                \o <<" ", "}", "}">>
         /\ t.kind = "blob" => Parser!PrintToken(t) =
                IF t.val[1] = <<"{", "{">> THEN t.val[1] \o t.val[1] ELSE t.val[1]
<1>1. t.kind = "eof" => Parser!PrintToken(t) = <<>>
  BY Zenon DEF Parser!PrintToken
<1>2. t.kind = "for" => Parser!PrintToken(t) = <<"{", "%", " ">>
        \o (<<"for", " ">> \o t.val[1] \o <<" ", "in", " ">> \o t.val[2]) \o <<" ", "%", "}">>
  BY Zenon DEF Parser!PrintToken
<1>3. t.kind \in {"endswitch", "endfor"} => Parser!PrintToken(t) = <<"{", "%", " ">>
                \o <<t.kind>> \o <<" ", "%", "}">>
  BY Zenon DEF Parser!PrintToken
<1>4. t.kind \in {"switch", "case"} => Parser!PrintToken(t) = <<"{", "%", " ">>
                \o (<<t.kind, " ">> \o t.val[1]) \o <<" ", "%", "}">>
  BY Zenon DEF Parser!PrintToken
<1>5. t.kind = "replacement" => Parser!PrintToken(t) = <<"{", "{", " ">> \o t.val[1]
                \o (IF t.val[2] = Parser!NoFilter THEN <<>> ELSE <<" ", "|", " ">> \o t.val[2])
                \o <<" ", "}", "}">>
  BY Zenon DEF Parser!PrintToken
<1>6. t.kind = "blob" => Parser!PrintToken(t) =
                IF t.val[1] = <<"{", "{">> THEN t.val[1] \o t.val[1] ELSE t.val[1]
  BY Zenon DEF Parser!PrintToken
<1> QED
  BY <1>1, <1>2, <1>3, <1>4, <1>5, <1>6

(* What has been read of a text is printed before what is left of it *)
Kinds == {"eof", "blob", "replacement", "switch", "case", "endswitch", "for", "endfor"}
Lexed(A, t) ==
    /\ t.kind \in Kinds
    /\ t.val \in Seq(Seq(A))
    /\ t.kind = "case" => t.val[1] # <<>>
Printed(A, s, t) ==
    /\ Lexed(A, t)
    /\ t.rest \in Seq(A)
    /\ Parser!PrintToken(t) \in Seq(A)
    /\ s = Parser!PrintToken(t) \o t.rest

Ok(r) == r.err = ""
OpensControl(s) == Parser!StartsWith(s, <<"{", "%">>)

LEMMA GotOneTwo ==
  ASSUME NEW S, NEW v \in S, NEW w \in S
  PROVE  /\ Append(<<>>, w) = <<w>> /\ <<w>>[1] = w
         /\ Append(<<v>>, w) = <<v, w>> /\ <<v, w>>[1] = v /\ <<v, w>>[2] = w
<1>1. <<w>>[1] = w /\ <<v, w>>[1] = v /\ <<v, w>>[2] = w
  OBVIOUS
<1>2. Append(<<>>, w) = <<w>>
  OBVIOUS
<1>3. Append(<<v>>, w) = <<v, w>>
  <2>1. <<v>> \in Seq(S) /\ <<w>> \in Seq(S)
    OBVIOUS
  <2>2. Append(<<v>>, w) = <<v>> \o <<w>>
    BY <2>1, AppendIsConcat
  <2> QED
    BY <2>2, PairOf
<1> QED
  BY <1>1, <1>2, <1>3

LEMMA ControlReads ==
  ASSUME NEW A, Literals \subseteq A, NEW s \in Seq(A), OpensControl(s),
         Ok(Parser!ReadControl(s))
  PROVE  Printed(A, s, Parser!ReadControl(s))
<1> DEFINE t == Parser!ReadControl(s)
           r0 == Parser!Reader(Parser!Drop(s, 2))
           r == Parser!read_whitespace(r0)
           kw == Head(r.rest)
           body == [r EXCEPT !.rest = Parser!Drop(@, 1)]
           End(x) == Parser!read_end_control_group(x)
           Id(x) == Parser!read_identifier(x)
           In(x) == Parser!Expect(Parser!read_whitespace(x), <<"in">>)
<1>1. /\ s = <<"{", "%">> \o r0.rest /\ IsReader(A, r0) /\ r0.got = <<>>
  <2>1. "{" \in A /\ "%" \in A
    BY DEF Literals
  <2>2. <<"{", "%">> \in Seq(A) /\ Len(<<"{", "%">>) = 2
    BY <2>1, ShortSeqs
  <2>3. s = <<"{", "%">> \o Parser!Drop(s, 2) /\ Parser!Drop(s, 2) \in Seq(A)
    <3> DEFINE p == <<"{", "%">>
    <3>1. p \in Seq(A) /\ Len(p) = 2 /\ Parser!StartsWith(s, p)
      BY <2>2 DEF OpensControl
    <3> HIDE DEF p
    <3>2. s = p \o Parser!Drop(s, 2) /\ Parser!Drop(s, 2) \in Seq(A)
      BY <3>1, SplitPrefix
    <3> QED
      BY <3>2 DEF p
  <2>4. \A u \in Seq(A) : Parser!Reader(u).rest = u /\ IsReader(A, Parser!Reader(u))
                          /\ Parser!Reader(u).got = <<>>
    <3> TAKE u \in Seq(A)
    <3> DEFINE e == <<>>
    <3>1. "" \in Errors
      BY DEF Errors
    <3>3. e \in Seq(Seq(A))
      BY EmptySeq
    <3> HIDE DEF e
    <3>2. [rest |-> u, got |-> e, err |-> ""] \in [rest : Seq(A), got : Seq(Seq(A)), err : Errors]
      BY <3>1, <3>3
    <3> QED
      BY <3>2 DEF Parser!Reader, IsReader, e
  <2> QED
    BY <2>3, <2>4
<1>2. /\ r.err = ""
      /\ \/ kw = "switch" /\ t = Parser!Token(kw, End(Id(body)))
         \/ kw = "case" /\ t = Parser!Token(kw, End(Parser!read_str(body)))
         \/ kw \in {"endswitch", "endfor"} /\ t = Parser!Token(kw, End(body))
         \/ kw = "for" /\ t = Parser!Token(kw, End(Id(In(Id(body)))))
  <2> DEFINE k == IF r.err = "" THEN Head(r.rest) ELSE ""
             t1 == Parser!Token(k, End(Id(body)))
             t2 == Parser!Token(k, End(Parser!read_str(body)))
             t3 == Parser!Token(k, End(body))
             t4 == Parser!Token(k, End(Id(In(Id(body)))))
             t5 == Parser!Token("", Parser!Fails(r, "SyntaxError"))
             t0 == Parser!Token("", r)
  <2>1. t = CASE r.err # "" -> t0 [] k = "switch" -> t1 [] k = "case" -> t2
              [] k \in {"endswitch", "endfor"} -> t3 [] k = "for" -> t4 [] OTHER -> t5
    BY DEF Parser!ReadControl
  <2>2. t0.err = r.err
    BY DEF Parser!Token
  <2>3. r.err = "" => t5.err = "SyntaxError"
    <3> HIDE DEF t, kw, body, r
    <3>1. ASSUME r.err = ""
          PROVE  Parser!Fails(r, "SyntaxError").err = "SyntaxError"
      <4>1. r \in [rest : Seq(A), got : Seq(Seq(A)), err : Errors]
        BY <1>1, <3>1, WhitespaceReads DEF r, IsReader
      <4> QED
        BY <4>1 DEF Parser!Fails
    <3> QED
      BY <3>1 DEF Parser!Token
  <2>4. r.err # "" => k = ""
    OBVIOUS
  <2>5. r.err = "" => k = kw
    OBVIOUS
  <2>6. t.err = ""
    BY DEF Ok
  <2> HIDE DEF t, t0, t1, t2, t3, t4, t5, k, r, kw
  <2>7. r.err = ""
    <3> SUFFICES ASSUME r.err # "" PROVE FALSE
      OBVIOUS
    <3>1. t = t0
      BY <2>1, <2>4
    <3> QED
      BY <2>2, <2>6, <3>1
  <2>8. \/ k = "switch" /\ t = t1
        \/ k = "case" /\ t = t2
        \/ k \in {"endswitch", "endfor"} /\ t = t3
        \/ k = "for" /\ t = t4
    BY <2>1, <2>3, <2>6, <2>7
  <2> QED
    BY <2>5, <2>7, <2>8 DEF t1, t2, t3, t4
<1>3. /\ r0.rest = <<" ">> \o r.rest /\ IsReader(A, r) /\ r.got = <<>> /\ r.rest # <<>>
  <2> HIDE DEF r0
  <2> QED
    BY <1>1, <1>2, WhitespaceReads
<1>4. /\ r.rest = <<kw>> \o body.rest /\ kw \in A /\ IsReader(A, body) /\ body.got = <<>>
      /\ body.rest \in Seq(A)
  <2>1. r \in [rest : Seq(A), got : Seq(Seq(A)), err : Errors]
    BY <1>3 DEF IsReader
  <2> DEFINE u == r.rest
  <2>2. u \in Seq(A) /\ u # <<>>
    BY <1>3, <2>1
  <2> HIDE DEF u
  <2>3. u = <<Head(u)>> \o Tail(u) /\ Tail(u) \in Seq(A) /\ Head(u) \in A
    BY <2>2, HeadAndTail, HeadTailProperties
  <2>4. Tail(u) = Parser!Drop(u, 1)
    <3>1. Tail(u) = SubSeq(u, 2, Len(u))
      BY <2>2, TailIsSubSeq, Zenon
    <3>2. 1 + 1 = 2
      OBVIOUS
    <3> QED
      BY <3>1, <3>2 DEF Parser!Drop
  <2>5. body = [r EXCEPT !.rest = Parser!Drop(u, 1)]
    BY DEF u
  <2> HIDE DEF r
  <2>6. body.rest = Parser!Drop(u, 1) /\ body.got = r.got /\ IsReader(A, body)
    <3> HIDE DEF body
    <3>1. Parser!Drop(u, 1) \in Seq(A)
      BY <2>3, <2>4
    <3> QED
      BY <2>1, <2>5, <3>1 DEF IsReader
  <2> QED
    BY <1>3, <2>3, <2>4, <2>6 DEF u
<1>5. ASSUME NEW words \in Seq(A), t.rest \in Seq(A), Lexed(A, t),
             Parser!PrintToken(t) = <<"{", "%", " ">> \o words \o <<" ", "%", "}">>,
             r.rest = words \o (<<" ", "%", "}">> \o t.rest)
      PROVE  Printed(A, s, t)
  <2> HIDE DEF t, r, r0
  <2>1. s = <<"{", "%">> \o (<<" ">> \o (words \o (<<" ", "%", "}">> \o t.rest)))
    BY <1>1, <1>3, <1>5
  <2>2. LET g == <<"{", "%", " ">> \o words \o <<" ", "%", "}">>
        IN  /\ g \in Seq(A)
            /\ g \o t.rest = <<"{", "%">> \o (<<" ">> \o (words \o (<<" ", "%", "}">> \o t.rest)))
    BY <1>5, GroupPrints
  <2> QED
    BY <1>5, <2>1, <2>2 DEF Printed
<1>6. ASSUME NEW x, IsReader(A, x), t = Parser!Token(kw, End(x))
      PROVE  /\ t.kind = kw /\ t.rest = End(x).rest /\ t.val = x.got /\ t.rest \in Seq(A)
             /\ t.val \in Seq(Seq(A))
             /\ x.err = "" /\ x.rest = <<" ", "%", "}">> \o t.rest
  <2> HIDE DEF kw
  <2>1. t.kind = kw /\ t.rest = End(x).rest /\ t.val = End(x).got /\ t.err = End(x).err
    <3> HIDE DEF t
    <3> QED
      BY <1>6 DEF Parser!Token
  <2>2. End(x).err = ""
    BY <2>1 DEF Ok
  <2>3. /\ x.err = "" /\ IsReader(A, End(x)) /\ End(x).got = x.got
        /\ x.rest = <<" ", "%", "}">> \o End(x).rest
    <3> HIDE DEF t
    <3> QED
      BY <1>6, <2>2, EndReads
  <2>4. End(x).rest \in Seq(A) /\ End(x).got \in Seq(Seq(A))
    BY <2>3 DEF IsReader
  <2> HIDE DEF t, End
  <2> QED
    BY <2>1, <2>3, <2>4
<1>7. \A v, w \in Seq(A) : /\ Append(<<>>, w) = <<w>> /\ <<w>>[1] = w
                           /\ Append(<<v>>, w) = <<v, w>> /\ <<v, w>>[1] = v /\ <<v, w>>[2] = w
  BY GotOneTwo
<1> SUFFICES Printed(A, s, t)
  OBVIOUS
<1> HIDE DEF t, r, r0, body, kw
<1>8. CASE kw \in {"endswitch", "endfor"} /\ t = Parser!Token(kw, End(body))
  <2>1. t.kind = kw /\ t.rest \in Seq(A) /\ body.rest = <<" ", "%", "}">> \o t.rest
    BY <1>4, <1>6, <1>8
  <2>2. <<kw>> \in Seq(A)
    BY <1>4, ShortSeqs
  <2>3. Parser!PrintToken(t) = <<"{", "%", " ">> \o <<kw>> \o <<" ", "%", "}">>
    BY <1>8, <2>1, PrintedKinds
  <2> DEFINE words == <<kw>>
  <2>4. /\ words \in Seq(A) /\ Parser!PrintToken(t) = <<"{", "%", " ">> \o words \o <<" ", "%", "}">>
        /\ r.rest = words \o (<<" ", "%", "}">> \o t.rest)
    BY <1>4, <2>1, <2>2, <2>3
  <2> HIDE DEF words
  <2>5. Lexed(A, t)
    <3>1. t.val \in Seq(Seq(A))
      BY <1>4, <1>6, <1>8
    <3> QED
      BY <1>8, <2>1, <3>1 DEF Lexed, Kinds
  <2> QED
    BY <1>5, <2>1, <2>4, <2>5
<1>9. ASSUME NEW x, IsReader(A, x), NEW w \in Seq(A), kw \in {"switch", "case"},
             body.rest = <<" ">> \o (w \o x.rest), x.got = <<w>>, kw = "case" => w # <<>>,
             t = Parser!Token(kw, End(x))
      PROVE  Printed(A, s, t)
  <2>1. /\ t.kind = kw /\ t.val[1] = w /\ t.rest \in Seq(A)
        /\ body.rest = <<" ">> \o (w \o (<<" ", "%", "}">> \o t.rest))
    <3>1. /\ t.kind = kw /\ t.val = x.got /\ t.rest \in Seq(A)
          /\ x.rest = <<" ", "%", "}">> \o t.rest
      BY <1>6, <1>9
    <3>2. <<w>>[1] = w
      BY <1>7
    <3> QED
      BY <1>9, <3>1, <3>2
  <2>2. <<" ", "%", "}">> \o t.rest \in Seq(A)
    BY <1>6, <1>9 DEF IsReader
  <2> DEFINE words == <<kw, " ">> \o w
             after == <<" ", "%", "}">> \o t.rest
  <2>3. words \in Seq(A) /\ words \o after = <<kw>> \o (<<" ">> \o (w \o after))
    <3> HIDE DEF after
    <3>1. after \in Seq(A)
      BY <2>2 DEF after
    <3>2. kw \in A
      BY <1>4
    <3> QED
      <4>1. NamePrints(A, kw, w, after)
        BY <3>1, <3>2, NameWords
      <4> QED
        BY <4>1 DEF NamePrints
  <2>4. Parser!PrintToken(t) = <<"{", "%", " ">> \o words \o <<" ", "%", "}">>
    <3> HIDE DEF after
    <3>1. t.kind \in {"switch", "case"} => Parser!PrintToken(t) = <<"{", "%", " ">>
                \o (<<t.kind, " ">> \o t.val[1]) \o <<" ", "%", "}">>
      BY PrintedKinds
    <3> QED
      BY <1>9, <2>1, <3>1
  <2>5. r.rest = words \o after
    <3> HIDE DEF words
    <3> QED
      BY <1>4, <2>1, <2>3
  <2> HIDE DEF words
  <2>6. Lexed(A, t)
    <3>1. t.val \in Seq(Seq(A))
      BY <1>6, <1>9
    <3> QED
      BY <1>9, <2>1, <3>1 DEF Lexed, Kinds
  <2> QED
    BY <1>5, <2>1, <2>3, <2>4, <2>5, <2>6
<1>10. \A x : x.err # "" => End(x) = x
  BY ErrorsStay
<1>11. t.err = "" /\ \A k, x : Parser!Token(k, x).err = x.err
  BY DEF t, Parser!Token, Ok
<1>12. CASE kw = "switch" /\ t = Parser!Token(kw, End(Id(body)))
  <2> DEFINE x == Id(body)
  <2>1. x.err = ""
    <3> HIDE DEF x
    <3> QED
      BY <1>10, <1>11, <1>12 DEF x
  <2>2. IsReader(A, x) /\ \E w \in Seq(A) : body.rest = <<" ">> \o (w \o x.rest) /\ x.got = Append(body.got, w)
    BY <1>4, <2>1, IdentifierReads
  <2> HIDE DEF x
  <2>3. PICK w \in Seq(A) : body.rest = <<" ">> \o (w \o x.rest) /\ x.got = Append(body.got, w)
    BY <2>2
  <2>4. x.got = <<w>>
    BY <1>4, <1>7, <2>3
  <2>5. t = Parser!Token(kw, End(x)) /\ kw \in {"switch", "case"}
    BY <1>12 DEF x
  <2>6. kw # "case"
    BY <1>12
  <2> QED
    BY <1>9, <2>6, <2>2, <2>3, <2>4, <2>5
<1>13. CASE kw = "case" /\ t = Parser!Token(kw, End(Parser!read_str(body)))
  <2> DEFINE x == Parser!read_str(body)
  <2>1. x.err = ""
    <3> HIDE DEF x
    <3> QED
      BY <1>10, <1>11, <1>13 DEF x
  <2>2. IsReader(A, x) /\ \E w \in Seq(A) : body.rest = <<" ">> \o (w \o x.rest) /\ x.got = Append(body.got, w) /\ w # <<>>
    BY <1>4, <2>1, StringReads
  <2> HIDE DEF x
  <2>3. PICK w \in Seq(A) : body.rest = <<" ">> \o (w \o x.rest) /\ x.got = Append(body.got, w) /\ w # <<>>
    BY <2>2
  <2>4. x.got = <<w>>
    BY <1>4, <1>7, <2>3
  <2>5. t = Parser!Token(kw, End(x)) /\ kw \in {"switch", "case"}
    BY <1>13 DEF x
  <2> QED
    BY <1>9, <2>2, <2>3, <2>4, <2>5
<1>14. CASE kw = "for" /\ t = Parser!Token(kw, End(Id(In(Id(body)))))
  <2> DEFINE x1 == Id(body)
             x2 == Parser!read_whitespace(x1)
             x3 == In(x1)
             x == Id(x3)
             in == <<"in">>
  <2>1. x.err = ""
    <3> HIDE DEF x
    <3> QED
      BY <1>10, <1>11, <1>14 DEF x
  <2>2. in \in Seq(A)
    BY ShortSeqs DEF Literals
  <2>3. /\ x3.err # "" => x = x3
        /\ x2.err # "" => x3 = x2
        /\ x1.err # "" => x2 = x1
    <3> HIDE DEF x1
    <3>1. x1.err # "" => x2 = x1
      BY ErrorsStay
    <3> HIDE DEF x2
    <3>2. x2.err # "" => x3 = x2
      BY ErrorsStay DEF x2
    <3> HIDE DEF x3
    <3>3. x3.err # "" => x = x3
      BY ErrorsStay
    <3> QED
      BY <3>1, <3>2, <3>3
  <2>4. x3.err = "" /\ x2.err = "" /\ x1.err = ""
    <3> HIDE DEF x, x1, x2, x3
    <3> QED
      BY <2>1, <2>3
  <2>5. IsReader(A, x1) /\ \E w \in Seq(A) : body.rest = <<" ">> \o (w \o x1.rest) /\ x1.got = Append(body.got, w)
    BY <1>4, <2>4, IdentifierReads
  <2>6. IsReader(A, x2) /\ x2.got = x1.got /\ x1.rest = <<" ">> \o x2.rest
    <3> HIDE DEF x1
    <3> QED
      BY <2>4, <2>5, WhitespaceReads
  <2>7. IsReader(A, x3) /\ x3.got = x2.got /\ x2.rest = <<"in">> \o x3.rest
    <3>1. x3 = Parser!Expect(x2, in)
      OBVIOUS
    <3> HIDE DEF in, x2, x3
    <3>2. IsReader(A, x3) /\ x3.got = x2.got /\ x2.rest = in \o x3.rest
      BY <2>2, <2>4, <2>6, <3>1, ExpectReads
    <3> QED
      BY <3>2 DEF in
  <2>8. IsReader(A, x) /\ \E w \in Seq(A) : x3.rest = <<" ">> \o (w \o x.rest) /\ x.got = Append(x3.got, w)
    <3> HIDE DEF x3
    <3> QED
      BY <2>1, <2>7, IdentifierReads
  <2>9. t = Parser!Token(kw, End(x))
    BY <1>14
  <2> HIDE DEF x, x1, x2, x3, in
  <2>10. PICK v \in Seq(A) : body.rest = <<" ">> \o (v \o x1.rest) /\ x1.got = Append(body.got, v)
    BY <2>5
  <2>11. PICK w \in Seq(A) : x3.rest = <<" ">> \o (w \o x.rest) /\ x.got = Append(x3.got, w)
    BY <2>8
  <2>12. x.got = <<v, w>> /\ x.got[1] = v /\ x.got[2] = w
    <3>1. x3.got = <<v>>
      BY <1>4, <1>7, <2>6, <2>7, <2>10
    <3>2. x.got = Append(<<v>>, w)
      BY <2>11, <3>1
    <3>3. Append(<<v>>, w) = <<v, w>> /\ <<v, w>>[1] = v /\ <<v, w>>[2] = w
      BY <1>7
    <3> QED
      BY <3>2, <3>3
  <2>13. /\ t.kind = "for" /\ t.val[1] = v /\ t.val[2] = w /\ t.rest \in Seq(A)
         /\ x.rest = <<" ", "%", "}">> \o t.rest
    BY <1>6, <1>14, <2>8, <2>9, <2>12
  <2> DEFINE words == <<"for", " ">> \o v \o <<" ", "in", " ">> \o w
             after == <<" ", "%", "}">> \o t.rest
  <2>14. Parser!PrintToken(t) = <<"{", "%", " ">> \o words \o <<" ", "%", "}">>
    BY <2>13, PrintedKinds
  <2>15. after \in Seq(A)
    <3>1. x.rest \in Seq(A)
      BY <2>8 DEF IsReader
    <3> QED
      BY <2>13, <3>1
  <2>16. words \in Seq(A) /\ words \o after = <<"for">> \o (<<" ">> \o (v \o (<<" ">> \o (<<"in">> \o
                                 (<<" ">> \o (w \o after))))))
    <3> HIDE DEF after
    <3> QED
      <4>1. ForPrints(A, v, w, after)
        BY <2>15, ForWords
      <4> QED
        BY <4>1 DEF ForPrints
  <2>17. r.rest = words \o after
    <3>1. x.rest = after
      BY <2>13
    <3> HIDE DEF words, after
    <3>2. r.rest = <<"for">> \o body.rest
      BY <1>4, <1>14
    <3>3. body.rest = <<" ">> \o (v \o (<<" ">> \o (<<"in">> \o (<<" ">> \o (w \o after)))))
      BY <2>6, <2>7, <2>10, <2>11, <3>1
    <3> QED
      BY <2>16, <3>2, <3>3
  <2> HIDE DEF words
  <2>18. Lexed(A, t)
    <3>1. t.val \in Seq(Seq(A))
      BY <1>6, <1>14, <2>8, <2>9
    <3> QED
      BY <2>13, <3>1 DEF Lexed, Kinds
  <2> QED
    BY <1>5, <2>13, <2>14, <2>16, <2>17, <2>18
<1> QED
  BY <1>2, <1>8, <1>12, <1>13, <1>14

PlainPrints(A, v, t) ==
    LET g == <<"{", "{", " ">> \o v \o <<>> \o <<" ", "}", "}">>
    IN  /\ g \in Seq(A)
        /\ g \o t = <<"{", "{">> \o (<<" ">> \o (v \o (<<" ">> \o (<<"}", "}">> \o t))))

FilterPrints(A, v, w, t) ==
    LET g == <<"{", "{", " ">> \o v \o (<<" ", "|", " ">> \o w) \o <<" ", "}", "}">>
    IN  /\ g \in Seq(A)
        /\ g \o t = <<"{", "{">> \o (<<" ">> \o (v \o (<<" ">> \o (<<"|">> \o (<<" ">> \o
                        (w \o (<<" ">> \o (<<"}", "}">> \o t))))))))

LEMMA ReplacementPrints ==
  ASSUME NEW A, Literals \subseteq A, NEW v \in Seq(A), NEW w \in Seq(A), NEW t \in Seq(A)
  PROVE  PlainPrints(A, v, t) /\ FilterPrints(A, v, w, t)
<1> DEFINE o == <<"{", "{">>
           q == <<" ">>
           b == <<"|">>
           e == <<"}", "}">>
           Q == Seq(A)
<1>1. " " \in A /\ "{" \in A /\ "}" \in A /\ "|" \in A
  BY DEF Literals
<1>2. o \in Q /\ q \in Q /\ b \in Q /\ e \in Q
  BY <1>1, ShortSeqs
<1>3. /\ <<"{", "{", " ">> = Then(o, q) /\ <<" ", "}", "}">> = Then(q, e)
      /\ <<" ", "|", " ">> = Then(q, Then(b, q))
  <2>1. <<"{", "{", " ">> = o \o q
    BY <1>1, TripleOf
  <2>2. <<" ", "}", "}">> = q \o e
    BY <1>1, TripleOf
  <2>3. <<" ", "|", " ">> = q \o <<"|", " ">>
    BY <1>1, TripleOf
  <2>4. <<"|", " ">> = b \o q
    BY <1>1, PairOf
  <2> QED
    BY <2>1, <2>2, <2>3, <2>4 DEF Then
<1>4. o \in Q /\ q \in Q /\ b \in Q /\ e \in Q /\ v \in Q /\ w \in Q /\ t \in Q /\ IsText(Q)
  BY <1>2, Regroup
<1>5. \A u \in Q : u \o <<>> = u
  BY ConcatEmptySeq
<1> HIDE DEF o, q, b, e, Q
<1> DEFINE open == Then(Then(o, q), v)
           close == Then(q, e)
           bar == Then(Then(q, Then(b, q)), w)
<1>6. /\ Then(o, q) \in Q /\ open \in Q /\ close \in Q
      /\ Then(close, t) = Then(q, Then(e, t)) /\ Then(close, t) \in Q
  <2>1. Then(o, q) \in Q /\ close \in Q
    BY <1>4 DEF IsText
  <2>2. open \in Q
    BY <1>4, <2>1 DEF IsText
  <2>3. Then(close, t) = Then(q, Then(e, t))
    BY <1>4 DEF IsText
  <2>4. Then(close, t) \in Q
    <3> HIDE DEF close
    <3> QED
      BY <1>4, <2>1 DEF IsText
  <2> QED
    BY <2>1, <2>2, <2>3, <2>4
<1>7. \A y \in Q : Then(open, y) = Then(o, Then(q, Then(v, y)))
  <2> TAKE y \in Q
  <2>1. Then(v, y) \in Q
    BY <1>4 DEF IsText
  <2>2. Then(open, y) = Then(Then(o, q), Then(v, y))
    BY <1>4, <1>6 DEF IsText
  <2>3. Then(Then(o, q), Then(v, y)) = Then(o, Then(q, Then(v, y)))
    BY <1>4, <2>1 DEF IsText
  <2> QED
    BY <2>2, <2>3
<1>8. bar \in Q /\ \A y \in Q : Then(bar, y) = Then(q, Then(b, Then(q, Then(w, y))))
  <2>1. Then(b, q) \in Q /\ Then(q, Then(b, q)) \in Q
    <3>1. Then(b, q) \in Q
      BY <1>4 DEF IsText
    <3> QED
      BY <1>4, <3>1 DEF IsText
  <2>2. bar \in Q
    BY <1>4, <2>1 DEF IsText
  <2> SUFFICES ASSUME NEW y \in Q
               PROVE  Then(bar, y) = Then(q, Then(b, Then(q, Then(w, y))))
    BY <2>2
  <2> DEFINE u == Then(w, y)
  <2>3. u \in Q
    BY <1>4 DEF IsText
  <2>4. Then(bar, y) = Then(Then(q, Then(b, q)), u)
    BY <1>4, <2>1 DEF IsText
  <2> HIDE DEF u
  <2>5. Then(Then(q, Then(b, q)), u) = Then(q, Then(Then(b, q), u))
    BY <1>4, <2>1, <2>3 DEF IsText
  <2>6. Then(Then(b, q), u) = Then(b, Then(q, u))
    BY <1>4, <2>3 DEF IsText
  <2> QED
    BY <2>4, <2>5, <2>6 DEF u
<1> HIDE DEF open, close, bar
<1>9. /\ Then(open, close) \in Q
      /\ Then(Then(open, close), t) = Then(o, Then(q, Then(v, Then(close, t))))
  <2>1. Then(open, close) \in Q /\ Then(Then(open, close), t) = Then(open, Then(close, t))
    BY <1>4, <1>6 DEF IsText
  <2> QED
    BY <1>6, <1>7, <2>1
<1>10. /\ Then(Then(open, bar), close) \in Q
       /\ Then(Then(Then(open, bar), close), t)
            = Then(o, Then(q, Then(v, Then(q, Then(b, Then(q, Then(w, Then(close, t))))))))
  <2>1. Then(open, bar) \in Q /\ Then(bar, Then(close, t)) \in Q
    BY <1>4, <1>6, <1>8 DEF IsText
  <2>2. /\ Then(Then(open, bar), close) \in Q
        /\ Then(Then(Then(open, bar), close), t) = Then(Then(open, bar), Then(close, t))
    BY <1>4, <1>6, <2>1 DEF IsText
  <2>3. Then(Then(open, bar), Then(close, t)) = Then(open, Then(bar, Then(close, t)))
    BY <1>4, <1>6, <1>8 DEF IsText
  <2> QED
    BY <1>6, <1>7, <1>8, <2>1, <2>2, <2>3
<1>11. PlainPrints(A, v, t)
  <2> DEFINE g == <<"{", "{", " ">> \o v \o <<>> \o <<" ", "}", "}">>
  <2>1. (<<"{", "{", " ">> \o v) \o <<>> = Then(Then(o, q), v)
    BY <1>3, <1>5, <1>6 DEF Then, open
  <2>2. g = Then(open, close)
    BY <1>3, <2>1 DEF Then, open, close
  <2>3. /\ g \in Q
        /\ g \o t = o \o (q \o (v \o (q \o (e \o t))))
    BY <1>6, <1>9, <2>2 DEF Then
  <2> HIDE DEF g
  <2> QED
    BY <2>3 DEF PlainPrints, g, o, q, e, Q
<1>12. FilterPrints(A, v, w, t)
  <2> DEFINE g == <<"{", "{", " ">> \o v \o (<<" ", "|", " ">> \o w) \o <<" ", "}", "}">>
  <2>2. g = Then(Then(open, bar), close)
    BY <1>3 DEF Then, open, close, bar
  <2>3. /\ g \in Q
        /\ g \o t = o \o (q \o (v \o (q \o (b \o (q \o (w \o (q \o (e \o t))))))))
    BY <1>6, <1>10, <2>2 DEF Then
  <2> HIDE DEF g
  <2> QED
    BY <2>3 DEF FilterPrints, g, o, q, e, b, Q
<1> QED
  BY <1>11, <1>12

OpensReplacement(s) == Parser!StartsWith(s, <<"{", "{">>)

LEMMA TextReader ==
  ASSUME NEW A, NEW u \in Seq(A)
  PROVE  Parser!Reader(u).rest = u /\ IsReader(A, Parser!Reader(u)) /\ Parser!Reader(u).got = <<>>
<1> DEFINE e == <<>>
<1>1. "" \in Errors
  BY DEF Errors
<1>2. e \in Seq(Seq(A))
  BY EmptySeq
<1> HIDE DEF e
<1>3. [rest |-> u, got |-> e, err |-> ""] \in [rest : Seq(A), got : Seq(Seq(A)), err : Errors]
  BY <1>1, <1>2
<1> QED
  BY <1>3 DEF Parser!Reader, IsReader, e

(* A field of a reader changed *)
RestSet(x, r, u) == x = [r EXCEPT !.rest = u]
GotAppended(x, r, w) == x = [r EXCEPT !.got = Append(@, w)]

LEMMA ReaderRest ==
  ASSUME NEW A, NEW r, IsReader(A, r), NEW u \in Seq(A), NEW x, RestSet(x, r, u)
  PROVE  IsReader(A, x) /\ x.rest = u /\ x.got = r.got /\ x.err = r.err
<1>1. r \in [rest : Seq(A), got : Seq(Seq(A)), err : Errors]
  BY DEF IsReader
<1> QED
  BY <1>1 DEF IsReader, RestSet

LEMMA ReaderGot ==
  ASSUME NEW A, NEW r, IsReader(A, r), NEW w \in Seq(A), NEW x, GotAppended(x, r, w)
  PROVE  IsReader(A, x) /\ x.rest = r.rest /\ x.got = Append(r.got, w) /\ x.err = r.err
<1> DEFINE g == Append(r.got, w)
<1>1. r \in [rest : Seq(A), got : Seq(Seq(A)), err : Errors]
  BY DEF IsReader
<1>2. r.got \in Seq(Seq(A))
  BY <1>1
<1>3. g \in Seq(Seq(A)) /\ x = [r EXCEPT !.got = g]
  BY <1>2, AppendProperties DEF GotAppended
<1> HIDE DEF g
<1>4. IsReader(A, x) /\ x.rest = r.rest /\ x.got = g /\ x.err = r.err
  BY <1>1, <1>3 DEF IsReader
<1> QED
  BY <1>4 DEF g

LEMMA FourOf ==
  ASSUME NEW A, NEW a \in A, NEW b \in A
  PROVE  /\ <<a, b, a, b>> = <<a, b>> \o <<a, b>> /\ <<a, b, a, b>> \in Seq(A)
         /\ Len(<<a, b, a, b>>) = 4
<1> DEFINE t == <<a, b>> \o <<a, b>>
           p == <<a, b, a, b>>
<1>1. /\ <<a, b>> \in Seq(A) /\ Len(<<a, b>>) = 2 /\ <<a, b>>[1] = a /\ <<a, b>>[2] = b
      /\ p \in Seq(A) /\ Len(p) = 4 /\ p[1] = a /\ p[2] = b /\ p[3] = a /\ p[4] = b
  OBVIOUS
<1>2. t \in Seq(A) /\ Len(t) = 4 /\ t[1] = a /\ t[2] = b /\ t[3] = a /\ t[4] = b
  <2>1. /\ \A i \in 1 .. 2 + 2 : t[i] = IF i <= 2 THEN <<a, b>>[i] ELSE <<a, b>>[i - 2]
        /\ t \in Seq(A) /\ Len(t) = 2 + 2
    BY <1>1, ConcatProperties
  <2>2. /\ 1 \in 1 .. 2 + 2 /\ 2 \in 1 .. 2 + 2 /\ 3 \in 1 .. 2 + 2 /\ 4 \in 1 .. 2 + 2
        /\ 3 - 2 = 1 /\ 4 - 2 = 2 /\ 2 + 2 = 4 /\ 1 <= 2 /\ 2 <= 2 /\ ~(3 <= 2) /\ ~(4 <= 2)
    OBVIOUS
  <2> HIDE DEF t, p
  <2> QED
    BY <1>1, <2>1, <2>2
<1>3. \A i \in 1 .. 4 : i = 1 \/ i = 2 \/ i = 3 \/ i = 4
  OBVIOUS
<1> HIDE DEF t, p
<1>4. Len(t) = Len(p) /\ \A i \in 1 .. Len(t) : p[i] = t[i]
  BY <1>1, <1>2, <1>3
<1>5. p = t
  BY <1>1, <1>2, <1>4, SeqEqual
<1> QED
  BY <1>1, <1>5 DEF t, p

LEMMA FirstPart ==
  ASSUME NEW A, NEW c \in A, NEW y \in Seq(A)
  PROVE  /\ <<c>> \o y # <<>> /\ Head(<<c>> \o y) = c /\ Tail(<<c>> \o y) = y
         /\ Parser!Drop(<<c>> \o y, 1) = y
<1>1. <<c>> \o y # <<>> /\ Head(<<c>> \o y) = c /\ Tail(<<c>> \o y) = y /\ <<c>> \o y \in Seq(A)
  OBVIOUS
<1>2. Parser!Drop(<<c>> \o y, 1) = Tail(<<c>> \o y)
  <2> DEFINE u == <<c>> \o y
  <2>1. u \in Seq(A) /\ u # <<>>
    BY <1>1
  <2> HIDE DEF u
  <2>2. Tail(u) = SubSeq(u, 2, Len(u)) /\ 1 + 1 = 2
    BY <2>1, TailIsSubSeq
  <2> QED
    BY <2>2 DEF Parser!Drop, u
<1> QED
  BY <1>1, <1>2

LEMMA FailedReader ==
  ASSUME NEW A, NEW r, IsReader(A, r), NEW e \in Errors
  PROVE  IsReader(A, Parser!Fails(r, e)) /\ Parser!Fails(r, e).err = e
<1>1. r \in [rest : Seq(A), got : Seq(Seq(A)), err : Errors]
  BY DEF IsReader
<1> QED
  BY <1>1 DEF Parser!Fails, IsReader

(* What a helper leaves is a reader, failed or not *)
LEMMA StaysReader ==
  ASSUME NEW A, NEW r, IsReader(A, r)
  PROVE  IsReader(A, Parser!read_whitespace(r)) /\ IsReader(A, Parser!read_identifier(r))
<1>1. \A y : IsReader(A, y) => IsReader(A, Parser!Fails(y, "IndexError"))
                               /\ IsReader(A, Parser!Fails(y, "SyntaxError"))
  BY FailedReader DEF Errors
<1>2. IsReader(A, Parser!read_whitespace(r))
  <2> DEFINE x == Parser!read_whitespace(r)
             good == [r EXCEPT !.rest = Tail(@)]
  <2>1. x \in {r, Parser!Fails(r, "IndexError"), Parser!Fails(r, "SyntaxError")}
        \/ (x = good /\ r.err = "")
    BY DEF Parser!read_whitespace
  <2>2. good.err = r.err
    <3>1. r \in [rest : Seq(A), got : Seq(Seq(A)), err : Errors]
      BY DEF IsReader
    <3> DEFINE u == Tail(r.rest)
    <3>2. good = [r EXCEPT !.rest = u]
      OBVIOUS
    <3> HIDE DEF u, good
    <3> QED
      BY <3>1, <3>2
  <2>3. x.err = "" => IsReader(A, x)
    BY WhitespaceReads
  <2> HIDE DEF x, good
  <2> QED
    BY <1>1, <2>1, <2>2, <2>3 DEF x
<1>3. IsReader(A, Parser!read_identifier(r))
  <2> DEFINE y == Parser!read_whitespace(r)
             n == Parser!WordLength(y.rest)
             x == Parser!read_identifier(r)
             w == SubSeq(y.rest, 1, n)
             d == Parser!Drop(y.rest, n)
             good == [y EXCEPT !.rest = d, !.got = Append(@, w)]
  <2>1. x \in {y, Parser!Fails(y, "IndexError")} \/ (x = good /\ y.err = "")
    BY DEF Parser!read_identifier
  <2>2. good.err = y.err
    <3>1. y \in [rest : Seq(A), got : Seq(Seq(A)), err : Errors]
      BY <1>2 DEF IsReader
    <3> HIDE DEF d, w, y
    <3> QED
      BY <3>1
  <2>3. x.err = "" => IsReader(A, x)
    BY IdentifierReads
  <2> HIDE DEF x, good, y
  <2> QED
    BY <1>1, <1>2, <2>1, <2>2, <2>3 DEF x, y
<1> QED
  BY <1>2, <1>3

LEMMA ReplacementReads ==
  ASSUME NEW A, Literals \subseteq A, NEW s \in Seq(A), OpensReplacement(s),
         Ok(Parser!ReadReplacement(s))
  PROVE  Printed(A, s, Parser!ReadReplacement(s))
<1> DEFINE t == Parser!ReadReplacement(s)
           r0 == Parser!Reader(Parser!Drop(s, 2))
           id == Parser!read_identifier(r0)
           name == IF id.err = "" /\ id.got = <<<<>>>> THEN Parser!Fails(id, "SyntaxError") ELSE id
           spaced == Parser!read_whitespace(name)
           Bar == spaced.err = "" /\ Parser!StartsWith(spaced.rest, <<"|">>)
           f0 == [spaced EXCEPT !.rest = Tail(@)]
           f1 == Parser!read_identifier(f0)
           f2 == Parser!read_whitespace(f1)
           filtered == IF Bar THEN f2 ELSE [spaced EXCEPT !.got = Append(@, Parser!NoFilter)]
           last == Parser!Expect(filtered, <<"}", "}">>)
<1>1. /\ s = <<"{", "{">> \o r0.rest /\ IsReader(A, r0) /\ r0.got = <<>>
  <2>1. "{" \in A
    BY DEF Literals
  <2>2. <<"{", "{">> \in Seq(A) /\ Len(<<"{", "{">>) = 2
    BY <2>1, ShortSeqs
  <2>3. s = <<"{", "{">> \o Parser!Drop(s, 2) /\ Parser!Drop(s, 2) \in Seq(A)
    <3> DEFINE p == <<"{", "{">>
    <3>1. p \in Seq(A) /\ Len(p) = 2 /\ Parser!StartsWith(s, p)
      BY <2>2 DEF OpensReplacement
    <3> HIDE DEF p
    <3>2. s = p \o Parser!Drop(s, 2) /\ Parser!Drop(s, 2) \in Seq(A)
      BY <3>1, SplitPrefix
    <3> QED
      BY <3>2 DEF p
  <2> QED
    BY <2>3, TextReader
<1>2. t = Parser!Token("replacement", last)
  BY DEF Parser!ReadReplacement
<1>3. /\ t.kind = "replacement" /\ t.rest = last.rest /\ t.val = last.got /\ last.err = ""
  <2>1. t.kind = "replacement" /\ t.rest = last.rest /\ t.val = last.got /\ t.err = last.err
    <3> HIDE DEF t, last
    <3> QED
      BY <1>2 DEF Parser!Token
  <2>2. t.err = ""
    BY DEF Ok
  <2> QED
    BY <2>1, <2>2
<1> SUFFICES Printed(A, s, t)
  OBVIOUS
<1> HIDE DEF t
<1>4. filtered.err = ""
  <2> DEFINE f == filtered
             e == <<"}", "}">>
  <2>1. last = Parser!Expect(f, e)
    OBVIOUS
  <2> HIDE DEF f, last, e
  <2>2. f.err # "" => last = f
    BY <2>1, ErrorsStay
  <2>3. f.err = ""
    BY <1>3, <2>2
  <2> QED
    BY <2>3 DEF f
<1>5. id.err = "" /\ IsReader(A, id) /\ name = id /\ spaced.err = ""
  <2>1. name.err # "" => spaced = name
    <3> HIDE DEF name
    <3> QED
      BY ErrorsStay
  <2>2. id.err = "" => IsReader(A, id)
    BY <1>1, IdentifierReads
  <2>3. id.err # "" => name = id
    OBVIOUS
  <2>4. id.err = "" /\ id.got = <<<<>>>> => name.err = "SyntaxError"
    <3> SUFFICES ASSUME id.err = "", id.got = <<<<>>>> PROVE name.err = "SyntaxError"
      OBVIOUS
    <3>1. IsReader(A, id) /\ "SyntaxError" \in Errors
      BY <2>2 DEF Errors
    <3>2. Parser!Fails(id, "SyntaxError").err = "SyntaxError"
      BY <3>1, FailedReader
    <3> QED
      BY <3>2
  <2>5. spaced.err = ""
    <3> SUFFICES ASSUME spaced.err # "" PROVE FALSE
      OBVIOUS
    <3>1. ~Bar
      OBVIOUS
    <3>2. filtered.err = spaced.err
      <4> DEFINE g == Append(spaced.got, Parser!NoFilter)
      <4>1. filtered = [spaced EXCEPT !.got = g]
        BY <3>1
      <4>2. spaced \in [rest : Seq(A), got : Seq(Seq(A)), err : Errors]
        <5>1. IsReader(A, name)
          <6>1. IsReader(A, id) /\ "SyntaxError" \in Errors
            BY <1>1, StaysReader DEF Errors
          <6>2. IsReader(A, Parser!Fails(id, "SyntaxError"))
            BY <6>1, FailedReader
          <6> HIDE DEF id
          <6> QED
            BY <6>1, <6>2
        <5> QED
          BY <5>1, StaysReader DEF IsReader
      <4> HIDE DEF spaced, g, filtered
      <4> QED
        BY <4>1, <4>2
    <3> QED
      BY <1>4, <3>2
  <2>6. name.err = ""
    <3> HIDE DEF name, spaced
    <3> QED
      BY <2>1, <2>5
  <2>7. id.err = "" /\ name = id
    <3>1. id.err = ""
      <4> HIDE DEF name, id
      <4> QED
        BY <2>3, <2>6
    <3>2. id.got # <<<<>>>>
      <4> HIDE DEF name, id
      <4> QED
        BY <2>4, <2>6, <3>1
    <3> QED
      BY <3>1, <3>2
  <2> QED
    BY <2>2, <2>5, <2>7
<1>6. PICK v \in Seq(A) : r0.rest = <<" ">> \o (v \o id.rest) /\ id.got = Append(r0.got, v)
  <2> HIDE DEF r0
  <2> QED
    BY <1>1, <1>5, IdentifierReads
<1>7. /\ IsReader(A, spaced) /\ spaced.got = id.got /\ id.rest = <<" ">> \o spaced.rest
  <2>1. spaced = Parser!read_whitespace(id)
    BY <1>5
  <2> HIDE DEF id, spaced
  <2> QED
    BY <1>5, <2>1, WhitespaceReads
<1>8. spaced.got = <<v>>
  <2>1. Append(<<>>, v) = <<v>>
    BY GotOneTwo
  <2> HIDE DEF id, spaced, r0
  <2> QED
    BY <1>1, <1>6, <1>7, <2>1
<1>9. ASSUME NEW f, IsReader(A, f), last = Parser!Expect(f, <<"}", "}">>)
      PROVE  /\ IsReader(A, last) /\ t.rest \in Seq(A) /\ t.val = f.got /\ Lexed(A, t)
             /\ f.rest = <<"}", "}">> \o t.rest /\ f.err = ""
  <2> DEFINE e == <<"}", "}">>
  <2>1. e \in Seq(A)
    <3>1. "}" \in A
      BY DEF Literals
    <3> QED
      BY <3>1, ShortSeqs
  <2>2. last = Parser!Expect(f, e)
    BY <1>9
  <2> HIDE DEF last, e
  <2>5. IsReader(A, f) /\ Parser!Expect(f, e).err = ""
    BY <1>3, <1>9, <2>2
  <2>3. f.err = "" /\ IsReader(A, last) /\ last.got = f.got /\ f.rest = e \o last.rest
    BY <2>1, <2>2, <2>5, ExpectReads
  <2>4. last.rest \in Seq(A) /\ last.got \in Seq(Seq(A))
    BY <2>3 DEF IsReader
  <2>6. Lexed(A, t)
    BY <1>3, <2>4 DEF Lexed, Kinds
  <2> QED
    BY <1>3, <2>3, <2>4, <2>6 DEF e
<1>10. CASE ~Bar
  <2> DEFINE f == [spaced EXCEPT !.got = Append(@, Parser!NoFilter)]
  <2>1. /\ IsReader(A, f) /\ f.rest = spaced.rest /\ f.got = <<v, <<>>>>
    <3>0. IsReader(A, spaced)
      BY <1>7
    <3>1. <<>> \in Seq(A)
      BY EmptySeq
    <3> DEFINE n == <<>>
    <3>2. GotAppended(f, spaced, n)
      BY DEF Parser!NoFilter, GotAppended
    <3>3. Append(<<v>>, n) = <<v, n>>
      BY <3>1, GotOneTwo
    <3> HIDE DEF spaced, n
    <3>4. n \in Seq(A)
      BY <3>1 DEF n
    <3> HIDE DEF f
    <3>5. IsReader(A, f) /\ f.rest = spaced.rest /\ f.got = Append(spaced.got, n)
      BY <3>0, <3>2, <3>4, ReaderGot
    <3> QED
      BY <1>8, <3>2, <3>3, <3>5 DEF n
  <2>2. last = Parser!Expect(f, <<"}", "}">>)
    BY <1>10
  <2>3. /\ t.rest \in Seq(A) /\ Lexed(A, t) /\ t.val = <<v, <<>>>> /\ f.rest = <<"}", "}">> \o t.rest
    <3> HIDE DEF f, last
    <3> QED
      BY <1>9, <2>1, <2>2
  <2>4. t.val[1] = v /\ t.val[2] = <<>>
    <3> DEFINE n == <<>>
    <3>1. n \in Seq(A)
      BY EmptySeq
    <3>2. t.val = <<v, n>>
      BY <2>3
    <3> HIDE DEF n
    <3>3. <<v, n>>[1] = v /\ <<v, n>>[2] = n
      BY <3>1, GotOneTwo
    <3> QED
      BY <3>2, <3>3 DEF n
  <2>5. PlainPrints(A, v, t.rest)
    BY <2>3, ReplacementPrints
  <2>6. s = <<"{", "{">> \o (<<" ">> \o (v \o (<<" ">> \o (<<"}", "}">> \o t.rest))))
    <3> HIDE DEF f, spaced, id, r0
    <3> QED
      BY <1>1, <1>6, <1>7, <2>1, <2>3
  <2>7. Parser!PrintToken(t) = <<"{", "{", " ">> \o v \o <<>> \o <<" ", "}", "}">>
    BY <1>3, <2>4, PrintedKinds DEF Parser!NoFilter
  <2> QED
    BY <2>3, <2>5, <2>6, <2>7 DEF PlainPrints, Printed
<1>11. CASE Bar
  <2>1. last = Parser!Expect(f2, <<"}", "}">>)
    BY <1>11
  <2>2. f2.err = ""
    BY <1>4, <1>11
  <2>3. f1.err = ""
    <3> HIDE DEF f1
    <3> QED
      BY <2>2, ErrorsStay
  <2>4. spaced.rest = <<"|">> \o Tail(spaced.rest) /\ Tail(spaced.rest) \in Seq(A)
    <3> DEFINE u == spaced.rest
               p == <<"|">>
    <3>1. "|" \in A
      BY DEF Literals
    <3>2. p \in Seq(A) /\ Len(p) = 1 /\ u \in Seq(A) /\ Parser!StartsWith(u, p)
      BY <1>7, <1>11, <3>1, ShortSeqs DEF IsReader
    <3> HIDE DEF u, p
    <3>3. u = p \o Parser!Drop(u, 1) /\ Parser!Drop(u, 1) \in Seq(A)
      BY <3>2, SplitPrefix
    <3> DEFINE d == Parser!Drop(u, 1)
    <3>4. u = <<"|">> \o d /\ d \in Seq(A)
      BY <3>3 DEF p
    <3> HIDE DEF d
    <3>5. Tail(u) = d
      BY <3>1, <3>4, FirstPart
    <3> QED
      BY <3>4, <3>5 DEF u
  <2>5. IsReader(A, f0) /\ f0.rest = Tail(spaced.rest) /\ f0.got = <<v>>
    <3> DEFINE u == Tail(spaced.rest)
    <3>0. IsReader(A, spaced)
      BY <1>7
    <3>1. u \in Seq(A) /\ RestSet(f0, spaced, u)
      BY <2>4 DEF RestSet
    <3> HIDE DEF spaced, u, f0
    <3>2. IsReader(A, f0) /\ f0.rest = u /\ f0.got = spaced.got
      BY <3>0, <3>1, ReaderRest
    <3> QED
      BY <1>8, <3>2 DEF u
  <2>6. /\ IsReader(A, f1)
        /\ \E w \in Seq(A) : /\ f0.rest = <<" ">> \o (w \o f1.rest) /\ f1.got = Append(f0.got, w)
                             /\ w = <<>> => f1.rest # <<>> /\ Head(f1.rest) # " "
    <3> HIDE DEF f0
    <3> QED
      BY <2>3, <2>5, IdentifierReads
  <2>7. IsReader(A, f2) /\ f2.got = f1.got /\ f1.rest = <<" ">> \o f2.rest
    <3> HIDE DEF f1
    <3> QED
      BY <2>2, <2>6, WhitespaceReads
  <2> HIDE DEF f0, f1, f2, spaced, id, r0, last
  <2>8. PICK w \in Seq(A) : /\ f0.rest = <<" ">> \o (w \o f1.rest) /\ f1.got = Append(f0.got, w)
                            /\ w = <<>> => f1.rest # <<>> /\ Head(f1.rest) # " "
    BY <2>6
  <2>9. w # <<>>
    <3>1. f2.rest \in Seq(A) /\ " " \in A
      BY <2>7 DEF IsReader, Literals
    <3>2. Head(<<" ">> \o f2.rest) = " "
      BY <3>1, FirstPart
    <3> QED
      BY <2>7, <2>8, <3>2
  <2>10. /\ t.rest \in Seq(A) /\ Lexed(A, t) /\ t.val = f2.got /\ f2.rest = <<"}", "}">> \o t.rest
    BY <1>9, <2>1, <2>7
  <2>11. t.val = <<v, w>> /\ t.val[1] = v /\ t.val[2] = w
    <3>1. t.val = Append(<<v>>, w)
      BY <2>5, <2>7, <2>8, <2>10
    <3>2. Append(<<v>>, w) = <<v, w>> /\ <<v, w>>[1] = v /\ <<v, w>>[2] = w
      BY GotOneTwo
    <3> QED
      BY <3>1, <3>2
  <2>12. FilterPrints(A, v, w, t.rest)
    BY <2>10, ReplacementPrints
  <2>13. s = <<"{", "{">> \o (<<" ">> \o (v \o (<<" ">> \o (<<"|">> \o (<<" ">> \o
                        (w \o (<<" ">> \o (<<"}", "}">> \o t.rest))))))))
    BY <1>1, <1>6, <1>7, <2>4, <2>5, <2>7, <2>8, <2>10
  <2>14. Parser!PrintToken(t) = <<"{", "{", " ">> \o v \o (<<" ", "|", " ">> \o w) \o <<" ", "}", "}">>
    BY <1>3, <2>9, <2>11, PrintedKinds DEF Parser!NoFilter
  <2> QED
    BY <2>10, <2>12, <2>13, <2>14 DEF FilterPrints, Printed
<1> QED
  BY <1>10, <1>11

IsBrace(c) == c = "{"

LEMMA BlobIsLexed ==
  ASSUME NEW A, NEW v \in Seq(A), NEW d
  PROVE  LET t == Parser!Blob(v, d)
         IN  t.kind = "blob" /\ t.val[1] = v /\ t.rest = d /\ Lexed(A, t)
<1> DEFINE t == Parser!Blob(v, d)
<1>1. t.kind = "blob" /\ t.val = <<v>> /\ t.val[1] = v /\ t.rest = d
  BY DEF Parser!Blob
<1>2. <<v>> \in Seq(Seq(A))
  OBVIOUS
<1> QED
  BY <1>1, <1>2 DEF Lexed, Kinds

LEMMA BlobReads ==
  ASSUME NEW A, Literals \subseteq A, NEW s \in Seq(A), s # <<>>, ~IsBrace(Head(s))
  PROVE  LET t == Parser!Blob(SubSeq(s, 1, Parser!BlobLength(s)), Parser!Drop(s, Parser!BlobLength(s)))
         IN  Printed(A, s, t)
<1> DEFINE n == Parser!BlobLength(s)
           v == SubSeq(s, 1, n)
           d == Parser!Drop(s, n)
           t == Parser!Blob(v, d)
           W == {c \in A : ~IsBrace(c)}
           End(m) == /\ \A i \in 1 .. m : ~IsBrace(s[i])
                     /\ m < Len(s) => IsBrace(s[m + 1])
<1>1. Len(s) \in Nat /\ Len(s) # 0 /\ Head(s) = s[1] /\ \A i \in 1 .. Len(s) : s[i] \in A
  BY EmptySeq, LenProperties, ElementOfSeq, HeadTailProperties
<1>2. n \in 0 .. Len(s) /\ End(n)
  <2>1. PICK m \in 0 .. Len(s) : /\ \A i \in 1 .. m : s[i] \in W
                                 /\ m < Len(s) => s[m + 1] \notin W
    <3> HIDE DEF W
    <3> QED
      BY RunEnds
  <2>2. \A i \in 1 .. m : ~IsBrace(s[i])
    BY <2>1
  <2>3. m < Len(s) => IsBrace(s[m + 1])
    <3>1. m < Len(s) => m + 1 \in 1 .. Len(s)
      BY <1>1
    <3> QED
      BY <1>1, <2>1, <3>1
  <2>4. n = CHOOSE k \in 0 .. Len(s) : End(k)
    BY DEF Parser!BlobLength, IsBrace
  <2>5. End(m)
    BY <2>2, <2>3
  <2> HIDE DEF n, End
  <2> QED
    BY <2>1, <2>4, <2>5
<1>3. n >= 1
  <2>1. n = 0 => n < Len(s) /\ n + 1 = 1
    BY <1>1, <1>2
  <2> HIDE DEF n
  <2> QED
    BY <1>1, <1>2, <2>1
<1> HIDE DEF n
<1>4. s = v \o d /\ v \in Seq(A) /\ d \in Seq(A) /\ Len(v) = n
  BY <1>2, SplitAt
<1>5. ~IsBrace(v[1])
  <2>1. v[1] = s[1]
    BY <1>1, <1>2, <1>3
  <2>2. 1 \in 1 .. n
    BY <1>2, <1>3
  <2> QED
    BY <1>2, <2>1, <2>2
<1>6. v # <<"{", "{">>
  <2> HIDE DEF v
  <2>1. <<"{", "{">>[1] = "{"
    <3>1. "{" \in A
      BY DEF Literals
    <3> QED
      BY <3>1, GotOneTwo
  <2> QED
    BY <1>5, <2>1 DEF IsBrace
<1>7. t.kind = "blob" /\ t.val[1] = v /\ t.rest = d /\ Lexed(A, t)
  <2> HIDE DEF v, d
  <2> QED
    BY <1>4, BlobIsLexed
<1> HIDE DEF v, d, t
<1>8. Parser!PrintToken(t) = v
  BY <1>6, <1>7, PrintedKinds
<1>9. Printed(A, s, t)
  BY <1>4, <1>7, <1>8 DEF Printed
<1> QED
  BY <1>9 DEF t, v, d, n

(* "{{{{" stands for "{{", and a brace which begins nothing for itself *)
LEMMA BraceReads ==
  ASSUME NEW A, Literals \subseteq A, NEW s \in Seq(A)
  PROVE  /\ Parser!StartsWith(s, <<"{", "{", "{", "{">>) =>
                Printed(A, s, Parser!Blob(<<"{", "{">>, Parser!Drop(s, 4)))
         /\ s # <<>> /\ IsBrace(Head(s)) => Printed(A, s, Parser!Blob(<<"{">>, Tail(s)))
<1>1. "{" \in A
  BY DEF Literals
<1>2. <<"{", "{">> \in Seq(A) /\ <<"{">> \in Seq(A)
  BY <1>1, ShortSeqs
<1>3. ASSUME Parser!StartsWith(s, <<"{", "{", "{", "{">>)
      PROVE  Printed(A, s, Parser!Blob(<<"{", "{">>, Parser!Drop(s, 4)))
  <2> DEFINE p == <<"{", "{", "{", "{">>
             v == <<"{", "{">>
             d == Parser!Drop(s, 4)
             t == Parser!Blob(v, d)
  <2>1. p = v \o v /\ p \in Seq(A) /\ Len(p) = 4
    BY <1>1, FourOf
  <2>2. s = p \o Parser!Drop(s, 4) /\ Parser!Drop(s, 4) \in Seq(A)
    <3>1. Parser!StartsWith(s, p)
      BY <1>3
    <3>2. p \in Seq(A) /\ Len(p) = 4
      BY <2>1
    <3> HIDE DEF p
    <3> QED
      BY <3>1, <3>2, SplitPrefix
  <2>3. t.kind = "blob" /\ t.val[1] = v /\ t.rest = d /\ Lexed(A, t)
    <3>1. v \in Seq(A)
      BY <1>2
    <3> HIDE DEF v, d
    <3> QED
      BY <3>1, BlobIsLexed
  <2>4. Parser!PrintToken(t) = p
    <3> HIDE DEF t, d
    <3> QED
      BY <2>1, <2>3, PrintedKinds
  <2> HIDE DEF p, t, v
  <2>5. Printed(A, s, t)
    BY <2>1, <2>2, <2>3, <2>4 DEF Printed
  <2> QED
    BY <2>5 DEF t, v
<1>4. ASSUME s # <<>>, IsBrace(Head(s))
      PROVE  Printed(A, s, Parser!Blob(<<"{">>, Tail(s)))
  <2> DEFINE v == <<"{">>
             d == Tail(s)
             t == Parser!Blob(v, d)
  <2>1. s = v \o d /\ d \in Seq(A)
    BY <1>4, HeadAndTail DEF IsBrace
  <2>2. t.kind = "blob" /\ t.val[1] = v /\ t.rest = d /\ Lexed(A, t)
    <3>1. v \in Seq(A)
      BY <1>2
    <3> HIDE DEF v, d
    <3> QED
      BY <3>1, BlobIsLexed
  <2>3. v # <<"{", "{">>
    <3> DEFINE w == <<"{", "{">>
    <3>1. Len(v) = 1 /\ Len(w) = 2
      BY <1>1, ShortSeqs
    <3> HIDE DEF v, w
    <3>2. v # w
      BY <3>1
    <3> QED
      BY <3>2 DEF w
  <2>4. Parser!PrintToken(t) = v
    <3> HIDE DEF t, d, v
    <3> QED
      BY <2>2, <2>3, PrintedKinds
  <2>5. Printed(A, s, t)
    <3>1. v \in Seq(A)
      BY <1>2
    <3> HIDE DEF t, d, v
    <3> QED
      BY <2>1, <2>2, <2>4, <3>1 DEF Printed
  <2> QED
    BY <2>5
<1> QED
  BY <1>3, <1>4

LEMMA TokenReads ==
  ASSUME NEW A, Literals \subseteq A, NEW s \in Seq(A), Ok(Parser!ReadToken(s))
  PROVE  Printed(A, s, Parser!ReadToken(s))
<1> DEFINE t == Parser!ReadToken(s)
           n == Parser!BlobLength(s)
           three == Parser!Token("", Parser!Fails(Parser!Reader(s), "SyntaxError"))
<1>1. t.err = ""
  BY DEF Ok
<1>2. \/ s = <<>> /\ t = [kind |-> "eof", val |-> <<>>, rest |-> <<>>, err |-> ""]
      \/ s # <<>> /\ ~IsBrace(Head(s)) /\ t = Parser!Blob(SubSeq(s, 1, n), Parser!Drop(s, n))
      \/ /\ Parser!StartsWith(s, <<"{", "{", "{", "{">>)
         /\ t = Parser!Blob(<<"{", "{">>, Parser!Drop(s, 4))
      \/ t = three
      \/ OpensControl(s) /\ t = Parser!ReadControl(s)
      \/ OpensReplacement(s) /\ t = Parser!ReadReplacement(s)
      \/ s # <<>> /\ IsBrace(Head(s)) /\ t = Parser!Blob(<<"{">>, Tail(s))
  <2> DEFINE e0 == [kind |-> "eof", val |-> <<>>, rest |-> <<>>, err |-> ""]
             e1 == Parser!Blob(SubSeq(s, 1, n), Parser!Drop(s, n))
             e2 == Parser!Blob(<<"{", "{">>, Parser!Drop(s, 4))
             e4 == Parser!ReadControl(s)
             e5 == Parser!ReadReplacement(s)
             e6 == Parser!Blob(<<"{">>, Tail(s))
             brace == Head(s) = "{"
             c2 == Parser!StartsWith(s, <<"{", "{", "{", "{">>)
             c3 == Parser!StartsWith(s, <<"{", "{", "{">>)
             c4 == Parser!StartsWith(s, <<"{", "%">>)
             c5 == Parser!StartsWith(s, <<"{", "{">>)
  <2>1. t = CASE s = <<>> -> e0 [] s # <<>> /\ ~brace -> e1 [] c2 -> e2 [] c3 /\ ~c2 -> three
              [] c4 -> e4 [] c5 /\ ~c3 -> e5 [] OTHER -> e6
    BY DEF Parser!ReadToken
  <2> HIDE DEF t, three, e0, e1, e2, e4, e5, e6, brace, c2, c3, c4, c5
  <2>2. \/ s = <<>> /\ t = e0
        \/ s # <<>> /\ ~brace /\ t = e1
        \/ c2 /\ t = e2
        \/ t = three
        \/ c4 /\ t = e4
        \/ c5 /\ t = e5
        \/ s # <<>> /\ brace /\ t = e6
    BY <2>1
  <2> QED
    BY <2>2, Zenon DEF e0, e1, e2, e4, e5, e6, brace, c2, c4, c5, IsBrace, OpensControl,
                       OpensReplacement, t, three
<1>3. t # three
  <2>1. IsReader(A, Parser!Reader(s)) /\ "SyntaxError" \in Errors
    BY TextReader DEF Errors
  <2>2. Parser!Fails(Parser!Reader(s), "SyntaxError").err = "SyntaxError"
    BY <2>1, FailedReader
  <2>3. three.err = "SyntaxError"
    <3> DEFINE r == Parser!Fails(Parser!Reader(s), "SyntaxError")
    <3>1. three = Parser!Token("", r) /\ r.err = "SyntaxError"
      BY <2>2
    <3> HIDE DEF r, three
    <3> QED
      BY <3>1 DEF Parser!Token
  <2> HIDE DEF t, three
  <2> QED
    BY <1>1, <2>3
<1> SUFFICES Printed(A, s, t)
  OBVIOUS
<1> HIDE DEF t, three
<1>4. CASE s = <<>> /\ t = [kind |-> "eof", val |-> <<>>, rest |-> <<>>, err |-> ""]
  <2>1. t.kind = "eof" /\ t.rest = <<>> /\ t.val = <<>>
    BY <1>4
  <2>2. Parser!PrintToken(t) = <<>>
    BY <2>1, PrintedKinds
  <2>3. <<>> \in Seq(A) /\ <<>> \o <<>> = <<>>
    BY EmptySeq, ConcatEmptySeq
  <2>4. Lexed(A, t)
    <3>1. <<>> \in Seq(Seq(A))
      BY EmptySeq
    <3> QED
      BY <2>1, <3>1 DEF Lexed, Kinds
  <2> QED
    BY <1>4, <2>1, <2>2, <2>3, <2>4 DEF Printed
<1>5. CASE s # <<>> /\ ~IsBrace(Head(s)) /\ t = Parser!Blob(SubSeq(s, 1, n), Parser!Drop(s, n))
  BY <1>5, BlobReads
<1>6. CASE OpensControl(s) /\ t = Parser!ReadControl(s)
  BY <1>1, <1>6, ControlReads DEF Ok
<1>7. CASE OpensReplacement(s) /\ t = Parser!ReadReplacement(s)
  BY <1>1, <1>7, ReplacementReads DEF Ok
<1> QED
  BY <1>2, <1>3, <1>4, <1>5, <1>6, <1>7, BraceReads

LEMMA TextsJoin ==
  ASSUME NEW A, NEW s \in Seq(Seq(A)), NEW p \in Seq(A)
  PROVE  /\ Parser!FlattenSeq(<<>>) = <<>>
         /\ Parser!FlattenSeq(s) \in Seq(A)
         /\ Parser!FlattenSeq(Append(s, p)) = Parser!FlattenSeq(s) \o p
<1>1. \A x : Parser!FlattenSeq(x) = Pkg!FlattenSeq(x)
  BY DEF Parser!FlattenSeq, Pkg!FlattenSeq
<1>2. /\ Pkg!FlattenSeq(<<>>) = <<>>
      /\ Pkg!FlattenSeq(s) \in Seq(A)
      /\ Pkg!FlattenSeq(Append(s, p)) = Pkg!FlattenSeq(s) \o p
  BY FlattenSteps
<1> QED
  BY <1>1, <1>2

-----------------------------------------------------------------------------
(* What the tokenizer keeps true                                           *)

PieceOf == {parse_text[i] : i \in DOMAIN parse_text} \cup Literals
TokenOf == [kind : Kinds, val : Seq(Seq(PieceOf))]
PrintedTokens(ts) == [i \in DOMAIN ts |-> Parser!PrintToken(ts[i])]

TextsCut ==
    /\ parse_text \in Seq(PieceOf)
    /\ parse_rest \in Seq(PieceOf)
    /\ parse_tokens \in Seq(TokenOf)
    /\ PrintedTokens(parse_tokens) \in Seq(Seq(PieceOf))
    /\ Parser!FlattenSeq(PrintedTokens(parse_tokens)) \o parse_rest = parse_text

\* The end of the file is the last token and no other, and a case has a value
TokensEnd ==
    /\ \A i \in 1 .. Len(parse_tokens) :
          /\ parse_tokens[i].kind = "eof" => i = Len(parse_tokens) /\ parse_phase # "lex"
          /\ parse_tokens[i].kind = "case" => parse_tokens[i].val[1] # <<>>
    /\ parse_phase \in {"parse", "parsed"} =>
          Len(parse_tokens) # 0 /\ parse_tokens[Len(parse_tokens)].kind = "eof"

LexInv == TextsCut /\ TokensEnd

LEMMA PrintedAppend ==
  ASSUME NEW S, NEW ts \in Seq(S), NEW x \in S
  PROVE  PrintedTokens(Append(ts, x)) = Append(PrintedTokens(ts), Parser!PrintToken(x))
<1> DEFINE u == Append(ts, x)
           P(y) == Parser!PrintToken(y)
           p == PrintedTokens(ts)
           D == {P(y) : y \in S}
<1>1. /\ u \in Seq(S) /\ Len(u) = Len(ts) + 1 /\ u[Len(ts) + 1] = x /\ Len(ts) \in Nat
      /\ \A i \in 1 .. Len(ts) : u[i] = ts[i]
  BY AppendProperties, LenProperties
<1>2. DOMAIN u = 1 .. Len(ts) + 1 /\ DOMAIN ts = 1 .. Len(ts)
  BY <1>1, LenProperties
<1>3. PrintedTokens(u) = [i \in 1 .. Len(ts) + 1 |-> P(u[i])] /\ p = [i \in 1 .. Len(ts) |-> P(ts[i])]
  BY <1>2 DEF PrintedTokens
<1>4. /\ \A i \in 1 .. Len(ts) : P(ts[i]) \in D
      /\ \A i \in 1 .. Len(ts) + 1 : P(u[i]) \in D
      /\ P(x) \in D
  <2>1. \A i \in 1 .. Len(ts) : ts[i] \in S
    BY ElementOfSeq
  <2>2. \A i \in 1 .. Len(ts) + 1 : u[i] \in S
    BY <1>1, ElementOfSeq
  <2> QED
    BY <2>1, <2>2
<1>5. p \in Seq(D) /\ Len(p) = Len(ts) /\ PrintedTokens(u) \in Seq(D) /\ Len(PrintedTokens(u)) = Len(ts) + 1
  <2>1. Len(ts) + 1 \in Nat
    BY <1>1
  <2> HIDE DEF D, P, u
  <2> QED
    BY <1>1, <1>3, <1>4, <2>1, IsASeq, LenProperties
<1> HIDE DEF D
<1>6. /\ Append(p, P(x)) \in Seq(D) /\ Len(Append(p, P(x))) = Len(ts) + 1
      /\ \A i \in 1 .. Len(ts) : Append(p, P(x))[i] = p[i]
      /\ Append(p, P(x))[Len(ts) + 1] = P(x)
  <2> HIDE DEF P, p
  <2> QED
    BY <1>4, <1>5, AppendProperties
<1>7. \A i \in 1 .. Len(ts) + 1 : PrintedTokens(u)[i] = Append(p, P(x))[i]
  <2> TAKE i \in 1 .. Len(ts) + 1
  <2>1. i \in 1 .. Len(ts) \/ i = Len(ts) + 1
    BY <1>1
  <2> HIDE DEF P, p, u
  <2> QED
    BY <1>1, <1>3, <1>6, <2>1
<1> HIDE DEF P, p, u
<1>8. PrintedTokens(u) = Append(p, P(x))
  BY <1>5, <1>6, <1>7, SeqEqual
<1> QED
  BY <1>8 DEF P, p, u

LEMMA LexKeeps ==
  ASSUME LexInv, Parser!Lex
  PROVE  LexInv'
<1> DEFINE A == PieceOf
           t == Parser!ReadToken(parse_rest)
           x == [kind |-> t.kind, val |-> t.val]
           P == PrintedTokens(parse_tokens)
           p == Parser!PrintToken(t)
<1>1. parse_text' = parse_text /\ PieceOf' = PieceOf
  BY DEF Parser!Lex, PieceOf
<1>2. TokenOf' = TokenOf
  BY <1>1 DEF TokenOf
<1>3. CASE t.err # ""
  <2>1. parse_phase' = "rejected" /\ parse_rest' = parse_rest /\ parse_tokens' = parse_tokens
    BY <1>3 DEF Parser!Lex, Parser!Reject
  <2>2. TextsCut'
    BY <1>1, <1>2, <2>1 DEF LexInv, TextsCut, PrintedTokens
  <2>3. TokensEnd'
    BY <2>1 DEF LexInv, TokensEnd
  <2> QED
    BY <2>2, <2>3 DEF LexInv
<1>4. CASE t.err = ""
  <2>1. /\ parse_tokens' = Append(parse_tokens, x) /\ parse_rest' = t.rest
        /\ parse_phase' = IF t.kind = "eof" THEN "parse" ELSE "lex"
        /\ parse_phase = "lex"
    BY <1>4 DEF Parser!Lex
  <2>2. Printed(A, parse_rest, t)
    <3>1. Literals \subseteq A /\ parse_rest \in Seq(A) /\ Ok(t)
      BY <1>4 DEF LexInv, TextsCut, PieceOf, Ok
    <3> HIDE DEF A
    <3> QED
      BY <3>1, TokenReads
  <2>3. /\ Lexed(A, t) /\ t.rest \in Seq(A) /\ p \in Seq(A) /\ parse_rest = p \o t.rest
    BY <2>2 DEF Printed
  <2>4. x \in TokenOf /\ x.kind = t.kind /\ x.val = t.val
    <3> HIDE DEF t
    <3> QED
      BY <2>3 DEF TokenOf, Lexed
  <2>5. Parser!PrintToken(x) = p
    <3> HIDE DEF t
    <3> QED
      BY Zenon DEF Parser!PrintToken
  <2>6. parse_tokens \in Seq(TokenOf) /\ parse_tokens' \in Seq(TokenOf)
        /\ Len(parse_tokens') = Len(parse_tokens) + 1 /\ Len(parse_tokens) \in Nat
        /\ parse_tokens'[Len(parse_tokens) + 1] = x
        /\ \A i \in 1 .. Len(parse_tokens) : parse_tokens'[i] = parse_tokens[i]
    <3>1. parse_tokens \in Seq(TokenOf)
      BY DEF LexInv, TextsCut
    <3> HIDE DEF x
    <3> QED
      BY <2>1, <2>4, <3>1, AppendProperties, LenProperties
  <2>7. PrintedTokens(parse_tokens)' = Append(P, p)
    <3>1. PrintedTokens(parse_tokens)' = PrintedTokens(Append(parse_tokens, x))
      BY <2>1 DEF PrintedTokens
    <3> HIDE DEF x
    <3>2. PrintedTokens(Append(parse_tokens, x)) = Append(P, Parser!PrintToken(x))
      BY <2>4, <2>6, PrintedAppend
    <3> QED
      BY <2>5, <3>1, <3>2
  <2>8. P \in Seq(Seq(A)) /\ Append(P, p) \in Seq(Seq(A))
    <3>1. P \in Seq(Seq(A))
      BY DEF LexInv, TextsCut
    <3> HIDE DEF P, p, A
    <3> QED
      BY <2>3, <3>1, AppendProperties
  <2>9. Parser!FlattenSeq(Append(P, p)) \o t.rest = parse_text
    <3> DEFINE F == Parser!FlattenSeq(P)
               Q == Seq(A)
    <3>1. F \in Q /\ Parser!FlattenSeq(Append(P, p)) = F \o p
      <4> HIDE DEF P, p, A
      <4> QED
        BY <2>3, <2>8, TextsJoin
    <3>2. F \o parse_rest = parse_text
      BY DEF LexInv, TextsCut
    <3>3. F \in Q /\ p \in Q /\ t.rest \in Q /\ IsText(Q)
      BY <2>3, <3>1, Regroup
    <3> HIDE DEF F, Q, p, t
    <3>4. Then(Then(F, p), t.rest) = Then(F, Then(p, t.rest))
      BY <3>3 DEF IsText
    <3> QED
      BY <2>3, <3>1, <3>2, <3>4 DEF Then
  <2>10. TextsCut'
    <3> HIDE DEF t, p
    <3>1. Parser!FlattenSeq(PrintedTokens(parse_tokens))' = Parser!FlattenSeq(Append(P, p))
      BY <2>7
    <3> HIDE DEF P
    <3> QED
      BY <1>1, <1>2, <2>1, <2>3, <2>6, <2>7, <2>8, <2>9, <3>1 DEF LexInv, TextsCut
  <2>11. TokensEnd'
    <3> HIDE DEF t
    <3>1. \A i \in 1 .. Len(parse_tokens') : i \in 1 .. Len(parse_tokens) \/ i = Len(parse_tokens')
      BY <2>6
    <3>2. \A i \in 1 .. Len(parse_tokens) :
            /\ parse_tokens'[i] = parse_tokens[i]
            /\ parse_tokens[i].kind # "eof"
            /\ parse_tokens[i].kind = "case" => parse_tokens[i].val[1] # <<>>
      BY <2>1, <2>6 DEF LexInv, TokensEnd
    <3>3. parse_tokens'[Len(parse_tokens')] = x /\ Len(parse_tokens') # 0
      BY <2>6
    <3>4. x.kind = "case" => x.val[1] # <<>>
      BY <2>3, <2>4 DEF Lexed
    <3> HIDE DEF x
    <3>5. (parse_phase' = "parse" /\ t.kind = "eof") \/ (parse_phase' = "lex" /\ t.kind # "eof")
      BY <2>1
    <3>6. ASSUME NEW i \in 1 .. Len(parse_tokens')
          PROVE  /\ parse_tokens'[i].kind = "eof" => i = Len(parse_tokens') /\ parse_phase' # "lex"
                 /\ parse_tokens'[i].kind = "case" => parse_tokens'[i].val[1] # <<>>
      <4>1. CASE i \in 1 .. Len(parse_tokens)
        BY <3>2, <4>1
      <4>2. CASE i = Len(parse_tokens')
        BY <2>4, <3>3, <3>4, <3>5, <4>2
      <4> QED
        BY <3>1, <4>1, <4>2
    <3>7. parse_phase' \in {"parse", "parsed"} =>
            Len(parse_tokens') # 0 /\ parse_tokens'[Len(parse_tokens')].kind = "eof"
      BY <2>4, <3>3, <3>5
    <3> QED
      BY <3>6, <3>7 DEF TokensEnd
  <2> QED
    BY <2>10, <2>11 DEF LexInv
<1> QED
  BY <1>3, <1>4

-----------------------------------------------------------------------------
(* The language: Derives of InLanguage, by its equation                    *)

Intervals(ts) == {"chunks", "cases"} \X (1 .. Len(ts)) \X (1 .. Len(ts))
BlankAt(ts, k) ==
    ts[k].kind = "blob" /\ \A c \in DOMAIN ts[k].val[1] : ts[k].val[1][c] \in Parser!Blank
ChunkBy(ts, d, i, m) ==
    \/ m = i + 1 /\ ts[i].kind \in {"blob", "replacement"}
    \/ /\ m > i + 1 /\ ts[i].kind = "for" /\ ts[m - 1].kind = "endfor"
       /\ d[<<"chunks", i + 1, m - 1>>]
    \/ /\ m > i + 1 /\ ts[i].kind = "switch" /\ ts[m - 1].kind = "endswitch"
       /\ \/ d[<<"cases", i + 1, m - 1>>]
          \/ i + 1 < m - 1 /\ BlankAt(ts, i + 1) /\ d[<<"cases", i + 2, m - 1>>]
DerivedBy(ts, d, q) ==
    \/ q[2] = q[3]
    \/ /\ q[2] < q[3] /\ q[1] = "chunks"
       /\ \E m \in (q[2] + 1) .. q[3] : ChunkBy(ts, d, q[2], m) /\ d[<<"chunks", m, q[3]>>]
    \/ /\ q[2] < q[3] /\ q[1] = "cases" /\ ts[q[2]].kind = "case"
       /\ \E m \in (q[2] + 1) .. q[3] : d[<<"chunks", q[2] + 1, m>>] /\ d[<<"cases", m, q[3]>>]
DerivesOf(ts) == CHOOSE d : d = [q \in Intervals(ts) |-> DerivedBy(ts, d, q)]
Longer(q, p) == p[3] - p[2] < q[3] - q[2]

LEMMA LanguageIs ==
  ASSUME NEW ts
  PROVE  Parser!InLanguage(ts) = DerivesOf(ts)[<<"chunks", 1, Len(ts)>>]
  BY DEF Parser!InLanguage, DerivesOf, Intervals, DerivedBy, ChunkBy, BlankAt

LEMMA DerivedAgree ==
  ASSUME NEW ts, Len(ts) \in Nat, NEW d, NEW e, NEW q \in Intervals(ts),
         \A p \in Intervals(ts) : Longer(q, p) => d[p] = e[p],
         DerivedBy(ts, d, q)
  PROVE  DerivedBy(ts, e, q)
<1> DEFINE i == q[2]
           j == q[3]
<1>1. /\ i \in 1 .. Len(ts) /\ j \in 1 .. Len(ts)
      /\ \A k \in {"chunks", "cases"}, a, b \in 1 .. Len(ts) :
            b - a < j - i => d[<<k, a, b>>] = e[<<k, a, b>>]
  <2>1. i \in 1 .. Len(ts) /\ j \in 1 .. Len(ts)
    BY DEF Intervals
  <2>2. ASSUME NEW k \in {"chunks", "cases"}, NEW a \in 1 .. Len(ts), NEW b \in 1 .. Len(ts),
               b - a < j - i
        PROVE  d[<<k, a, b>>] = e[<<k, a, b>>]
    <3>1. <<k, a, b>> \in Intervals(ts) /\ Longer(q, <<k, a, b>>)
      BY <2>2 DEF Intervals, Longer
    <3> QED
      BY <3>1
  <2> QED
    BY <2>1, <2>2
<1> HIDE DEF i, j
<1>2. ASSUME NEW m \in (i + 1) .. j, i < j
      PROVE  /\ d[<<"chunks", m, j>>] = e[<<"chunks", m, j>>]
             /\ d[<<"cases", m, j>>] = e[<<"cases", m, j>>]
             /\ d[<<"chunks", i + 1, m>>] = e[<<"chunks", i + 1, m>>]
             /\ ChunkBy(ts, d, i, m) => ChunkBy(ts, e, i, m)
  <2>1. m \in 1 .. Len(ts) /\ i + 1 \in 1 .. Len(ts)
    BY <1>1, <1>2
  <2>2. j - m < j - i /\ m - (i + 1) < j - i
    BY <1>1, <1>2
  <2>3. /\ d[<<"chunks", m, j>>] = e[<<"chunks", m, j>>]
        /\ d[<<"cases", m, j>>] = e[<<"cases", m, j>>]
        /\ d[<<"chunks", i + 1, m>>] = e[<<"chunks", i + 1, m>>]
    BY <1>1, <2>1, <2>2
  <2>4. ASSUME m > i + 1
        PROVE  /\ d[<<"chunks", i + 1, m - 1>>] = e[<<"chunks", i + 1, m - 1>>]
               /\ d[<<"cases", i + 1, m - 1>>] = e[<<"cases", i + 1, m - 1>>]
               /\ i + 1 < m - 1 => d[<<"cases", i + 2, m - 1>>] = e[<<"cases", i + 2, m - 1>>]
    <3>1. /\ m - 1 \in 1 .. Len(ts) /\ (m - 1) - (i + 1) < j - i
          /\ i + 1 < m - 1 => i + 2 \in 1 .. Len(ts) /\ (m - 1) - (i + 2) < j - i
      BY <1>1, <1>2, <2>4
    <3> QED
      BY <1>1, <2>1, <3>1
  <2>5. ChunkBy(ts, d, i, m) => ChunkBy(ts, e, i, m)
    BY <2>4 DEF ChunkBy
  <2> QED
    BY <2>3, <2>5
<1>3. CASE i = j
  BY <1>3 DEF DerivedBy, i, j
<1>4. CASE /\ i < j /\ q[1] = "chunks"
           /\ \E m \in (i + 1) .. j : ChunkBy(ts, d, i, m) /\ d[<<"chunks", m, j>>]
  <2>1. PICK m \in (i + 1) .. j : ChunkBy(ts, d, i, m) /\ d[<<"chunks", m, j>>]
    BY <1>4
  <2>2. ChunkBy(ts, e, i, m) /\ e[<<"chunks", m, j>>]
    BY <1>2, <1>4, <2>1
  <2> QED
    BY <1>4, <2>2 DEF DerivedBy, i, j
<1>5. CASE /\ i < j /\ q[1] = "cases" /\ ts[i].kind = "case"
           /\ \E m \in (i + 1) .. j : d[<<"chunks", i + 1, m>>] /\ d[<<"cases", m, j>>]
  <2>1. PICK m \in (i + 1) .. j : d[<<"chunks", i + 1, m>>] /\ d[<<"cases", m, j>>]
    BY <1>5
  <2>2. e[<<"chunks", i + 1, m>>] /\ e[<<"cases", m, j>>]
    BY <1>2, <1>5, <2>1
  <2> QED
    BY <1>5, <2>2 DEF DerivedBy, i, j
<1> QED
  BY <1>3, <1>4, <1>5 DEF DerivedBy, i, j

LEMMA DerivesUnfold ==
  ASSUME NEW ts, Len(ts) \in Nat
  PROVE  DerivesOf(ts) = [q \in Intervals(ts) |-> DerivedBy(ts, DerivesOf(ts), q)]
<1> DEFINE I == Intervals(ts)
           Size(q) == q[3] - q[2]
           UpTo(n, f) == /\ f = [q \in I |-> f[q]]
                         /\ \A q \in I : Size(q) <= n => f[q] = DerivedBy(ts, f, q)
           G == {n \in Nat : \E f : UpTo(n, f)}
<1>1. \A q \in I : q[2] \in 1 .. Len(ts) /\ q[3] \in 1 .. Len(ts) /\ Size(q) \in Int /\ Size(q) < Len(ts)
  BY DEF Intervals
<1>2. 0 \in G
  <2> DEFINE f == [q \in I |-> q[2] = q[3]]
  <2>1. ASSUME NEW q \in I, Size(q) <= 0
        PROVE  f[q] = DerivedBy(ts, f, q)
    <3>1. ~(q[2] < q[3])
      BY <1>1, <2>1
    <3>2. DerivedBy(ts, f, q) = (q[2] = q[3])
      <4> HIDE DEF f
      <4> QED
        BY <3>1 DEF DerivedBy
    <3> QED
      BY <3>2
  <2>2. UpTo(0, f)
    BY <2>1
  <2> QED
    BY <2>2
<1>3. \A n \in Nat : n \in G => n + 1 \in G
  <2> SUFFICES ASSUME NEW n \in Nat, NEW f, UpTo(n, f)
               PROVE  \E g : UpTo(n + 1, g)
    OBVIOUS
  <2> DEFINE g == [q \in I |-> IF Size(q) <= n THEN f[q] ELSE DerivedBy(ts, f, q)]
  <2>1. ASSUME NEW q \in I, Size(q) <= n + 1
        PROVE  DerivedBy(ts, f, q) <=> DerivedBy(ts, g, q)
    <3>1. \A p \in I : Longer(q, p) => f[p] = g[p] /\ g[p] = f[p]
      <4> TAKE p \in I
      <4> HAVE Longer(q, p)
      <4>1. Size(p) <= n
        BY <1>1, <2>1 DEF Longer
      <4> QED
        BY <4>1
    <3> HIDE DEF g
    <3> QED
      BY <3>1, DerivedAgree
  <2>2. ASSUME NEW q \in I, Size(q) <= n + 1
        PROVE  g[q] = DerivedBy(ts, g, q)
    <3>1. DerivedBy(ts, f, q) = DerivedBy(ts, g, q)
      BY <2>1, <2>2 DEF DerivedBy
    <3>2. g[q] = DerivedBy(ts, f, q)
      BY Zenon
    <3> QED
      BY <3>1, <3>2
  <2>3. g = [q \in I |-> g[q]]
    OBVIOUS
  <2>4. UpTo(n + 1, g)
    <3> HIDE DEF g
    <3> QED
      BY <2>2, <2>3
  <2> QED
    BY <2>4
<1>4. Len(ts) \in G
  <2> HIDE DEF G
  <2> QED
    BY <1>2, <1>3, Induction
<1>5. PICK f : UpTo(Len(ts), f)
  BY <1>4
<1>6. \A q \in I : f[q] = DerivedBy(ts, f, q)
  BY <1>1, <1>5
<1>7. f = [q \in I |-> DerivedBy(ts, f, q)]
  BY <1>5, <1>6
<1> QED
  BY <1>7 DEF DerivesOf

ChunksTo(ts, a, b) == DerivesOf(ts)[<<"chunks", a, b>>]
CasesTo(ts, a, b) == DerivesOf(ts)[<<"cases", a, b>>]
FirstTo(ts, a, b) == CasesTo(ts, a, b) \/ (a < b /\ BlankAt(ts, a) /\ CasesTo(ts, a + 1, b))
ChunkTo(ts, i, m) ==
    \/ m = i + 1 /\ ts[i].kind \in {"blob", "replacement"}
    \/ m > i + 1 /\ ts[i].kind = "for" /\ ts[m - 1].kind = "endfor" /\ ChunksTo(ts, i + 1, m - 1)
    \/ m > i + 1 /\ ts[i].kind = "switch" /\ ts[m - 1].kind = "endswitch" /\ FirstTo(ts, i + 1, m - 1)

LEMMA Unfold ==
  ASSUME NEW ts, Len(ts) \in Nat, NEW a \in 1 .. Len(ts), NEW b \in 1 .. Len(ts)
  PROVE  /\ ChunksTo(ts, a, b) <=>
                \/ a = b
                \/ a < b /\ \E m \in (a + 1) .. b : ChunkTo(ts, a, m) /\ ChunksTo(ts, m, b)
         /\ CasesTo(ts, a, b) <=>
                \/ a = b
                \/ /\ a < b /\ ts[a].kind = "case"
                   /\ \E m \in (a + 1) .. b : ChunksTo(ts, a + 1, m) /\ CasesTo(ts, m, b)
<1> DEFINE d == DerivesOf(ts)
           p == <<"chunks", a, b>>
           q == <<"cases", a, b>>
<1>1. /\ p \in Intervals(ts) /\ p[1] = "chunks" /\ p[2] = a /\ p[3] = b
      /\ q \in Intervals(ts) /\ q[1] = "cases" /\ q[2] = a /\ q[3] = b
  BY DEF Intervals
<1>2. d = [x \in Intervals(ts) |-> DerivedBy(ts, d, x)]
  BY DerivesUnfold
<1> HIDE DEF d, p, q
<1>3. d[p] = DerivedBy(ts, d, p) /\ d[q] = DerivedBy(ts, d, q)
  <2>1. \A x \in Intervals(ts) : d[x] = DerivedBy(ts, d, x)
    <3> DEFINE F(x) == DerivedBy(ts, d, x)
    <3>1. d = [x \in Intervals(ts) |-> F(x)]
      BY <1>2
    <3> HIDE DEF F
    <3>2. \A x \in Intervals(ts) : d[x] = F(x)
      BY <3>1
    <3> QED
      BY <3>2 DEF F
  <2> QED
    BY <1>1, <2>1
<1>4. \A m \in (a + 1) .. b : ChunkBy(ts, d, a, m) <=> ChunkTo(ts, a, m)
  <2> TAKE m \in (a + 1) .. b
  <2>1. m > a + 1 /\ a + 1 < m - 1 => (a + 1) + 1 = a + 2
    OBVIOUS
  <2> QED
    BY <2>1 DEF ChunkBy, ChunkTo, ChunksTo, CasesTo, FirstTo, d
<1>5. DerivedBy(ts, d, p) <=>
        \/ a = b
        \/ a < b /\ \E m \in (a + 1) .. b : ChunkBy(ts, d, a, m) /\ d[<<"chunks", m, b>>]
  BY <1>1 DEF DerivedBy
<1>6. DerivedBy(ts, d, q) <=>
        \/ a = b
        \/ /\ a < b /\ ts[a].kind = "case"
           /\ \E m \in (a + 1) .. b : d[<<"chunks", a + 1, m>>] /\ d[<<"cases", m, b>>]
  BY <1>1 DEF DerivedBy
<1>7. ChunksTo(ts, a, b) <=>
        \/ a = b
        \/ a < b /\ \E m \in (a + 1) .. b : ChunkTo(ts, a, m) /\ ChunksTo(ts, m, b)
  BY <1>3, <1>4, <1>5 DEF ChunksTo, d, p
<1>8. CasesTo(ts, a, b) <=>
        \/ a = b
        \/ /\ a < b /\ ts[a].kind = "case"
           /\ \E m \in (a + 1) .. b : ChunksTo(ts, a + 1, m) /\ CasesTo(ts, m, b)
  BY <1>3, <1>6 DEF ChunksTo, CasesTo, d, q
<1> QED
  BY <1>7, <1>8

-----------------------------------------------------------------------------
(* What is left of a frame                                                 *)

StatusOfFrame(f) ==
    IF f.kind # "switch" THEN "chunks"
    ELSE IF f.open # <<>> THEN "open"
    ELSE IF f.is_first THEN "first"
    ELSE "cases"
CloserOf(kind) == IF kind = "switch" THEN "endswitch" ELSE IF kind = "for" THEN "endfor" ELSE "eof"
Closers == {"eof", "endfor", "endswitch"}
InsideOf(kind) == IF kind = "switch" THEN "first" ELSE "chunks"

Completes(ts, status, a, b) ==
    \/ status = "chunks" /\ ChunksTo(ts, a, b)
    \/ status = "open" /\ \E m \in a .. b : ChunksTo(ts, a, m) /\ CasesTo(ts, m, b)
    \/ status = "first" /\ FirstTo(ts, a, b)
    \/ status = "cases" /\ CasesTo(ts, a, b)

LEMMA ChunksFrom ==
  ASSUME NEW ts, Len(ts) \in Nat, NEW a \in 1 .. Len(ts), NEW b \in 1 .. Len(ts)
  PROVE  /\ ChunksTo(ts, a, a) /\ CasesTo(ts, a, a)
         /\ a < b /\ ts[a].kind \in {"blob", "replacement"} =>
                (ChunksTo(ts, a, b) <=> ChunksTo(ts, a + 1, b))
         /\ a < b /\ ts[a].kind \in {"for", "switch"} =>
                (ChunksTo(ts, a, b) <=>
                    \E m \in (a + 2) .. b : /\ ts[m - 1].kind = CloserOf(ts[a].kind)
                                            /\ Completes(ts, InsideOf(ts[a].kind), a + 1, m - 1)
                                            /\ ChunksTo(ts, m, b))
         /\ a < b /\ ts[a].kind \notin {"blob", "replacement", "for", "switch"} => ~ChunksTo(ts, a, b)
         /\ a < b /\ ts[a].kind # "case" => ~CasesTo(ts, a, b)
<1>0. /\ ChunksTo(ts, a, b) <=>
            \/ a = b
            \/ a < b /\ \E m \in (a + 1) .. b : ChunkTo(ts, a, m) /\ ChunksTo(ts, m, b)
      /\ CasesTo(ts, a, b) <=>
            \/ a = b
            \/ /\ a < b /\ ts[a].kind = "case"
               /\ \E m \in (a + 1) .. b : ChunksTo(ts, a + 1, m) /\ CasesTo(ts, m, b)
  BY Unfold
<1>1. /\ a < b => (ChunksTo(ts, a, b) <=> \E m \in (a + 1) .. b : ChunkTo(ts, a, m) /\ ChunksTo(ts, m, b))
      /\ a < b /\ ts[a].kind # "case" => ~CasesTo(ts, a, b)
  BY <1>0
<1>2. ChunksTo(ts, a, a) /\ CasesTo(ts, a, a)
  BY Unfold
<1>3. ASSUME a < b, ts[a].kind \in {"blob", "replacement"}
      PROVE  ChunksTo(ts, a, b) <=> ChunksTo(ts, a + 1, b)
  <2>1. \A m \in (a + 1) .. b : ChunkTo(ts, a, m) <=> m = a + 1
    BY <1>3 DEF ChunkTo
  <2>2. a + 1 \in (a + 1) .. b
    BY <1>3
  <2> QED
    BY <1>1, <1>3, <2>1, <2>2
<1>4. ASSUME a < b, ts[a].kind \in {"for", "switch"}
      PROVE  ChunksTo(ts, a, b) <=>
                    \E m \in (a + 2) .. b : /\ ts[m - 1].kind = CloserOf(ts[a].kind)
                                            /\ Completes(ts, InsideOf(ts[a].kind), a + 1, m - 1)
                                            /\ ChunksTo(ts, m, b)
  <2>1. \A m \in (a + 1) .. b : ChunkTo(ts, a, m) <=>
            /\ m \in (a + 2) .. b /\ ts[m - 1].kind = CloserOf(ts[a].kind)
            /\ Completes(ts, InsideOf(ts[a].kind), a + 1, m - 1)
    BY <1>4 DEF ChunkTo, CloserOf, InsideOf, Completes
  <2>2. \A m \in (a + 2) .. b : m \in (a + 1) .. b
    OBVIOUS
  <2> QED
    BY <1>1, <1>4, <2>1, <2>2
<1>5. ASSUME a < b, ts[a].kind \notin {"blob", "replacement", "for", "switch"}
      PROVE  ~ChunksTo(ts, a, b)
  BY <1>1, <1>5 DEF ChunkTo
<1> QED
  BY <1>1, <1>2, <1>3, <1>4, <1>5

(* The parser's reading of one token, on what is left of the frame *)
LEMMA ReadClosing ==
  ASSUME NEW ts, Len(ts) \in Nat, NEW a \in 1 .. Len(ts), NEW b \in 1 .. Len(ts), a <= b,
         ts[a].kind \in Closers, NEW st \in {"chunks", "open", "first", "cases"}
  PROVE  Completes(ts, st, a, b) <=> a = b
<1>1. ChunksTo(ts, a, a) /\ CasesTo(ts, a, a) /\ FirstTo(ts, a, a)
  BY ChunksFrom DEF FirstTo
<1>2. \A m \in 1 .. Len(ts) : a < m => ~ChunksTo(ts, a, m) /\ ~CasesTo(ts, a, m)
  BY ChunksFrom DEF Closers
<1>3. ~BlankAt(ts, a)
  BY DEF BlankAt, Closers
<1>4. CASE a = b
  <2>1. a \in a .. b
    BY <1>4
  <2> QED
    BY <1>1, <1>4, <2>1 DEF Completes
<1>5. CASE a < b
  <2>1. ~ChunksTo(ts, a, b) /\ ~CasesTo(ts, a, b) /\ ~FirstTo(ts, a, b)
    BY <1>2, <1>3, <1>5 DEF FirstTo
  <2>2. \A m \in a .. b : ChunksTo(ts, a, m) => m = a
    BY <1>2
  <2> QED
    BY <1>5, <2>1, <2>2 DEF Completes
<1> QED
  BY <1>4, <1>5

LEMMA ReadChunk ==
  ASSUME NEW ts, Len(ts) \in Nat, NEW a \in 1 .. Len(ts), NEW b \in 1 .. Len(ts),
         ts[a].kind \in {"blob", "replacement"}, ts[b].kind \in Closers,
         NEW st \in {"chunks", "open"}
  PROVE  (a <= b /\ Completes(ts, st, a, b)) <=> (a + 1 <= b /\ Completes(ts, st, a + 1, b))
<1>1. a # b
  BY DEF Closers
<1> SUFFICES ASSUME a < b
             PROVE  Completes(ts, st, a, b) <=> Completes(ts, st, a + 1, b)
  BY <1>1
<1>2. \A m \in 1 .. Len(ts) : a < m => (ChunksTo(ts, a, m) <=> ChunksTo(ts, a + 1, m))
  BY ChunksFrom
<1>3. ~CasesTo(ts, a, b)
  BY ChunksFrom
<1>4. CASE st = "chunks"
  BY <1>2, <1>4 DEF Completes
<1>5. CASE st = "open"
  <2>1. ASSUME NEW m \in a .. b, ChunksTo(ts, a, m), CasesTo(ts, m, b)
        PROVE  m \in (a + 1) .. b /\ ChunksTo(ts, a + 1, m)
    <3>1. m # a
      BY <1>3, <2>1
    <3> QED
      BY <1>2, <2>1, <3>1
  <2>2. ASSUME NEW m \in (a + 1) .. b, ChunksTo(ts, a + 1, m)
        PROVE  m \in a .. b /\ ChunksTo(ts, a, m)
    BY <1>2, <2>2
  <2> QED
    BY <1>5, <2>1, <2>2 DEF Completes
<1> QED
  BY <1>4, <1>5

LEMMA ReadOpening ==
  ASSUME NEW ts, Len(ts) \in Nat, NEW a \in 1 .. Len(ts), NEW b \in 1 .. Len(ts),
         ts[a].kind \in {"for", "switch"}, ts[b].kind \in Closers,
         NEW st \in {"chunks", "open"}
  PROVE  (a <= b /\ Completes(ts, st, a, b)) <=>
             \E m \in (a + 2) .. b : /\ ts[m - 1].kind = CloserOf(ts[a].kind)
                                     /\ Completes(ts, InsideOf(ts[a].kind), a + 1, m - 1)
                                     /\ Completes(ts, st, m, b)
<1> DEFINE In(m) == /\ ts[m - 1].kind = CloserOf(ts[a].kind)
                    /\ Completes(ts, InsideOf(ts[a].kind), a + 1, m - 1)
<1>1. a # b
  BY DEF Closers
<1>0. CASE b < a
  <2>1. ~(a <= b) /\ ~\E m \in (a + 2) .. b : TRUE
    BY <1>0
  <2> QED
    BY <2>1
<1> SUFFICES ASSUME a < b
             PROVE  Completes(ts, st, a, b) <=> \E m \in (a + 2) .. b : In(m) /\ Completes(ts, st, m, b)
  BY <1>0, <1>1
<1>2. \A k \in 1 .. Len(ts) : a < k =>
        (ChunksTo(ts, a, k) <=> \E m \in (a + 2) .. k : In(m) /\ ChunksTo(ts, m, k))
  BY ChunksFrom
<1>3. ~CasesTo(ts, a, b)
  BY ChunksFrom
<1> HIDE DEF In
<1>4. CASE st = "chunks"
  BY <1>2, <1>4 DEF Completes
<1>5. CASE st = "open"
  <2>1. ASSUME NEW k \in a .. b, ChunksTo(ts, a, k), CasesTo(ts, k, b)
        PROVE  \E m \in (a + 2) .. b : In(m) /\ k \in m .. b /\ ChunksTo(ts, m, k)
    <3>1. k # a
      BY <1>3, <2>1
    <3>2. PICK m \in (a + 2) .. k : In(m) /\ ChunksTo(ts, m, k)
      BY <1>2, <2>1, <3>1
    <3>3. m \in (a + 2) .. b /\ k \in m .. b
      BY <2>1, <3>2
    <3> QED
      BY <3>2, <3>3
  <2>2. ASSUME NEW m \in (a + 2) .. b, In(m), NEW k \in m .. b, ChunksTo(ts, m, k), CasesTo(ts, k, b)
        PROVE  k \in a .. b /\ ChunksTo(ts, a, k)
    <3>1. k \in 1 .. Len(ts) /\ a < k /\ m \in (a + 2) .. k /\ k \in a .. b
      OBVIOUS
    <3> QED
      BY <1>2, <2>2, <3>1
  <2>3. Completes(ts, st, a, b) => \E m \in (a + 2) .. b : In(m) /\ Completes(ts, st, m, b)
    BY <1>5, <2>1 DEF Completes
  <2>4. (\E m \in (a + 2) .. b : In(m) /\ Completes(ts, st, m, b)) => Completes(ts, st, a, b)
    BY <1>5, <2>2 DEF Completes
  <2> QED
    BY <2>3, <2>4
<1> QED
  BY <1>4, <1>5

LEMMA ReadCase ==
  ASSUME NEW ts, Len(ts) \in Nat, NEW a \in 1 .. Len(ts), NEW b \in 1 .. Len(ts),
         ts[a].kind = "case", ts[b].kind \in Closers,
         NEW st \in {"open", "first", "cases"}
  PROVE  (a <= b /\ Completes(ts, st, a, b)) <=> (a + 1 <= b /\ Completes(ts, "open", a + 1, b))
<1>1. a # b
  BY DEF Closers
<1> SUFFICES ASSUME a < b
             PROVE  Completes(ts, st, a, b) <=> Completes(ts, "open", a + 1, b)
  BY <1>1
<1>0. CasesTo(ts, a, b) <=>
            \/ a = b
            \/ /\ a < b /\ ts[a].kind = "case"
               /\ \E m \in (a + 1) .. b : ChunksTo(ts, a + 1, m) /\ CasesTo(ts, m, b)
  BY Unfold
<1>2. CasesTo(ts, a, b) <=> \E m \in (a + 1) .. b : ChunksTo(ts, a + 1, m) /\ CasesTo(ts, m, b)
  BY <1>0
<1>3. Completes(ts, "open", a + 1, b) <=> CasesTo(ts, a, b)
  BY <1>2 DEF Completes
<1>4. \A m \in a .. b : ChunksTo(ts, a, m) <=> m = a
  BY ChunksFrom
<1>5. ~BlankAt(ts, a)
  BY DEF BlankAt
<1>6. CASE st = "open"
  <2>1. a \in a .. b
    OBVIOUS
  <2> QED
    BY <1>3, <1>4, <1>6, <2>1 DEF Completes
<1>7. CASE st \in {"first", "cases"}
  BY <1>3, <1>5, <1>7 DEF Completes, FirstTo
<1> QED
  BY <1>6, <1>7

LEMMA ReadBlank ==
  ASSUME NEW ts, Len(ts) \in Nat, NEW a \in 1 .. Len(ts), NEW b \in 1 .. Len(ts),
         ts[a].kind = "blob", ts[b].kind \in Closers
  PROVE  /\ (a <= b /\ Completes(ts, "first", a, b)) <=>
                (BlankAt(ts, a) /\ a + 1 <= b /\ Completes(ts, "cases", a + 1, b))
         /\ ~(a <= b /\ Completes(ts, "cases", a, b))
<1>1. a # b
  BY DEF Closers
<1>2. a < b => ~CasesTo(ts, a, b)
  BY ChunksFrom
<1> QED
  BY <1>1, <1>2 DEF Completes, FirstTo

LEMMA ReadUnexpected ==
  ASSUME NEW ts, Len(ts) \in Nat, NEW a \in 1 .. Len(ts), NEW b \in 1 .. Len(ts),
         ts[b].kind \in Closers, NEW st,
         \/ ts[a].kind = "case" /\ st = "chunks"
         \/ ts[a].kind \in {"replacement", "switch", "for"} /\ st \in {"first", "cases"}
  PROVE  ~(a <= b /\ Completes(ts, st, a, b))
<1>1. a # b
  BY DEF Closers
<1>2. a < b /\ ts[a].kind = "case" => ~ChunksTo(ts, a, b)
  BY ChunksFrom
<1>3. a < b /\ ts[a].kind # "case" => ~CasesTo(ts, a, b)
  BY ChunksFrom
<1> QED
  BY <1>1, <1>2, <1>3 DEF Completes, FirstTo, BlankAt

-----------------------------------------------------------------------------
(* What is left of the calls in progress: each of them ends at a token of  *)
(* its own, the inner ones first                                           *)

FrameFrom(stk, p, e, k) == IF k = Len(stk) THEN p ELSE e[k + 1] + 1
Finishes(ts, f, a, b) ==
    /\ a <= b /\ ts[b].kind = CloserOf(f.kind)
    /\ Completes(ts, StatusOfFrame(f), a, b)
Viable(ts, stk, p) ==
    \E e \in [1 .. Len(stk) -> 1 .. Len(ts)] :
        \A k \in 1 .. Len(stk) : Finishes(ts, stk[k], FrameFrom(stk, p, e, k), e[k])

LEMMA TopChanges ==
  ASSUME NEW ts, Len(ts) \in Nat, NEW n \in Nat \ {0},
         NEW stk, Len(stk) = n, NEW stk2, Len(stk2) = n, NEW p, NEW p2,
         \A k \in 1 .. n : k < n => stk2[k] = stk[k],
         \A b \in 1 .. Len(ts) : Finishes(ts, stk[n], p, b) => Finishes(ts, stk2[n], p2, b),
         Viable(ts, stk, p)
  PROVE  Viable(ts, stk2, p2)
<1>1. PICK e \in [1 .. n -> 1 .. Len(ts)] :
        \A k \in 1 .. n : Finishes(ts, stk[k], FrameFrom(stk, p, e, k), e[k])
  BY DEF Viable
<1>2. ASSUME NEW k \in 1 .. n
      PROVE  Finishes(ts, stk2[k], FrameFrom(stk2, p2, e, k), e[k])
  <2>1. CASE k = n
    <3>1. FrameFrom(stk, p, e, k) = p /\ FrameFrom(stk2, p2, e, k) = p2
      BY <2>1 DEF FrameFrom
    <3>2. e[n] \in 1 .. Len(ts)
      BY <1>1
    <3> QED
      BY <1>1, <2>1, <3>1, <3>2
  <2>2. CASE k < n
    <3>1. FrameFrom(stk, p, e, k) = FrameFrom(stk2, p2, e, k)
      BY <2>2 DEF FrameFrom
    <3> QED
      BY <1>1, <2>2, <3>1
  <2> QED
    BY <2>1, <2>2
<1> QED
  BY <1>1, <1>2 DEF Viable

LEMMA Stuck ==
  ASSUME NEW ts, Len(ts) \in Nat, NEW n \in Nat \ {0}, NEW stk, Len(stk) = n, NEW p,
         \A b \in 1 .. Len(ts) : ~Finishes(ts, stk[n], p, b)
  PROVE  ~Viable(ts, stk, p)
<1> SUFFICES ASSUME NEW e \in [1 .. n -> 1 .. Len(ts)],
                    \A k \in 1 .. n : Finishes(ts, stk[k], FrameFrom(stk, p, e, k), e[k])
             PROVE  FALSE
  BY DEF Viable
<1>1. n \in 1 .. n /\ FrameFrom(stk, p, e, n) = p /\ e[n] \in 1 .. Len(ts)
  BY DEF FrameFrom
<1> QED
  BY <1>1

LEMMA Pushed ==
  ASSUME NEW ts, Len(ts) \in Nat, NEW n \in Nat \ {0}, NEW p \in 1 .. Len(ts),
         p + 1 <= Len(ts),
         NEW stk, Len(stk) = n, NEW stk2, Len(stk2) = n + 1,
         \A k \in 1 .. n : stk2[k] = stk[k],
         ts[p].kind \in {"for", "switch"},
         StatusOfFrame(stk[n]) \in {"chunks", "open"},
         stk2[n + 1].kind = ts[p].kind, StatusOfFrame(stk2[n + 1]) = InsideOf(ts[p].kind)
  PROVE  Viable(ts, stk, p) <=> Viable(ts, stk2, p + 1)
<1> DEFINE st == StatusOfFrame(stk[n])
           g == stk2[n + 1]
           Inner(m) == /\ ts[m - 1].kind = CloserOf(ts[p].kind)
                       /\ Completes(ts, InsideOf(ts[p].kind), p + 1, m - 1)
<1>1. \A b \in 1 .. Len(ts) : ts[b].kind = CloserOf(stk[n].kind) =>
        ((p <= b /\ Completes(ts, st, p, b)) <=>
            \E m \in (p + 2) .. b : Inner(m) /\ Completes(ts, st, m, b))
  <2> TAKE b \in 1 .. Len(ts)
  <2> HAVE ts[b].kind = CloserOf(stk[n].kind)
  <2>1. ts[b].kind \in Closers
    BY DEF CloserOf, Closers
  <2> QED
    BY <2>1, ReadOpening
<1>2. \A b \in 1 .. Len(ts) : Finishes(ts, stk[n], p, b) <=>
        \E m \in (p + 2) .. b : Finishes(ts, g, p + 1, m - 1) /\ Finishes(ts, stk[n], m, b)
  <2> TAKE b \in 1 .. Len(ts)
  <2>1. \A m \in (p + 2) .. b : /\ Inner(m) <=> Finishes(ts, g, p + 1, m - 1)
                                /\ m <= b
    BY DEF Finishes
  <2> QED
    BY <1>1, <2>1 DEF Finishes
<1>3. ASSUME Viable(ts, stk, p)
      PROVE  Viable(ts, stk2, p + 1)
  <2>1. PICK e \in [1 .. n -> 1 .. Len(ts)] :
          \A k \in 1 .. n : Finishes(ts, stk[k], FrameFrom(stk, p, e, k), e[k])
    BY <1>3 DEF Viable
  <2>2. e[n] \in 1 .. Len(ts) /\ Finishes(ts, stk[n], p, e[n])
    <3>1. n \in 1 .. n /\ FrameFrom(stk, p, e, n) = p
      BY DEF FrameFrom
    <3> QED
      BY <2>1, <3>1
  <2>3. PICK m \in (p + 2) .. e[n] : Finishes(ts, g, p + 1, m - 1) /\ Finishes(ts, stk[n], m, e[n])
    BY <1>2, <2>2
  <2> DEFINE e2 == [k \in 1 .. n + 1 |-> IF k = n + 1 THEN m - 1 ELSE e[k]]
  <2>4. e2 \in [1 .. n + 1 -> 1 .. Len(ts)] /\ e2[n + 1] = m - 1 /\ \A k \in 1 .. n : e2[k] = e[k]
    BY <2>1, <2>2, <2>3
  <2> HIDE DEF e2
  <2>5. ASSUME NEW k \in 1 .. n + 1
        PROVE  Finishes(ts, stk2[k], FrameFrom(stk2, p + 1, e2, k), e2[k])
    <3>1. CASE k = n + 1
      BY <2>3, <2>4, <3>1 DEF FrameFrom
    <3>2. CASE k = n
      <4>1. FrameFrom(stk2, p + 1, e2, k) = m /\ e2[k] = e[n] /\ stk2[k] = stk[n]
        BY <2>3, <2>4, <3>2 DEF FrameFrom
      <4> QED
        BY <2>3, <4>1
    <3>3. CASE k < n
      <4>1. /\ k \in 1 .. n /\ k + 1 \in 1 .. n
            /\ FrameFrom(stk2, p + 1, e2, k) = FrameFrom(stk, p, e, k) /\ e2[k] = e[k] /\ stk2[k] = stk[k]
        BY <2>4, <3>3 DEF FrameFrom
      <4> QED
        BY <2>1, <4>1
    <3> QED
      BY <3>1, <3>2, <3>3
  <2> QED
    BY <2>4, <2>5 DEF Viable
<1>4. ASSUME Viable(ts, stk2, p + 1)
      PROVE  Viable(ts, stk, p)
  <2>1. PICK e \in [1 .. n + 1 -> 1 .. Len(ts)] :
          \A k \in 1 .. n + 1 : Finishes(ts, stk2[k], FrameFrom(stk2, p + 1, e, k), e[k])
    BY <1>4 DEF Viable
  <2> DEFINE m == e[n + 1] + 1
             d == [k \in 1 .. n |-> e[k]]
  <2>2. e[n] \in 1 .. Len(ts) /\ e[n + 1] \in 1 .. Len(ts)
    BY <2>1
  <2>3. Finishes(ts, g, p + 1, m - 1) /\ Finishes(ts, stk[n], m, e[n])
    <3>1. /\ n + 1 \in 1 .. n + 1 /\ n \in 1 .. n + 1
          /\ FrameFrom(stk2, p + 1, e, n + 1) = p + 1 /\ FrameFrom(stk2, p + 1, e, n) = m /\ m - 1 = e[n + 1]
      BY <2>2 DEF FrameFrom
    <3>2. stk2[n] = stk[n]
      OBVIOUS
    <3> HIDE DEF m
    <3> QED
      BY <2>1, <3>1, <3>2
  <2>4. m \in (p + 2) .. e[n]
    BY <2>2, <2>3 DEF Finishes
  <2>5. Finishes(ts, stk[n], p, e[n])
    <3> HIDE DEF m
    <3> QED
      BY <1>2, <2>2, <2>3, <2>4
  <2>6. d \in [1 .. n -> 1 .. Len(ts)] /\ \A k \in 1 .. n : d[k] = e[k]
    BY <2>1
  <2> HIDE DEF d
  <2>7. ASSUME NEW k \in 1 .. n
        PROVE  Finishes(ts, stk[k], FrameFrom(stk, p, d, k), d[k])
    <3>1. CASE k = n
      BY <2>5, <2>6, <3>1 DEF FrameFrom
    <3>2. CASE k < n
      <4>1. /\ k \in 1 .. n + 1 /\ k + 1 \in 1 .. n
            /\ FrameFrom(stk2, p + 1, e, k) = FrameFrom(stk, p, d, k) /\ e[k] = d[k] /\ stk2[k] = stk[k]
        BY <2>6, <3>2 DEF FrameFrom
      <4> QED
        BY <2>1, <4>1
    <3> QED
      BY <3>1, <3>2
  <2> QED
    BY <2>6, <2>7 DEF Viable
<1> QED
  BY <1>3, <1>4

LEMMA Popped ==
  ASSUME NEW ts, Len(ts) \in Nat, NEW n \in Nat \ {0}, NEW p \in 1 .. Len(ts),
         NEW stk, Len(stk) = n + 1, NEW stk2, Len(stk2) = n,
         \A k \in 1 .. n : k < n => stk2[k] = stk[k],
         stk2[n].kind = stk[n].kind, StatusOfFrame(stk2[n]) = StatusOfFrame(stk[n]),
         ts[p].kind = CloserOf(stk[n + 1].kind),
         StatusOfFrame(stk[n + 1]) \in {"chunks", "open", "first", "cases"}
  PROVE  Viable(ts, stk, p) <=> Viable(ts, stk2, p + 1)
<1>1. \A b \in 1 .. Len(ts) : Finishes(ts, stk[n + 1], p, b) <=> b = p
  <2>1. ts[p].kind \in Closers
    BY DEF CloserOf, Closers
  <2> TAKE b \in 1 .. Len(ts)
  <2>2. p <= b => (Completes(ts, StatusOfFrame(stk[n + 1]), p, b) <=> p = b)
    BY <2>1, ReadClosing
  <2> QED
    BY <2>2 DEF Finishes
<1>2. \A a, b : Finishes(ts, stk2[n], a, b) <=> Finishes(ts, stk[n], a, b)
  BY DEF Finishes
<1>3. ASSUME Viable(ts, stk, p)
      PROVE  Viable(ts, stk2, p + 1)
  <2>1. PICK e \in [1 .. n + 1 -> 1 .. Len(ts)] :
          \A k \in 1 .. n + 1 : Finishes(ts, stk[k], FrameFrom(stk, p, e, k), e[k])
    BY <1>3 DEF Viable
  <2> DEFINE d == [k \in 1 .. n |-> e[k]]
  <2>2. d \in [1 .. n -> 1 .. Len(ts)] /\ \A k \in 1 .. n : d[k] = e[k]
    BY <2>1
  <2>3. e[n + 1] = p
    <3>1. n + 1 \in 1 .. n + 1 /\ FrameFrom(stk, p, e, n + 1) = p /\ e[n + 1] \in 1 .. Len(ts)
      BY <2>1 DEF FrameFrom
    <3> QED
      BY <1>1, <2>1, <3>1
  <2> HIDE DEF d
  <2>4. ASSUME NEW k \in 1 .. n
        PROVE  Finishes(ts, stk2[k], FrameFrom(stk2, p + 1, d, k), d[k])
    <3>1. /\ k \in 1 .. n + 1 /\ e[k] = d[k]
          /\ FrameFrom(stk2, p + 1, d, k) = FrameFrom(stk, p, e, k)
      <4>1. CASE k = n
        BY <2>2, <2>3, <4>1 DEF FrameFrom
      <4>2. CASE k < n
        <5>1. k + 1 \in 1 .. n
          BY <4>2
        <5> QED
          BY <2>2, <4>2, <5>1 DEF FrameFrom
      <4> QED
        BY <4>1, <4>2
    <3>2. Finishes(ts, stk[k], FrameFrom(stk, p, e, k), e[k])
      BY <2>1, <3>1
    <3>3. k = n \/ stk2[k] = stk[k]
      OBVIOUS
    <3> QED
      BY <1>2, <3>1, <3>2, <3>3
  <2> QED
    BY <2>2, <2>4 DEF Viable
<1>4. ASSUME Viable(ts, stk2, p + 1)
      PROVE  Viable(ts, stk, p)
  <2>1. PICK d \in [1 .. n -> 1 .. Len(ts)] :
          \A k \in 1 .. n : Finishes(ts, stk2[k], FrameFrom(stk2, p + 1, d, k), d[k])
    BY <1>4 DEF Viable
  <2> DEFINE e == [k \in 1 .. n + 1 |-> IF k = n + 1 THEN p ELSE d[k]]
  <2>2. e \in [1 .. n + 1 -> 1 .. Len(ts)] /\ e[n + 1] = p /\ \A k \in 1 .. n : d[k] = e[k]
    BY <2>1
  <2> HIDE DEF e
  <2>3. ASSUME NEW k \in 1 .. n + 1
        PROVE  Finishes(ts, stk[k], FrameFrom(stk, p, e, k), e[k])
    <3>1. CASE k = n + 1
      <4>1. FrameFrom(stk, p, e, k) = p /\ e[k] = p /\ stk[k] = stk[n + 1]
        BY <2>2, <3>1 DEF FrameFrom
      <4> QED
        BY <1>1, <4>1
    <3>2. CASE k \in 1 .. n
      <4>1. e[k] = d[k] /\ FrameFrom(stk2, p + 1, d, k) = FrameFrom(stk, p, e, k)
        BY <2>2, <3>2 DEF FrameFrom
      <4>2. Finishes(ts, stk2[k], FrameFrom(stk2, p + 1, d, k), d[k])
        BY <2>1, <3>2
      <4>3. k = n \/ stk2[k] = stk[k]
        BY <3>2
      <4> QED
        BY <1>2, <4>1, <4>2, <4>3
    <3> QED
      BY <3>1, <3>2
  <2> QED
    BY <2>2, <2>3 DEF Viable
<1> QED
  BY <1>3, <1>4

LEMMA WholeText ==
  ASSUME NEW ts, Len(ts) \in Nat \ {0}, NEW stk, Len(stk) = 1,
         stk[1].kind = "top", ts[Len(ts)].kind = "eof",
         \A i \in 1 .. Len(ts) : ts[i].kind = "eof" => i = Len(ts)
  PROVE  /\ Viable(ts, stk, 1) <=> Parser!InLanguage(ts)
         /\ Viable(ts, stk, Len(ts))
<1> DEFINE N == Len(ts)
<1>1. \A p \in 1 .. N : Viable(ts, stk, p) <=> \E b \in 1 .. N : Finishes(ts, stk[1], p, b)
  <2> TAKE p \in 1 .. N
  <2>1. \A e : FrameFrom(stk, p, e, 1) = p
    BY DEF FrameFrom
  <2>2. ASSUME Viable(ts, stk, p)
        PROVE  \E b \in 1 .. N : Finishes(ts, stk[1], p, b)
    BY <2>1, <2>2 DEF Viable
  <2>3. ASSUME NEW b \in 1 .. N, Finishes(ts, stk[1], p, b)
        PROVE  Viable(ts, stk, p)
    <3> DEFINE e == [k \in 1 .. 1 |-> b]
    <3>1. e \in [1 .. Len(stk) -> 1 .. Len(ts)] /\ e[1] = b /\ \A k \in 1 .. 1 : k = 1
      OBVIOUS
    <3> HIDE DEF e
    <3> QED
      BY <2>1, <2>3, <3>1 DEF Viable
  <2> QED
    BY <2>2, <2>3
<1>2. \A p, b \in 1 .. N : Finishes(ts, stk[1], p, b) <=> b = N /\ ChunksTo(ts, p, N)
  BY DEF Finishes, CloserOf, StatusOfFrame, Completes
<1>3. Parser!InLanguage(ts) <=> ChunksTo(ts, 1, N)
  BY LanguageIs DEF ChunksTo
<1>4. 1 \in 1 .. N /\ N \in 1 .. N /\ ChunksTo(ts, N, N)
  BY ChunksFrom
<1> QED
  BY <1>1, <1>2, <1>3, <1>4

-----------------------------------------------------------------------------
(* Frames, and the stack of them                                           *)

IsFrame(f) ==
    /\ f = [kind |-> f.kind, val |-> f.val, chunks |-> f.chunks, cases |-> f.cases,
            open |-> f.open, is_first |-> f.is_first]
    /\ f.kind \in {"top", "for", "switch"}
    /\ f.is_first \in BOOLEAN
IsStack(stk) ==
    /\ \E S : stk \in Seq(S)
    /\ Len(stk) # 0
    /\ \A k \in 1 .. Len(stk) : IsFrame(stk[k]) /\ (stk[k].kind = "top" <=> k = 1)

LEMMA FreshFrame ==
  ASSUME NEW kind \in {"top", "for", "switch"}, NEW val
  PROVE  /\ IsFrame(Parser!Frame(kind, val))
         /\ Parser!Frame(kind, val).kind = kind
         /\ StatusOfFrame(Parser!Frame(kind, val)) = InsideOf(kind)
<1> DEFINE f == Parser!Frame(kind, val)
<1>1. /\ f = [kind |-> kind, val |-> val, chunks |-> <<>>, cases |-> <<>>, open |-> <<>>, is_first |-> TRUE]
      /\ f.kind = kind /\ f.val = val /\ f.chunks = <<>> /\ f.cases = <<>> /\ f.open = <<>> /\ f.is_first = TRUE
  BY DEF Parser!Frame
<1> HIDE DEF f
<1> QED
  BY <1>1 DEF IsFrame, StatusOfFrame, InsideOf, f

FrameOf(k, va, ch, cs, o, i) ==
    [kind |-> k, val |-> va, chunks |-> ch, cases |-> cs, open |-> o, is_first |-> i]

LEMMA FrameIs ==
  ASSUME NEW k, k \in {"top", "for", "switch"}, NEW va, NEW ch, NEW cs, NEW o, NEW i, i \in BOOLEAN
  PROVE  /\ IsFrame(FrameOf(k, va, ch, cs, o, i))
         /\ FrameOf(k, va, ch, cs, o, i).kind = k
         /\ FrameOf(k, va, ch, cs, o, i).open = o
         /\ FrameOf(k, va, ch, cs, o, i).is_first = i
<1> DEFINE f == FrameOf(k, va, ch, cs, o, i)
<1>1. f = [kind |-> k, val |-> va, chunks |-> ch, cases |-> cs, open |-> o, is_first |-> i]
  BY DEF FrameOf
<1> HIDE DEF f
<1>2. /\ f.kind = k /\ f.open = o /\ f.is_first = i
      /\ f.val = va /\ f.chunks = ch /\ f.cases = cs
  BY <1>1
<1> QED
  BY <1>1, <1>2 DEF IsFrame, f

LEMMA IsFrameOf ==
  ASSUME NEW f, IsFrame(f)
  PROVE  f = FrameOf(f.kind, f.val, f.chunks, f.cases, f.open, f.is_first)
  BY DEF IsFrame, FrameOf

CaseRead(f, x, v) == [f EXCEPT !.cases = x, !.open = v, !.chunks = <<>>, !.is_first = FALSE]
BlankRead(f) == [f EXCEPT !.is_first = FALSE]
Past == FALSE

LEMMA ChunksSet ==
  ASSUME NEW k, NEW va, NEW ch, NEW cs, NEW o, NEW i, NEW x
  PROVE  Parser!AddChunk(FrameOf(k, va, ch, cs, o, i), x) = FrameOf(k, va, Append(ch, x), cs, o, i)
<1>1. \A y : [FrameOf(k, va, ch, cs, o, i) EXCEPT !.chunks = y] = FrameOf(k, va, y, cs, o, i)
  BY DEF FrameOf
<1>2. FrameOf(k, va, ch, cs, o, i).chunks = ch
  BY DEF FrameOf
<1>3. Parser!AddChunk(FrameOf(k, va, ch, cs, o, i), x)
          = [FrameOf(k, va, ch, cs, o, i) EXCEPT !.chunks = Append(FrameOf(k, va, ch, cs, o, i).chunks, x)]
  BY DEF Parser!AddChunk
<1> QED
  BY <1>1, <1>2, <1>3

LEMMA BlankSet ==
  ASSUME NEW k, NEW va, NEW ch, NEW cs, NEW o, NEW i
  PROVE  BlankRead(FrameOf(k, va, ch, cs, o, i)) = FrameOf(k, va, ch, cs, o, Past)
<1>1. \A b : [FrameOf(k, va, ch, cs, o, i) EXCEPT !.is_first = b] = FrameOf(k, va, ch, cs, o, b)
  BY DEF FrameOf
<1> QED
  BY <1>1, Zenon DEF BlankRead, Past

LEMMA CaseSet ==
  ASSUME NEW k, NEW va, NEW ch, NEW cs, NEW o, NEW i, NEW x, NEW v
  PROVE  CaseRead(FrameOf(k, va, ch, cs, o, i), x, v) = FrameOf(k, va, <<>>, x, v, Past)
<1> DEFINE f == FrameOf(k, va, ch, cs, o, i)
<1>1. f \in [kind : {k}, val : {va}, chunks : {ch}, cases : {cs}, open : {o}, is_first : {i}]
  BY DEF FrameOf
<1>2. \A y, b : [f EXCEPT !.cases = x, !.open = v, !.chunks = y, !.is_first = b]
                    = FrameOf(k, va, y, x, v, b)
  <2> TAKE y, b
  <2> DEFINE g == [f EXCEPT !.cases = x, !.open = v, !.chunks = y, !.is_first = b]
             H == [kind : {k}, val : {va}, chunks : {y}, cases : {x}, open : {v}, is_first : {b}]
  <2>1. g \in H
    <3> HIDE DEF f
    <3> QED
      BY <1>1
  <2>2. \A h \in H : h = FrameOf(k, va, y, x, v, b)
    BY DEF FrameOf
  <2> HIDE DEF f, g, H
  <2> QED
    BY <2>1, <2>2 DEF g
<1> HIDE DEF f
<1>3. CaseRead(f, x, v) = FrameOf(k, va, <<>>, x, v, Past)
  BY <1>2, Zenon DEF CaseRead, Past
<1> QED
  BY <1>3 DEF f

LEMMA ChunkAdded ==
  ASSUME NEW f, IsFrame(f), NEW c
  PROVE  /\ IsFrame(Parser!AddChunk(f, c))
         /\ Parser!AddChunk(f, c).kind = f.kind
         /\ StatusOfFrame(Parser!AddChunk(f, c)) = StatusOfFrame(f)
<1> DEFINE g == Parser!AddChunk(f, c)
           h == FrameOf(f.kind, f.val, Append(f.chunks, c), f.cases, f.open, f.is_first)
<1>1. f.kind \in {"top", "for", "switch"} /\ f.is_first \in BOOLEAN
  BY DEF IsFrame
<1>2. g = h
  <2>1. Parser!AddChunk(FrameOf(f.kind, f.val, f.chunks, f.cases, f.open, f.is_first), c) = h
    BY ChunksSet
  <2> QED
    BY <2>1, IsFrameOf
<1>3. IsFrame(h) /\ h.kind = f.kind /\ h.open = f.open /\ h.is_first = f.is_first
  BY <1>1, FrameIs
<1> HIDE DEF g, h
<1> QED
  BY <1>2, <1>3 DEF StatusOfFrame, g

LEMMA CaseOpened ==
  ASSUME NEW f, IsFrame(f), f.kind = "switch", NEW v, v # <<>>, NEW x
  PROVE  /\ IsFrame(CaseRead(f, x, v))
         /\ CaseRead(f, x, v).kind = f.kind
         /\ StatusOfFrame(CaseRead(f, x, v)) = "open"
<1> DEFINE g == CaseRead(f, x, v)
           h == FrameOf(f.kind, f.val, <<>>, x, v, Past)
<1>1. g = h
  <2>1. CaseRead(FrameOf(f.kind, f.val, f.chunks, f.cases, f.open, f.is_first), x, v) = h
    BY CaseSet
  <2> QED
    BY <2>1, IsFrameOf
<1>2. IsFrame(h) /\ h.kind = f.kind /\ h.open = v
  <2>1. f.kind \in {"top", "for", "switch"} /\ Past \in BOOLEAN
    BY DEF Past
  <2> QED
    BY <2>1, FrameIs
<1> HIDE DEF g, h
<1> QED
  BY <1>1, <1>2 DEF StatusOfFrame, g

LEMMA BlankTaken ==
  ASSUME NEW f, IsFrame(f), f.kind = "switch", f.open = <<>>
  PROVE  /\ IsFrame(BlankRead(f))
         /\ BlankRead(f).kind = f.kind
         /\ StatusOfFrame(BlankRead(f)) = "cases"
<1> DEFINE g == BlankRead(f)
           h == FrameOf(f.kind, f.val, f.chunks, f.cases, f.open, Past)
<1>1. g = h
  <2>1. BlankRead(FrameOf(f.kind, f.val, f.chunks, f.cases, f.open, f.is_first)) = h
    BY BlankSet
  <2> QED
    BY <2>1, IsFrameOf
<1>2. IsFrame(h) /\ h.kind = f.kind /\ h.open = f.open /\ h.is_first = Past
  <2>1. f.kind \in {"top", "for", "switch"} /\ Past \in BOOLEAN
    BY DEF Past
  <2> QED
    BY <2>1, FrameIs
<1> HIDE DEF g, h
<1> QED
  BY <1>1, <1>2 DEF StatusOfFrame, g, Past

LEMMA LargerSeqs ==
  ASSUME NEW S, NEW T, S \subseteq T, NEW s \in Seq(S)
  PROVE  s \in Seq(T)
  BY SeqDef, LenProperties

LEMMA StackIs ==
  ASSUME NEW stk, IsStack(stk)
  PROVE  Len(stk) \in Nat \ {0}
  BY LenProperties DEF IsStack

TopSet(stk, g) == [stk EXCEPT ![Len(stk)] = g]

LEMMA TopChanged ==
  ASSUME NEW stk, IsStack(stk), NEW g
  PROVE  /\ \E S : TopSet(stk, g) \in Seq(S)
         /\ Len(TopSet(stk, g)) = Len(stk)
         /\ TopSet(stk, g)[Len(stk)] = g
         /\ \A k \in 1 .. Len(stk) : k < Len(stk) => TopSet(stk, g)[k] = stk[k]
<1>1. PICK S : stk \in Seq(S)
  BY DEF IsStack
<1> DEFINE T == S \cup {g}
<1>2. stk \in Seq(T) /\ g \in T
  BY <1>1, LargerSeqs
<1>3. Len(stk) \in Nat \ {0} /\ Len(stk) \in 1 .. Len(stk)
  BY StackIs
<1> HIDE DEF T
<1> QED
  BY <1>2, <1>3, ExceptSeq DEF TopSet

LEMMA FramePushed ==
  ASSUME NEW stk, IsStack(stk), NEW g
  PROVE  /\ \E S : Append(stk, g) \in Seq(S)
         /\ Len(Append(stk, g)) = Len(stk) + 1
         /\ Append(stk, g)[Len(stk) + 1] = g
         /\ \A k \in 1 .. Len(stk) : Append(stk, g)[k] = stk[k]
<1>1. PICK S : stk \in Seq(S)
  BY DEF IsStack
<1> DEFINE T == S \cup {g}
<1>2. stk \in Seq(T) /\ g \in T
  BY <1>1, LargerSeqs
<1> HIDE DEF T
<1> QED
  BY <1>2, AppendProperties

LEMMA FramePopped ==
  ASSUME NEW stk, IsStack(stk)
  PROVE  /\ \E S : Parser!Front(stk) \in Seq(S)
         /\ Len(Parser!Front(stk)) = Len(stk) - 1
         /\ \A k \in 1 .. Len(stk) - 1 : Parser!Front(stk)[k] = stk[k]
<1> DEFINE n == Len(stk)
<1>1. PICK S : stk \in Seq(S)
  BY DEF IsStack
<1>2. n \in Nat \ {0}
  BY StackIs
<1>3. Parser!Front(stk) = SubSeq(stk, 1, n - 1)
  BY DEF Parser!Front
<1>4. \A i \in 1 .. n - 1 : stk[i] \in S
  BY <1>1, <1>2, ElementOfSeq
<1> HIDE DEF n
<1>5. /\ SubSeq(stk, 1, n - 1) \in Seq(S)
      /\ Len(SubSeq(stk, 1, n - 1)) = IF 1 <= n - 1 THEN n - 1 - 1 + 1 ELSE 0
      /\ \A i \in 1 .. n - 1 - 1 + 1 : SubSeq(stk, 1, n - 1)[i] = stk[1 + i - 1]
  BY <1>2, <1>4, SubSeqProperties
<1>6. /\ (IF 1 <= n - 1 THEN n - 1 - 1 + 1 ELSE 0) = n - 1
      /\ \A i \in 1 .. n - 1 : i \in 1 .. n - 1 - 1 + 1 /\ 1 + i - 1 = i
  BY <1>2
<1>7. \A i \in 1 .. n - 1 : SubSeq(stk, 1, n - 1)[i] = stk[i]
  BY <1>5, <1>6
<1> QED
  BY <1>3, <1>5, <1>6, <1>7 DEF n

-----------------------------------------------------------------------------
(* The parser has read what its stack and what it has left say             *)

EndsOnce(ts) ==
    /\ Len(ts) \in Nat \ {0}
    /\ ts[Len(ts)].kind = "eof"
    /\ \A i \in 1 .. Len(ts) : ts[i].kind = "eof" => i = Len(ts)

ParseHolds(ts, stk, p, ph) ==
    /\ IsStack(stk)
    /\ ph = "lex" => stk = <<Parser!Frame("top", <<>>)>> /\ p = 1
    /\ ph = "parse" => p \in 1 .. Len(ts) /\ (Viable(ts, stk, p) <=> Parser!InLanguage(ts))
    /\ ph = "parsed" => Parser!InLanguage(ts)
    /\ ph = "rejected" /\ Len(ts) # 0 /\ ts[Len(ts)].kind = "eof" => ~Parser!InLanguage(ts)

LEMMA FrameStatus ==
  ASSUME NEW f, IsFrame(f)
  PROVE  /\ StatusOfFrame(f) \in {"chunks", "open", "first", "cases"}
         /\ Parser!ReadsChunks(f) <=> StatusOfFrame(f) \in {"chunks", "open"}
         /\ f.kind = "switch" <=> StatusOfFrame(f) \in {"open", "first", "cases"}
         /\ StatusOfFrame(f) \in {"first", "cases"} => f.kind = "switch" /\ f.open = <<>>
         /\ StatusOfFrame(f) \in {"first", "cases"} => (StatusOfFrame(f) = "first" <=> f.is_first)
  BY DEF IsFrame, StatusOfFrame, Parser!ReadsChunks

LEMMA TopStep ==
  ASSUME NEW ts, NEW stk, NEW p, ParseHolds(ts, stk, p, "parse"), EndsOnce(ts),
         NEW g, IsFrame(g), g.kind = stk[Len(stk)].kind, ts[p].kind # "eof",
         \A b \in 1 .. Len(ts) : Finishes(ts, stk[Len(stk)], p, b) <=> Finishes(ts, g, p + 1, b)
  PROVE  ParseHolds(ts, TopSet(stk, g), p + 1, "parse")
<1> DEFINE n == Len(stk)
           stk2 == TopSet(stk, g)
<1>1. IsStack(stk) /\ p \in 1 .. Len(ts) /\ (Viable(ts, stk, p) <=> Parser!InLanguage(ts))
  BY DEF ParseHolds
<1>2. /\ n \in Nat \ {0} /\ \E S : stk2 \in Seq(S)
      /\ Len(stk2) = n /\ stk2[n] = g /\ \A k \in 1 .. n : k < n => stk2[k] = stk[k]
  BY <1>1, StackIs, TopChanged
<1> HIDE DEF stk2
<1>3. Len(ts) \in Nat /\ p + 1 \in 1 .. Len(ts)
  BY <1>1 DEF EndsOnce
<1>4. IsStack(stk2)
  <2>1. \A k \in 1 .. n : IsFrame(stk[k]) /\ (stk[k].kind = "top" <=> k = 1)
    BY <1>1 DEF IsStack
  <2>2. \A k \in 1 .. n : k = n \/ stk2[k] = stk[k]
    BY <1>2
  <2>3. n \in 1 .. n
    BY <1>2
  <2>4. ASSUME NEW k \in 1 .. n
        PROVE  IsFrame(stk2[k]) /\ (stk2[k].kind = "top" <=> k = 1)
    BY <1>2, <2>1, <2>2, <2>3
  <2> QED
    BY <1>2, <2>4 DEF IsStack
<1>5. Viable(ts, stk, p) => Viable(ts, stk2, p + 1)
  BY <1>2, <1>3, TopChanges
<1>6. Viable(ts, stk2, p + 1) => Viable(ts, stk, p)
  <2>1. \A k \in 1 .. n : k < n => stk[k] = stk2[k]
    BY <1>2
  <2>2. \A b \in 1 .. Len(ts) : Finishes(ts, stk2[n], p + 1, b) => Finishes(ts, stk[n], p, b)
    BY <1>2
  <2> QED
    BY <1>2, <1>3, <2>1, <2>2, TopChanges
<1> QED
  BY <1>1, <1>3, <1>4, <1>5, <1>6 DEF ParseHolds, stk2

LEMMA RejectStep ==
  ASSUME NEW ts, NEW stk, NEW p, ParseHolds(ts, stk, p, "parse"), EndsOnce(ts),
         \A b \in 1 .. Len(ts) : ~Finishes(ts, stk[Len(stk)], p, b)
  PROVE  ParseHolds(ts, stk, p, "rejected")
<1>1. IsStack(stk) /\ (Viable(ts, stk, p) <=> Parser!InLanguage(ts)) /\ Len(ts) \in Nat
  BY DEF ParseHolds, EndsOnce
<1>2. Len(stk) \in Nat \ {0}
  BY <1>1, StackIs
<1>3. ~Viable(ts, stk, p)
  BY <1>1, <1>2, Stuck
<1> QED
  BY <1>1, <1>3 DEF ParseHolds

LEMMA ChunkStep ==
  ASSUME NEW ts, NEW stk, NEW p, ParseHolds(ts, stk, p, "parse"), EndsOnce(ts),
         ts[p].kind \in {"blob", "replacement"}, Parser!ReadsChunks(stk[Len(stk)]), NEW c
  PROVE  ParseHolds(ts, TopSet(stk, Parser!AddChunk(stk[Len(stk)], c)), p + 1, "parse")
<1> DEFINE f == stk[Len(stk)]
           g == Parser!AddChunk(f, c)
<1>1. IsStack(stk) /\ p \in 1 .. Len(ts) /\ Len(ts) \in Nat
  BY DEF ParseHolds, EndsOnce
<1>2. IsFrame(f)
  <2>1. Len(stk) \in 1 .. Len(stk)
    BY <1>1, StackIs
  <2> QED
    BY <1>1, <2>1 DEF IsStack
<1>3. IsFrame(g) /\ g.kind = f.kind /\ StatusOfFrame(g) = StatusOfFrame(f) /\ StatusOfFrame(f) \in {"chunks", "open"}
  <2>1. StatusOfFrame(f) \in {"chunks", "open"}
    BY <1>2, FrameStatus
  <2>2. IsFrame(g) /\ g.kind = f.kind /\ StatusOfFrame(g) = StatusOfFrame(f)
    BY <1>2, ChunkAdded
  <2> QED
    BY <2>1, <2>2
<1> HIDE DEF f, g
<1>4. \A b \in 1 .. Len(ts) : Finishes(ts, f, p, b) <=> Finishes(ts, g, p + 1, b)
  <2> TAKE b \in 1 .. Len(ts)
  <2>1. ts[b].kind = CloserOf(f.kind) => ts[b].kind \in Closers
    BY DEF CloserOf, Closers
  <2>2. ts[b].kind = CloserOf(f.kind) =>
          ((p <= b /\ Completes(ts, StatusOfFrame(f), p, b)) <=> (p + 1 <= b /\ Completes(ts, StatusOfFrame(f), p + 1, b)))
    BY <1>1, <1>3, <2>1, ReadChunk
  <2> QED
    BY <1>3, <2>2 DEF Finishes
<1>5. ts[p].kind # "eof"
  OBVIOUS
<1> QED
  BY <1>3, <1>4, <1>5, TopStep DEF f, g

LEMMA CaseStep ==
  ASSUME NEW ts, NEW stk, NEW p, ParseHolds(ts, stk, p, "parse"), EndsOnce(ts),
         ts[p].kind = "case", stk[Len(stk)].kind = "switch", NEW v, v # <<>>, NEW x
  PROVE  ParseHolds(ts, TopSet(stk, CaseRead(stk[Len(stk)], x, v)), p + 1, "parse")
<1> DEFINE f == stk[Len(stk)]
           g == CaseRead(f, x, v)
<1>1. IsStack(stk) /\ p \in 1 .. Len(ts) /\ Len(ts) \in Nat
  BY DEF ParseHolds, EndsOnce
<1>2. IsFrame(f)
  <2>1. Len(stk) \in 1 .. Len(stk)
    BY <1>1, StackIs
  <2> QED
    BY <1>1, <2>1 DEF IsStack
<1>3. /\ IsFrame(g) /\ g.kind = f.kind /\ StatusOfFrame(g) = "open"
      /\ StatusOfFrame(f) \in {"open", "first", "cases"}
  <2>1. StatusOfFrame(f) \in {"open", "first", "cases"}
    BY <1>2, FrameStatus
  <2>2. IsFrame(g) /\ g.kind = f.kind /\ StatusOfFrame(g) = "open"
    BY <1>2, CaseOpened
  <2> QED
    BY <2>1, <2>2
<1> HIDE DEF f, g
<1>4. \A b \in 1 .. Len(ts) : Finishes(ts, f, p, b) <=> Finishes(ts, g, p + 1, b)
  <2> TAKE b \in 1 .. Len(ts)
  <2>1. ts[b].kind = CloserOf(f.kind) => ts[b].kind \in Closers
    BY DEF CloserOf, Closers
  <2>2. ts[b].kind = CloserOf(f.kind) =>
          ((p <= b /\ Completes(ts, StatusOfFrame(f), p, b)) <=> (p + 1 <= b /\ Completes(ts, "open", p + 1, b)))
    BY <1>1, <1>3, <2>1, ReadCase
  <2> QED
    BY <1>3, <2>2 DEF Finishes
<1>5. ts[p].kind # "eof"
  OBVIOUS
<1> QED
  BY <1>3, <1>4, <1>5, TopStep DEF f, g

LEMMA BlankStep ==
  ASSUME NEW ts, NEW stk, NEW p, ParseHolds(ts, stk, p, "parse"), EndsOnce(ts),
         ts[p].kind = "blob", ~Parser!ReadsChunks(stk[Len(stk)])
  PROVE  /\ stk[Len(stk)].is_first /\ BlankAt(ts, p) =>
                ParseHolds(ts, TopSet(stk, BlankRead(stk[Len(stk)])), p + 1, "parse")
         /\ ~(stk[Len(stk)].is_first /\ BlankAt(ts, p)) => ParseHolds(ts, stk, p, "rejected")
<1> DEFINE f == stk[Len(stk)]
           g == BlankRead(f)
<1>1. IsStack(stk) /\ p \in 1 .. Len(ts) /\ Len(ts) \in Nat
  BY DEF ParseHolds, EndsOnce
<1>2. IsFrame(f)
  <2>1. Len(stk) \in 1 .. Len(stk)
    BY <1>1, StackIs
  <2> QED
    BY <1>1, <2>1 DEF IsStack
<1>3. /\ StatusOfFrame(f) \in {"first", "cases"} /\ (StatusOfFrame(f) = "first" <=> f.is_first)
      /\ f.kind = "switch" /\ f.open = <<>>
  BY <1>2, FrameStatus
<1>4. IsFrame(g) /\ g.kind = f.kind /\ StatusOfFrame(g) = "cases"
  BY <1>2, <1>3, BlankTaken
<1> HIDE DEF f, g
<1>5. \A b \in 1 .. Len(ts) : ts[b].kind = CloserOf(f.kind) =>
        /\ (p <= b /\ Completes(ts, "first", p, b)) <=>
                (BlankAt(ts, p) /\ p + 1 <= b /\ Completes(ts, "cases", p + 1, b))
        /\ ~(p <= b /\ Completes(ts, "cases", p, b))
  <2> TAKE b \in 1 .. Len(ts)
  <2> HAVE ts[b].kind = CloserOf(f.kind)
  <2>1. ts[b].kind \in Closers
    BY DEF CloserOf, Closers
  <2> QED
    BY <1>1, <2>1, ReadBlank
<1>6. ASSUME f.is_first, BlankAt(ts, p)
      PROVE  ParseHolds(ts, TopSet(stk, g), p + 1, "parse")
  <2>1. \A b \in 1 .. Len(ts) : Finishes(ts, f, p, b) <=> Finishes(ts, g, p + 1, b)
    BY <1>3, <1>4, <1>5, <1>6 DEF Finishes
  <2>2. ts[p].kind # "eof"
    OBVIOUS
  <2> QED
    BY <1>4, <2>1, <2>2, TopStep DEF f
<1>7. ASSUME ~(f.is_first /\ BlankAt(ts, p))
      PROVE  ParseHolds(ts, stk, p, "rejected")
  <2>1. \A b \in 1 .. Len(ts) : ~Finishes(ts, f, p, b)
    BY <1>3, <1>5, <1>7 DEF Finishes
  <2> QED
    BY <2>1, RejectStep DEF f
<1> QED
  BY <1>6, <1>7 DEF f, g

LEMMA OpeningStep ==
  ASSUME NEW ts, NEW stk, NEW p, ParseHolds(ts, stk, p, "parse"), EndsOnce(ts),
         ts[p].kind \in {"switch", "for"}, Parser!ReadsChunks(stk[Len(stk)]), NEW v
  PROVE  ParseHolds(ts, Append(stk, Parser!Frame(ts[p].kind, v)), p + 1, "parse")
<1> DEFINE n == Len(stk)
           g == Parser!Frame(ts[p].kind, v)
           stk2 == Append(stk, g)
<1>1. IsStack(stk) /\ p \in 1 .. Len(ts) /\ (Viable(ts, stk, p) <=> Parser!InLanguage(ts))
  BY DEF ParseHolds
<1>3. IsFrame(g) /\ g.kind = ts[p].kind /\ StatusOfFrame(g) = InsideOf(ts[p].kind)
  BY FreshFrame
<1> HIDE DEF g
<1>2. /\ n \in Nat \ {0} /\ \E S : stk2 \in Seq(S)
      /\ Len(stk2) = n + 1 /\ stk2[n + 1] = g /\ \A k \in 1 .. n : stk2[k] = stk[k]
  BY <1>1, StackIs, FramePushed
<1> HIDE DEF stk2
<1>4. Len(ts) \in Nat /\ p + 1 \in 1 .. Len(ts)
  BY <1>1 DEF EndsOnce
<1>5. \A k \in 1 .. n : IsFrame(stk[k]) /\ (stk[k].kind = "top" <=> k = 1)
  BY <1>1 DEF IsStack
<1>6. IsStack(stk2)
  <2>1. \A k \in 1 .. n + 1 : k \in 1 .. n \/ (k = n + 1 /\ k # 1)
    BY <1>2
  <2>2. ASSUME NEW k \in 1 .. n + 1
        PROVE  IsFrame(stk2[k]) /\ (stk2[k].kind = "top" <=> k = 1)
    <3>1. CASE k \in 1 .. n
      BY <1>2, <1>5, <3>1
    <3>2. CASE k = n + 1 /\ k # 1
      BY <1>2, <1>3, <3>2
    <3> QED
      BY <2>1, <3>1, <3>2
  <2>3. n + 1 # 0
    BY <1>2
  <2> QED
    BY <1>2, <2>2, <2>3 DEF IsStack
<1>7. StatusOfFrame(stk[n]) \in {"chunks", "open"}
  <2>1. n \in 1 .. n
    BY <1>2
  <2> QED
    BY <1>5, <2>1, FrameStatus
<1>8. Viable(ts, stk, p) <=> Viable(ts, stk2, p + 1)
  <2>1. stk2[n + 1].kind = ts[p].kind /\ StatusOfFrame(stk2[n + 1]) = InsideOf(ts[p].kind)
    BY <1>2, <1>3
  <2>2. p + 1 <= Len(ts)
    BY <1>1, <1>4
  <2> QED
    BY <1>1, <1>2, <1>4, <1>7, <2>1, <2>2, Pushed
<1> QED
  BY <1>1, <1>4, <1>6, <1>8 DEF ParseHolds, stk2, g

LEMMA ClosingStep ==
  ASSUME NEW ts, NEW stk, NEW p, ParseHolds(ts, stk, p, "parse"), EndsOnce(ts),
         ts[p].kind = CloserOf(stk[Len(stk)].kind), stk[Len(stk)].kind # "top",
         NEW outer, outer = Parser!Front(stk), NEW c
  PROVE  ParseHolds(ts, TopSet(outer, Parser!AddChunk(outer[Len(outer)], c)), p + 1, "parse")
<1> DEFINE n == Len(stk)
           m == Len(outer)
           g == Parser!AddChunk(outer[m], c)
           stk2 == TopSet(outer, g)
<1>1. IsStack(stk) /\ p \in 1 .. Len(ts) /\ (Viable(ts, stk, p) <=> Parser!InLanguage(ts))
  BY DEF ParseHolds
<1>2. /\ n \in Nat \ {0} /\ \E S : outer \in Seq(S)
      /\ m = n - 1 /\ \A k \in 1 .. n - 1 : outer[k] = stk[k]
  BY <1>1, StackIs, FramePopped
<1>3. \A k \in 1 .. n : IsFrame(stk[k]) /\ (stk[k].kind = "top" <=> k = 1)
  BY <1>1 DEF IsStack
<1>4. m \in Nat \ {0} /\ n = m + 1 /\ n \in 1 .. n /\ m \in 1 .. n /\ m \in 1 .. n - 1
  BY <1>2, <1>3
<1> HIDE DEF m
<1>5. IsStack(outer)
  <2>1. \A k \in 1 .. m : k \in 1 .. n /\ k \in 1 .. n - 1
    BY <1>4
  <2> QED
    BY <1>2, <1>3, <1>4, <2>1 DEF IsStack, m
<1>6. IsFrame(g) /\ g.kind = stk[m].kind /\ StatusOfFrame(g) = StatusOfFrame(stk[m])
  <2>1. outer[m] = stk[m] /\ IsFrame(outer[m])
    BY <1>2, <1>3, <1>4
  <2> QED
    BY <2>1, ChunkAdded
<1> HIDE DEF g
<1>7. /\ \E S : stk2 \in Seq(S)
      /\ Len(stk2) = m /\ stk2[m] = g /\ \A k \in 1 .. m : k < m => stk2[k] = outer[k]
  <2>1. m = Len(outer)
    BY DEF m
  <2> QED
    BY <1>5, <2>1, TopChanged
<1> HIDE DEF stk2
<1>8. \A k \in 1 .. m : k < m => stk2[k] = stk[k]
  <2>1. \A k \in 1 .. m : k \in 1 .. n - 1
    BY <1>4
  <2> QED
    BY <1>2, <1>7, <2>1
<1>9. IsStack(stk2)
  <2>1. ASSUME NEW k \in 1 .. m
        PROVE  IsFrame(stk2[k]) /\ (stk2[k].kind = "top" <=> k = 1)
    <3>1. k \in 1 .. n /\ (k < m \/ k = m)
      BY <1>4
    <3> QED
      BY <1>3, <1>6, <1>7, <1>8, <3>1
  <2> QED
    BY <1>4, <1>7, <2>1 DEF IsStack
<1>10. Len(ts) \in Nat /\ p + 1 \in 1 .. Len(ts)
  <2>1. ts[p].kind # "eof"
    BY <1>3, <1>4 DEF CloserOf, IsFrame
  <2> QED
    BY <1>1, <2>1 DEF EndsOnce
<1>11. Viable(ts, stk, p) <=> Viable(ts, stk2, p + 1)
  <2>1. StatusOfFrame(stk[m + 1]) \in {"chunks", "open", "first", "cases"}
    BY <1>3, <1>4, FrameStatus
  <2>2. /\ Len(stk) = m + 1 /\ stk2[m].kind = stk[m].kind /\ StatusOfFrame(stk2[m]) = StatusOfFrame(stk[m])
        /\ ts[p].kind = CloserOf(stk[m + 1].kind)
    BY <1>4, <1>6, <1>7
  <2>3. m \in Nat \ {0} /\ p \in 1 .. Len(ts) /\ Len(ts) \in Nat /\ Len(stk2) = m
    BY <1>1, <1>4, <1>7, <1>10
  <2> HIDE DEF n
  <2> QED
    BY <1>8, <2>1, <2>2, <2>3, Popped
<1> QED
  BY <1>1, <1>9, <1>10, <1>11 DEF ParseHolds, stk2, g, m

LEMMA EndStep ==
  ASSUME NEW ts, NEW stk, NEW p, ParseHolds(ts, stk, p, "parse"), EndsOnce(ts),
         ts[p].kind = "eof", stk[Len(stk)].kind = "top"
  PROVE  ParseHolds(ts, stk, p, "parsed")
<1>1. IsStack(stk) /\ p \in 1 .. Len(ts) /\ (Viable(ts, stk, p) <=> Parser!InLanguage(ts))
  BY DEF ParseHolds
<1>2. Len(stk) \in Nat \ {0}
  BY <1>1, StackIs
<1>3. Len(stk) = 1 /\ stk[1].kind = "top"
  <2>1. Len(stk) \in 1 .. Len(stk)
    BY <1>2
  <2> QED
    BY <1>1, <2>1 DEF IsStack
<1>4. Viable(ts, stk, Len(ts))
  BY <1>3, WholeText DEF EndsOnce
<1>5. p = Len(ts)
  BY <1>1 DEF EndsOnce
<1> QED
  BY <1>1, <1>4, <1>5 DEF ParseHolds

LEMMA ErrorStep ==
  ASSUME NEW ts, NEW stk, NEW p, ParseHolds(ts, stk, p, "parse"), EndsOnce(ts),
         Parser!Unexpected(ts[p].kind, stk[Len(stk)])
  PROVE  ParseHolds(ts, stk, p, "rejected")
<1> DEFINE f == stk[Len(stk)]
<1>1. IsStack(stk) /\ p \in 1 .. Len(ts) /\ Len(ts) \in Nat
  BY DEF ParseHolds, EndsOnce
<1>2. IsFrame(f)
  <2>1. Len(stk) \in 1 .. Len(stk)
    BY <1>1, StackIs
  <2> QED
    BY <1>1, <2>1 DEF IsStack
<1>3. /\ StatusOfFrame(f) \in {"chunks", "open", "first", "cases"}
      /\ Parser!ReadsChunks(f) <=> StatusOfFrame(f) \in {"chunks", "open"}
      /\ f.kind = "switch" <=> StatusOfFrame(f) \in {"open", "first", "cases"}
  BY <1>2, FrameStatus
<1>4. Parser!Unexpected(ts[p].kind, f)
  OBVIOUS
<1> HIDE DEF f
<1>5. CASE ts[p].kind \in Closers
  <2>1. ts[p].kind # CloserOf(f.kind)
    BY <1>2, <1>4, <1>5 DEF Parser!Unexpected, CloserOf, Closers, IsFrame
  <2>2. \A b \in 1 .. Len(ts) : ~Finishes(ts, f, p, b)
    <3> TAKE b \in 1 .. Len(ts)
    <3>1. p <= b => (Completes(ts, StatusOfFrame(f), p, b) <=> p = b)
      BY <1>1, <1>3, <1>5, ReadClosing
    <3> QED
      BY <2>1, <3>1 DEF Finishes
  <2> QED
    BY <2>2, RejectStep DEF f
<1>6. CASE ts[p].kind \notin Closers
  <2>1. \/ ts[p].kind = "case" /\ StatusOfFrame(f) = "chunks"
        \/ ts[p].kind \in {"replacement", "switch", "for"} /\ StatusOfFrame(f) \in {"first", "cases"}
    BY <1>3, <1>4, <1>6 DEF Parser!Unexpected, Closers
  <2>2. \A b \in 1 .. Len(ts) : ~Finishes(ts, f, p, b)
    <3> TAKE b \in 1 .. Len(ts)
    <3>1. ts[b].kind = CloserOf(f.kind) => ts[b].kind \in Closers
      BY DEF CloserOf, Closers
    <3>2. ts[b].kind \in Closers => ~(p <= b /\ Completes(ts, StatusOfFrame(f), p, b))
      BY <1>1, <2>1, ReadUnexpected
    <3> QED
      BY <3>1, <3>2 DEF Finishes
  <2> QED
    BY <2>2, RejectStep DEF f
<1> QED
  BY <1>5, <1>6

-----------------------------------------------------------------------------
(* Every step of the tokenizer and of the parser                           *)

ParseInv == ParseHolds(parse_tokens, parse_stack, parse_pos, parse_phase)
TemplateInv == LexInv /\ ParseInv

LEMMA ParsedTokens ==
  ASSUME TemplateInv, parse_phase = "parse"
  PROVE  /\ EndsOnce(parse_tokens)
         /\ ParseHolds(parse_tokens, parse_stack, parse_pos, "parse")
<1>1. parse_tokens \in Seq(TokenOf) /\ TokensEnd
  BY DEF TemplateInv, LexInv, TextsCut
<1>2. Len(parse_tokens) \in Nat
  BY <1>1, LenProperties
<1> QED
  BY <1>1, <1>2 DEF EndsOnce, TokensEnd, TemplateInv, ParseInv

LEMMA TokensStay ==
  ASSUME TemplateInv, parse_phase = "parse", parse_phase' \in {"parse", "parsed", "rejected"},
         UNCHANGED <<parse_text, parse_rest, parse_tokens>>
  PROVE  LexInv'
<1>1. TextsCut'
  <2>1. PieceOf' = PieceOf
    BY DEF PieceOf
  <2>2. TokenOf' = TokenOf
    BY <2>1 DEF TokenOf
  <2>3. PrintedTokens(parse_tokens)' = PrintedTokens(parse_tokens)
    BY DEF PrintedTokens
  <2> QED
    BY <2>1, <2>2, <2>3 DEF TemplateInv, LexInv, TextsCut
<1>2. TokensEnd'
  BY DEF TemplateInv, LexInv, TokensEnd
<1> QED
  BY <1>1, <1>2 DEF LexInv

LEMMA LexParses ==
  ASSUME TemplateInv, Parser!Lex
  PROVE  TemplateInv'
<1>1. LexInv'
  BY LexKeeps DEF TemplateInv
<1> DEFINE t == Parser!ReadToken(parse_rest)
           top == Parser!Frame("top", <<>>)
<1>2. /\ parse_phase = "lex" /\ parse_stack' = parse_stack /\ parse_pos' = parse_pos
      /\ t.err # "" => parse_phase' = "rejected" /\ parse_tokens' = parse_tokens
      /\ t.err = "" => parse_phase' = IF t.kind = "eof" THEN "parse" ELSE "lex"
  BY DEF Parser!Lex, Parser!Reject
<1>3. IsStack(parse_stack) /\ parse_stack = <<top>> /\ parse_pos = 1
  BY <1>2 DEF TemplateInv, ParseInv, ParseHolds
<1> HIDE DEF t
<1>4. CASE parse_phase' = "rejected" /\ parse_tokens' = parse_tokens
  <2>1. ~(Len(parse_tokens) # 0 /\ parse_tokens[Len(parse_tokens)].kind = "eof")
    <3>1. Len(parse_tokens) \in Nat
      BY LenProperties DEF TemplateInv, LexInv, TextsCut
    <3>2. \A i \in 1 .. Len(parse_tokens) : parse_tokens[i].kind # "eof"
      BY <1>2 DEF TemplateInv, LexInv, TokensEnd
    <3>3. Len(parse_tokens) # 0 => Len(parse_tokens) \in 1 .. Len(parse_tokens)
      BY <3>1
    <3> QED
      BY <3>2, <3>3
  <2>2. ParseHolds(parse_tokens, parse_stack, parse_pos, "rejected")
    BY <1>3, <2>1 DEF ParseHolds
  <2> QED
    BY <1>1, <1>2, <1>4, <2>2 DEF TemplateInv, ParseInv
<1>5. CASE parse_phase' = "lex"
  <2>1. ParseHolds(parse_tokens', parse_stack, parse_pos, "lex")
    BY <1>3 DEF ParseHolds
  <2> QED
    BY <1>1, <1>2, <1>5, <2>1 DEF TemplateInv, ParseInv
<1>6. CASE parse_phase' = "parse"
  <2> DEFINE ts == parse_tokens'
  <2>1. ts \in Seq(TokenOf') /\ TokensEnd'
    BY <1>1 DEF LexInv, TextsCut
  <2>2. Len(ts) \in Nat
    BY <2>1, LenProperties
  <2>3. EndsOnce(ts)
    BY <1>6, <2>1, <2>2 DEF EndsOnce, TokensEnd
  <2> HIDE DEF ts
  <2>4. Len(parse_stack) = 1 /\ parse_stack[1].kind = "top"
    <3>1. Len(<<top>>) = 1 /\ <<top>>[1] = top
      OBVIOUS
    <3>2. top.kind = "top"
      BY FreshFrame
    <3> QED
      BY <1>3, <3>1, <3>2
  <2>5. Viable(ts, parse_stack, 1) <=> Parser!InLanguage(ts)
    <3>1. Len(ts) \in Nat \ {0} /\ ts[Len(ts)].kind = "eof"
          /\ \A i \in 1 .. Len(ts) : ts[i].kind = "eof" => i = Len(ts)
      BY <2>3 DEF EndsOnce
    <3> QED
      BY <2>4, <3>1, WholeText
  <2>6. 1 \in 1 .. Len(ts)
    BY <2>3 DEF EndsOnce
  <2>7. ParseHolds(ts, parse_stack, 1, "parse")
    BY <1>3, <2>5, <2>6 DEF ParseHolds
  <2> QED
    BY <1>1, <1>2, <1>3, <1>6, <2>7 DEF TemplateInv, ParseInv, ts
<1> QED
  BY <1>2, <1>4, <1>5, <1>6

LEMMA ChunkParses ==
  ASSUME TemplateInv, Parser!ParseChunk
  PROVE  TemplateInv'
<1> DEFINE c == Parser!Peek
<1>1. /\ parse_phase = "parse" /\ parse_tokens[parse_pos].kind \in {"blob", "replacement"}
      /\ UNCHANGED <<parse_text, parse_rest, parse_tokens>>
      /\ Parser!ReadsChunks(parse_stack[Len(parse_stack)])
      /\ parse_stack' = TopSet(parse_stack, Parser!AddChunk(parse_stack[Len(parse_stack)], c))
      /\ parse_pos' = parse_pos + 1 /\ parse_phase' = parse_phase
  BY Zenon DEF Parser!ParseChunk, Parser!ParserReads, Parser!Peek, Parser!Top, Parser!SetTop, Parser!Advance, TopSet
<1>2. ParseHolds(parse_tokens, parse_stack, parse_pos, "parse") /\ EndsOnce(parse_tokens)
  BY <1>1, ParsedTokens
<1> HIDE DEF c
<1>3. ParseHolds(parse_tokens, parse_stack', parse_pos + 1, "parse")
  BY <1>1, <1>2, ChunkStep
<1> QED
  BY <1>1, <1>3, TokensStay DEF TemplateInv, ParseInv

LEMMA OpeningParses ==
  ASSUME TemplateInv, Parser!ParseOpening
  PROVE  TemplateInv'
<1> DEFINE v == Parser!Peek.val
<1>1. /\ parse_phase = "parse" /\ parse_tokens[parse_pos].kind \in {"switch", "for"}
      /\ UNCHANGED <<parse_text, parse_rest, parse_tokens>>
      /\ Parser!ReadsChunks(parse_stack[Len(parse_stack)])
      /\ parse_stack' = Append(parse_stack, Parser!Frame(parse_tokens[parse_pos].kind, v))
      /\ parse_pos' = parse_pos + 1 /\ parse_phase' = parse_phase
  BY Zenon DEF Parser!ParseOpening, Parser!ParserReads, Parser!Peek, Parser!Top, Parser!Advance
<1>2. ParseHolds(parse_tokens, parse_stack, parse_pos, "parse") /\ EndsOnce(parse_tokens)
  BY <1>1, ParsedTokens
<1> HIDE DEF v
<1>3. ParseHolds(parse_tokens, parse_stack', parse_pos + 1, "parse")
  BY <1>1, <1>2, OpeningStep
<1> QED
  BY <1>1, <1>3, TokensStay DEF TemplateInv, ParseInv

LEMMA CaseParses ==
  ASSUME TemplateInv, Parser!ParseCase
  PROVE  TemplateInv'
<1> DEFINE v == parse_tokens[parse_pos].val[1]
           x == Parser!CloseCase(parse_stack[Len(parse_stack)])
<1>1. /\ parse_phase = "parse" /\ parse_tokens[parse_pos].kind \in {"case"}
      /\ UNCHANGED <<parse_text, parse_rest, parse_tokens>>
      /\ parse_stack[Len(parse_stack)].kind = "switch"
      /\ parse_stack' = TopSet(parse_stack, CaseRead(parse_stack[Len(parse_stack)], x, v))
      /\ parse_pos' = parse_pos + 1 /\ parse_phase' = parse_phase
  BY Zenon DEF Parser!ParseCase, Parser!ParserReads, Parser!Peek, Parser!Top, Parser!SetTop, Parser!Advance,
         TopSet, CaseRead
<1>2. ParseHolds(parse_tokens, parse_stack, parse_pos, "parse") /\ EndsOnce(parse_tokens)
  BY <1>1, ParsedTokens
<1>3. v # <<>>
  <2>1. parse_pos \in 1 .. Len(parse_tokens)
    BY <1>2 DEF ParseHolds
  <2> QED
    BY <1>1, <2>1 DEF TemplateInv, LexInv, TokensEnd
<1> HIDE DEF v, x
<1>4. ParseHolds(parse_tokens, parse_stack', parse_pos + 1, "parse")
  <2>1. parse_tokens[parse_pos].kind = "case"
    BY <1>1
  <2> QED
    BY <1>1, <1>2, <1>3, <2>1, CaseStep
<1> QED
  BY <1>1, <1>4, TokensStay DEF TemplateInv, ParseInv

LEMMA BlobParses ==
  ASSUME TemplateInv, Parser!ParseBlobInSwitch
  PROVE  TemplateInv'
<1> DEFINE f == parse_stack[Len(parse_stack)]
           blank == BlankAt(parse_tokens, parse_pos)
<1>1. /\ parse_phase = "parse" /\ parse_tokens[parse_pos].kind \in {"blob"}
      /\ UNCHANGED <<parse_text, parse_rest, parse_tokens>>
      /\ ~Parser!ReadsChunks(f)
  BY Zenon DEF Parser!ParseBlobInSwitch, Parser!ParserReads, Parser!Peek, Parser!Top
<1>2. ParseHolds(parse_tokens, parse_stack, parse_pos, "parse") /\ EndsOnce(parse_tokens)
  BY <1>1, ParsedTokens
<1>3. parse_tokens[parse_pos].kind = "blob"
  BY <1>1
<1>4. blank <=> ~\E i \in DOMAIN Parser!Peek.val[1] : Parser!Peek.val[1][i] \notin Parser!Blank
  BY <1>3 DEF BlankAt, Parser!Peek
<1>5. CASE f.is_first /\ blank
  <2>1. ~(\E i \in DOMAIN Parser!Peek.val[1] : Parser!Peek.val[1][i] \notin Parser!Blank)
    BY <1>4, <1>5
  <2>2. /\ parse_stack' = TopSet(parse_stack, BlankRead(f))
        /\ parse_pos' = parse_pos + 1 /\ parse_phase' = parse_phase
    BY <1>5, <2>1, Zenon DEF Parser!ParseBlobInSwitch, Parser!Top, Parser!SetTop, Parser!Advance,
         TopSet, BlankRead
  <2>3. ParseHolds(parse_tokens, parse_stack', parse_pos + 1, "parse")
    BY <1>1, <1>2, <1>3, <1>5, <2>2, BlankStep
  <2> QED
    BY <1>1, <2>2, <2>3, TokensStay DEF TemplateInv, ParseInv
<1>6. CASE ~(f.is_first /\ blank)
  <2>1. parse_phase' = "rejected" /\ parse_stack' = parse_stack /\ parse_pos' = parse_pos
    BY <1>4, <1>6, Zenon DEF Parser!ParseBlobInSwitch, Parser!Top, Parser!Reject
  <2>2. ParseHolds(parse_tokens, parse_stack, parse_pos, "rejected")
    BY <1>1, <1>2, <1>3, <1>6, BlankStep
  <2> QED
    BY <1>1, <2>1, <2>2, TokensStay DEF TemplateInv, ParseInv
<1> QED
  BY <1>5, <1>6

LEMMA ClosingParses ==
  ASSUME TemplateInv, Parser!ParseClosing
  PROVE  TemplateInv'
<1> DEFINE f == parse_stack[Len(parse_stack)]
           outer == Parser!Front(parse_stack)
           c == IF f.kind = "switch"
                THEN [kind |-> "switch", val |-> f.val, cases |-> Parser!CloseCase(f)]
                ELSE [kind |-> "for", val |-> f.val, body |-> f.chunks]
<1>1. /\ parse_phase = "parse"
      /\ parse_tokens[parse_pos].kind = IF f.kind = "switch" THEN "endswitch" ELSE "endfor"
      /\ f.kind # "top"
      /\ UNCHANGED <<parse_text, parse_rest, parse_tokens>>
      /\ parse_stack' = [outer EXCEPT ![Len(outer)] = Parser!AddChunk(@, c)]
      /\ parse_pos' = parse_pos + 1 /\ parse_phase' = parse_phase
  BY Zenon DEF Parser!ParseClosing, Parser!ParserReads, Parser!Peek, Parser!Top, Parser!Advance
<1>2. ParseHolds(parse_tokens, parse_stack, parse_pos, "parse") /\ EndsOnce(parse_tokens)
  BY <1>1, ParsedTokens
<1>3. parse_tokens[parse_pos].kind = CloserOf(f.kind)
  <2>1. IsFrame(f)
    <3>1. IsStack(parse_stack)
      BY <1>2 DEF ParseHolds
    <3>2. Len(parse_stack) \in 1 .. Len(parse_stack)
      BY <3>1, StackIs
    <3> QED
      BY <3>1, <3>2 DEF IsStack
  <2>2. f.kind \in {"for", "switch"}
    BY <1>1, <2>1 DEF IsFrame
  <2> HIDE DEF f
  <2> QED
    BY <1>1, <2>2 DEF CloserOf, f
<1> HIDE DEF c
<1>4. parse_stack' = TopSet(outer, Parser!AddChunk(outer[Len(outer)], c))
  BY <1>1, Zenon DEF TopSet
<1>5. ParseHolds(parse_tokens, parse_stack', parse_pos + 1, "parse")
  <2>1. ParseHolds(parse_tokens, TopSet(outer, Parser!AddChunk(outer[Len(outer)], c)),
                   parse_pos + 1, "parse")
    BY <1>1, <1>2, <1>3, ClosingStep
  <2> QED
    BY <1>4, <2>1
<1> QED
  BY <1>1, <1>5, TokensStay DEF TemplateInv, ParseInv

LEMMA EndParses ==
  ASSUME TemplateInv, Parser!ParseEnd
  PROVE  TemplateInv'
<1>1. /\ parse_phase = "parse" /\ parse_tokens[parse_pos].kind \in {"eof"}
      /\ UNCHANGED <<parse_text, parse_rest, parse_tokens>>
      /\ parse_stack[Len(parse_stack)].kind = "top"
      /\ parse_phase' = "parsed" /\ parse_stack' = parse_stack /\ parse_pos' = parse_pos
  BY Zenon DEF Parser!ParseEnd, Parser!ParserReads, Parser!Peek, Parser!Top
<1>2. ParseHolds(parse_tokens, parse_stack, parse_pos, "parse") /\ EndsOnce(parse_tokens)
  BY <1>1, ParsedTokens
<1>3. ParseHolds(parse_tokens, parse_stack, parse_pos, "parsed")
  BY <1>1, <1>2, EndStep
<1> QED
  BY <1>1, <1>3, TokensStay DEF TemplateInv, ParseInv

LEMMA ErrorParses ==
  ASSUME TemplateInv, Parser!ParseError
  PROVE  TemplateInv'
<1>1. /\ parse_phase = "parse"
      /\ UNCHANGED <<parse_text, parse_rest, parse_tokens>>
      /\ Parser!Unexpected(parse_tokens[parse_pos].kind, parse_stack[Len(parse_stack)])
      /\ parse_phase' = "rejected" /\ parse_stack' = parse_stack /\ parse_pos' = parse_pos
  BY Zenon DEF Parser!ParseError, Parser!ParserReads, Parser!Peek, Parser!Top, Parser!Reject
<1>2. ParseHolds(parse_tokens, parse_stack, parse_pos, "parse") /\ EndsOnce(parse_tokens)
  BY <1>1, ParsedTokens
<1>3. ParseHolds(parse_tokens, parse_stack, parse_pos, "rejected")
  BY <1>1, <1>2, ErrorStep
<1> QED
  BY <1>1, <1>3, TokensStay DEF TemplateInv, ParseInv

LEMMA TemplateNextKeeps ==
  ASSUME TemplateInv, [Parser!Next]_(Parser!vars)
  PROVE  TemplateInv'
<1>1. CASE Parser!Next
  <2>1. \/ Parser!Lex \/ Parser!ParseChunk \/ Parser!ParseOpening \/ Parser!ParseCase
        \/ Parser!ParseBlobInSwitch \/ Parser!ParseClosing \/ Parser!ParseEnd \/ Parser!ParseError
    BY <1>1 DEF Parser!Next
  <2> QED
    BY <2>1, LexParses, ChunkParses, OpeningParses, CaseParses, BlobParses, ClosingParses,
       EndParses, ErrorParses
<1>2. CASE UNCHANGED Parser!vars
  <2>1. UNCHANGED <<parse_text, parse_rest, parse_tokens, parse_pos, parse_stack, parse_phase>>
    BY <1>2 DEF Parser!vars
  <2>2. PieceOf' = PieceOf
    BY <2>1 DEF PieceOf
  <2>3. TokenOf' = TokenOf
    BY <2>2 DEF TokenOf
  <2>4. PrintedTokens(parse_tokens)' = PrintedTokens(parse_tokens)
    BY <2>1 DEF PrintedTokens
  <2>5. TextsCut'
    BY <2>1, <2>2, <2>3, <2>4 DEF TemplateInv, LexInv, TextsCut
  <2>6. TokensEnd'
    BY <2>1 DEF TemplateInv, LexInv, TokensEnd
  <2>7. ParseInv'
    BY <2>1 DEF TemplateInv, ParseInv
  <2> QED
    BY <2>5, <2>6, <2>7 DEF TemplateInv, LexInv
<1> QED
  BY <1>1, <1>2

LEMMA TemplateStarts ==
  ASSUME Parser!TextsAssumption, Parser!Init
  PROVE  TemplateInv
<1> DEFINE A == PieceOf
           top == Parser!Frame("top", <<>>)
<1>1. /\ parse_text \in Texts /\ parse_rest = parse_text /\ parse_tokens = <<>>
      /\ parse_pos = 1 /\ parse_stack = <<top>> /\ parse_phase = "lex"
  BY DEF Parser!Init
<1> HIDE DEF top
<1>2. parse_text \in Seq(A)
  <2> DEFINE B == {parse_text[i] : i \in DOMAIN parse_text}
  <2>1. parse_text \in Seq(B)
    BY <1>1 DEF Parser!TextsAssumption
  <2>2. B \subseteq A
    BY DEF PieceOf
  <2> HIDE DEF A, B
  <2> QED
    BY <2>1, <2>2, LargerSeqs
<1>3. PrintedTokens(parse_tokens) = <<>>
  BY <1>1 DEF PrintedTokens
<1>4. <<>> \in Seq(TokenOf) /\ <<>> \in Seq(Seq(A))
  OBVIOUS
<1>5. Parser!FlattenSeq(<<>>) = <<>>
  <2>1. <<>> \in Seq(A)
    OBVIOUS
  <2> QED
    BY <1>4, <2>1, TextsJoin
<1>6. <<>> \o parse_text = parse_text
  BY <1>2, ConcatEmptySeq
<1>7. TextsCut
  BY <1>1, <1>2, <1>3, <1>4, <1>5, <1>6 DEF TextsCut
<1>8. TokensEnd
  BY <1>1 DEF TokensEnd
<1>9. IsStack(parse_stack)
  <2>1. IsFrame(top) /\ top.kind = "top"
    BY FreshFrame DEF top
  <2>2. <<top>> \in Seq({top}) /\ Len(<<top>>) = 1 /\ <<top>>[1] = top
    OBVIOUS
  <2>3. \A k \in 1 .. 1 : k = 1
    OBVIOUS
  <2>4. \E S : <<top>> \in Seq(S)
    BY <2>2
  <2>5. IsStack(<<top>>)
    BY <2>1, <2>2, <2>3, <2>4 DEF IsStack
  <2> QED
    BY <1>1, <2>5
<1>10. ParseInv
  BY <1>1, <1>9 DEF ParseInv, ParseHolds, top
<1> QED
  BY <1>7, <1>8, <1>10 DEF TemplateInv, LexInv

LEMMA TemplateIsAlways ==
  ASSUME Parser!TextsAssumption
  PROVE  Parser!Spec => []TemplateInv
<1>1. Parser!Init => TemplateInv
  BY TemplateStarts
<1>2. TemplateInv /\ [Parser!Next]_(Parser!vars) => TemplateInv'
  BY TemplateNextKeeps
<1> QED
  BY <1>1, <1>2, PTL DEF Parser!Spec

(* The tokenizer loses and invents nothing, for any texts: at every step   *)
(* what it has read, printed, followed by what is left is the text given.  *)
THEOREM TextsAreKept ==
  ASSUME Parser!TextsAssumption
  PROVE  Parser!Spec => []Parser!TokensPrintTheText
<1>1. TemplateInv => Parser!TokensPrintTheText
  BY DEF TemplateInv, LexInv, TextsCut, PrintedTokens, Parser!TokensPrintTheText
<1> QED
  BY <1>1, TemplateIsAlways, PTL

(* The recursive descent accepts exactly the language of the comments, for *)
(* any texts: a tree comes out if and only if the tokens are derivable.    *)
THEOREM ParserIsTheGrammar ==
  ASSUME Parser!TextsAssumption
  PROVE  Parser!Spec => []Parser!ParserAcceptsTheLanguage
<1>1. TemplateInv => Parser!ParserAcceptsTheLanguage
  <2> SUFFICES ASSUME TemplateInv, parse_phase \in {"parsed", "rejected"}, parse_tokens # <<>>,
                      Parser!Last(parse_tokens).kind = "eof"
               PROVE  parse_phase = "parsed" <=> Parser!InLanguage(parse_tokens)
    BY DEF Parser!ParserAcceptsTheLanguage
  <2>1. parse_tokens \in Seq(TokenOf)
    BY DEF TemplateInv, LexInv, TextsCut
  <2>2. Len(parse_tokens) # 0
    BY <2>1, EmptySeq
  <2>3. parse_tokens[Len(parse_tokens)].kind = "eof"
    BY DEF Parser!Last
  <2> QED
    BY <2>2, <2>3 DEF TemplateInv, ParseInv, ParseHolds
<1> QED
  BY <1>1, TemplateIsAlways, PTL
=============================================================================
