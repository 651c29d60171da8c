----------------------------- MODULE GenResolver -----------------------------
(***************************************************************************)
(* gen/internals.py: resolve_configuration computes every argument the     *)
(* targets ask for from the setters of the sources.  A setter gives a      *)
(* string, a late value, or a function of other arguments; it may be       *)
(* optional, under conditions, or the user's.  The Resolver is a depth     *)
(* first search; the sets it iterates over (a target's variables, a        *)
(* function's parameters) come in an order Python does not promise.        *)
(***************************************************************************)
EXTENDS Naturals, Sequences, FiniteSets, SequencesExt, TLC

CONSTANTS
    Names,      \* the arguments
    Targets,    \* the targets, and those of the cases of their sub-scopes
    Configs     \* the configurations: a record of the base entry, its extension,
                \* the user's arguments, the late names, what validation refuses
                \* (invalid, clash) and the target

VARIABLES
    sources,    \* the configuration being resolved
    walk,       \* the targets and sub-scopes _calculate_target is inside of
    stack,      \* Resolver._eval_stack with what each _calculate has done
    state,      \* the Resolvable of each name
    errors,     \* Resolver._errors: single names, then sets of names
    unset,      \* Resolver._unset
    late,       \* Resolver._late
    outcome     \* "running", "resolved" or the exception that escaped

vars == <<sources, walk, stack, state, errors, unset, late, outcome>>

Unresolved == [is |-> "unresolved", value |-> "", user |-> FALSE]
Error == [is |-> "error", value |-> "", user |-> FALSE]
LateValue == [is |-> "late", value |-> "placeholder", user |-> FALSE]
Resolved(value, user) == [is |-> "resolved", value |-> value, user |-> user]

-----------------------------------------------------------------------------
(* Values and setters.  A function of its parameters is "u" when all are   *)
(* "u", and "v" otherwise; or it fails an assertion.                       *)

Text(v) == [kind |-> "str", value |-> v, parameters |-> {}]
LateExpr == [kind |-> "late", value |-> "", parameters |-> {}]
Function(params) == [kind |-> "function", value |-> "", parameters |-> params]
Asserting(params) == [kind |-> "asserts", value |-> "", parameters |-> params]

\* An entry is a record of must, default and conditional, the sequence of the
\* further scopes inside it, each with the conditions under which it counts:
\* an argument has a value, as have those of the scopes it is inside of.
Scope(must, default, conditions, is_user) ==
    [must |-> must, default |-> default, conditions |-> conditions, is_user |-> is_user]

add_conditional_scope(entry) ==
    <<Scope(entry.must, entry.default, <<>>, FALSE)>>
    \o [i \in DOMAIN entry.conditional |->
            LET case == entry.conditional[i]
            IN  Scope(case.scope.must, case.scope.default, case.conditions, FALSE)]

\* An extension's must and default take the place of the base entry's setters
Replaced(entry) == DOMAIN entry.must \cup DOMAIN entry.default
Without(setters, names) == [n \in DOMAIN setters \ names |-> setters[n]]
remove_setters(scopes, entry) ==
    [i \in DOMAIN scopes |->
        [scopes[i] EXCEPT !.must = Without(@, Replaced(entry)),
                          !.default = Without(@, Replaced(entry))]]

UserScope(user) == Scope([n \in DOMAIN user |-> Text(user[n])], <<>>, <<>>, TRUE)
LateScope(names) == Scope([n \in names |-> LateExpr], <<>>, <<>>, FALSE)

\* resolve_configuration: base source (with its extension), user, extra sources
Scopes(config) ==
    remove_setters(add_conditional_scope(config.base), config.extension)
    \o add_conditional_scope(config.extension)
    \o <<UserScope(config.user), LateScope(config.late)>>

\* The setters of a name, each by the number of its scope and whether it is optional
Setter(scope, name, is_optional) ==
    [calc |-> IF is_optional THEN scope.default[name] ELSE scope.must[name],
     is_optional |-> is_optional, conditions |-> scope.conditions, is_user |-> scope.is_user]

SettersIn(scopes, name) ==
    [i \in {<<k, FALSE>> : k \in {k \in DOMAIN scopes : name \in DOMAIN scopes[k].must}}
           \cup {<<k, TRUE>> : k \in {k \in DOMAIN scopes : name \in DOMAIN scopes[k].default}} |->
        Setter(scopes[i[1]], name, i[2])]

Setters(config, name) == SettersIn(Scopes(config), name)
Before(i, j) == i[1] < j[1] \/ (i[1] = j[1] /\ ~i[2] /\ j[2])

ExtensionRefused ==
    \E case \in ToSet(sources.extension.conditional) :
        /\ Len(case.conditions) = 1
        /\ DOMAIN SettersIn(remove_setters(add_conditional_scope(sources.base), sources.extension),
                            case.conditions[1][1]) # {}

\* What setters and targets mention are names
IsCalc(calc) ==
    \/ \E params \in SUBSET Names : calc \in {Function(params), Asserting(params)}
    \/ calc \in {LateExpr, Text(calc.value)}
IsScope(scope) ==
    /\ \A n \in DOMAIN scope.must : IsCalc(scope.must[n])
    /\ \A n \in DOMAIN scope.default : IsCalc(scope.default[n])
IsEntry(entry) ==
    /\ IsScope(entry)
    /\ entry.conditional \in Seq(ToSet(entry.conditional))
    /\ \A case \in ToSet(entry.conditional) :
           /\ case.conditions \in Seq(ToSet(case.conditions)) /\ case.conditions # <<>>
           /\ \A condition \in ToSet(case.conditions) : condition[1] \in Names
           /\ IsScope(case.scope)

ASSUME NamesAssumption == IsFiniteSet(Names)
ASSUME TargetAssumption ==
    \A target \in Targets :
        /\ target.variables \cup DOMAIN target.sub_scopes \subseteq Names
        /\ \A n \in DOMAIN target.sub_scopes : \A v \in DOMAIN target.sub_scopes[n] :
               target.sub_scopes[n][v] \in Targets
ASSUME ConfigAssumption ==
    \A config \in Configs :
        IsEntry(config.base) /\ IsEntry(config.extension) /\ config.target \in Targets

-----------------------------------------------------------------------------
(* The validators: the switch variable of every scope must have one of the *)
(* scope's values; the sources' functions of one argument (invalid) and of *)
(* several (clash).                                                        *)

yield_validates[target \in Targets] ==
    {<<n, DOMAIN target.sub_scopes[n]>> : n \in DOMAIN target.sub_scopes}
    \cup UNION {UNION {yield_validates[target.sub_scopes[n][v]] : v \in DOMAIN target.sub_scopes[n]}
                : n \in DOMAIN target.sub_scopes}

ValidSingle(config, name, value) ==
    /\ <<name, value>> \notin config.invalid
    /\ \A scope \in yield_validates[config.target] : scope[1] = name => value \in scope[2]

MultiArgumentErrors ==
    {params \in sources.clash :
        /\ \A p \in params : state[p].is \in {"resolved", "late"}
        /\ \A p, q \in params : state[p].value = state[q].value}

-----------------------------------------------------------------------------
(* Resolver                                                                *)

Top == stack[Len(stack)]
OnStack(name) == \E i \in DOMAIN stack : stack[i].name = name
SetTop(frame) == stack' = [stack EXCEPT ![Len(stack)] = frame]

Frame(name) ==
    [name |-> name,
     pc |-> "conditions",                 \* "conditions", "late" or "calculate"
     setters |-> DOMAIN Setters(sources, name),    \* still to be filtered
     condition |-> 1,                     \* the condition of the first of them to test
     feasible |-> {},                     \* those kept
     seen |-> {}]                         \* parameters of the first, or of the one kept, looked at

Calls(name) == stack' = Append(stack, Frame(name))

\* _ensure_finalized's try: how the call on top of the stack ends
Ends(how, newErrors, newUnset, newLate) ==
    /\ state' = [state EXCEPT ![Top.name] = how]
    /\ stack' = Front(stack)
    /\ errors' = errors \cup newErrors
    /\ unset' = unset \cup newUnset
    /\ late' = late \cup newLate
    /\ UNCHANGED <<sources, walk, outcome>>

EndsSkipped == Ends(Error, {}, {}, {})
EndsUnset == Ends(Error, {}, {Top.name}, {})
EndsInError == Ends(Error, {Top.name}, {}, {})
EndsLate == Ends(LateValue, {}, {}, {Top.name})
EndsWith(value, user) == Ends(Resolved(value, user), {}, {}, {})

\* Any other exception passes through every call and out of resolve()
Crash(exception) ==
    /\ outcome' = exception
    /\ state' = [n \in Names |-> IF OnStack(n) THEN Error ELSE state[n]]
    /\ errors' = errors \cup {stack[i].name : i \in DOMAIN stack}
    /\ UNCHANGED <<sources, walk, stack, unset, late>>

Continues(frame) ==
    /\ SetTop(frame)
    /\ UNCHANGED <<sources, walk, state, errors, unset, late, outcome>>

CallsFor(name) ==
    /\ Calls(name)
    /\ UNCHANGED <<sources, walk, state, errors, unset, late, outcome>>

Running(pc) == outcome = "running" /\ stack # <<>> /\ Top.pc = pc

IsFirst(i) == i \in Top.setters /\ \A j \in Top.setters : ~Before(j, i)

\* all_conditions_met: the conditions of the next setter, in their order
TestCondition ==
    /\ Running("conditions")
    /\ \E i \in Top.setters :
         LET conditions == Setters(sources, Top.name)[i].conditions
             name == conditions[Top.condition][1]
             next == [Top EXCEPT !.setters = @ \ {i}, !.condition = 1]
         IN  /\ IsFirst(i)
             /\ IF Top.condition > Len(conditions)
                THEN Continues([next EXCEPT !.feasible = @ \cup {i}])
                ELSE CASE state[name].is = "unresolved" /\ ~OnStack(name) -> CallsFor(name)
                       [] state[name].is = "unresolved" /\ OnStack(name) -> Crash("AssertionError")
                       [] state[name].is = "error" -> EndsSkipped
                       [] state[name].is \in {"resolved", "late"} ->
                             IF state[name].value = conditions[Top.condition][2]
                             THEN Continues([Top EXCEPT !.condition = @ + 1])
                             ELSE Continues(next)

(* Mutant of Select: defaults are not dropped when there is something better *)
SelectKeepsOptional ==
    /\ Running("conditions")
    /\ Top.setters = {}
    /\ IF Top.feasible = {} THEN EndsUnset
       ELSE Continues([Top EXCEPT !.pc = "late", !.setters = Top.feasible, !.feasible = {}])

\* Optional setters give way to the others; then those with late parameters
Select ==
    /\ Running("conditions")
    /\ Top.setters = {}
    /\ LET several == Cardinality(Top.feasible) > 1
           musts == {i \in Top.feasible : ~Setters(sources, Top.name)[i].is_optional}
           kept == IF several THEN musts ELSE Top.feasible
       IN  IF Top.feasible = {} THEN EndsUnset
           ELSE IF kept = {} THEN Crash("AssertionError")
           ELSE IF Cardinality(kept) = 1
           THEN Continues([Top EXCEPT !.pc = "calculate", !.feasible = kept])
           ELSE Continues([Top EXCEPT !.pc = "late", !.setters = kept, !.feasible = {}])

\* has_no_late_parameters looks at one more parameter, finalizing it first
LookAt(parameter, ifLate, otherwise) ==
    CASE state[parameter].is = "unresolved" /\ ~OnStack(parameter) -> CallsFor(parameter)
      [] state[parameter].is = "unresolved" /\ OnStack(parameter) -> EndsInError
      [] state[parameter].is = "late" -> ifLate
      [] state[parameter].is \in {"error", "resolved"} -> otherwise

Unseen(i) == Setters(sources, Top.name)[i].calc.parameters \ Top.seen
See(parameter) == Continues([Top EXCEPT !.seen = @ \cup {parameter}])

FilterLate ==
    /\ Running("late")
    /\ \E i \in Top.setters :
         LET skip == [Top EXCEPT !.setters = @ \ {i}, !.seen = {}]
         IN  /\ IsFirst(i)
             /\ \/ /\ Unseen(i) = {}
                   /\ Continues([skip EXCEPT !.feasible = @ \cup {i}])
                \/ \E p \in Unseen(i) : LookAt(p, Continues(skip), See(p))

ChooseOne ==
    /\ Running("late")
    /\ Top.setters = {}
    /\ IF Top.feasible = {} THEN Crash("IndexError")
       ELSE IF Cardinality(Top.feasible) > 1 THEN EndsInError
       ELSE Continues([Top EXCEPT !.pc = "calculate"])

LookForLate ==
    /\ Running("calculate")
    /\ \E i \in Top.feasible : \E p \in Unseen(i) : LookAt(p, EndsLate, See(p))

\* A function of its parameters
Applied(calc, env) ==
    CASE calc.kind = "function" -> IF \A p \in calc.parameters : env[p].value = "u" THEN "u" ELSE "v"
      [] OTHER -> calc.value

Calculate ==
    /\ Running("calculate")
    /\ \E i \in Top.feasible :
         LET setter == Setters(sources, Top.name)[i]
             calc == setter.calc
             value == Applied(calc, state)
         IN  /\ Unseen(i) = {}
             /\ IF \E p \in calc.parameters : state[p].is = "error" THEN EndsSkipped
                ELSE IF calc.kind = "late" THEN EndsLate
                ELSE IF calc.kind = "asserts" \/ ~ValidSingle(sources, Top.name, value) THEN EndsInError
                ELSE EndsWith(value, setter.is_user)

-----------------------------------------------------------------------------
(* _calculate_target, resolve                                              *)

Visit(target) == [variables |-> target.variables, scopes |-> DOMAIN target.sub_scopes,
                  target |-> target]
Here == walk[Len(walk)]
SetHere(visit) == walk' = [walk EXCEPT ![Len(walk)] = visit]

AskVariable ==
    /\ outcome = "running" /\ stack = <<>> /\ walk # <<>>
    /\ \E n \in Here.variables :
         /\ SetHere([Here EXCEPT !.variables = @ \ {n}])
         /\ IF state[n].is = "unresolved" THEN Calls(n) ELSE UNCHANGED stack
    /\ UNCHANGED <<sources, state, errors, unset, late, outcome>>

AskScope ==
    /\ outcome = "running" /\ stack = <<>> /\ walk # <<>>
    /\ Here.variables = {}
    /\ \E n \in Here.scopes :
         LET cases == Here.target.sub_scopes[n]
             done == [Here EXCEPT !.scopes = @ \ {n}]
         IN  CASE state[n].is = "unresolved" ->
                    Calls(n) /\ UNCHANGED <<walk, state, errors, outcome>>
               [] state[n].is = "error" ->
                    SetHere(done) /\ UNCHANGED <<stack, state, errors, outcome>>
               [] state[n].is \in {"resolved", "late"} ->
                    IF state[n].value \notin DOMAIN cases
                    THEN /\ outcome' = "AssertionError"
                         /\ UNCHANGED <<walk, stack, state, errors>>
                    ELSE /\ walk' = Append([walk EXCEPT ![Len(walk)] = done],
                                           Visit(cases[state[n].value]))
                         /\ UNCHANGED <<stack, state, errors, outcome>>
    /\ UNCHANGED <<sources, unset, late>>

LeaveTarget ==
    /\ outcome = "running" /\ stack = <<>> /\ walk # <<>>
    /\ Here.variables = {} /\ Here.scopes = {}
    /\ walk' = Front(walk)
    /\ UNCHANGED <<sources, stack, state, errors, unset, late, outcome>>

ValidateMulti ==
    /\ outcome = "running" /\ stack = <<>> /\ walk = <<>>
    /\ errors' = errors \cup UNION MultiArgumentErrors
    /\ outcome' = "resolved"
    /\ UNCHANGED <<sources, walk, stack, state, unset, late>>

(* Mutant of Status: names without a setter do not count *)
StatusOfErrors == IF errors = {} THEN "ok" ELSE "errors"

Status == IF errors = {} /\ unset = {} THEN "ok" ELSE "errors"

Init ==
    /\ sources \in Configs
    /\ walk = <<Visit(sources.target)>>
    /\ stack = <<>>
    /\ state = [n \in Names |-> Unresolved]
    /\ errors = {}
    /\ unset = {}
    /\ late = {}
    /\ outcome = IF ExtensionRefused THEN "NotImplementedError" ELSE "running"

Next ==
    \/ TestCondition
    \/ Select
    \/ FilterLate
    \/ ChooseOne
    \/ LookForLate
    \/ Calculate
    \/ AskVariable
    \/ AskScope
    \/ LeaveTarget
    \/ ValidateMulti

Spec == Init /\ [][Next]_vars /\ WF_vars(Next)

-----------------------------------------------------------------------------
(* Properties                                                              *)

\* What name is worth when the others are worth env ("unresolved": not known
\* yet), whatever the order in which anything is looked at
Met(env, s, i) == env[s.conditions[i][1]].value = s.conditions[i][2]
Blocks(env, s, how) ==
    \E i \in DOMAIN s.conditions :
        /\ \A j \in 1..(i - 1) : Met(env, s, j)
        /\ env[s.conditions[i][1]].is = how
Has(env, s, how) == \E p \in s.calc.parameters : env[p].is = how

Feasible(env, setters) ==
    {i \in DOMAIN setters : \A k \in DOMAIN setters[i].conditions : Met(env, setters[i], k)}
Needed(setters, some) ==
    IF Cardinality(some) > 1 THEN {i \in some : ~setters[i].is_optional} ELSE some
Known(env, setters, some) ==
    IF Cardinality(some) > 1 THEN {i \in some : ~Has(env, setters[i], "late")} ELSE some

ValueBy(config, name, env, s) ==
    IF s.calc.kind = "late" \/ Has(env, s, "late") THEN LateValue
    ELSE IF Has(env, s, "unresolved") THEN Unresolved
    ELSE IF Has(env, s, "error") \/ s.calc.kind = "asserts" \/ ~ValidSingle(config, name, Applied(s.calc, env))
    THEN Error
    ELSE Resolved(Applied(s.calc, env), s.is_user)

ValueByOneOf(config, name, env, setters, some) ==
    IF some = {} THEN Error
    ELSE IF Cardinality(some) = 1 THEN ValueBy(config, name, env, setters[CHOOSE i \in some : TRUE])
    ELSE IF \E i \in some : Has(env, setters[i], "unresolved") THEN Unresolved
    ELSE Error

ValueIn(config, name, env, setters) ==
    IF \E i \in DOMAIN setters : Blocks(env, setters[i], "unresolved") THEN Unresolved
    ELSE IF \E i \in DOMAIN setters : Blocks(env, setters[i], "error") THEN Error
    ELSE ValueByOneOf(config, name, env, setters,
                      Known(env, setters, Needed(setters, Feasible(env, setters))))

ValueOf(config, name, env) == ValueIn(config, name, env, Setters(config, name))

\* The least solution: nothing known, then what follows, |Names| times over
Solution(config) ==
    LET Round[k \in Nat] ==
            IF k = 0 THEN [n \in Names |-> Unresolved]
            ELSE LET before == Round[k - 1] IN [n \in Names |-> ValueOf(config, n, before)]
    IN  Round[Cardinality(Names)]

\* The names a setter of n mentions; they are in no cycle if in each set of
\* names there is one that mentions none of the set
Mentioned(s) == s.calc.parameters \cup {s.conditions[i][1] : i \in DOMAIN s.conditions}
Mentions(config, n) ==
    UNION {Mentioned(Setters(config, n)[i]) : i \in DOMAIN Setters(config, n)}
Acyclic(config) ==
    \A some \in SUBSET Names \ {{}} : \E n \in some : Mentions(config, n) \cap some = {}

\* The order in which Python walks its sets does not decide a value: what the
\* resolver has computed is the least solution of the setters.  Where setters
\* depend on each other in a cycle, a name may be in error that the order could
\* have spared, but no value differs (gen/internals.py:559-638).
ResolverFindsTheSolution ==
    outcome = "resolved" =>
        LET solution == Solution(sources)
            acyclic == Acyclic(sources)
        IN  \A n \in Names :
              state[n].is \in {"resolved", "late"} \cup (IF acyclic THEN {"error"} ELSE {})
              => state[n] = solution[n]

\* An error is never silent: when a name the target asks for has no value, the
\* status says so, although the names that failed because of another one are
\* skipped without a message (gen/internals.py:670-705, 768-802).
NoSilentFailure ==
    (outcome = "resolved" /\ Status = "ok") =>
        \A n \in sources.target.variables \cup DOMAIN sources.target.sub_scopes :
            state[n].is \in {"resolved", "late"}

=============================================================================
