----------------------- MODULE AdminRouterCacheProofs -----------------------
(***************************************************************************)
(* What holds of AdminRouterCache for any workers, requests, periods and   *)
(* number of faults.                                                       *)
(***************************************************************************)
EXTENDS AdminRouterCache, TLAPS

Ages == {None} \cup Nat

Handling == [pc : {"idle", "wait", "serve"} \cup Refreshing, entry : Nat \ {0}, left : Nat, snap : Nat,
             name : Entries]

TypeOK ==
    /\ value \in [Entries -> Ages] /\ stamp \in [Entries -> Ages]
    /\ lock \in {None} \cup Handlers /\ lockAge \in Nat
    /\ first \subseteq Workers /\ poll \in [Workers -> Nat]
    /\ handler \in [Handlers -> Handling] /\ garbage \in [Workers -> Nat]
    /\ slow \in Nat /\ faults \in Nat

(* The entry a handler is at, the age of what it has received, and the     *)
(* time it goes on waiting.                                                *)
SnapOK(s, late) ==
    /\ s.pc \in {"sent", "answered", "store", "stamp"} => s.entry \in Entries
    /\ s.pc \notin {"answered", "store", "stamp"} => s.snap = 0
    /\ s.snap <= late
    /\ s.pc \in {"sent", "answered"} => s.snap + s.left <= late

SnapInv == \A h \in Handlers : SnapOK(handler[h], Late)

(* Data that are new enough, or that are dropped. *)
NewEnough(e) == IF value[e] = None THEN faults # 0 ELSE value[e] <= Late

(* Whoever is to store the time finds its own data, those of another       *)
(* handler, or none.                                                       *)
StampInv == \A h \in Handlers : At(h, "stamp") => NewEnough(handler[h].entry)

(* A time has lost its data only if the dictionary has dropped them.       *)
DataThere == \A e \in Entries : stamp[e] # None /\ value[e] = None => faults # 0

IInv == TypeOK /\ SnapInv /\ StampInv /\ DataAgeKnown /\ DataThere
----------------------------------------------------------------------------
(* A request takes longer the more answers have been late. *)
LEMMA LateGrows ==
  ASSUME slow \in Nat, slow' \in {slow, slow + 1}
  PROVE  /\ Late \in Nat /\ Late' \in Nat
         /\ slow' = slow => Late' = Late
         /\ slow' = slow + 1 => Late' = Late + RequestTimeout
<1>1. AnswerTime \in Nat /\ RequestTimeout \in Nat
  BY CacheAssumption
<1> DEFINE x == slow * RequestTimeout
           y == (slow + 1) * RequestTimeout
<1>2. x \in Nat /\ y \in Nat /\ y = x + RequestTimeout
  BY <1>1
<1>3. /\ Late = AnswerTime + x
      /\ slow' = slow => Late' = AnswerTime + x
      /\ slow' = slow + 1 => Late' = AnswerTime + y
  BY DEF Late
<1> HIDE DEF x, y
<1> QED
  BY <1>1, <1>2, <1>3

LEMMA IdleIsTyped == Idle \in Handling /\ Idle.pc = "idle" /\ Idle.snap = 0 /\ 1 \in Entries
<1>1. 1 \in Entries /\ 1 \in Nat \ {0} /\ 0 \in Nat
  BY CacheAssumption DEF Entries
<1> QED
  BY <1>1 DEF Idle, Handling

(* A handler that has taken the lock is at the first entry. *)
LEMMA BeginsAtTheFirst ==
  ASSUME NEW s \in Handling
  PROVE  /\ [s EXCEPT !.pc = "check", !.entry = 1, !.left = 0] \in Handling
         /\ [s EXCEPT !.pc = "check", !.entry = 1, !.left = 0].pc = "check"
<1>1. 1 \in Nat \ {0} /\ 0 \in Nat /\ "check" \in {"idle", "wait", "serve"} \cup Refreshing
  BY DEF Refreshing
<1> QED
  BY <1>1 DEF Handling

LEMMA InitInv == Init => IInv
<1> SUFFICES ASSUME Init
             PROVE  IInv
  OBVIOUS
<1>1. TypeOK
  BY CacheAssumption DEF Init, TypeOK, Ages, Handling, Idle, Entries
<1>2. AnswerTime + 0 * RequestTimeout = AnswerTime /\ AnswerTime \in Nat
  BY CacheAssumption
<1>3. SnapInv /\ StampInv /\ DataAgeKnown /\ DataThere
  BY <1>2 DEF Init, SnapInv, SnapOK, StampInv, DataAgeKnown, DataThere, Usable, Idle, At, Late
<1> QED
  BY <1>1, <1>3 DEF IInv

(* Handler h goes on, and the cache stays as it is. *)
LEMMA HandlerStep ==
  ASSUME IInv, NEW h \in Handlers, NEW s \in Handling, s.pc # "stamp",
         handler' = [handler EXCEPT ![h] = s], UNCHANGED cache,
         slow' \in {slow, slow + 1}, SnapOK(s, Late'),
         lock' \in {None} \cup Handlers, lockAge' \in Nat,
         first' \subseteq Workers, poll' \in [Workers -> Nat], garbage' \in [Workers -> Nat],
         faults' \in {faults, faults + 1}
  PROVE  IInv'
<1>1. TypeOK'
  BY DEF IInv, TypeOK, cache
<1>2. Late \in Nat /\ Late' \in Nat /\ Late <= Late'
  BY LateGrows, CacheAssumption DEF IInv, TypeOK
<1>3. \A g \in Handlers \ {h} : handler'[g] = handler[g] /\ handler[g] \in Handling
  BY DEF IInv, TypeOK
<1>4. handler'[h] = s
  BY DEF IInv, TypeOK
<1>5. SnapInv'
  <2> SUFFICES ASSUME NEW g \in Handlers \ {h}
               PROVE  SnapOK(handler'[g], Late')
    BY <1>4 DEF SnapInv
  <2>1. handler'[g] = handler[g] /\ handler[g] \in Handling /\ SnapOK(handler[g], Late)
    BY <1>3 DEF IInv, SnapInv
  <2> QED BY <1>2, <2>1 DEF SnapOK, Handling
<1>6. StampInv'
  <2> SUFFICES ASSUME NEW g \in Handlers, handler'[g].pc = "stamp"
               PROVE  IF value[handler'[g].entry] = None THEN faults' # 0
                                                         ELSE value[handler'[g].entry] <= Late'
    BY DEF StampInv, NewEnough, At, cache
  <2>1. g # h /\ handler'[g] = handler[g]
    BY <1>3, <1>4
  <2>2. handler[g].entry \in Entries /\ NewEnough(handler[g].entry)
    BY <2>1 DEF IInv, SnapInv, SnapOK, StampInv, At
  <2> QED BY <1>2, <2>1, <2>2 DEF IInv, TypeOK, Ages, NewEnough
<1>7. DataAgeKnown'
  <2> SUFFICES ASSUME NEW e \in Entries, Usable(e)
               PROVE  value[e] <= stamp[e] + Late'
    BY DEF DataAgeKnown, Usable, cache
  <2> QED BY <1>2 DEF IInv, DataAgeKnown, Usable, TypeOK, Ages
<1>8. DataThere'
  BY DEF IInv, DataThere, TypeOK, cache
<1> QED
  BY <1>1, <1>5, <1>6, <1>7, <1>8 DEF IInv

LEMMA AnswerStep ==
  ASSUME IInv, NEW h \in Handlers, Answer(h)
  PROVE  IInv'
<1> DEFINE s == [handler[h] EXCEPT !.pc = "answered"]
<1>1. handler[h] \in Handling /\ SnapOK(handler[h], Late) /\ h \in Handlers
  BY DEF IInv, TypeOK, SnapInv, Handlers
<1>2. handler' = [handler EXCEPT ![h] = s] /\ UNCHANGED <<value, stamp>>
  BY <1>1 DEF Answer, At, cache, Goto
<1>3. s \in Handling /\ s.pc # "stamp"
  BY <1>1, CacheAssumption DEF Answer, Handling, Refreshing, At, Entries
<1>4. /\ slow' \in {slow, slow + 1} /\ faults' \in {faults, faults + 1}
      /\ lock' \in {None} \cup Handlers /\ lockAge' \in Nat
      /\ first' \subseteq Workers /\ poll' \in [Workers -> Nat] /\ garbage' \in [Workers -> Nat]
  BY <1>1, CacheAssumption DEF IInv, TypeOK, Answer, Fault, locking, timers, Goto
<1>5. SnapOK(s, Late')
  BY <1>1, <1>4, LateGrows, CacheAssumption DEF Answer, At, SnapOK, Handling, IInv, TypeOK
<1> HIDE DEF s
<1> QED
  BY <1>1, <1>2, <1>3, <1>4, <1>5, HandlerStep DEF cache

LEMMA DeliverStep ==
  ASSUME IInv, NEW h \in Handlers, Deliver(h)
  PROVE  IInv'
<1> DEFINE s == [handler[h] EXCEPT !.pc = "store"]
<1>1. handler[h] \in Handling /\ SnapOK(handler[h], Late) /\ h \in Handlers
  BY DEF IInv, TypeOK, SnapInv, Handlers
<1>2. handler' = [handler EXCEPT ![h] = s] /\ UNCHANGED <<value, stamp>>
  BY <1>1 DEF Deliver, At, cache, Goto
<1>3. s \in Handling /\ s.pc # "stamp"
  BY <1>1, CacheAssumption DEF Deliver, Handling, Refreshing, At, Entries
<1>4. /\ slow' \in {slow, slow + 1} /\ faults' \in {faults, faults + 1}
      /\ lock' \in {None} \cup Handlers /\ lockAge' \in Nat
      /\ first' \subseteq Workers /\ poll' \in [Workers -> Nat] /\ garbage' \in [Workers -> Nat]
  BY <1>1, CacheAssumption DEF IInv, TypeOK, Deliver, Fault, locking, timers, Goto
<1>5. SnapOK(s, Late')
  BY <1>1, <1>4, LateGrows, CacheAssumption DEF Deliver, At, SnapOK, Handling, IInv, TypeOK
<1> HIDE DEF s
<1> QED
  BY <1>1, <1>2, <1>3, <1>4, <1>5, HandlerStep DEF cache

LEMMA AnswerIsLateStep ==
  ASSUME IInv, NEW h \in Handlers, AnswerIsLate(h)
  PROVE  IInv'
<1> DEFINE s == [handler[h] EXCEPT !.left = RequestTimeout]
<1>1. handler[h] \in Handling /\ SnapOK(handler[h], Late) /\ h \in Handlers
  BY DEF IInv, TypeOK, SnapInv, Handlers
<1>2. handler' = [handler EXCEPT ![h] = s] /\ UNCHANGED <<value, stamp>>
  BY <1>1 DEF AnswerIsLate, At, cache, Become
<1>3. s \in Handling /\ s.pc # "stamp"
  BY <1>1, CacheAssumption DEF AnswerIsLate, Handling, Refreshing, At, Entries
<1>4. /\ slow' \in {slow, slow + 1} /\ faults' \in {faults, faults + 1}
      /\ lock' \in {None} \cup Handlers /\ lockAge' \in Nat
      /\ first' \subseteq Workers /\ poll' \in [Workers -> Nat] /\ garbage' \in [Workers -> Nat]
  BY <1>1, CacheAssumption DEF IInv, TypeOK, AnswerIsLate, Fault, locking, timers, Become
<1>5. SnapOK(s, Late')
  BY <1>1, <1>4, LateGrows, CacheAssumption DEF AnswerIsLate, At, SnapOK, Handling, IInv, TypeOK
<1> HIDE DEF s
<1> QED
  BY <1>1, <1>2, <1>3, <1>4, <1>5, HandlerStep DEF cache

LEMMA NextEntryStep ==
  ASSUME IInv, NEW h \in Handlers, NextEntry(h), UNCHANGED <<cache, locking, timers, garbage, slow>>,
         faults' \in {faults, faults + 1}
  PROVE  IInv'
<1> DEFINE s == [handler[h] EXCEPT !.pc = "check", !.entry = handler[h].entry + 1, !.left = 0, !.snap = 0]
<1>1. handler[h] \in Handling /\ handler[h].entry + 1 \in Nat \ {0}
  BY DEF IInv, TypeOK, Handling
<1>2. s \in Handling /\ s.pc = "check" /\ s.snap = 0
  BY <1>1 DEF Handling, Refreshing
<1>3. handler' = [handler EXCEPT ![h] = s]
  BY DEF NextEntry, Become
<1>4. SnapOK(s, Late')
  BY <1>2, LateGrows DEF SnapOK, IInv, TypeOK
<1> HIDE DEF s
<1> QED
  BY <1>2, <1>3, <1>4, HandlerStep DEF IInv, TypeOK, locking, timers

LEMMA EntryFailsStep ==
  ASSUME IInv, NEW h \in Handlers, EntryFails(h)
  PROVE  IInv'
  BY NextEntryStep DEF EntryFails, Fault, IInv, TypeOK

LEMMA LockWaitTimeoutStep ==
  ASSUME IInv, NEW r \in Requests, LockWaitTimeout(r)
  PROVE  IInv'
<1> DEFINE s == [handler[r] EXCEPT !.pc = "serve"]
<1>1. handler[r] \in Handling /\ SnapOK(handler[r], Late) /\ r \in Handlers
  BY DEF IInv, TypeOK, SnapInv, Handlers
<1>2. handler' = [handler EXCEPT ![r] = s] /\ UNCHANGED <<value, stamp>>
  BY <1>1 DEF LockWaitTimeout, At, cache, Goto
<1>3. s \in Handling /\ s.pc # "stamp"
  BY <1>1, CacheAssumption DEF LockWaitTimeout, Handling, Refreshing, At, Entries
<1>4. /\ slow' \in {slow, slow + 1} /\ faults' \in {faults, faults + 1}
      /\ lock' \in {None} \cup Handlers /\ lockAge' \in Nat
      /\ first' \subseteq Workers /\ poll' \in [Workers -> Nat] /\ garbage' \in [Workers -> Nat]
  BY <1>1, CacheAssumption DEF IInv, TypeOK, LockWaitTimeout, Fault, locking, timers, Goto
<1>5. SnapOK(s, Late')
  BY <1>1, <1>4, LateGrows, CacheAssumption DEF LockWaitTimeout, At, SnapOK, Handling, IInv, TypeOK
<1> HIDE DEF s
<1> QED
  BY <1>1, <1>2, <1>3, <1>4, <1>5, HandlerStep DEF cache

LEMMA LockAfterWaitStep ==
  ASSUME IInv, NEW r \in Requests, LockAfterWait(r)
  PROVE  IInv'
<1> DEFINE s == [handler[r] EXCEPT !.pc = "check", !.entry = 1, !.left = 0]
<1>1. handler[r] \in Handling /\ SnapOK(handler[r], Late) /\ r \in Handlers
  BY DEF IInv, TypeOK, SnapInv, Handlers
<1>2. handler' = [handler EXCEPT ![r] = s] /\ UNCHANGED <<value, stamp>>
  BY <1>1 DEF LockAfterWait, At, cache, TakeLock, Become
<1>3. s \in Handling /\ s.pc # "stamp"
  BY <1>1, BeginsAtTheFirst
<1>4. /\ slow' \in {slow, slow + 1} /\ faults' \in {faults, faults + 1}
      /\ lock' \in {None} \cup Handlers /\ lockAge' \in Nat
      /\ first' \subseteq Workers /\ poll' \in [Workers -> Nat] /\ garbage' \in [Workers -> Nat]
  BY <1>1, CacheAssumption DEF IInv, TypeOK, LockAfterWait, Fault, locking, timers, TakeLock, Become
<1>5. SnapOK(s, Late')
  BY <1>1, <1>4, LateGrows, CacheAssumption DEF LockAfterWait, At, SnapOK, Handling, IInv, TypeOK
<1> HIDE DEF s
<1> QED
  BY <1>1, <1>2, <1>3, <1>4, <1>5, HandlerStep DEF cache

LEMMA ServeStep ==
  ASSUME IInv, NEW r \in Requests, Serve(r)
  PROVE  IInv'
<1> DEFINE s == Idle
<1>1. handler[r] \in Handling /\ SnapOK(handler[r], Late) /\ r \in Handlers
  BY DEF IInv, TypeOK, SnapInv, Handlers
<1>2. handler' = [handler EXCEPT ![r] = s] /\ UNCHANGED <<value, stamp>>
  BY <1>1 DEF Serve, At, cache, Become
<1>3. s \in Handling /\ s.pc # "stamp"
  BY <1>1, CacheAssumption DEF Serve, Handling, Refreshing, At, Entries, Idle
<1>4. /\ slow' \in {slow, slow + 1} /\ faults' \in {faults, faults + 1}
      /\ lock' \in {None} \cup Handlers /\ lockAge' \in Nat
      /\ first' \subseteq Workers /\ poll' \in [Workers -> Nat] /\ garbage' \in [Workers -> Nat]
  BY <1>1, CacheAssumption DEF IInv, TypeOK, Serve, Fault, locking, timers, Become
<1>5. SnapOK(s, Late')
  BY <1>1, <1>4, LateGrows, CacheAssumption DEF Serve, At, SnapOK, Handling, IInv, TypeOK, Idle
<1> HIDE DEF s
<1> QED
  BY <1>1, <1>2, <1>3, <1>4, <1>5, HandlerStep DEF cache

LEMMA HandlerAbortsStep ==
  ASSUME IInv, NEW h \in Handlers, HandlerAborts(h)
  PROVE  IInv'
<1> DEFINE s == Idle
<1>1. handler[h] \in Handling /\ SnapOK(handler[h], Late) /\ h \in Handlers
  BY DEF IInv, TypeOK, SnapInv, Handlers
<1>2. handler' = [handler EXCEPT ![h] = s] /\ UNCHANGED <<value, stamp>>
  BY <1>1 DEF HandlerAborts, At, cache, Become
<1>3. s \in Handling /\ s.pc # "stamp"
  BY <1>1, CacheAssumption DEF HandlerAborts, Handling, Refreshing, At, Entries, Idle
<1>4. /\ slow' \in {slow, slow + 1} /\ faults' \in {faults, faults + 1}
      /\ lock' \in {None} \cup Handlers /\ lockAge' \in Nat
      /\ first' \subseteq Workers /\ poll' \in [Workers -> Nat]
  BY <1>1, CacheAssumption DEF IInv, TypeOK, HandlerAborts, Fault, locking, timers, Become
<1>6. garbage' \in [Workers -> Nat]
  <2>1. garbage \in [Workers -> Nat] /\ WorkerOf[h] \in Workers
    BY CacheAssumption DEF IInv, TypeOK
  <2>2. garbage[WorkerOf[h]] + 1 \in Nat
    BY <2>1
  <2> QED BY <2>1, <2>2 DEF HandlerAborts
<1>5. SnapOK(s, Late')
  BY <1>1, <1>4, LateGrows, CacheAssumption DEF HandlerAborts, At, SnapOK, Handling, IInv, TypeOK, Idle
<1> HIDE DEF s
<1> QED
  BY <1>1, <1>2, <1>3, <1>4, <1>5, <1>6, HandlerStep DEF cache

LEMMA UnlockStep ==
  ASSUME IInv, NEW h \in Handlers, Unlock(h)
  PROVE  IInv'
<1> DEFINE s == IF h \in Requests THEN [handler[h] EXCEPT !.pc = "serve"] ELSE Idle
<1>1. handler[h] \in Handling /\ SnapOK(handler[h], Late) /\ h \in Handlers
  BY DEF IInv, TypeOK, SnapInv, Handlers
<1>2. handler' = [handler EXCEPT ![h] = s] /\ UNCHANGED <<value, stamp>>
  BY <1>1 DEF Unlock, At, cache, Become, Goto
<1>3. s \in Handling /\ s.pc # "stamp"
  BY <1>1, CacheAssumption DEF Unlock, Handling, Refreshing, At, Entries, Idle
<1>4. /\ slow' \in {slow, slow + 1} /\ faults' \in {faults, faults + 1}
      /\ lock' \in {None} \cup Handlers /\ lockAge' \in Nat
      /\ first' \subseteq Workers /\ poll' \in [Workers -> Nat] /\ garbage' \in [Workers -> Nat]
  BY <1>1, CacheAssumption DEF IInv, TypeOK, Unlock, Fault, locking, timers, Become, Goto
<1>5. SnapOK(s, Late')
  BY <1>1, <1>4, LateGrows, CacheAssumption DEF Unlock, At, SnapOK, Handling, IInv, TypeOK, Idle
<1> HIDE DEF s
<1> QED
  BY <1>1, <1>2, <1>3, <1>4, <1>5, HandlerStep DEF cache

LEMMA CheckStep ==
  ASSUME IInv, NEW h \in Handlers, Check(h)
  PROVE  IInv'
<1>1. /\ handler[h] \in Handling /\ SnapOK(handler[h], Late) /\ handler[h].pc = "check"
      /\ UNCHANGED <<cache, locking, timers, garbage, slow, faults>> /\ Late' = Late /\ Late \in Nat
  BY LateGrows DEF IInv, TypeOK, SnapInv, Check, At
<1>2. CASE Goto(h, "unlock")
  <2>1. [handler[h] EXCEPT !.pc = "unlock"] \in Handling
    BY <1>1 DEF Handling, Refreshing
  <2>2. SnapOK([handler[h] EXCEPT !.pc = "unlock"], Late')
    BY <1>1 DEF SnapOK, Handling
  <2>3. [handler[h] EXCEPT !.pc = "unlock"].pc # "stamp"
    BY <1>1 DEF Handling
  <2> QED BY <1>1, <1>2, <2>1, <2>2, <2>3, HandlerStep DEF Goto, IInv, TypeOK, locking, timers
<1>3. CASE /\ handler[h].entry <= NumEntries
           /\ Become(h, [handler[h] EXCEPT !.pc = "sent", !.left = AnswerTime])
  <2> DEFINE s == [handler[h] EXCEPT !.pc = "sent", !.left = AnswerTime]
  <2>1. AnswerTime \in Nat /\ AnswerTime <= Late
    <3>1. slow * RequestTimeout \in Nat /\ AnswerTime \in Nat
      BY CacheAssumption DEF IInv, TypeOK
    <3> QED BY <3>1 DEF Late
  <2>2. s \in Handling /\ s.pc # "stamp"
    BY <1>1, <2>1 DEF Handling, Refreshing
  <2>3. handler[h].entry \in Entries
    BY <1>1, <1>3, CacheAssumption DEF Handling, Entries
  <2>4. SnapOK(s, Late')
    BY <1>1, <2>1, <2>3 DEF SnapOK, Handling
  <2>5. handler' = [handler EXCEPT ![h] = s]
    BY <1>3 DEF Become
  <2> HIDE DEF s
  <2> QED BY <1>1, <2>2, <2>4, <2>5, HandlerStep DEF IInv, TypeOK, locking, timers
<1>4. CASE NextEntry(h)
  BY <1>1, <1>4, NextEntryStep DEF IInv, TypeOK
<1> QED
  BY <1>2, <1>3, <1>4 DEF Check

LEMMA RequestStep ==
  ASSUME IInv, NEW r \in Requests, Request(r)
  PROVE  IInv'
<1>1. PICK e \in Entries :
         handler' = [handler EXCEPT ![r] =
             IF stamp[e] = None THEN [Idle EXCEPT !.pc = "wait", !.left = LockTimeout, !.name = e]
                                ELSE [Idle EXCEPT !.pc = "serve", !.name = e]]
  BY DEF Request, Become
<1> DEFINE s == IF stamp[e] = None THEN [Idle EXCEPT !.pc = "wait", !.left = LockTimeout, !.name = e]
                                   ELSE [Idle EXCEPT !.pc = "serve", !.name = e]
<1>2. s \in Handling /\ s.pc # "stamp"
  <2>1. LockTimeout \in Nat
    BY CacheAssumption
  <2>2. [Idle EXCEPT !.pc = "wait", !.left = LockTimeout, !.name = e] \in Handling
    BY <2>1, IdleIsTyped DEF Handling
  <2>3. [Idle EXCEPT !.pc = "serve", !.name = e] \in Handling
    BY IdleIsTyped DEF Handling
  <2>4. s.pc # "stamp"
    BY DEF Idle
  <2> QED BY <2>2, <2>3, <2>4
<1>3. UNCHANGED <<cache, locking, timers, garbage, slow, faults>> /\ Late' = Late /\ Late \in Nat
  BY LateGrows DEF Request, IInv, TypeOK
<1>4. SnapOK(s, Late')
  BY <1>3, CacheAssumption DEF SnapOK, Idle
<1>5. handler' = [handler EXCEPT ![r] = s] /\ r \in Handlers
  BY <1>1 DEF Handlers
<1> HIDE DEF s
<1> QED
  BY <1>2, <1>3, <1>4, <1>5, HandlerStep DEF IInv, TypeOK, locking, timers

LEMMA TimerFiresStep ==
  ASSUME IInv, NEW w \in Workers, TimerFires(w)
  PROVE  IInv'
<1>1. UNCHANGED <<cache, garbage, slow, faults>> /\ Late' = Late
  BY LateGrows DEF TimerFires, IInv, TypeOK
<1>2. first' \subseteq Workers /\ poll' \in [Workers -> Nat]
  BY CacheAssumption DEF TimerFires, Rearm, IInv, TypeOK
<1>3. ASSUME NEW t \in Timers, At(t, "idle"), TakeLock(t)
      PROVE  IInv'
  <2> DEFINE s == [handler[t] EXCEPT !.pc = "check", !.entry = 1, !.left = 0]
  <2>1. t \in Handlers /\ handler[t] \in Handling /\ SnapOK(handler[t], Late)
    BY DEF IInv, TypeOK, SnapInv, Handlers
  <2>2. s \in Handling /\ s.pc # "stamp"
    BY <2>1, BeginsAtTheFirst
  <2>3. SnapOK(s, Late')
    BY <1>1, <1>3, <2>1 DEF SnapOK, Handling, At
  <2>4. handler' = [handler EXCEPT ![t] = s] /\ lock' = t /\ lockAge' = 0
    BY <1>3 DEF TakeLock, Become
  <2> HIDE DEF s
  <2> QED BY <1>1, <1>2, <2>1, <2>2, <2>3, <2>4, HandlerStep DEF IInv, TypeOK
<1>4. CASE UNCHANGED <<locking, handler>>
  BY <1>1, <1>2, <1>4
     DEF IInv, TypeOK, SnapInv, StampInv, NewEnough, DataAgeKnown, DataThere, Usable, At, cache, locking
<1> QED
  BY <1>3, <1>4 DEF TimerFires

LEMMA LockExpiresStep ==
  ASSUME IInv, LockExpires
  PROVE  IInv'
<1>1. Late' = Late
  BY LateGrows DEF LockExpires, IInv, TypeOK
<1> QED
  BY <1>1 DEF LockExpires, IInv, TypeOK, SnapInv, StampInv, NewEnough, DataAgeKnown, DataThere, Usable,
              At, cache, timers

LEMMA GcLockStep ==
  ASSUME IInv, NEW w \in Workers, GcLock(w)
  PROVE  IInv'
<1>1. /\ UNCHANGED <<value, stamp, first, poll, handler, slow>> /\ Late' = Late
      /\ lock' = None /\ lockAge' = 0 /\ faults' = faults + 1
  BY LateGrows DEF GcLock, Fault, cache, timers, IInv, TypeOK
<1>2. garbage' \in [Workers -> Nat]
  <2>1. garbage \in [Workers -> Nat] /\ garbage[w] > 0 /\ garbage' = [garbage EXCEPT ![w] = garbage[w] - 1]
    BY DEF GcLock, IInv, TypeOK
  <2>2. garbage[w] - 1 \in Nat
    BY <2>1
  <2> QED BY <2>1, <2>2
<1>3. TypeOK'
  BY <1>1, <1>2 DEF IInv, TypeOK
<1>4. SnapInv' /\ StampInv' /\ DataAgeKnown' /\ DataThere'
  BY <1>1 DEF IInv, TypeOK, SnapInv, StampInv, NewEnough, DataAgeKnown, DataThere, Usable, At
<1> QED
  BY <1>3, <1>4 DEF IInv

(* Data without a time, or a time without data, are not used.              *)
LEMMA StoreEvictsStep ==
  ASSUME IInv, NEW h \in Handlers, StoreEvicts(h)
  PROVE  IInv'
<1>1. /\ UNCHANGED <<locking, timers, handler, garbage, slow>> /\ Late' = Late /\ Late \in Nat
      /\ faults \in Nat /\ faults' = faults + 1
      /\ value \in [Entries -> Ages] /\ stamp \in [Entries -> Ages]
  BY LateGrows DEF StoreEvicts, Fault, IInv, TypeOK
<1>2. /\ value' \in [Entries -> Ages] /\ stamp' \in [Entries -> Ages]
      /\ \A e \in Entries : /\ value'[e] # None => value'[e] = value[e] /\ value[e] # None
                            /\ stamp'[e] # None => stamp'[e] = stamp[e] /\ stamp[e] # None
  BY <1>1 DEF StoreEvicts, Ages
<1>3. TypeOK'
  BY <1>1, <1>2 DEF IInv, TypeOK, locking, timers
<1>4. SnapInv' /\ DataThere'
  BY <1>1 DEF IInv, SnapInv, DataThere
<1>5. StampInv'
  <2> SUFFICES ASSUME NEW g \in Handlers, handler[g].pc = "stamp", value'[handler[g].entry] # None
               PROVE  value'[handler[g].entry] <= Late
    BY <1>1 DEF StampInv, At, NewEnough
  <2>1. handler[g].entry \in Entries /\ NewEnough(handler[g].entry)
    BY DEF IInv, SnapInv, SnapOK, StampInv, At
  <2>2. value'[handler[g].entry] = value[handler[g].entry] /\ value[handler[g].entry] # None
    BY <1>2, <2>1
  <2> QED BY <2>1, <2>2 DEF NewEnough
<1>6. DataAgeKnown'
  <2> SUFFICES ASSUME NEW e \in Entries, Usable(e)'
               PROVE  value'[e] <= stamp'[e] + Late
    BY <1>1 DEF DataAgeKnown
  <2>1. value'[e] = value[e] /\ stamp'[e] = stamp[e] /\ Usable(e)
    BY <1>2 DEF Usable
  <2> QED BY <2>1 DEF IInv, DataAgeKnown
<1> QED
  BY <1>3, <1>4, <1>5, <1>6 DEF IInv

(* The data stored are no older than a backend request takes, also for a   *)
(* handler that is about to store the time of the same entry.              *)
LEMMA StoreValueStep ==
  ASSUME IInv, NEW h \in Handlers, StoreValue(h)
  PROVE  IInv'
<1>1. /\ UNCHANGED <<stamp, locking, timers, garbage, slow, faults>> /\ Late' = Late /\ Late \in Nat
      /\ handler[h] \in Handling /\ SnapOK(handler[h], Late) /\ handler[h].pc = "store"
  BY LateGrows DEF StoreValue, At, IInv, TypeOK, SnapInv
<1> DEFINE e == handler[h].entry
           snap == handler[h].snap
           s == [handler[h] EXCEPT !.pc = "stamp"]
<1>2. e \in Entries /\ snap \in Nat /\ snap <= Late
  BY <1>1 DEF SnapOK, Handling
<1>3. s \in Handling /\ s.entry = e /\ SnapOK(s, Late)
  BY <1>1 DEF Handling, Refreshing, SnapOK
<1>4. /\ value' = [value EXCEPT ![e] = snap]
      /\ handler' = [handler EXCEPT ![h] = s]
  BY DEF StoreValue, Goto
<1> HIDE DEF e, snap, s
<1>5. /\ value'[e] = snap /\ \A d \in Entries \ {e} : value'[d] = value[d]
      /\ handler'[h] = s /\ \A g \in Handlers \ {h} : handler'[g] = handler[g]
  BY <1>2, <1>4 DEF IInv, TypeOK
<1>6. TypeOK'
  BY <1>1, <1>2, <1>3, <1>4 DEF IInv, TypeOK, Ages, locking, timers
<1>7. SnapInv'
  BY <1>1, <1>3, <1>5 DEF IInv, SnapInv
<1>8. StampInv'
  <2> SUFFICES ASSUME NEW g \in Handlers, handler'[g].pc = "stamp"
               PROVE  IF value'[handler'[g].entry] = None THEN faults # 0
                                                          ELSE value'[handler'[g].entry] <= Late
    BY <1>1 DEF StampInv, At, NewEnough
  <2>1. handler'[g].entry \in Entries
    BY <1>7 DEF SnapInv, SnapOK
  <2>2. CASE handler'[g].entry = e
    BY <1>2, <1>5, <2>2, CacheAssumption
  <2>3. CASE handler'[g].entry # e
    <3>1. g # h /\ handler'[g] = handler[g]
      BY <1>3, <1>5, <2>3
    <3>2. NewEnough(handler[g].entry)
      BY <3>1 DEF IInv, StampInv, At
    <3> QED BY <1>5, <2>1, <2>3, <3>1, <3>2 DEF NewEnough
  <2> QED BY <2>2, <2>3
<1>9. DataAgeKnown'
  <2> SUFFICES ASSUME NEW d \in Entries, Usable(d)'
               PROVE  value'[d] <= stamp[d] + Late
    BY <1>1 DEF DataAgeKnown
  <2>1. CASE d = e
    BY <1>1, <1>2, <1>5, <2>1, CacheAssumption DEF IInv, TypeOK, Ages, Usable
  <2>2. CASE d # e
    BY <1>1, <1>5, <2>2 DEF IInv, DataAgeKnown, Usable
  <2> QED BY <2>1, <2>2
<1>10. DataThere'
  BY <1>1, <1>2, <1>5, CacheAssumption DEF IInv, DataThere
<1> QED
  BY <1>6, <1>7, <1>8, <1>9, <1>10 DEF IInv

LEMMA StoreStampStep ==
  ASSUME IInv, NEW h \in Handlers, StoreStamp(h)
  PROVE  IInv'
<1>1. /\ UNCHANGED <<value, locking, timers, garbage, slow, faults>> /\ Late' = Late /\ Late \in Nat
      /\ handler[h] \in Handling /\ SnapOK(handler[h], Late) /\ handler[h].pc = "stamp"
  BY LateGrows DEF StoreStamp, At, IInv, TypeOK, SnapInv
<1> DEFINE e == handler[h].entry
           s == [handler[h] EXCEPT !.pc = "check", !.entry = handler[h].entry + 1, !.left = 0, !.snap = 0]
<1>2. e \in Entries /\ NewEnough(e) /\ value[e] \in Ages
  BY <1>1 DEF SnapOK, IInv, StampInv, At, TypeOK
<1>3. /\ s \in Handling /\ s.pc = "check" /\ s.snap = 0
  <2>1. handler[h].entry + 1 \in Nat \ {0}
    BY <1>1 DEF Handling
  <2> QED BY <1>1, <2>1 DEF Handling, Refreshing
<1>4. /\ stamp' = [stamp EXCEPT ![e] = 0]
      /\ handler' = [handler EXCEPT ![h] = s]
  BY DEF StoreStamp, NextEntry, Become
<1>5. SnapOK(s, Late)
  BY <1>1, <1>3 DEF SnapOK
<1> HIDE DEF e, s
<1>6. TypeOK'
  BY <1>1, <1>2, <1>3, <1>4 DEF IInv, TypeOK, Ages, locking, timers
<1>7. SnapInv'
  BY <1>1, <1>4, <1>5 DEF IInv, TypeOK, SnapInv
<1>8. StampInv'
  BY <1>1, <1>3, <1>4 DEF IInv, TypeOK, StampInv, NewEnough, At
<1>9. DataAgeKnown' /\ DataThere'
  <2> SUFFICES ASSUME NEW d \in Entries, stamp'[d] # None
               PROVE  /\ Usable(d)' => value[d] <= stamp'[d] + Late
                      /\ value[d] = None => faults # 0
    BY <1>1 DEF DataAgeKnown, DataThere, Usable
  <2>1. CASE d = e
    BY <1>1, <1>2, <1>4, <2>1 DEF IInv, TypeOK, NewEnough, Usable
  <2>2. CASE d # e
    <3>1. stamp'[d] = stamp[d]
      BY <1>2, <1>4, <2>2 DEF IInv, TypeOK
    <3> QED BY <1>1, <3>1 DEF IInv, DataAgeKnown, DataThere, Usable
  <2> QED BY <2>1, <2>2
<1> QED
  BY <1>6, <1>7, <1>8, <1>9 DEF IInv

LEMMA WorkerDiesStep ==
  ASSUME IInv, NEW w \in Workers, WorkerDies(w)
  PROVE  IInv'
<1>1. /\ UNCHANGED <<value, stamp, locking, slow>> /\ faults \in Nat /\ faults' = faults + 1
      /\ Late' = Late /\ Late \in Nat
      /\ first' \subseteq Workers /\ poll' \in [Workers -> Nat] /\ garbage' \in [Workers -> Nat]
  BY LateGrows, CacheAssumption DEF WorkerDies, Fault, cache, IInv, TypeOK
<1>2. handler' = [h \in Handlers |-> handler'[h]] /\ \A h \in Handlers : handler'[h] \in {Idle, handler[h]}
  BY DEF WorkerDies
<1>3. Idle \in Handling /\ SnapOK(Idle, Late) /\ Idle.pc = "idle"
  BY <1>1, CacheAssumption DEF Idle, Handling, SnapOK, Entries
<1>4. TypeOK'
  BY <1>1, <1>2, <1>3 DEF IInv, TypeOK, locking
<1>5. SnapInv' /\ StampInv' /\ DataAgeKnown' /\ DataThere'
  BY <1>1, <1>2, <1>3 DEF IInv, SnapInv, StampInv, NewEnough, DataAgeKnown, DataThere, Usable, At
<1> QED
  BY <1>4, <1>5 DEF IInv

(* Time goes by: nobody is about to store anything. *)
LEMMA TickStep ==
  ASSUME IInv, Tick
  PROVE  IInv'
<1>1. UNCHANGED <<lock, first, garbage, slow, faults>> /\ Late' = Late /\ Late \in Nat
  BY LateGrows DEF Tick, IInv, TypeOK
<1>2. \A age \in Ages, max \in Nat : /\ Older(age, max) \in Ages
                                     /\ Older(age, max) = None <=> age = None
                                     /\ age # None => Older(age, max) \in {age, age + 1}
                                     /\ age # None /\ Older(age, max) <= max => Older(age, max) = age + 1
  BY CacheAssumption DEF Older, Ages
<1>3. HardLimit \in Nat /\ HardLimit + MaxSnap \in Nat
  <2>1. MaxFaults * RequestTimeout \in Nat /\ AnswerTime \in Nat /\ HardLimit \in Nat
    BY CacheAssumption
  <2> QED BY <2>1 DEF MaxSnap
<1>4. /\ value' = [e \in Entries |-> Older(value[e], HardLimit + MaxSnap)]
      /\ stamp' = [e \in Entries |-> Older(stamp[e], HardLimit)]
  BY DEF Tick
<1>5. value' \in [Entries -> Ages] /\ stamp' \in [Entries -> Ages]
  BY <1>2, <1>3, <1>4 DEF IInv, TypeOK
<1>6. ASSUME NEW h \in Handlers
      PROVE  /\ handler'[h] \in Handling /\ SnapOK(handler'[h], Late) /\ handler'[h].pc # "stamp"
  <2>1. handler[h] \in Handling /\ SnapOK(handler[h], Late)
    BY DEF IInv, TypeOK, SnapInv
  <2>2. CASE At(h, "idle")
    <3>1. handler'[h] = Idle
      BY <2>2 DEF Tick
    <3>2. SnapOK(Idle, Late)
      BY <1>1, IdleIsTyped DEF SnapOK
    <3> QED BY <3>1, <3>2, IdleIsTyped
  <2>3. CASE ~ At(h, "idle")
    <3>1. handler[h].pc \in {"sent", "answered", "wait"} /\ handler[h].left > 0
      BY <2>3 DEF Tick, Waiting, At
    <3> DEFINE snap == IF handler[h].pc = "answered" THEN handler[h].snap + 1 ELSE handler[h].snap
    <3>2. handler'[h] = [handler[h] EXCEPT !.left = handler[h].left - 1, !.snap = snap]
      BY <2>3 DEF Tick, At
    <3>3. handler[h].left - 1 \in Nat /\ snap \in Nat
      BY <2>1, <3>1 DEF Handling
    <3>4. handler'[h] \in Handling
      BY <2>1, <3>2, <3>3 DEF Handling
    <3>5. SnapOK(handler'[h], Late)
      BY <1>1, <2>1, <3>1, <3>2, <3>3 DEF SnapOK, Handling
    <3> QED BY <2>1, <3>1, <3>2, <3>4, <3>5 DEF Handling
  <2> QED BY <2>2, <2>3
<1>7. TypeOK'
  <2>1. lockAge' \in Nat
    <3>1. lockAge \in Nat /\ lockAge + 1 \in Nat /\ 0 \in Nat
      BY DEF IInv, TypeOK
    <3>2. lockAge' = 0 \/ lockAge' = lockAge + 1
      BY DEF Tick
    <3> QED BY <3>1, <3>2
  <2>2. poll' \in [Workers -> Nat]
    <3>1. poll' = [w \in Workers |-> poll[w] - 1] /\ \A w \in Workers : poll[w] > 0
      BY DEF Tick
    <3>2. \A w \in Workers : poll[w] \in Nat
      BY DEF IInv, TypeOK
    <3>3. \A w \in Workers : poll[w] - 1 \in Nat
      BY <3>1, <3>2
    <3> QED BY <3>1, <3>3
  <2>3. handler' \in [Handlers -> Handling]
    <3>1. handler' = [h \in Handlers |-> handler'[h]]
      BY DEF Tick
    <3> QED BY <1>6, <3>1
  <2> QED BY <1>1, <1>5, <2>1, <2>2, <2>3 DEF IInv, TypeOK
<1>8. SnapInv' /\ StampInv'
  BY <1>1, <1>6 DEF SnapInv, StampInv, At
<1>9. DataAgeKnown' /\ DataThere'
  <2> SUFFICES ASSUME NEW e \in Entries, stamp'[e] # None
               PROVE  /\ Usable(e)' => value'[e] <= stamp'[e] + Late
                      /\ value'[e] = None => faults # 0
    BY <1>1 DEF DataAgeKnown, DataThere, Usable
  <2>1. /\ value[e] \in Ages /\ stamp[e] \in Ages
        /\ value'[e] = Older(value[e], HardLimit + MaxSnap) /\ stamp'[e] = Older(stamp[e], HardLimit)
    BY <1>4 DEF IInv, TypeOK
  <2>2. stamp[e] # None /\ (value'[e] = None <=> value[e] = None)
    BY <1>2, <1>3, <2>1
  <2>3. value'[e] = None => faults # 0
    BY <2>2 DEF IInv, DataThere
  <2>4. ASSUME Usable(e)'
        PROVE  value'[e] <= stamp'[e] + Late
    <3>1. value[e] # None /\ value'[e] \in {value[e], value[e] + 1} /\ stamp'[e] = stamp[e] + 1
      BY <1>2, <1>3, <2>1, <2>2, <2>4 DEF Usable
    <3>2. value[e] \in Nat /\ stamp[e] \in Nat /\ stamp[e] + 1 <= HardLimit
      BY <2>1, <2>2, <2>4, <3>1 DEF Ages, Usable
    <3>3. value[e] <= stamp[e] + Late
      BY <1>3, <2>2, <3>1, <3>2 DEF IInv, DataAgeKnown, Usable
    <3> QED BY <1>1, <3>1, <3>2, <3>3
  <2> QED BY <2>3, <2>4
<1> QED
  BY <1>7, <1>8, <1>9 DEF IInv
----------------------------------------------------------------------------
LEMMA NextInv == IInv /\ [Next]_vars => IInv'
<1> SUFFICES ASSUME IInv, [Next]_vars
             PROVE  IInv'
  OBVIOUS
<1>1. CASE UNCHANGED vars
  <2>1. Late' = Late
    BY <1>1, LateGrows DEF vars, IInv, TypeOK
  <2> QED
    BY <1>1, <2>1 DEF vars, cache, locking, timers, IInv, TypeOK, SnapInv, StampInv, NewEnough,
                      DataAgeKnown, DataThere, Usable, At
<1>2. ASSUME NEW h \in Handlers, Refresh(h)
      PROVE  IInv'
  BY <1>2, CheckStep, AnswerStep, DeliverStep, AnswerIsLateStep, EntryFailsStep, StoreValueStep,
     StoreStampStep, StoreEvictsStep, UnlockStep, HandlerAbortsStep DEF Refresh
<1>3. ASSUME NEW w \in Workers, TimerFires(w) \/ WorkerDies(w) \/ GcLock(w)
      PROVE  IInv'
  BY <1>3, TimerFiresStep, WorkerDiesStep, GcLockStep
<1>4. ASSUME NEW r \in Requests, Request(r) \/ LockAfterWait(r) \/ LockWaitTimeout(r) \/ Serve(r)
      PROVE  IInv'
  BY <1>4, RequestStep, LockAfterWaitStep, LockWaitTimeoutStep, ServeStep
<1> QED
  BY <1>1, <1>2, <1>3, <1>4, LockExpiresStep, TickStep DEF Next

(* The data a request is given are older than their time says by one       *)
(* backend request at most, however many handlers refresh at a time        *)
(* because the lock has expired or was deleted under its holder, whatever  *)
(* fails, and whatever the dictionary drops between the two writes of any  *)
(* (refresh_cache, store_cache_entry, get_cache_entry).                    *)
THEOREM AgesAreKnown == Spec => []DataAgeKnown
<1>1. Spec => []IInv
  BY InitInv, NextInv, PTL DEF Spec
<1>2. IInv => DataAgeKnown
  BY DEF IInv
<1> QED
  BY <1>1, <1>2, PTL
----------------------------------------------------------------------------
(* How old the entries get.  Turn(e) is the time from the beginning of a   *)
(* refresh to the answer for entry e, Limit the bound of                   *)
(* EntriesAreRefreshed.                                                    *)
Turn(e) == e * AnswerTime

FaultCost == LockTTL + PollPeriod

Limit == Expiration + PollPeriod + RefreshTime + faults * FaultCost

Refreshes(h) == handler[h].pc \in Refreshing

(* The time a handler has to wait for its present answer, and until it has *)
(* been at all the entries.                                                *)
Pending(s) ==
    IF s.pc \in {"check", "unlock"} THEN AnswerTime
    ELSE IF s.pc \in {"sent", "answered"} THEN s.left ELSE 0

ToEnd(s) == Turn(NumEntries) - Turn(s.entry) + Pending(s)

(* No answer to the handler has been late: it will have unlocked before    *)
(* the lock expires.                                                       *)
OnTime(h) ==
    /\ ToEnd(handler[h]) <= Turn(NumEntries)
    /\ lock # None => lockAge + ToEnd(handler[h]) <= Turn(NumEntries)

(* Every handler that refreshes either leaves time for entry e, after its  *)
(* end, for a timer that has just fired in vain and the refresh after it;  *)
(* or it is on time for e itself, and e was young enough when it began.    *)
Leaves(h, e) == stamp[e] + ToEnd(handler[h]) + PollPeriod + Turn(e) <= Limit

Scanned(h, e) ==
    \/ Leaves(h, e)
    \/ /\ handler[h].entry <= e /\ OnTime(h)
       /\ h = lock => stamp[e] + Turn(e) <= Limit + lockAge

(* While nobody has the lock, every timer that fires comes in time for e.  *)
Free(e) ==
    /\ stamp[e] + Turn(e) <= Limit
    /\ \A w \in Workers : stamp[e] + poll[w] + Turn(e) <= Limit

(* When the lock is left locked, a timer that fires just before it expires *)
(* will come again in time.                                                *)
LeftLocked(e) == stamp[e] + (LockTTL - lockAge) + PollPeriod + Turn(e) <= Limit

Bounds ==
    /\ slow <= faults /\ lockAge <= LockTTL
    /\ \A w \in Workers : poll[w] <= PollPeriod
    /\ \A h \in Handlers : Refreshes(h) =>
         /\ handler[h].entry <= NumEntries + 1
         /\ handler[h].pc \notin {"check", "unlock"} => handler[h].entry <= NumEntries
         /\ handler[h].pc = "unlock" => handler[h].entry = NumEntries + 1

FaultFree ==
    faults = 0 => /\ lock # None => Refreshes(lock)
                  /\ \A h \in Handlers : Refreshes(h) => h = lock /\ OnTime(h)

ScanInv ==
    \A h \in Handlers, e \in Entries : Refreshes(h) /\ stamp[e] # None => Scanned(h, e)

LockInv ==
    \A e \in Entries : stamp[e] # None =>
        /\ lock = None => Free(e)
        /\ lock # None => Refreshes(lock) \/ LeftLocked(e)

TInv == IInv /\ Bounds /\ FaultFree /\ ScanInv /\ LockInv
----------------------------------------------------------------------------
LEMMA Constants ==
  /\ NumEntries \in Nat \ {0} /\ AnswerTime \in Nat \ {0} /\ RequestTimeout \in Nat
  /\ FirstPollDelay \in Nat \ {0} /\ PollPeriod \in Nat /\ Expiration \in Nat
  /\ LockTTL \in Nat /\ LockTimeout \in Nat /\ HardLimit \in Nat
  /\ FirstPollDelay < Expiration /\ Expiration < PollPeriod /\ LockTimeout < LockTTL
  /\ FaultCost = LockTTL + PollPeriod /\ FaultCost \in Nat
  /\ Turn(NumEntries) \in Nat /\ Turn(NumEntries) < LockTimeout
  /\ Expiration + PollPeriod + Turn(NumEntries) <= HardLimit
<1>1. /\ NumEntries \in Nat \ {0} /\ AnswerTime \in Nat \ {0} /\ RequestTimeout \in Nat
      /\ FirstPollDelay \in Nat \ {0} /\ PollPeriod \in Nat /\ Expiration \in Nat
      /\ LockTTL \in Nat /\ LockTimeout \in Nat /\ HardLimit \in Nat
      /\ FirstPollDelay < Expiration /\ Expiration < PollPeriod /\ LockTimeout < LockTTL
  BY CacheAssumption
<1>2. NumEntries * AnswerTime \in Nat
  BY <1>1
<1> QED
  BY <1>1, <1>2, TimingAssumption DEF Turn, FaultCost

(* Every entry takes its time, and the later ones come later. *)
LEMMA Turns ==
  ASSUME NEW i \in Nat
  PROVE  /\ Turn(i) \in Nat /\ Turn(i + 1) = Turn(i) + AnswerTime
         /\ i >= 1 => Turn(i) >= AnswerTime
         /\ \A j \in Nat : i <= j => Turn(i) <= Turn(j)
<1>1. AnswerTime \in Nat
  BY Constants
<1>2. /\ i * AnswerTime \in Nat
      /\ (i + 1) * AnswerTime = i * AnswerTime + AnswerTime
      /\ i >= 1 => i * AnswerTime >= AnswerTime
  BY <1>1
<1>3. \A j \in Nat : i <= j => i * AnswerTime <= j * AnswerTime
  <2> SUFFICES ASSUME NEW j \in Nat, i <= j
               PROVE  i * AnswerTime <= j * AnswerTime
    OBVIOUS
  <2>1. (j - i) * AnswerTime \in Nat
    BY <1>1
  <2>2. j * AnswerTime = i * AnswerTime + (j - i) * AnswerTime
    BY <1>1
  <2> QED BY <1>1, <1>2, <2>1, <2>2
<1> QED
  BY <1>2, <1>3 DEF Turn

LEMMA EntryTurns ==
  ASSUME NEW e \in Entries
  PROVE  e \in Nat /\ e >= 1 /\ e <= NumEntries /\ Turn(e) \in Nat /\ AnswerTime <= Turn(e) /\ Turn(e) <= Turn(NumEntries)
<1>1. e \in Nat /\ e >= 1 /\ e <= NumEntries /\ NumEntries \in Nat
  BY Constants DEF Entries
<1> QED
  BY <1>1, Turns

(* The bound grows with the faults. *)
LEMMA LimitGrows ==
  ASSUME slow \in Nat, faults \in Nat
  PROVE  /\ Limit \in Nat /\ slow * RequestTimeout \in Nat
         /\ Expiration + PollPeriod + Turn(NumEntries) + slow * RequestTimeout <= Limit
         /\ faults # 0 => Expiration + PollPeriod + Turn(NumEntries) + slow * RequestTimeout + FaultCost <= Limit
         /\ slow' = slow /\ faults' = faults => Limit' = Limit
         /\ slow' = slow /\ faults' = faults + 1 => Limit' = Limit + FaultCost
         /\ slow' = slow + 1 /\ faults' = faults + 1 => Limit' = Limit + FaultCost + RequestTimeout
<1> DEFINE a == slow * RequestTimeout
           b == faults * FaultCost
           c == (slow + 1) * RequestTimeout
           d == (faults + 1) * FaultCost
<1>1. RequestTimeout \in Nat /\ FaultCost \in Nat
  BY Constants
<1>2. /\ a \in Nat /\ b \in Nat /\ c = a + RequestTimeout /\ d = b + FaultCost
  BY <1>1
<1>3. faults # 0 => b >= FaultCost
  <2>1. faults # 0 => (faults - 1) * FaultCost \in Nat /\ b = (faults - 1) * FaultCost + FaultCost
    BY <1>1
  <2> QED BY <1>1, <1>2, <2>1
<1>4. /\ Limit = Expiration + PollPeriod + (Turn(NumEntries) + a) + b
      /\ slow' = slow /\ faults' = faults => Limit' = Limit
      /\ slow' = slow /\ faults' = faults + 1 =>
           Limit' = Expiration + PollPeriod + (Turn(NumEntries) + a) + d
      /\ slow' = slow + 1 /\ faults' = faults + 1 =>
           Limit' = Expiration + PollPeriod + (Turn(NumEntries) + c) + d
  BY DEF Limit, RefreshTime, Turn
<1> HIDE DEF b, c, d
<1> QED
  BY <1>1, <1>2, <1>3, <1>4, Constants

(* The time to its end is what a handler needs at least for the entries    *)
(* that it has not yet done, and at most that and the time of late answers.*)
LEMMA EndBounds ==
  ASSUME IInv, Bounds, NEW h \in Handlers, Refreshes(h)
  PROVE  /\ handler[h] \in Handling /\ handler[h].entry \in Nat /\ handler[h].entry >= 1
         /\ Pending(handler[h]) \in Nat /\ ToEnd(handler[h]) \in Nat
         /\ ToEnd(handler[h]) <= Turn(NumEntries) + slow * RequestTimeout
         /\ \A e \in Entries :
              /\ handler[h].entry <= e => Turn(NumEntries) - Turn(e) <= ToEnd(handler[h])
              /\ e < handler[h].entry => ToEnd(handler[h]) <= Turn(NumEntries) - Turn(e) + slow * RequestTimeout
<1> DEFINE s == handler[h]
<1>1. /\ s \in Handling /\ s.entry \in Nat /\ s.entry >= 1 /\ s.left \in Nat
      /\ s.entry <= NumEntries + 1
      /\ s.pc \notin {"check", "unlock"} => s.entry <= NumEntries
      /\ s.pc \in {"sent", "answered"} => s.snap \in Nat /\ s.snap + s.left <= Late
  BY DEF IInv, TypeOK, SnapInv, SnapOK, Bounds, Handling
<1>2. AnswerTime \in Nat /\ slow * RequestTimeout \in Nat /\ Late = AnswerTime + slow * RequestTimeout
  BY Constants, LimitGrows DEF IInv, TypeOK, Late
<1>3. /\ Pending(s) \in Nat /\ Pending(s) <= AnswerTime + slow * RequestTimeout
      /\ s.pc \in {"check", "unlock"} => Pending(s) = AnswerTime
  <2> HIDE DEF s
  <2> QED BY <1>1, <1>2 DEF Pending
<1>4. /\ Turn(s.entry) \in Nat /\ Turn(s.entry) >= AnswerTime
      /\ Turn(NumEntries) \in Nat /\ Turn(NumEntries + 1) = Turn(NumEntries) + AnswerTime
      /\ s.entry <= NumEntries => Turn(s.entry) <= Turn(NumEntries)
      /\ s.entry = NumEntries + 1 => Turn(s.entry) = Turn(NumEntries) + AnswerTime
  BY <1>1, Turns, Constants
<1>5. /\ ToEnd(s) = Turn(NumEntries) - Turn(s.entry) + Pending(s)
      /\ ToEnd(s) \in Nat /\ ToEnd(s) <= Turn(NumEntries) + slow * RequestTimeout
  <2> HIDE DEF s
  <2>1. s.entry <= NumEntries \/ (s.entry = NumEntries + 1 /\ s.pc \in {"check", "unlock"})
    BY <1>1, Constants
  <2> QED BY <1>1, <1>2, <1>3, <1>4, <2>1 DEF ToEnd
<1>6. ASSUME NEW e \in Entries
      PROVE  /\ s.entry <= e => Turn(NumEntries) - Turn(e) <= ToEnd(s)
             /\ e < s.entry => ToEnd(s) <= Turn(NumEntries) - Turn(e) + slow * RequestTimeout
  <2>1. /\ e \in Nat /\ Turn(e) \in Nat /\ Turn(e + 1) = Turn(e) + AnswerTime
        /\ s.entry <= e => Turn(s.entry) <= Turn(e)
        /\ e + 1 <= s.entry => Turn(e + 1) <= Turn(s.entry)
    BY <1>1, Turns DEF Entries
  <2> HIDE DEF s
  <2> QED BY <1>1, <1>2, <1>3, <1>4, <1>5, <2>1
<1> QED
  BY <1>1, <1>3, <1>5, <1>6

LEMMA EndTyped ==
  ASSUME NEW s \in Handling
  PROVE  Pending(s) \in Nat /\ ToEnd(s) \in Int
<1>1. s.entry \in Nat /\ s.left \in Nat /\ AnswerTime \in Nat
  BY Constants DEF Handling
<1>2. Turn(s.entry) \in Nat /\ Turn(NumEntries) \in Nat
  BY <1>1, Turns, Constants
<1> QED
  BY <1>1, <1>2 DEF Pending, ToEnd

(* An entry is at most as much older than a refresh can wait for as the    *)
(* lock is old.                                                            *)
LEMMA Lasts ==
  ASSUME TInv, NEW e \in Entries, stamp[e] # None
  PROVE  /\ stamp[e] \in Nat /\ lockAge \in Nat /\ Limit \in Nat
         /\ lock = None => stamp[e] + Turn(e) <= Limit
         /\ lock # None => stamp[e] + Turn(e) <= Limit + lockAge
<1>1. /\ stamp[e] \in Nat /\ lockAge \in Nat /\ lock \in {None} \cup Handlers /\ lockAge <= LockTTL
      /\ slow \in Nat /\ faults \in Nat /\ Turn(e) \in Nat
  BY EntryTurns DEF TInv, IInv, TypeOK, Ages, Bounds
<1>2. Limit \in Nat /\ PollPeriod \in Nat /\ LockTTL \in Nat
  BY <1>1, LimitGrows, Constants
<1>3. lock = None => stamp[e] + Turn(e) <= Limit
  BY DEF TInv, LockInv, Free
<1>4. ASSUME lock # None
      PROVE  stamp[e] + Turn(e) <= Limit + lockAge
  <2>1. CASE Refreshes(lock)
    <3>1. Scanned(lock, e) /\ ToEnd(handler[lock]) \in Nat
      BY <1>1, <1>4, <2>1, EndBounds DEF TInv, ScanInv
    <3> QED BY <1>1, <1>2, <3>1 DEF Scanned, Leaves
  <2>2. CASE LeftLocked(e)
    BY <1>1, <1>2, <2>2 DEF LeftLocked
  <2> QED BY <1>4, <2>1, <2>2 DEF TInv, LockInv
<1> QED
  BY <1>1, <1>2, <1>3, <1>4

(* What a handler that is on time leaves for the entries.                  *)
LEMMA Slack ==
  ASSUME TInv, NEW e \in Entries, stamp[e] # None,
         NEW h \in Handlers, Refreshes(h), OnTime(h)
  PROVE  stamp[e] + ToEnd(handler[h]) + Turn(e) <= Limit + Turn(NumEntries)
<1>1. ToEnd(handler[h]) \in Nat /\ Turn(e) \in Nat /\ Turn(NumEntries) \in Nat
  BY EndBounds, EntryTurns, Constants DEF TInv
<1> QED
  BY <1>1, Lasts DEF OnTime

(* A handler goes on refreshing, and nothing else changes but the faults.  *)
LEMMA MoveStep ==
  ASSUME TInv, IInv', NEW h \in Handlers, Refreshes(h), NEW s \in Handling,
         handler' = [handler EXCEPT ![h] = s], s.pc \in Refreshing,
         s.entry <= NumEntries + 1,
         s.pc \notin {"check", "unlock"} => s.entry <= NumEntries,
         s.pc = "unlock" => s.entry = NumEntries + 1,
         UNCHANGED <<stamp, lock, lockAge, poll>>,
         slow' <= faults', Limit' \in Nat, Limit <= Limit',
         faults' = 0 => faults = 0 /\ ToEnd(s) <= ToEnd(handler[h]),
         \A e \in Entries : stamp[e] # None => Scanned(h, e)'
  PROVE  TInv'
<1>1. /\ handler \in [Handlers -> Handling] /\ handler'[h] = s
      /\ \A g \in Handlers \ {h} : handler'[g] = handler[g]
  BY DEF TInv, IInv, TypeOK
<1>2. Refreshes(h)' /\ \A g \in Handlers : Refreshes(g)' <=> Refreshes(g)
  BY <1>1 DEF Refreshes
<1>3. Limit \in Nat /\ lockAge \in Nat /\ lock \in {None} \cup Handlers /\ poll \in [Workers -> Nat]
  BY LimitGrows DEF TInv, IInv, TypeOK
<1>4. Bounds'
  <2>1. ASSUME NEW g \in Handlers, Refreshes(g)'
        PROVE  /\ handler'[g].entry <= NumEntries + 1
               /\ handler'[g].pc \notin {"check", "unlock"} => handler'[g].entry <= NumEntries
               /\ handler'[g].pc = "unlock" => handler'[g].entry = NumEntries + 1
    BY <1>1, <1>2, <2>1 DEF TInv, Bounds
  <2> QED BY <2>1 DEF TInv, Bounds
<1>5. FaultFree'
  <2> SUFFICES ASSUME faults' = 0
               PROVE  /\ lock # None => Refreshes(lock)'
                      /\ \A g \in Handlers : Refreshes(g)' => g = lock /\ OnTime(g)'
    BY DEF FaultFree, Refreshes
  <2>1. /\ lock # None => Refreshes(lock)
        /\ \A g \in Handlers : Refreshes(g) => g = lock /\ OnTime(g)
    BY DEF TInv, FaultFree
  <2>2. ToEnd(s) \in Int /\ ToEnd(handler[h]) \in Int
    BY EndTyped, EndBounds DEF TInv
  <2>3. \A g \in Handlers : Refreshes(g)' => g = h
    BY <1>2, <2>1
  <2>4. OnTime(h)'
    BY <1>1, <1>3, <2>1, <2>2, Constants DEF OnTime
  <2> QED BY <1>2, <1>3, <2>1, <2>3, <2>4
<1>6. ScanInv'
  <2> SUFFICES ASSUME NEW g \in Handlers \ {h}, NEW e \in Entries, Refreshes(g), stamp[e] # None
               PROVE  Scanned(g, e)'
    BY <1>2 DEF ScanInv
  <2>1. Scanned(g, e) /\ handler'[g] = handler[g]
    BY <1>1 DEF TInv, ScanInv
  <2>2. OnTime(g) => OnTime(g)'
    BY <2>1 DEF OnTime
  <2>3. stamp[e] \in Nat /\ ToEnd(handler[g]) \in Nat /\ Turn(e) \in Nat /\ PollPeriod \in Nat
    BY Lasts, EndBounds, EntryTurns, Constants DEF TInv
  <2>4. CASE Leaves(g, e)
    BY <1>3, <2>1, <2>3, <2>4 DEF Scanned, Leaves
  <2>5. CASE handler[g].entry <= e /\ OnTime(g) /\ (g = lock => stamp[e] + Turn(e) <= Limit + lockAge)
    BY <1>3, <2>1, <2>2, <2>3, <2>5 DEF Scanned
  <2> QED BY <2>1, <2>4, <2>5 DEF Scanned
<1>7. LockInv'
  <2> SUFFICES ASSUME NEW e \in Entries, stamp[e] # None
               PROVE  /\ lock = None => Free(e)'
                      /\ lock # None => Refreshes(lock)' \/ LeftLocked(e)'
    BY DEF LockInv, Refreshes
  <2>1. stamp[e] \in Nat /\ Turn(e) \in Nat /\ PollPeriod \in Nat /\ LockTTL \in Nat
    BY Lasts, EntryTurns, Constants
  <2>2. ASSUME lock = None
        PROVE  Free(e)'
    <3>1. Free(e)
      BY <2>2 DEF TInv, LockInv
    <3>2. \A w \in Workers : poll[w] \in Nat
      BY <1>3
    <3> QED BY <1>3, <2>1, <3>1, <3>2 DEF Free
  <2>3. ASSUME lock # None, ~Refreshes(lock)
        PROVE  LeftLocked(e)'
    <3>1. LeftLocked(e)
      BY <2>3 DEF TInv, LockInv
    <3> QED BY <1>3, <2>1, <3>1 DEF LeftLocked
  <2> QED BY <1>2, <1>3, <2>2, <2>3
<1> QED
  BY <1>4, <1>5, <1>6, <1>7 DEF TInv

(* It comes closer to its end. *)
LEMMA ProgressStep ==
  ASSUME TInv, IInv', NEW h \in Handlers, Refreshes(h), NEW s \in Handling,
         handler' = [handler EXCEPT ![h] = s], s.pc \in Refreshing,
         s.entry <= NumEntries + 1,
         s.pc \notin {"check", "unlock"} => s.entry <= NumEntries,
         s.pc = "unlock" => s.entry = NumEntries + 1,
         UNCHANGED <<stamp, lock, lockAge, poll>>,
         slow' <= faults', Limit' \in Nat, Limit <= Limit', faults' = 0 => faults = 0,
         ToEnd(s) \in Int, ToEnd(s) <= ToEnd(handler[h]),
         \A e \in Entries : stamp[e] # None /\ handler[h].entry <= e =>
            s.entry <= e \/ stamp[e] + ToEnd(s) + PollPeriod + Turn(e) <= Limit'
  PROVE  TInv'
<1>1. handler'[h] = s
  BY DEF TInv, IInv, TypeOK
<1>2. Limit \in Nat /\ lockAge \in Nat /\ poll \in [Workers -> Nat]
  BY LimitGrows DEF TInv, IInv, TypeOK
<1>3. ASSUME NEW e \in Entries, stamp[e] # None
      PROVE  Scanned(h, e)'
  <2>1. Scanned(h, e)
    BY <1>3 DEF TInv, ScanInv
  <2>2. stamp[e] \in Nat /\ ToEnd(handler[h]) \in Nat /\ Turn(e) \in Nat /\ PollPeriod \in Nat /\ Turn(NumEntries) \in Nat
    BY <1>3, Lasts, EndBounds, EntryTurns, Constants DEF TInv
  <2>3. OnTime(h) => OnTime(h)'
    BY <1>1, <1>2, <2>2 DEF OnTime
  <2>4. CASE Leaves(h, e)
    BY <1>1, <1>2, <2>2, <2>4 DEF Scanned, Leaves
  <2>5. CASE handler[h].entry <= e /\ OnTime(h) /\ (h = lock => stamp[e] + Turn(e) <= Limit + lockAge)
    <3>1. CASE s.entry <= e
      BY <1>1, <1>2, <2>2, <2>3, <2>5, <3>1 DEF Scanned
    <3>2. CASE stamp[e] + ToEnd(s) + PollPeriod + Turn(e) <= Limit'
      BY <1>1, <3>2 DEF Scanned, Leaves
    <3> QED BY <1>3, <2>5, <3>1, <3>2
  <2> QED BY <2>1, <2>4, <2>5 DEF Scanned
<1> QED
  BY <1>3, MoveStep

(* It goes on with the same entry. *)
LEMMA GotoTiming ==
  ASSUME TInv, IInv', NEW h \in Handlers, NEW pc \in Refreshing, Goto(h, pc),
         UNCHANGED <<stamp, lock, lockAge, poll, slow, faults>>,
         \/ handler[h].pc = "sent" /\ pc = "answered"
         \/ handler[h].pc \in {"answered", "store"} /\ pc \in {"store", "stamp"}
         \/ handler[h].pc = "check" /\ pc = "unlock" /\ handler[h].entry = NumEntries + 1
  PROVE  TInv'
<1> DEFINE s == [handler[h] EXCEPT !.pc = pc]
<1>1. /\ handler[h] \in Handling /\ handler' = [handler EXCEPT ![h] = s]
      /\ handler[h].pc \in {"sent", "answered", "store", "check"}
  BY DEF TInv, IInv, TypeOK, Goto
<1>2. s \in Handling /\ s.pc = pc /\ s.entry = handler[h].entry /\ s.left = handler[h].left
  BY <1>1 DEF Handling, Refreshing
<1> HIDE DEF s
<1>3. Refreshes(h) /\ Limit \in Nat /\ Limit' = Limit
  BY <1>1, LimitGrows DEF Refreshes, Refreshing, TInv, IInv, TypeOK
<1>4. /\ Pending(s) <= Pending(handler[h]) /\ Pending(s) \in Nat /\ Pending(handler[h]) \in Nat
      /\ ToEnd(s) \in Int /\ ToEnd(handler[h]) \in Int
  BY <1>1, <1>2, EndTyped, Constants DEF Pending, Handling
<1>5. ToEnd(s) <= ToEnd(handler[h])
  <2>1. Turn(handler[h].entry) \in Nat /\ Turn(NumEntries) \in Nat
    BY <1>1, Turns, Constants DEF Handling
  <2> QED BY <1>2, <1>4, <2>1 DEF ToEnd
<1>6. /\ s.entry \in Nat /\ s.entry <= NumEntries + 1
      /\ s.pc \notin {"check", "unlock"} => s.entry <= NumEntries
      /\ s.pc = "unlock" => s.entry = NumEntries + 1
  BY <1>1, <1>2, <1>3 DEF TInv, Bounds, Handling
<1>7. slow' <= faults' /\ (faults' = 0 => faults = 0) /\ Limit <= Limit' /\ Limit' \in Nat
  BY <1>3 DEF TInv, Bounds
<1> QED
  BY <1>1, <1>2, <1>3, <1>4, <1>5, <1>6, <1>7, ProgressStep

LEMMA AnswerTiming ==
  ASSUME TInv, IInv', NEW h \in Handlers, Answer(h) \/ Deliver(h) \/ StoreValue(h)
  PROVE  TInv'
<1>1. CASE Answer(h)
  BY <1>1, GotoTiming DEF Answer, At, Refreshing, cache, locking, timers
<1>2. CASE Deliver(h)
  BY <1>2, GotoTiming DEF Deliver, At, Refreshing, cache, locking, timers
<1>3. CASE StoreValue(h)
  BY <1>3, GotoTiming DEF StoreValue, At, Refreshing, locking, timers
<1> QED
  BY <1>1, <1>2, <1>3

(* It goes on with the next entry, when the present one is young enough or *)
(* the bound has grown.                                                    *)
LEMMA NextEntryTiming ==
  ASSUME TInv, IInv', NEW h \in Handlers, NextEntry(h),
         handler[h].pc \in {"check", "sent", "answered", "store", "stamp"},
         handler[h].entry <= NumEntries,
         UNCHANGED <<stamp, lock, lockAge, poll, slow>>,
         \/ faults' = faults + 1
         \/ /\ faults' = faults /\ handler[h].pc = "check"
            /\ stamp[handler[h].entry] # None => stamp[handler[h].entry] <= Expiration
  PROVE  TInv'
<1> DEFINE i == handler[h].entry
           s == [handler[h] EXCEPT !.pc = "check", !.entry = i + 1, !.left = 0, !.snap = 0]
<1>1. /\ handler[h] \in Handling /\ handler' = [handler EXCEPT ![h] = s] /\ i \in Nat /\ i >= 1
      /\ i \in Entries
  <2>1. handler[h] \in Handling
    BY DEF TInv, IInv, TypeOK
  <2>2. i \in Nat /\ i >= 1
    BY <2>1 DEF Handling
  <2>3. i \in Entries
    BY <2>2, Constants DEF Entries
  <2> QED BY <2>1, <2>2, <2>3 DEF NextEntry, Become
<1>2. s \in Handling /\ s.pc = "check" /\ s.entry = i + 1
  <2>1. i + 1 \in Nat \ {0} /\ "check" \in Refreshing
    BY <1>1 DEF Refreshing
  <2> HIDE DEF i
  <2> QED BY <1>1, <2>1 DEF Handling
<1> HIDE DEF s
<1>3. /\ Refreshes(h) /\ Limit \in Nat /\ Limit' \in Nat /\ Limit <= Limit'
      /\ slow \in Nat /\ faults \in Nat /\ slow <= faults
      /\ slow' <= faults' /\ (faults' = 0 => faults = 0)
      /\ faults' = faults + 1 => Limit' = Limit + FaultCost
  BY <1>1, LimitGrows, Constants DEF Refreshes, Refreshing, TInv, IInv, TypeOK, Bounds
<1>4. /\ ToEnd(s) = Turn(NumEntries) - Turn(i) /\ ToEnd(s) \in Int
      /\ ToEnd(handler[h]) \in Nat /\ ToEnd(s) <= ToEnd(handler[h])
      /\ Turn(i) \in Nat /\ Turn(NumEntries) \in Nat
  <2>1. Turn(i + 1) = Turn(i) + AnswerTime /\ AnswerTime \in Nat /\ Turn(i) \in Nat /\ Turn(NumEntries) \in Nat
    BY <1>1, Turns, Constants
  <2>2. Pending(s) = AnswerTime
    BY <1>2 DEF Pending
  <2>3. ToEnd(s) = Turn(NumEntries) - Turn(i)
    BY <1>2, <2>1, <2>2 DEF ToEnd
  <2> QED BY <1>1, <1>3, <2>1, <2>3, EndBounds DEF TInv
<1>5. ASSUME NEW e \in Entries, stamp[e] # None, handler[h].entry <= e
      PROVE  s.entry <= e \/ stamp[e] + ToEnd(s) + PollPeriod + Turn(e) <= Limit'
  <2>1. CASE e # i
    BY <1>1, <1>2, <1>5, <2>1, EntryTurns
  <2>2. CASE e = i
    <3>1. stamp[e] \in Nat /\ PollPeriod \in Nat /\ FaultCost \in Nat /\ Expiration \in Nat
      BY <1>5, Lasts, Constants
    <3>2. CASE faults' = faults + 1
      <4>1. Scanned(h, e)
        BY <1>3, <1>5 DEF TInv, ScanInv
      <4>2. CASE Leaves(h, e)
        BY <1>3, <1>4, <2>2, <3>1, <3>2, <4>2 DEF Leaves
      <4>3. CASE OnTime(h)
        <5>1. stamp[e] + ToEnd(handler[h]) + Turn(e) <= Limit + Turn(NumEntries)
          BY <1>3, <1>5, <4>3, Slack
        <5> QED BY <1>3, <1>4, <2>2, <3>1, <3>2, <5>1, Constants
      <4> QED BY <4>1, <4>2, <4>3 DEF Scanned
    <3>3. CASE faults' = faults /\ stamp[i] <= Expiration
      <4>1. slow * RequestTimeout \in Nat /\ Expiration + PollPeriod + Turn(NumEntries) + slow * RequestTimeout <= Limit
        BY <1>3, LimitGrows
      <4> QED BY <1>3, <1>4, <2>2, <3>1, <3>3, <4>1
    <3> QED BY <1>5, <2>2, <3>2, <3>3
  <2> QED BY <2>1, <2>2
<1>6. s.pc \in Refreshing /\ s.pc # "unlock" /\ s.entry <= NumEntries + 1
  BY <1>1, <1>2, Constants DEF Refreshing
<1> QED
  BY <1>1, <1>2, <1>3, <1>4, <1>5, <1>6, ProgressStep

LEMMA EntryFailsTiming ==
  ASSUME TInv, IInv', NEW h \in Handlers, EntryFails(h)
  PROVE  TInv'
<1>1. handler[h].entry <= NumEntries /\ handler[h].pc \in {"sent", "answered", "store", "stamp"}
  BY DEF TInv, Bounds, EntryFails, Refreshes, Refreshing
<1> QED
  BY <1>1, NextEntryTiming DEF EntryFails, Fault, cache, locking, timers

LEMMA CheckTiming ==
  ASSUME TInv, IInv', NEW h \in Handlers, Check(h)
  PROVE  TInv'
<1>1. /\ handler[h] \in Handling /\ handler[h].pc = "check" /\ Refreshes(h)
      /\ UNCHANGED <<stamp, lock, lockAge, poll, slow, faults>>
      /\ handler[h].entry \in Nat /\ handler[h].entry >= 1 /\ handler[h].entry <= NumEntries + 1
      /\ NumEntries \in Nat /\ faults \in Nat /\ slow \in Nat
  BY Constants DEF TInv, IInv, TypeOK, Bounds, Check, At, Refreshes, Refreshing, Handling, cache, locking, timers
<1>2. CASE handler[h].entry > NumEntries /\ Goto(h, "unlock")
  <2>1. handler[h].entry = NumEntries + 1
    BY <1>1, <1>2
  <2> QED BY <1>1, <1>2, <2>1, GotoTiming DEF Refreshing
<1>3. CASE /\ handler[h].entry <= NumEntries
           /\ Become(h, [handler[h] EXCEPT !.pc = "sent", !.left = AnswerTime])
  <2> DEFINE s == [handler[h] EXCEPT !.pc = "sent", !.left = AnswerTime]
  <2>1. /\ handler' = [handler EXCEPT ![h] = s]
        /\ s \in Handling /\ s.pc = "sent" /\ s.entry = handler[h].entry /\ s.left = AnswerTime
    BY <1>1, <1>3, Constants DEF Handling, Refreshing, Become
  <2> HIDE DEF s
  <2>2. ToEnd(s) = ToEnd(handler[h]) /\ ToEnd(s) \in Int
    BY <1>1, <2>1, EndTyped DEF ToEnd, Pending
  <2>3. /\ s.pc \in Refreshing /\ s.pc # "unlock" /\ s.entry <= NumEntries + 1 /\ s.entry <= NumEntries
        /\ ToEnd(s) <= ToEnd(handler[h])
        /\ Limit <= Limit' /\ Limit' \in Nat /\ slow' <= faults' /\ (faults' = 0 => faults = 0)
    BY <1>1, <1>3, <2>1, <2>2, LimitGrows DEF Refreshing, TInv, Bounds
  <2>4. \A e \in Entries : handler[h].entry <= e => s.entry <= e
    BY <2>1
  <2> QED BY <1>1, <2>1, <2>2, <2>3, <2>4, ProgressStep
<1>4. CASE handler[h].entry <= NumEntries /\ ~RefreshNeeded(handler[h].entry) /\ NextEntry(h)
  <2>1. handler[h].entry \in Entries
    BY <1>1, <1>4 DEF Entries
  <2>2. stamp[handler[h].entry] # None => stamp[handler[h].entry] <= Expiration
    BY <1>4, <2>1, Lasts, Constants DEF RefreshNeeded
  <2> QED BY <1>1, <1>4, <2>2, NextEntryTiming
<1> QED
  BY <1>2, <1>3, <1>4 DEF Check

(* An answer that is late pays for itself, and for everything it delays.   *)
LEMMA AnswerIsLateTiming ==
  ASSUME TInv, IInv', NEW h \in Handlers, AnswerIsLate(h)
  PROVE  TInv'
<1> DEFINE s == [handler[h] EXCEPT !.left = RequestTimeout]
<1>1. /\ handler[h] \in Handling /\ handler' = [handler EXCEPT ![h] = s]
      /\ handler[h].pc \in {"sent", "answered"} /\ Refreshes(h)
      /\ UNCHANGED <<stamp, lock, lockAge, poll>> /\ slow' = slow + 1 /\ faults' = faults + 1
      /\ slow \in Nat /\ faults \in Nat /\ lockAge \in Nat /\ lockAge <= LockTTL
  BY DEF TInv, IInv, TypeOK, Bounds, AnswerIsLate, Fault, At, Become, Refreshes, Refreshing, cache, locking, timers
<1>2. s \in Handling /\ s.pc = handler[h].pc /\ s.entry = handler[h].entry /\ s.left = RequestTimeout
  BY <1>1, Constants DEF Handling
<1> HIDE DEF s
<1>3. /\ Limit \in Nat /\ Limit' = Limit + FaultCost + RequestTimeout
      /\ FaultCost = LockTTL + PollPeriod /\ RequestTimeout \in Nat /\ PollPeriod \in Nat /\ LockTTL \in Nat
      /\ Turn(NumEntries) \in Nat /\ Turn(NumEntries) <= LockTTL
  BY <1>1, LimitGrows, Constants
<1>4. /\ ToEnd(s) \in Int /\ ToEnd(handler[h]) \in Nat /\ ToEnd(s) <= ToEnd(handler[h]) + RequestTimeout
  <2>1. /\ ToEnd(s) = Turn(NumEntries) - Turn(handler[h].entry) + RequestTimeout
        /\ ToEnd(handler[h]) = Turn(NumEntries) - Turn(handler[h].entry) + handler[h].left
    BY <1>1, <1>2 DEF ToEnd, Pending
  <2>2. handler[h].left \in Nat /\ Turn(handler[h].entry) \in Nat
    BY <1>1, Turns DEF Handling
  <2> QED BY <1>1, <1>2, <1>3, <2>1, <2>2, EndTyped, EndBounds DEF TInv
<1>5. handler'[h] = s
  BY <1>1 DEF TInv, IInv, TypeOK
<1>6. ASSUME NEW e \in Entries, stamp[e] # None
      PROVE  Scanned(h, e)'
  <2>1. stamp[e] \in Nat /\ Turn(e) \in Nat /\ Scanned(h, e)
    BY <1>1, <1>6, Lasts, EntryTurns DEF TInv, ScanInv
  <2>2. stamp[e] + ToEnd(handler[h]) + Turn(e) <= Limit + Turn(NumEntries)
    <3>1. CASE Leaves(h, e)
      BY <1>3, <1>4, <2>1, <3>1 DEF Leaves
    <3>2. CASE OnTime(h)
      BY <1>1, <1>6, <3>2, Slack
    <3> QED BY <2>1, <3>1, <3>2 DEF Scanned
  <2>3. stamp[e] + ToEnd(s) + PollPeriod + Turn(e) <= Limit'
    BY <1>3, <1>4, <2>1, <2>2
  <2> QED BY <1>1, <1>5, <2>3 DEF Scanned, Leaves
<1>7. /\ s.pc \in Refreshing /\ s.pc \notin {"check", "unlock"} /\ s.entry <= NumEntries /\ s.entry <= NumEntries + 1
  BY <1>1, <1>2, Constants DEF TInv, Bounds, Refreshing, Handling
<1>8. slow' <= faults' /\ faults' # 0 /\ Limit <= Limit' /\ Limit' \in Nat
  BY <1>1, <1>3 DEF TInv, Bounds
<1> QED
  BY <1>1, <1>2, <1>6, <1>7, <1>8, MoveStep

(* An entry that has just been refreshed leaves time for everything. *)
LEMMA StoreStampTiming ==
  ASSUME TInv, IInv', NEW h \in Handlers, StoreStamp(h)
  PROVE  TInv'
<1> DEFINE i == handler[h].entry
           s == [handler[h] EXCEPT !.pc = "check", !.entry = i + 1, !.left = 0, !.snap = 0]
<1>1. /\ handler[h] \in Handling /\ handler' = [handler EXCEPT ![h] = s] /\ Refreshes(h)
      /\ handler[h].pc = "stamp" /\ i \in Nat /\ i >= 1 /\ i <= NumEntries
      /\ stamp' = [stamp EXCEPT ![i] = 0]
      /\ UNCHANGED <<lock, lockAge, poll, slow, faults>>
  <2>1. handler[h] \in Handling /\ Refreshes(h) /\ handler[h].pc = "stamp"
    BY DEF TInv, IInv, TypeOK, StoreStamp, At, Refreshes, Refreshing
  <2>2. i \in Nat /\ i >= 1 /\ i <= NumEntries
    BY <2>1 DEF Handling, TInv, Bounds
  <2> QED BY <2>1, <2>2 DEF StoreStamp, NextEntry, Become, locking, timers
<1>2. i \in Entries /\ s \in Handling /\ s.pc = "check" /\ s.entry = i + 1 /\ s.left = 0
  <2>1. i + 1 \in Nat \ {0} /\ "check" \in Refreshing /\ i \in Entries
    BY <1>1, Constants DEF Refreshing, Entries
  <2> HIDE DEF i
  <2> QED BY <1>1, <2>1 DEF Handling
<1>3. /\ slow \in Nat /\ faults \in Nat /\ lockAge \in Nat /\ lock \in {None} \cup Handlers
      /\ poll \in [Workers -> Nat] /\ stamp \in [Entries -> Ages]
      /\ handler'[h] = s /\ \A g \in Handlers \ {h} : handler'[g] = handler[g]
      /\ stamp'[i] = 0 /\ \A e \in Entries \ {i} : stamp'[e] = stamp[e]
  BY <1>1, <1>2 DEF TInv, IInv, TypeOK
<1> HIDE DEF s
<1>4. /\ Limit \in Nat /\ Limit' = Limit /\ slow * RequestTimeout \in Nat
      /\ Expiration + PollPeriod + Turn(NumEntries) + slow * RequestTimeout <= Limit
      /\ faults # 0 => Expiration + PollPeriod + Turn(NumEntries) + slow * RequestTimeout + FaultCost <= Limit
      /\ Expiration \in Nat /\ PollPeriod \in Nat /\ Turn(NumEntries) \in Nat /\ LockTTL \in Nat
      /\ FaultCost = LockTTL + PollPeriod /\ Turn(NumEntries) <= LockTTL
      /\ Turn(i) \in Nat /\ Turn(i) <= Turn(NumEntries)
  BY <1>1, <1>2, <1>3, LimitGrows, EntryTurns, Constants
<1>5. ToEnd(s) = ToEnd(handler[h]) /\ ToEnd(s) = Turn(NumEntries) - Turn(i) /\ ToEnd(s) \in Nat
  <2>1. Turn(i + 1) = Turn(i) + AnswerTime /\ AnswerTime \in Nat
    BY <1>1, Turns, Constants
  <2>2. Pending(s) = AnswerTime /\ Pending(handler[h]) = 0
    BY <1>1, <1>2 DEF Pending
  <2> QED BY <1>2, <1>4, <2>1, <2>2 DEF ToEnd
<1>6. \A g \in Handlers : Refreshes(g)' <=> Refreshes(g)
  BY <1>1, <1>2, <1>3 DEF Refreshes, Refreshing
<1>7. \A g \in Handlers : OnTime(g) => OnTime(g)'
  BY <1>1, <1>3, <1>5 DEF OnTime
<1>8. Bounds'
  <2>1. i + 1 <= NumEntries + 1
    BY <1>1, Constants
  <2> QED BY <1>1, <1>2, <1>3, <1>6, <2>1 DEF TInv, Bounds
<1>9. FaultFree'
  BY <1>1, <1>3, <1>6, <1>7 DEF TInv, FaultFree
<1>10. ASSUME NEW g \in Handlers, Refreshes(g), NEW e \in Entries, e = i
       PROVE  Scanned(g, e)'
  <2> HIDE DEF i
  <2>1. CASE g = h
    BY <1>1, <1>3, <1>4, <1>5, <1>10, <2>1 DEF Scanned, Leaves
  <2>2. CASE g # h
    <3>1. faults # 0
      BY <1>1, <1>10, <2>2 DEF TInv, FaultFree
    <3>2. ToEnd(handler[g]) \in Nat /\ ToEnd(handler[g]) <= Turn(NumEntries) + slow * RequestTimeout
      BY <1>10, EndBounds DEF TInv
    <3>3. 0 + ToEnd(handler[g]) + PollPeriod + Turn(i) <= Limit
      BY <1>4, <3>1, <3>2
    <3> QED BY <1>1, <1>3, <1>4, <1>10, <2>2, <3>3 DEF Scanned, Leaves
  <2> QED BY <2>1, <2>2
<1>11. ASSUME NEW g \in Handlers, Refreshes(g), NEW e \in Entries, e # i, stamp[e] # None
       PROVE  Scanned(g, e)'
  <2>1. Scanned(g, e) /\ stamp'[e] = stamp[e] /\ ToEnd(handler'[g]) = ToEnd(handler[g])
    BY <1>3, <1>5, <1>11 DEF TInv, ScanInv
  <2>2. handler[g].entry <= e => handler'[g].entry <= e
    <3>1. CASE g = h
      BY <1>1, <1>2, <1>3, <1>11, <3>1 DEF Entries
    <3> QED BY <1>3, <3>1
  <2> QED BY <1>1, <1>4, <1>7, <2>1, <2>2 DEF Scanned, Leaves
<1>12. ScanInv'
  <2> SUFFICES ASSUME NEW g \in Handlers, NEW e \in Entries, Refreshes(g)', stamp'[e] # None
               PROVE  Scanned(g, e)'
    BY DEF ScanInv
  <2>1. CASE e = i
    BY <1>6, <1>10, <2>1
  <2>2. CASE e # i
    BY <1>3, <1>6, <1>11, <2>2
  <2> QED BY <2>1, <2>2
<1>13. LockInv'
  <2> SUFFICES ASSUME NEW e \in Entries, stamp'[e] # None
               PROVE  /\ lock = None => Free(e)'
                      /\ lock # None => Refreshes(lock)' \/ LeftLocked(e)'
    BY <1>1 DEF LockInv, Refreshes
  <2>1. CASE e = i
    <3>1. lock = None => Free(e)'
      <4>1. \A w \in Workers : poll[w] \in Nat /\ poll[w] <= PollPeriod
        BY <1>3 DEF TInv, Bounds
      <4>2. \A w \in Workers : 0 + poll[w] + Turn(i) <= Limit
        BY <1>4, <4>1
      <4>3. 0 + Turn(i) <= Limit
        BY <1>4
      <4> QED BY <1>1, <1>3, <1>4, <2>1, <4>2, <4>3 DEF Free
    <3>2. lock # None => Refreshes(lock)' \/ LeftLocked(e)'
      <4> SUFFICES ASSUME lock # None, ~Refreshes(lock)
                   PROVE  LeftLocked(e)'
        BY <1>1, <1>3, <1>6 DEF Refreshes
      <4>1. faults # 0
        BY DEF TInv, FaultFree
      <4>2. 0 + (LockTTL - lockAge) + PollPeriod + Turn(i) <= Limit
        BY <1>3, <1>4, <4>1
      <4> QED BY <1>1, <1>3, <1>4, <2>1, <4>2 DEF LeftLocked
    <3> QED BY <3>1, <3>2
  <2>2. CASE e # i
    <3>1. stamp'[e] = stamp[e] /\ stamp[e] # None
      BY <1>3, <2>2
    <3>2. lock = None => Free(e)'
      BY <1>1, <1>4, <3>1 DEF TInv, LockInv, Free
    <3>3. lock # None => Refreshes(lock)' \/ LeftLocked(e)'
      BY <1>1, <1>3, <1>4, <1>6, <3>1 DEF TInv, LockInv, LeftLocked
    <3> QED BY <3>2, <3>3
  <2> QED BY <2>1, <2>2
<1> QED
  BY <1>8, <1>9, <1>12, <1>13 DEF TInv

(* Whoever takes the lock comes in time for every entry. *)
LEMMA TakeLockTiming ==
  ASSUME TInv, IInv', NEW h \in Handlers, TakeLock(h),
         UNCHANGED <<stamp, slow, faults>>,
         \A w \in Workers : poll'[w] <= PollPeriod
  PROVE  TInv'
<1> DEFINE s == [handler[h] EXCEPT !.pc = "check", !.entry = 1, !.left = 0]
<1>1. /\ handler[h] \in Handling /\ handler' = [handler EXCEPT ![h] = s]
      /\ lock = None /\ lock' = h /\ lockAge' = 0 /\ h # None
      /\ slow \in Nat /\ faults \in Nat /\ poll \in [Workers -> Nat]
  BY CacheAssumption DEF TInv, IInv, TypeOK, TakeLock, Become
<1>2. s \in Handling /\ s.pc = "check" /\ s.entry = 1
  BY <1>1, BeginsAtTheFirst DEF Handling
<1>3. handler'[h] = s /\ \A g \in Handlers \ {h} : handler'[g] = handler[g]
  BY <1>1 DEF TInv, IInv, TypeOK
<1> HIDE DEF s
<1>4. Limit \in Nat /\ Limit' = Limit /\ PollPeriod \in Nat /\ Turn(NumEntries) \in Nat
  BY <1>1, LimitGrows, Constants
<1>5. ToEnd(s) = Turn(NumEntries)
  <2>1. Turn(1) = AnswerTime /\ AnswerTime \in Nat
    BY Constants DEF Turn
  <2> QED BY <1>2, <1>4, <2>1 DEF ToEnd, Pending
<1>6. OnTime(h)' /\ Refreshes(h)'
  BY <1>1, <1>2, <1>3, <1>4, <1>5 DEF OnTime, Refreshes, Refreshing
<1>7. \A g \in Handlers \ {h} : Refreshes(g)' <=> Refreshes(g)
  BY <1>3 DEF Refreshes
<1>8. Bounds'
  <2>1. \A g \in Handlers : Refreshes(g)' =>
         /\ handler'[g].entry <= NumEntries + 1
         /\ handler'[g].pc \notin {"check", "unlock"} => handler'[g].entry <= NumEntries
         /\ handler'[g].pc = "unlock" => handler'[g].entry = NumEntries + 1
    BY <1>2, <1>3, <1>7, Constants DEF TInv, Bounds
  <2>2. slow' <= faults' /\ lockAge' <= LockTTL
    BY <1>1, Constants DEF TInv, Bounds
  <2> QED BY <2>1, <2>2 DEF Bounds, Refreshes
<1>9. FaultFree'
  <2>1. \A g \in Handlers : Refreshes(g) => faults # 0
    BY <1>1, CacheAssumption DEF TInv, FaultFree
  <2> QED BY <1>1, <1>6, <1>7, <2>1 DEF FaultFree
<1>10. ASSUME NEW g \in Handlers, NEW e \in Entries, Refreshes(g)', stamp[e] # None
       PROVE  Scanned(g, e)'
  <2>1. stamp[e] \in Nat /\ Turn(e) \in Nat /\ e \in Nat /\ e >= 1 /\ stamp[e] + Turn(e) <= Limit
    BY <1>1, <1>10, Lasts, EntryTurns
  <2>2. CASE g = h
    BY <1>1, <1>2, <1>3, <1>4, <1>6, <2>1, <2>2 DEF Scanned
  <2>3. CASE g # h
    <3>1. Scanned(g, e) /\ handler'[g] = handler[g] /\ ToEnd(handler[g]) \in Nat
      BY <1>3, <1>7, <1>10, <2>3, EndBounds DEF TInv, ScanInv
    <3>2. OnTime(g) => OnTime(g)'
      BY <1>1, <1>3, <1>4, <2>3, <3>1 DEF OnTime
    <3> QED BY <1>1, <1>4, <2>3, <3>1, <3>2 DEF Scanned, Leaves
  <2> QED BY <2>2, <2>3
<1>11. ScanInv' /\ LockInv'
  BY <1>1, <1>6, <1>10 DEF ScanInv, LockInv
<1> QED
  BY <1>8, <1>9, <1>11 DEF TInv

(* A timer that fires in vain costs the entries a period. *)
LEMMA TimerFiresTiming ==
  ASSUME TInv, IInv', NEW w \in Workers, TimerFires(w)
  PROVE  TInv'
<1>1. /\ poll \in [Workers -> Nat] /\ UNCHANGED <<stamp, slow, faults>>
      /\ slow \in Nat /\ faults \in Nat /\ lock \in {None} \cup Handlers
  BY DEF TInv, IInv, TypeOK, TimerFires, cache
<1>2. \A v \in Workers : poll'[v] <= PollPeriod
  <2>1. PollPeriod \in Nat /\ FirstPollDelay \in Nat
    BY Constants
  <2>2. poll'[w] <= PollPeriod /\ \A v \in Workers \ {w} : poll'[v] = poll[v]
    BY <1>1, <2>1 DEF TimerFires, Rearm
  <2> QED BY <2>2 DEF TInv, Bounds
<1>3. CASE \E t \in Timers : TakeLock(t)
  BY <1>1, <1>2, <1>3, TakeLockTiming DEF Handlers
<1>4. CASE lock # None /\ UNCHANGED <<locking, handler>>
  <2>1. UNCHANGED <<lock, lockAge, handler>> /\ \A g \in Handlers : Refreshes(g)' <=> Refreshes(g)
    BY <1>4 DEF locking, Refreshes
  <2>2. Limit' = Limit
    BY <1>1, LimitGrows
  <2>3. \A g \in Handlers : OnTime(g)' <=> OnTime(g)
    BY <2>1 DEF OnTime
  <2>4. Bounds' /\ FaultFree' /\ ScanInv'
    BY <1>1, <1>2, <2>1, <2>2, <2>3 DEF TInv, Bounds, FaultFree, ScanInv, Scanned, Leaves
  <2>5. LockInv'
    BY <1>1, <1>4, <2>1, <2>2 DEF TInv, LockInv, LeftLocked
  <2> QED BY <2>4, <2>5 DEF TInv
<1> QED
  BY <1>3, <1>4 DEF TimerFires

LEMMA LockAfterWaitTiming ==
  ASSUME TInv, IInv', NEW r \in Requests, LockAfterWait(r)
  PROVE  TInv'
<1>1. r \in Handlers /\ TakeLock(r) /\ UNCHANGED <<stamp, poll, slow, faults>>
  BY DEF LockAfterWait, Handlers, cache, timers
<1> QED
  BY <1>1, TakeLockTiming DEF TInv, Bounds

(* Whoever unlocks, be it its own lock or another's, leaves time for a     *)
(* timer that has just fired in vain.                                      *)
LEMMA UnlockTiming ==
  ASSUME TInv, IInv', NEW h \in Handlers, Unlock(h)
  PROVE  TInv'
<1>1. /\ handler[h].pc = "unlock" /\ Refreshes(h) /\ handler[h].entry = NumEntries + 1
      /\ UNCHANGED <<stamp, poll, slow, faults>> /\ lock' = None /\ lockAge' = 0
      /\ slow \in Nat /\ faults \in Nat /\ lockAge \in Nat /\ poll \in [Workers -> Nat]
      /\ handler \in [Handlers -> Handling]
  BY DEF TInv, IInv, TypeOK, Bounds, Unlock, At, Refreshes, Refreshing, cache, timers
<1>2. /\ handler'[h] = (IF h \in Requests THEN [handler[h] EXCEPT !.pc = "serve"] ELSE Idle)
      /\ \A g \in Handlers \ {h} : handler'[g] = handler[g]
  BY <1>1 DEF Unlock, Goto, Become
<1>3. handler'[h].pc \in {"idle", "serve"}
  <2>1. handler[h] \in Handling
    BY <1>1
  <2> QED BY <1>2, <2>1, IdleIsTyped DEF Handling
<1>4. ~Refreshes(h)' /\ \A g \in Handlers \ {h} : Refreshes(g)' <=> Refreshes(g)
  BY <1>2, <1>3 DEF Refreshes, Refreshing
<1>5. /\ Limit \in Nat /\ Limit' = Limit /\ PollPeriod \in Nat /\ LockTTL \in Nat
  BY <1>1, LimitGrows, Constants
<1>6. Bounds'
  <2>1. \A g \in Handlers : Refreshes(g)' =>
         /\ handler'[g].entry <= NumEntries + 1
         /\ handler'[g].pc \notin {"check", "unlock"} => handler'[g].entry <= NumEntries
         /\ handler'[g].pc = "unlock" => handler'[g].entry = NumEntries + 1
    BY <1>2, <1>4 DEF TInv, Bounds
  <2> QED BY <1>1, <1>5, <2>1 DEF TInv, Bounds, Refreshes
<1>7. FaultFree'
  <2>1. faults = 0 => \A g \in Handlers : Refreshes(g) => g = h
    BY <1>1 DEF TInv, FaultFree
  <2> QED BY <1>1, <1>4, <2>1 DEF FaultFree
<1>8. ScanInv'
  <2> SUFFICES ASSUME NEW g \in Handlers, NEW e \in Entries, Refreshes(g)', stamp[e] # None
               PROVE  Scanned(g, e)'
    BY <1>1 DEF ScanInv
  <2>1. g # h /\ handler'[g] = handler[g] /\ Scanned(g, e) /\ g # None
    BY <1>2, <1>4, CacheAssumption DEF TInv, ScanInv
  <2>2. OnTime(g) => OnTime(g)'
    BY <1>1, <2>1 DEF OnTime
  <2> QED BY <1>1, <1>5, <2>1, <2>2 DEF Scanned, Leaves
<1>9. ASSUME NEW e \in Entries, stamp[e] # None
      PROVE  Free(e)'
  <2>1. /\ stamp[e] \in Nat /\ Turn(e) \in Nat /\ ToEnd(handler[h]) \in Nat /\ e \in Nat /\ e <= NumEntries
        /\ NumEntries \in Nat /\ Scanned(h, e)
    BY <1>1, <1>9, Lasts, EntryTurns, EndBounds, Constants DEF TInv, ScanInv
  <2>2. stamp[e] + PollPeriod + Turn(e) <= Limit
    BY <1>1, <1>5, <2>1 DEF Scanned, Leaves
  <2>3. \A w \in Workers : poll[w] \in Nat /\ poll[w] <= PollPeriod
    BY <1>1 DEF TInv, Bounds
  <2> QED BY <1>1, <1>5, <2>1, <2>2, <2>3 DEF Free
<1>10. LockInv'
  BY <1>1, <1>9 DEF LockInv
<1> QED
  BY <1>6, <1>7, <1>8, <1>10 DEF TInv

(* The lock does not expire while a handler is on time. *)
LEMMA LockExpiresTiming ==
  ASSUME TInv, IInv', LockExpires
  PROVE  TInv'
<1>1. /\ lock # None /\ lock \in Handlers /\ lockAge = LockTTL /\ lock' = None /\ lockAge' = 0
      /\ UNCHANGED <<stamp, poll, handler, slow, faults>>
      /\ slow \in Nat /\ faults \in Nat /\ poll \in [Workers -> Nat]
  BY DEF TInv, IInv, TypeOK, LockExpires, cache, timers
<1>2. /\ Limit \in Nat /\ Limit' = Limit /\ PollPeriod \in Nat /\ LockTTL \in Nat
      /\ Turn(NumEntries) \in Nat /\ Turn(NumEntries) < LockTTL
  BY <1>1, LimitGrows, Constants
<1>3. Refreshes(lock) => ~OnTime(lock)
  <2>1. Refreshes(lock) => ToEnd(handler[lock]) \in Nat
    BY <1>1, EndBounds DEF TInv
  <2> QED BY <1>1, <1>2, <2>1 DEF OnTime
<1>4. \A g \in Handlers : Refreshes(g)' <=> Refreshes(g)
  BY <1>1 DEF Refreshes
<1>5. Bounds'
  BY <1>1, <1>2, <1>4 DEF TInv, Bounds
<1>6. FaultFree'
  BY <1>1, <1>3 DEF TInv, FaultFree
<1>7. ScanInv'
  <2> SUFFICES ASSUME NEW g \in Handlers, NEW e \in Entries, Refreshes(g), stamp[e] # None
               PROVE  Scanned(g, e)'
    BY <1>1, <1>4 DEF ScanInv
  <2>1. Scanned(g, e) /\ g # None
    BY CacheAssumption DEF TInv, ScanInv
  <2>2. OnTime(g) => OnTime(g)'
    BY <1>1 DEF OnTime
  <2> QED BY <1>1, <1>2, <2>1, <2>2 DEF Scanned, Leaves
<1>8. ASSUME NEW e \in Entries, stamp[e] # None
      PROVE  Free(e)'
  <2>1. stamp[e] \in Nat /\ Turn(e) \in Nat
    BY <1>8, Lasts, EntryTurns
  <2>2. stamp[e] + PollPeriod + Turn(e) <= Limit
    <3>1. CASE Refreshes(lock)
      <4>1. Leaves(lock, e) /\ ToEnd(handler[lock]) \in Nat
        BY <1>1, <1>3, <1>8, <3>1, EndBounds DEF TInv, ScanInv, Scanned
      <4> QED BY <1>2, <2>1, <4>1 DEF Leaves
    <3>2. CASE LeftLocked(e)
      BY <1>1, <1>2, <2>1, <3>2 DEF LeftLocked
    <3> QED BY <1>1, <1>8, <3>1, <3>2 DEF TInv, LockInv
  <2>3. \A w \in Workers : poll[w] \in Nat /\ poll[w] <= PollPeriod
    BY <1>1 DEF TInv, Bounds
  <2> QED BY <1>1, <1>2, <2>1, <2>2, <2>3 DEF Free
<1>9. LockInv'
  BY <1>1, <1>8 DEF LockInv
<1> QED
  BY <1>5, <1>6, <1>7, <1>9 DEF TInv

(* A handler that stops with the lock leaves it locked. *)
LEMMA StopTiming ==
  ASSUME TInv, IInv',
         (\E h \in Handlers : HandlerAborts(h)) \/ (\E w \in Workers : WorkerDies(w))
  PROVE  TInv'
<1>1. /\ UNCHANGED <<stamp, lock, lockAge, slow>> /\ faults' = faults + 1
      /\ slow \in Nat /\ faults \in Nat /\ slow <= faults
      /\ lock \in {None} \cup Handlers /\ lockAge \in Nat /\ lockAge <= LockTTL
      /\ poll \in [Workers -> Nat] /\ handler \in [Handlers -> Handling]
  BY DEF TInv, IInv, TypeOK, Bounds, HandlerAborts, WorkerDies, Fault, cache, locking
<1>2. /\ Limit \in Nat /\ Limit' = Limit + FaultCost /\ FaultCost = LockTTL + PollPeriod
      /\ PollPeriod \in Nat /\ LockTTL \in Nat /\ FirstPollDelay \in Nat /\ FirstPollDelay <= PollPeriod
  BY <1>1, LimitGrows, Constants
<1>3. /\ \A g \in Handlers : handler'[g] = Idle \/ handler'[g] = handler[g]
      /\ \A w \in Workers : poll'[w] \in Nat /\ poll'[w] <= PollPeriod
  <2>1. ASSUME NEW h \in Handlers, HandlerAborts(h)
        PROVE  /\ \A g \in Handlers : handler'[g] = Idle \/ handler'[g] = handler[g]
               /\ \A w \in Workers : poll'[w] \in Nat /\ poll'[w] <= PollPeriod
    BY <1>1, <2>1 DEF HandlerAborts, Become, timers, TInv, Bounds
  <2>2. ASSUME NEW v \in Workers, WorkerDies(v)
        PROVE  /\ \A g \in Handlers : handler'[g] = Idle \/ handler'[g] = handler[g]
               /\ \A w \in Workers : poll'[w] \in Nat /\ poll'[w] <= PollPeriod
    BY <1>1, <1>2, <2>2 DEF WorkerDies, TInv, Bounds
  <2> QED BY <2>1, <2>2
<1>4. \A g \in Handlers : Refreshes(g)' => Refreshes(g) /\ handler'[g] = handler[g]
  BY <1>3, IdleIsTyped DEF Refreshes, Refreshing
<1>5. Bounds'
  <2>1. \A g \in Handlers : Refreshes(g)' =>
         /\ handler'[g].entry <= NumEntries + 1
         /\ handler'[g].pc \notin {"check", "unlock"} => handler'[g].entry <= NumEntries
         /\ handler'[g].pc = "unlock" => handler'[g].entry = NumEntries + 1
    BY <1>4 DEF TInv, Bounds
  <2> QED BY <1>1, <1>3, <2>1 DEF Bounds, Refreshes
<1>6. FaultFree'
  BY <1>1 DEF FaultFree
<1>7. ScanInv'
  <2> SUFFICES ASSUME NEW g \in Handlers, NEW e \in Entries, Refreshes(g)', stamp[e] # None
               PROVE  Scanned(g, e)'
    BY <1>1 DEF ScanInv
  <2>1. /\ Scanned(g, e) /\ handler'[g] = handler[g] /\ stamp[e] \in Nat /\ Turn(e) \in Nat
        /\ ToEnd(handler[g]) \in Nat
    BY <1>4, Lasts, EntryTurns, EndBounds DEF TInv, ScanInv
  <2>2. OnTime(g) => OnTime(g)'
    BY <1>1, <2>1 DEF OnTime
  <2>3. CASE Leaves(g, e)
    BY <1>1, <1>2, <2>1, <2>3 DEF Scanned, Leaves
  <2>4. CASE handler[g].entry <= e /\ OnTime(g) /\ (g = lock => stamp[e] + Turn(e) <= Limit + lockAge)
    BY <1>1, <1>2, <2>1, <2>2, <2>4 DEF Scanned
  <2> QED BY <2>1, <2>3, <2>4 DEF Scanned
<1>8. ASSUME NEW e \in Entries, stamp[e] # None
      PROVE  /\ lock = None => Free(e)'
             /\ lock # None => LeftLocked(e)'
  <2>1. stamp[e] \in Nat /\ Turn(e) \in Nat
    BY <1>8, Lasts, EntryTurns
  <2>2. ASSUME lock = None
        PROVE  Free(e)'
    <3>1. stamp[e] + Turn(e) <= Limit
      BY <1>8, <2>2, Lasts
    <3> QED BY <1>1, <1>2, <1>3, <2>1, <3>1 DEF Free
  <2>3. ASSUME lock # None
        PROVE  LeftLocked(e)'
    <3>1. stamp[e] + Turn(e) <= Limit + lockAge
      BY <1>8, <2>3, Lasts
    <3> QED BY <1>1, <1>2, <2>1, <3>1 DEF LeftLocked
  <2> QED BY <2>2, <2>3
<1>9. LockInv'
  BY <1>1, <1>8 DEF LockInv
<1> QED
  BY <1>5, <1>6, <1>7, <1>9 DEF TInv

(* A lock deleted under its holder, or one left locked, costs a period.    *)
LEMMA GcLockTiming ==
  ASSUME TInv, IInv', NEW w \in Workers, GcLock(w)
  PROVE  TInv'
<1>1. /\ UNCHANGED <<stamp, poll, handler, slow>> /\ lock' = None /\ lockAge' = 0
      /\ faults' = faults + 1 /\ slow \in Nat /\ faults \in Nat /\ slow <= faults
      /\ poll \in [Workers -> Nat] /\ lockAge \in Nat /\ lockAge <= LockTTL
  BY DEF TInv, IInv, TypeOK, Bounds, GcLock, Fault, cache, timers
<1>2. /\ Limit \in Nat /\ Limit' = Limit + FaultCost /\ FaultCost = LockTTL + PollPeriod
      /\ PollPeriod \in Nat /\ LockTTL \in Nat
  BY <1>1, LimitGrows, Constants
<1>3. \A g \in Handlers : Refreshes(g)' <=> Refreshes(g)
  BY <1>1 DEF Refreshes
<1>4. Bounds'
  BY <1>1, <1>2, <1>3 DEF TInv, Bounds
<1>5. FaultFree'
  BY <1>1 DEF FaultFree
<1>6. ScanInv'
  <2> SUFFICES ASSUME NEW g \in Handlers, NEW e \in Entries, Refreshes(g), stamp[e] # None
               PROVE  Scanned(g, e)'
    BY <1>1, <1>3 DEF ScanInv
  <2>1. /\ Scanned(g, e) /\ g # None /\ stamp[e] \in Nat /\ Turn(e) \in Nat
        /\ ToEnd(handler[g]) \in Nat
    BY CacheAssumption, Lasts, EntryTurns, EndBounds DEF TInv, ScanInv
  <2>2. OnTime(g) => OnTime(g)'
    BY <1>1 DEF OnTime
  <2>3. Leaves(g, e) => Leaves(g, e)'
    BY <1>1, <1>2, <2>1 DEF Leaves
  <2> QED BY <1>1, <2>1, <2>2, <2>3 DEF Scanned
<1>7. ASSUME NEW e \in Entries, stamp[e] # None
      PROVE  Free(e)'
  <2>1. stamp[e] \in Nat /\ Turn(e) \in Nat /\ stamp[e] + Turn(e) <= Limit + lockAge
    BY <1>1, <1>7, Lasts, EntryTurns
  <2>2. \A v \in Workers : poll[v] \in Nat /\ poll[v] <= PollPeriod
    BY <1>1 DEF TInv, Bounds
  <2> QED BY <1>1, <1>2, <2>1, <2>2 DEF Free
<1>8. LockInv'
  BY <1>1, <1>7 DEF LockInv
<1> QED
  BY <1>4, <1>5, <1>6, <1>8 DEF TInv

(* What is dropped does not get old.                                       *)
LEMMA StoreEvictsTiming ==
  ASSUME TInv, IInv', NEW h \in Handlers, StoreEvicts(h)
  PROVE  TInv'
<1>1. /\ UNCHANGED <<lock, lockAge, poll, handler, slow>> /\ faults' = faults + 1
      /\ slow \in Nat /\ faults \in Nat /\ slow <= faults /\ stamp \in [Entries -> Ages]
      /\ poll \in [Workers -> Nat] /\ lockAge \in Nat /\ lock \in {None} \cup Handlers
  BY DEF TInv, IInv, TypeOK, Bounds, StoreEvicts, Fault, locking, timers
<1>2. \A e \in Entries : stamp'[e] # None => stamp'[e] = stamp[e] /\ stamp[e] # None
  BY <1>1 DEF StoreEvicts
<1>3. Limit \in Nat /\ Limit' \in Nat /\ Limit <= Limit' /\ PollPeriod \in Nat /\ LockTTL \in Nat
  BY <1>1, LimitGrows, Constants
<1>4. \A g \in Handlers : (Refreshes(g)' <=> Refreshes(g)) /\ (OnTime(g)' <=> OnTime(g))
  BY <1>1 DEF Refreshes, OnTime
<1>5. Bounds' /\ FaultFree'
  BY <1>1, <1>4 DEF TInv, Bounds, FaultFree
<1>6. ScanInv'
  <2> SUFFICES ASSUME NEW g \in Handlers, NEW e \in Entries, Refreshes(g), stamp'[e] # None
               PROVE  Scanned(g, e)'
    BY <1>4 DEF ScanInv
  <2>1. /\ Scanned(g, e) /\ stamp'[e] = stamp[e] /\ stamp[e] \in Nat /\ Turn(e) \in Nat
        /\ ToEnd(handler[g]) \in Nat
    BY <1>2, Lasts, EntryTurns, EndBounds DEF TInv, ScanInv
  <2>2. Leaves(g, e) => Leaves(g, e)'
    BY <1>1, <1>3, <2>1 DEF Leaves
  <2> QED BY <1>1, <1>3, <1>4, <2>1, <2>2 DEF Scanned
<1>7. LockInv'
  <2> SUFFICES ASSUME NEW e \in Entries, stamp'[e] # None
               PROVE  /\ lock = None => Free(e)'
                      /\ lock # None => Refreshes(lock) \/ LeftLocked(e)'
    BY <1>1, <1>4 DEF LockInv
  <2>1. stamp'[e] = stamp[e] /\ stamp[e] # None /\ stamp[e] \in Nat /\ Turn(e) \in Nat
    BY <1>2, Lasts, EntryTurns
  <2>2. Free(e) => Free(e)'
    <3>1. \A w \in Workers : poll[w] \in Nat
      BY <1>1
    <3> QED BY <1>1, <1>3, <2>1, <3>1 DEF Free
  <2>3. LeftLocked(e) => LeftLocked(e)'
    BY <1>1, <1>3, <2>1 DEF LeftLocked
  <2> QED BY <2>1, <2>2, <2>3 DEF TInv, LockInv
<1> QED
  BY <1>5, <1>6, <1>7 DEF TInv

(* A request that does not refresh changes nothing. *)
LEMMA RequestTiming ==
  ASSUME TInv, IInv', NEW r \in Requests, Request(r) \/ LockWaitTimeout(r) \/ Serve(r)
  PROVE  TInv'
<1>1. /\ UNCHANGED <<stamp, lock, lockAge, poll, slow, faults>> /\ slow \in Nat /\ faults \in Nat
      /\ handler \in [Handlers -> Handling] /\ r \in Handlers
      /\ handler[r].pc \in {"idle", "wait", "serve"}
  BY DEF TInv, IInv, TypeOK, Request, LockWaitTimeout, Serve, At, Handlers, cache, locking, timers
<1>2. Limit' = Limit
  BY <1>1, LimitGrows
<1>3. /\ handler'[r].pc \in {"idle", "wait", "serve"}
      /\ \A g \in Handlers \ {r} : handler'[g] = handler[g]
  <2>1. CASE Request(r)
    <3>1. PICK e \in Entries : handler' = [handler EXCEPT ![r] =
             IF stamp[e] = None THEN [Idle EXCEPT !.pc = "wait", !.left = LockTimeout, !.name = e]
                                ELSE [Idle EXCEPT !.pc = "serve", !.name = e]]
      BY <2>1 DEF Request, Become
    <3>2. handler'[r].pc \in {"wait", "serve"}
      BY <1>1, <3>1 DEF Idle
    <3> QED BY <1>1, <3>1, <3>2
  <2>2. CASE LockWaitTimeout(r)
    <3>1. handler[r] \in Handling /\ handler' = [handler EXCEPT ![r] = [handler[r] EXCEPT !.pc = "serve"]]
      BY <1>1, <2>2 DEF LockWaitTimeout, Goto
    <3>2. handler'[r].pc = "serve"
      BY <1>1, <3>1 DEF Handling
    <3> QED BY <1>1, <3>1, <3>2
  <2>3. CASE Serve(r)
    BY <1>1, <2>3, IdleIsTyped DEF Serve, Become
  <2> QED BY <2>1, <2>2, <2>3
<1>4. \A g \in Handlers : (Refreshes(g)' <=> Refreshes(g)) /\ (Refreshes(g) => handler'[g] = handler[g])
  BY <1>1, <1>3 DEF Refreshes, Refreshing
<1>5. lock # None => lock \in Handlers
  BY DEF TInv, IInv, TypeOK
<1>6. \A g \in Handlers : Refreshes(g) /\ OnTime(g) => OnTime(g)'
  BY <1>1, <1>4 DEF OnTime
<1>7. Bounds' /\ FaultFree'
  BY <1>1, <1>4, <1>5, <1>6 DEF TInv, Bounds, FaultFree
<1>8. ScanInv'
  BY <1>1, <1>2, <1>4, <1>6 DEF TInv, ScanInv, Scanned, Leaves
<1>9. LockInv'
  BY <1>1, <1>2, <1>4, <1>5 DEF TInv, LockInv, Free, LeftLocked
<1> QED
  BY <1>7, <1>8, <1>9 DEF TInv

(* Time passes for the entries, the handlers, the lock and the timers      *)
(* alike.                                                                  *)
LEMMA TickTiming ==
  ASSUME TInv, IInv', Tick
  PROVE  TInv'
<1>1. /\ UNCHANGED <<lock, slow, faults>> /\ slow \in Nat /\ faults \in Nat
      /\ lock \in {None} \cup Handlers /\ lockAge \in Nat /\ (lock # None => lockAge < LockTTL)
      /\ lockAge' = (IF lock = None THEN 0 ELSE lockAge + 1)
      /\ poll \in [Workers -> Nat] /\ handler \in [Handlers -> Handling]
      /\ \A w \in Workers : poll[w] > 0 /\ poll'[w] = poll[w] - 1
  BY DEF TInv, IInv, TypeOK, Tick
<1>2. /\ Limit \in Nat /\ Limit' = Limit /\ PollPeriod \in Nat /\ LockTTL \in Nat /\ HardLimit \in Nat
  BY <1>1, LimitGrows, Constants
<1>3. ASSUME NEW e \in Entries, stamp'[e] # None
      PROVE  /\ stamp[e] # None /\ stamp[e] \in Nat /\ stamp'[e] \in Nat
             /\ stamp'[e] <= stamp[e] + 1
  <2>1. stamp[e] \in Ages /\ stamp'[e] = Older(stamp[e], HardLimit)
    BY DEF TInv, IInv, TypeOK, Tick
  <2> QED BY <1>2, <1>3, <2>1, CacheAssumption DEF Older, Ages
<1>4. ASSUME NEW g \in Handlers
      PROVE  /\ Refreshes(g)' <=> Refreshes(g)
             /\ handler'[g].pc = handler[g].pc
             /\ Refreshes(g) => /\ handler'[g].entry = handler[g].entry
                                /\ handler[g].pc \in {"sent", "answered"}
                                /\ handler[g].left > 0 /\ handler'[g].left = handler[g].left - 1
  <2>1. handler[g] \in Handling
    BY <1>1
  <2>2. CASE At(g, "idle")
    <3>1. handler'[g] = Idle
      BY <2>2 DEF Tick
    <3> QED BY <2>2, <3>1, IdleIsTyped DEF Refreshes, Refreshing, At
  <2>3. CASE ~ At(g, "idle")
    <3>1. handler[g].pc \in {"sent", "answered", "wait"} /\ handler[g].left > 0
      BY <2>3 DEF Tick, Waiting, At
    <3> DEFINE snap == IF handler[g].pc = "answered" THEN handler[g].snap + 1 ELSE handler[g].snap
    <3>2. handler'[g] = [handler[g] EXCEPT !.left = handler[g].left - 1, !.snap = snap]
      BY <2>3 DEF Tick, At
    <3> HIDE DEF snap
    <3>3. handler'[g].pc = handler[g].pc /\ handler'[g].entry = handler[g].entry /\ handler'[g].left = handler[g].left - 1
      BY <2>1, <3>2 DEF Handling
    <3> QED BY <3>1, <3>3 DEF Refreshes, Refreshing
  <2> QED BY <2>2, <2>3
<1>5. ASSUME NEW g \in Handlers, Refreshes(g)
      PROVE  ToEnd(handler[g]) \in Nat /\ ToEnd(handler'[g]) = ToEnd(handler[g]) - 1
  <2>1. /\ ToEnd(handler[g]) = Turn(NumEntries) - Turn(handler[g].entry) + handler[g].left
        /\ ToEnd(handler'[g]) = Turn(NumEntries) - Turn(handler[g].entry) + (handler[g].left - 1)
    BY <1>4, <1>5 DEF ToEnd, Pending
  <2>2. /\ handler[g].left \in Nat /\ Turn(handler[g].entry) \in Nat /\ Turn(NumEntries) \in Nat
        /\ ToEnd(handler[g]) \in Nat
    BY <1>1, <1>5, Turns, EndBounds, Constants DEF TInv, Handling
  <2> QED BY <2>1, <2>2
<1>6. ASSUME NEW g \in Handlers, Refreshes(g), OnTime(g)
      PROVE  OnTime(g)'
  BY <1>1, <1>5, <1>6, Constants DEF OnTime
<1>7. Bounds'
  <2>1. \A w \in Workers : poll'[w] <= PollPeriod
    BY <1>1, <1>2 DEF TInv, Bounds
  <2>2. lockAge' <= LockTTL
    BY <1>1, <1>2
  <2>3. \A g \in Handlers : Refreshes(g)' =>
         /\ handler'[g].entry <= NumEntries + 1
         /\ handler'[g].pc \notin {"check", "unlock"} => handler'[g].entry <= NumEntries
         /\ handler'[g].pc = "unlock" => handler'[g].entry = NumEntries + 1
    BY <1>4 DEF TInv, Bounds
  <2> QED BY <1>1, <2>1, <2>2, <2>3 DEF TInv, Bounds, Refreshes
<1>8. FaultFree'
  BY <1>1, <1>4, <1>6 DEF TInv, FaultFree
<1>9. ScanInv'
  <2> SUFFICES ASSUME NEW g \in Handlers, NEW e \in Entries, Refreshes(g)', stamp'[e] # None
               PROVE  Scanned(g, e)'
    BY DEF ScanInv
  <2>1. /\ Refreshes(g) /\ handler'[g].entry = handler[g].entry
        /\ stamp[e] # None /\ stamp[e] \in Nat /\ stamp'[e] \in Nat /\ stamp'[e] <= stamp[e] + 1
        /\ Scanned(g, e) /\ Turn(e) \in Nat
        /\ ToEnd(handler[g]) \in Nat /\ ToEnd(handler'[g]) = ToEnd(handler[g]) - 1
    BY <1>3, <1>4, <1>5, EntryTurns DEF TInv, ScanInv
  <2>2. CASE Leaves(g, e)
    BY <1>2, <2>1, <2>2 DEF Scanned, Leaves
  <2>3. CASE handler[g].entry <= e /\ OnTime(g) /\ (g = lock => stamp[e] + Turn(e) <= Limit + lockAge)
    <3>1. g = lock => stamp'[e] + Turn(e) <= Limit + lockAge'
      BY <1>1, <1>2, <2>1, <2>3, CacheAssumption
    <3> QED BY <1>1, <1>2, <1>6, <2>1, <2>3, <3>1 DEF Scanned
  <2> QED BY <2>1, <2>2, <2>3 DEF Scanned
<1>10. LockInv'
  <2> SUFFICES ASSUME NEW e \in Entries, stamp'[e] # None
               PROVE  /\ lock = None => Free(e)'
                      /\ lock # None => Refreshes(lock)' \/ LeftLocked(e)'
    BY <1>1 DEF LockInv, Refreshes
  <2>1. /\ stamp[e] # None /\ stamp[e] \in Nat /\ stamp'[e] \in Nat /\ stamp'[e] <= stamp[e] + 1
        /\ Turn(e) \in Nat
    BY <1>3, EntryTurns
  <2>2. ASSUME lock = None
        PROVE  Free(e)'
    <3>1. \A w \in Workers : stamp[e] + poll[w] + Turn(e) <= Limit
      BY <2>1, <2>2 DEF TInv, LockInv, Free
    <3>2. PICK w \in Workers : TRUE
      BY TimingAssumption
    <3>3. stamp[e] + poll[w] + Turn(e) <= Limit /\ poll[w] \in Nat /\ poll[w] > 0
      BY <1>1, <3>1
    <3>4. stamp'[e] + Turn(e) <= Limit
      BY <1>2, <2>1, <3>3
    <3>5. \A v \in Workers : stamp'[e] + poll'[v] + Turn(e) <= Limit
      BY <1>1, <1>2, <2>1, <3>1
    <3> QED BY <1>2, <3>4, <3>5 DEF Free
  <2>3. ASSUME lock # None, ~Refreshes(lock)
        PROVE  LeftLocked(e)'
    <3>1. LeftLocked(e)
      BY <2>1, <2>3 DEF TInv, LockInv
    <3> QED BY <1>1, <1>2, <2>1, <2>3, <3>1 DEF LeftLocked
  <2> QED BY <1>1, <1>4, <2>2, <2>3
<1> QED
  BY <1>7, <1>8, <1>9, <1>10 DEF TInv

LEMMA InitTiming == Init => TInv
<1> SUFFICES ASSUME Init
             PROVE  TInv
  OBVIOUS
<1>1. IInv
  BY InitInv
<1>2. \A h \in Handlers : ~Refreshes(h) /\ handler[h].pc = "idle"
  BY IdleIsTyped DEF Init, Refreshes, Refreshing
<1>3. Bounds /\ FaultFree
  BY <1>2, Constants DEF Init, Bounds, FaultFree
<1>4. ScanInv /\ LockInv
  BY DEF Init, ScanInv, LockInv
<1> QED
  BY <1>1, <1>3, <1>4 DEF TInv

LEMMA NextTiming == TInv /\ [Next]_vars => TInv'
<1> SUFFICES ASSUME TInv, [Next]_vars
             PROVE  TInv'
  OBVIOUS
<1>0. IInv'
  BY NextInv DEF TInv
<1>1. CASE UNCHANGED vars
  <2>1. UNCHANGED <<stamp, lock, lockAge, poll, handler, slow, faults>>
    BY <1>1 DEF vars, cache, locking, timers
  <2>2. Limit' = Limit
    BY <2>1, LimitGrows DEF TInv, IInv, TypeOK
  <2> QED
    BY <1>0, <2>1, <2>2 DEF TInv, Bounds, FaultFree, ScanInv, LockInv, Refreshes, Scanned, Leaves,
                            OnTime, Free, LeftLocked
<1>2. ASSUME NEW h \in Handlers, Refresh(h)
      PROVE  TInv'
  BY <1>0, <1>2, CheckTiming, AnswerTiming, AnswerIsLateTiming, EntryFailsTiming,
     StoreStampTiming, StoreEvictsTiming, UnlockTiming, StopTiming DEF Refresh
<1>3. ASSUME NEW w \in Workers, TimerFires(w) \/ WorkerDies(w) \/ GcLock(w)
      PROVE  TInv'
  BY <1>0, <1>3, TimerFiresTiming, StopTiming, GcLockTiming
<1>4. ASSUME NEW r \in Requests, Request(r) \/ LockAfterWait(r) \/ LockWaitTimeout(r) \/ Serve(r)
      PROVE  TInv'
  BY <1>0, <1>4, RequestTiming, LockAfterWaitTiming
<1> QED
  BY <1>0, <1>1, <1>2, <1>3, <1>4, LockExpiresTiming, TickTiming DEF Next

LEMMA Refreshed == TInv => EntriesAreRefreshed
<1> SUFFICES ASSUME TInv, NEW e \in Entries, stamp[e] # None
             PROVE  stamp[e] <= Limit
  BY DEF EntriesAreRefreshed, Limit, FaultCost
<1>1. /\ stamp[e] \in Nat /\ lockAge \in Nat /\ Limit \in Nat /\ Turn(e) \in Nat /\ Turn(NumEntries) \in Nat
      /\ lock = None => stamp[e] + Turn(e) <= Limit
      /\ lock # None => stamp[e] + Turn(e) <= Limit + lockAge
  BY Lasts, EntryTurns, Constants
<1>2. CASE lock = None
  BY <1>1, <1>2
<1>3. CASE lock # None /\ Refreshes(lock)
  <2>1. lock \in Handlers
    BY <1>3 DEF TInv, IInv, TypeOK
  <2>2. /\ Scanned(lock, e) /\ ToEnd(handler[lock]) \in Nat
        /\ handler[lock].entry <= e => Turn(NumEntries) - Turn(e) <= ToEnd(handler[lock])
    BY <1>3, <2>1, EndBounds DEF TInv, ScanInv
  <2>3. PollPeriod \in Nat
    BY Constants
  <2>4. CASE Leaves(lock, e)
    BY <1>1, <2>2, <2>3, <2>4 DEF Leaves
  <2>5. CASE handler[lock].entry <= e /\ OnTime(lock)
    BY <1>1, <1>3, <2>2, <2>5 DEF OnTime
  <2> QED BY <2>2, <2>4, <2>5 DEF Scanned
<1>4. CASE lock # None /\ LeftLocked(e)
  <2>1. lockAge <= LockTTL /\ LockTTL \in Nat /\ PollPeriod \in Nat
    BY Constants DEF TInv, Bounds
  <2> QED BY <1>1, <1>4, <2>1 DEF LeftLocked
<1> QED
  BY <1>2, <1>3, <1>4 DEF TInv, LockInv

(* No entry gets older than a refresh may take and a failure costs,        *)
(* although a timer that finds the lock taken, by a refresh that has       *)
(* passed the entry before it expired, by one that has failed or by a      *)
(* dead worker, does nothing until it fires the next time, and although    *)
(* refreshes that outlive the lock and the collector of locks unlock for   *)
(* others (refresh_cache, periodically_refresh_cache, gc_lock).            *)
THEOREM EntriesStayYoung == Spec => []EntriesAreRefreshed
<1>1. Spec => []TInv
  BY InitTiming, NextTiming, PTL DEF Spec
<1> QED
  BY <1>1, Refreshed, PTL
----------------------------------------------------------------------------
(* While nothing fails, whoever refreshes leaves no entry behind without a *)
(* time, and a request that waits for an entry without one outlasts the    *)
(* refresh under way.                                                      *)
Stamped(h) == \A e \in Entries : e < handler[h].entry => stamp[e] # None

Outlasts(r) ==
    IF lock = None THEN handler[r].left = LockTimeout
    ELSE ToEnd(handler[lock]) < handler[r].left

EarlyInv ==
    faults = 0 =>
        /\ \A h \in Handlers : Refreshes(h) => Stamped(h)
        /\ \A r \in Requests : At(r, "wait") /\ stamp[handler[r].name] = None => Outlasts(r)
        /\ \A r \in Requests : At(r, "serve") => stamp[handler[r].name] # None

(* The one handler that refreshes goes on with its entry, or with the next *)
(* when its own has a time.                                                *)
LEMMA GoesOn ==
  ASSUME TInv, EarlyInv, faults = 0, faults' = 0, NEW h \in Handlers, Refreshes(h),
         NEW s \in Handling, s.pc \in Refreshing, handler' = [handler EXCEPT ![h] = s],
         lock' = lock, \A e \in Entries : stamp[e] # None => stamp'[e] # None,
         \/ s.entry = handler[h].entry /\ Pending(s) <= Pending(handler[h])
         \/ /\ s.entry = handler[h].entry + 1 /\ s.pc = "check"
            /\ stamp'[handler[h].entry] # None
  PROVE  EarlyInv'
<1>1. /\ handler \in [Handlers -> Handling] /\ handler'[h] = s /\ handler[h] \in Handling
      /\ \A g \in Handlers \ {h} : handler'[g] = handler[g]
  BY DEF TInv, IInv, TypeOK
<1>2. lock = h /\ h # None /\ \A g \in Handlers : Refreshes(g) => g = h
  <2>1. h = lock /\ \A g \in Handlers : Refreshes(g) => g = lock
    BY DEF TInv, FaultFree
  <2> QED BY <2>1, CacheAssumption
<1>3. \A g \in Handlers : Refreshes(g)' => g = h
  BY <1>1, <1>2 DEF Refreshes
<1>4. Stamped(h)'
  <2>1. Stamped(h)
    BY DEF EarlyInv
  <2>2. handler[h].entry \in Nat
    BY <1>1 DEF Handling
  <2>3. \A e \in Entries : e \in Nat
    BY EntryTurns
  <2>4. ASSUME NEW e \in Entries, e < s.entry
        PROVE  stamp'[e] # None
    BY <2>1, <2>2, <2>3, <2>4 DEF Stamped
  <2> QED BY <1>1, <2>4 DEF Stamped
<1>5. ToEnd(s) \in Int /\ ToEnd(handler[h]) \in Int /\ ToEnd(s) <= ToEnd(handler[h])
  <2>1. /\ Pending(s) \in Nat /\ Pending(handler[h]) \in Nat /\ handler[h].entry \in Nat
        /\ ToEnd(s) \in Int /\ ToEnd(handler[h]) \in Int
    BY <1>1, EndTyped DEF Handling
  <2>2. /\ Turn(handler[h].entry) \in Nat /\ Turn(NumEntries) \in Nat /\ AnswerTime \in Nat
        /\ Turn(handler[h].entry + 1) = Turn(handler[h].entry) + AnswerTime
    BY <2>1, Turns, Constants
  <2>3. s.pc = "check" => Pending(s) = AnswerTime
    BY DEF Pending
  <2> QED BY <2>1, <2>2, <2>3 DEF ToEnd
<1>6. ASSUME NEW r \in Requests, handler'[r].pc \in {"wait", "serve"}
      PROVE  handler'[r] = handler[r] /\ handler[r] \in Handling /\ handler[r].name \in Entries
  <2>1. r \in Handlers /\ r # h
    BY <1>1, <1>6 DEF Refreshing, Handlers
  <2> QED BY <1>1, <2>1 DEF Handling
<1>7. ASSUME NEW r \in Requests, At(r, "wait")', stamp'[handler'[r].name] = None
      PROVE  Outlasts(r)'
  <2>1. handler'[r] = handler[r] /\ handler[r].name \in Entries /\ handler[r].left \in Nat
    BY <1>6, <1>7 DEF At, Handling
  <2>2. At(r, "wait") /\ stamp[handler[r].name] = None
    BY <1>7, <2>1 DEF At
  <2>3. ToEnd(handler[h]) < handler[r].left
    BY <1>2, <2>2 DEF EarlyInv, Outlasts
  <2> QED BY <1>1, <1>2, <1>5, <2>1, <2>3 DEF Outlasts
<1>8. ASSUME NEW r \in Requests, At(r, "serve")'
      PROVE  stamp'[handler'[r].name] # None
  BY <1>6, <1>8 DEF At, EarlyInv
<1> QED
  BY <1>3, <1>4, <1>7, <1>8 DEF EarlyInv

LEMMA RefreshEarly ==
  ASSUME TInv, EarlyInv, faults = 0, faults' = 0, NEW h \in Handlers,
         Check(h) \/ Answer(h) \/ Deliver(h) \/ StoreValue(h) \/ StoreStamp(h)
  PROVE  EarlyInv'
<1> DEFINE t == handler[h]
           i == t.entry
<1>1. /\ t \in Handling /\ lock' = lock /\ i \in Nat /\ i \in Nat \ {0} /\ t.left \in Nat
      /\ i + 1 \in Nat \ {0} /\ 0 \in Nat /\ AnswerTime \in Nat /\ NumEntries \in Nat
      /\ stamp \in [Entries -> Ages]
  BY Constants DEF TInv, IInv, TypeOK, Check, Answer, Deliver, StoreValue, StoreStamp, Handling, locking
<1>2. Refreshes(h) /\ (t.pc \notin {"check", "unlock"} => i \in Entries)
  <2>1. Refreshes(h)
    BY DEF Check, Answer, Deliver, StoreValue, StoreStamp, At, Refreshes, Refreshing
  <2> QED BY <1>1, <2>1 DEF TInv, Bounds, Entries
<1> HIDE DEF i
<1>3. ASSUME NEW pc \in Refreshing, Goto(h, pc), UNCHANGED stamp,
             \/ t.pc = "sent" /\ pc = "answered"
             \/ t.pc \in {"answered", "store"} /\ pc \in {"store", "stamp"}
             \/ t.pc = "check" /\ pc = "unlock"
      PROVE  EarlyInv'
  <2> DEFINE s == [t EXCEPT !.pc = pc]
  <2>1. /\ handler' = [handler EXCEPT ![h] = s] /\ s \in Handling
        /\ s.pc = pc /\ s.entry = t.entry /\ s.left = t.left
    BY <1>1, <1>3 DEF Goto, Handling
  <2> HIDE DEF s
  <2>2. Pending(s) <= Pending(t)
    BY <1>1, <1>3, <2>1 DEF Pending
  <2> QED BY <1>1, <1>2, <1>3, <2>1, <2>2, GoesOn
<1>4. ASSUME NextEntry(h), i \in Entries, stamp'[i] # None,
             \A e \in Entries : stamp[e] # None => stamp'[e] # None
      PROVE  EarlyInv'
  <2> DEFINE s == [t EXCEPT !.pc = "check", !.entry = i + 1, !.left = 0, !.snap = 0]
  <2>1. handler' = [handler EXCEPT ![h] = s]
    BY <1>4 DEF NextEntry, Become, i
  <2>2. s \in Handling /\ s.pc = "check" /\ s.entry = i + 1 /\ s.pc \in Refreshing
    BY <1>1 DEF Handling, Refreshing
  <2> HIDE DEF s
  <2> QED BY <1>1, <1>2, <1>4, <2>1, <2>2, GoesOn DEF i
<1>5. CASE Check(h)
  <2>1. UNCHANGED stamp /\ t.pc = "check"
    BY <1>5 DEF Check, At, cache
  <2>2. CASE Goto(h, "unlock")
    BY <1>3, <2>1, <2>2 DEF Refreshing
  <2>3. CASE Become(h, [t EXCEPT !.pc = "sent", !.left = AnswerTime])
    <3> DEFINE s == [t EXCEPT !.pc = "sent", !.left = AnswerTime]
    <3>1. /\ handler' = [handler EXCEPT ![h] = s] /\ s \in Handling
          /\ s.pc = "sent" /\ s.pc \in Refreshing /\ s.entry = t.entry /\ s.left = AnswerTime
      BY <1>1, <2>3 DEF Become, Handling, Refreshing
    <3> HIDE DEF s
    <3>2. Pending(s) <= Pending(t)
      BY <1>1, <2>1, <3>1 DEF Pending
    <3> QED BY <1>1, <1>2, <2>1, <3>1, <3>2, GoesOn
  <2>4. CASE i <= NumEntries /\ ~RefreshNeeded(i) /\ NextEntry(h)
    <3>1. i \in Entries /\ stamp'[i] # None
      BY <1>1, <2>1, <2>4 DEF Entries, RefreshNeeded
    <3> QED BY <1>4, <2>1, <2>4, <3>1
  <2> QED BY <1>5, <2>2, <2>3, <2>4 DEF Check, i
<1>6. CASE Answer(h) \/ Deliver(h) \/ StoreValue(h)
  BY <1>3, <1>6 DEF Answer, Deliver, StoreValue, At, Refreshing, cache
<1>7. CASE StoreStamp(h)
  <2>1. t.pc = "stamp" /\ NextEntry(h) /\ stamp' = [stamp EXCEPT ![i] = 0]
    BY <1>7 DEF StoreStamp, At, i
  <2>2. i \in Entries /\ 0 # None
    BY <1>2, <2>1, CacheAssumption
  <2> QED BY <1>1, <1>4, <2>1, <2>2
<1> QED
  BY <1>5, <1>6, <1>7

(* A refresh that begins takes less time than a request waits. *)
LEMMA TakeLockEarly ==
  ASSUME TInv, EarlyInv, faults = 0, faults' = 0, NEW h \in Handlers, TakeLock(h), UNCHANGED stamp
  PROVE  EarlyInv'
<1> DEFINE s == [handler[h] EXCEPT !.pc = "check", !.entry = 1, !.left = 0]
<1>1. /\ handler[h] \in Handling /\ handler' = [handler EXCEPT ![h] = s]
      /\ lock = None /\ lock' = h /\ h # None
  BY CacheAssumption DEF TInv, IInv, TypeOK, TakeLock, Become
<1>2. s \in Handling /\ s.pc = "check" /\ s.entry = 1
  BY <1>1, BeginsAtTheFirst DEF Handling
<1>3. handler'[h] = s /\ \A g \in Handlers \ {h} : handler'[g] = handler[g]
  BY <1>1 DEF TInv, IInv, TypeOK
<1> HIDE DEF s
<1>4. ToEnd(s) = Turn(NumEntries) /\ Turn(NumEntries) < LockTimeout
  <2>1. Turn(1) = AnswerTime /\ AnswerTime \in Nat /\ Turn(NumEntries) \in Nat /\ Turn(NumEntries) < LockTimeout
    BY Constants DEF Turn
  <2> QED BY <1>2, <2>1 DEF ToEnd, Pending
<1>5. \A g \in Handlers : Refreshes(g)' => g = h
  BY <1>1, <1>3, CacheAssumption DEF TInv, FaultFree, Refreshes
<1>6. Stamped(h)'
  BY <1>2, <1>3, EntryTurns DEF Stamped
<1>7. ASSUME NEW r \in Requests, handler'[r].pc \in {"wait", "serve"}
      PROVE  handler'[r] = handler[r]
  BY <1>2, <1>3, <1>7 DEF Handlers
<1>8. ASSUME NEW r \in Requests, At(r, "wait")', stamp[handler'[r].name] = None
      PROVE  Outlasts(r)'
  <2>1. handler'[r] = handler[r] /\ handler[r].left = LockTimeout
    BY <1>1, <1>7, <1>8 DEF At, EarlyInv, Outlasts
  <2> QED BY <1>1, <1>3, <1>4, <2>1 DEF Outlasts
<1> QED
  BY <1>5, <1>6, <1>7, <1>8 DEF EarlyInv, At

(* Whoever unlocks has been at every entry. *)
LEMMA UnlockEarly ==
  ASSUME TInv, EarlyInv, faults = 0, faults' = 0, NEW h \in Handlers, Unlock(h)
  PROVE  EarlyInv'
<1>1. /\ handler[h].pc = "unlock" /\ Refreshes(h) /\ handler[h].entry = NumEntries + 1
      /\ stamp' = stamp /\ lock' = None /\ handler \in [Handlers -> Handling]
  BY DEF TInv, IInv, TypeOK, Bounds, Unlock, At, Refreshes, Refreshing, cache
<1>2. /\ handler'[h] = (IF h \in Requests THEN [handler[h] EXCEPT !.pc = "serve"] ELSE Idle)
      /\ \A g \in Handlers \ {h} : handler'[g] = handler[g]
  BY <1>1 DEF Unlock, Goto, Become
<1>3. handler'[h].pc \in {"idle", "serve"} /\ handler'[h].name \in Entries
  <2>1. handler[h] \in Handling
    BY <1>1
  <2> QED BY <1>2, <2>1, IdleIsTyped DEF Handling
<1>4. \A e \in Entries : stamp[e] # None
  <2>1. \A e \in Entries : e \in Nat /\ e <= NumEntries /\ NumEntries \in Nat
    BY EntryTurns, Constants
  <2>2. Stamped(h)
    BY <1>1 DEF EarlyInv
  <2> QED BY <1>1, <2>1, <2>2 DEF Stamped
<1>5. \A g \in Handlers : ~Refreshes(g)'
  <2>1. \A g \in Handlers : Refreshes(g) => g = h
    BY <1>1 DEF TInv, FaultFree
  <2> QED BY <1>2, <1>3, <2>1 DEF Refreshes, Refreshing
<1>6. \A r \in Requests : handler'[r].name \in Entries
  BY <1>1, <1>2, <1>3 DEF Handlers, Handling
<1> QED
  BY <1>1, <1>4, <1>5, <1>6 DEF EarlyInv

(* A request that comes waits for an entry without a time, and while       *)
(* nothing fails it does not give up before the entry has one.             *)
LEMMA RequestEarly ==
  ASSUME TInv, EarlyInv, faults = 0, faults' = 0, NEW r \in Requests,
         Request(r) \/ LockWaitTimeout(r) \/ Serve(r)
  PROVE  EarlyInv'
<1>1. /\ UNCHANGED <<stamp, lock>> /\ handler \in [Handlers -> Handling] /\ r \in Handlers
      /\ handler[r].pc \in {"idle", "wait", "serve"} /\ lock \in {None} \cup Handlers
  BY DEF TInv, IInv, TypeOK, Request, LockWaitTimeout, Serve, At, Handlers, cache, locking
<1>2. ~Refreshes(r)
  BY <1>1 DEF Refreshes, Refreshing
<1>3. lock # None => /\ lock # r /\ lock \in Handlers /\ ToEnd(handler[lock]) \in Nat
                     /\ ToEnd(handler[lock]) <= Turn(NumEntries)
  <2>1. lock # None => Refreshes(lock) /\ OnTime(lock)
    BY <1>1 DEF TInv, FaultFree
  <2> QED BY <1>1, <1>2, <2>1, EndBounds DEF TInv, OnTime
<1>4. \A g \in Handlers \ {r} : handler'[g] = handler[g]
  BY <1>1 DEF Request, LockWaitTimeout, Serve, Become, Goto
<1>5. /\ handler'[r].pc \in {"idle", "wait", "serve"}
      /\ At(r, "wait")' => handler'[r].left = LockTimeout
      /\ At(r, "serve")' => stamp[handler'[r].name] # None
  <2>1. CASE Request(r)
    <3>1. PICK e \in Entries : handler' = [handler EXCEPT ![r] =
             IF stamp[e] = None THEN [Idle EXCEPT !.pc = "wait", !.left = LockTimeout, !.name = e]
                                ELSE [Idle EXCEPT !.pc = "serve", !.name = e]]
      BY <2>1 DEF Request, Become
    <3>2. CASE stamp[e] = None
      <4>1. handler'[r].pc = "wait" /\ handler'[r].left = LockTimeout
        BY <1>1, <3>1, <3>2 DEF Idle
      <4> QED BY <4>1 DEF At
    <3>3. CASE stamp[e] # None
      <4>1. handler'[r].pc = "serve" /\ handler'[r].name = e
        BY <1>1, <3>1, <3>3 DEF Idle
      <4> QED BY <3>3, <4>1 DEF At
    <3> QED BY <3>2, <3>3
  <2>2. CASE LockWaitTimeout(r)
    <3>1. /\ handler[r] \in Handling /\ handler' = [handler EXCEPT ![r] = [handler[r] EXCEPT !.pc = "serve"]]
          /\ handler[r].pc = "wait" /\ handler[r].left = 0 /\ lock # None
      BY <1>1, <2>2 DEF LockWaitTimeout, Goto, At
    <3>2. handler'[r].pc = "serve" /\ handler'[r].name = handler[r].name
      BY <1>1, <3>1 DEF Handling
    <3>3. ~Outlasts(r)
      BY <1>3, <3>1 DEF Outlasts
    <3>4. stamp[handler[r].name] # None
      BY <3>1, <3>3 DEF EarlyInv, At
    <3> QED BY <3>2, <3>4 DEF At
  <2>3. CASE Serve(r)
    <3>1. handler'[r].pc = "idle"
      BY <1>1, <2>3, IdleIsTyped DEF Serve, Become
    <3> QED BY <3>1 DEF At
  <2> QED BY <2>1, <2>2, <2>3
<1>6. \A g \in Handlers : Refreshes(g)' => g # r /\ Refreshes(g) /\ Stamped(g)'
  BY <1>1, <1>4, <1>5 DEF Refreshes, Refreshing, EarlyInv, Stamped
<1>7. ASSUME NEW q \in Requests, At(q, "wait")', stamp[handler'[q].name] = None
      PROVE  Outlasts(q)'
  <2>1. lock # None => handler'[lock] = handler[lock]
    BY <1>3, <1>4
  <2>2. CASE q = r
    <3>1. Turn(NumEntries) \in Nat /\ LockTimeout \in Nat /\ Turn(NumEntries) < LockTimeout
      BY Constants
    <3> QED BY <1>1, <1>3, <1>5, <1>7, <2>1, <2>2, <3>1 DEF Outlasts
  <2>3. CASE q # r
    <3>1. handler'[q] = handler[q]
      BY <1>4, <2>3 DEF Handlers
    <3> QED BY <1>1, <1>7, <2>1, <3>1 DEF EarlyInv, Outlasts, At
  <2> QED BY <2>2, <2>3
<1>8. ASSUME NEW q \in Requests, At(q, "serve")'
      PROVE  stamp[handler'[q].name] # None
  <2>1. q # r => handler'[q] = handler[q]
    BY <1>4 DEF Handlers
  <2> QED BY <1>5, <1>8, <2>1 DEF EarlyInv, At
<1> QED
  BY <1>1, <1>6, <1>7, <1>8 DEF EarlyInv

(* The refresh and whoever waits for it get on together. *)
LEMMA TickEarly ==
  ASSUME TInv, EarlyInv, faults = 0, faults' = 0, Tick
  PROVE  EarlyInv'
<1>1. /\ lock' = lock /\ lock \in {None} \cup Handlers /\ handler \in [Handlers -> Handling]
      /\ stamp \in [Entries -> Ages]
  BY DEF TInv, IInv, TypeOK, Tick
<1>2. \A e \in Entries : stamp[e] # None => stamp'[e] # None
  <2> SUFFICES ASSUME NEW e \in Entries, stamp[e] # None
               PROVE  stamp'[e] # None
    OBVIOUS
  <2>1. stamp[e] \in Nat /\ stamp'[e] = Older(stamp[e], HardLimit) /\ HardLimit \in Nat
    BY <1>1, Constants DEF Tick, Ages
  <2>2. stamp'[e] \in Nat
    BY <2>1 DEF Older
  <2> QED BY <2>2, CacheAssumption
<1>3. ASSUME NEW g \in Handlers
      PROVE  /\ handler'[g].pc = handler[g].pc /\ ~At(g, "serve")
             /\ Refreshes(g) => handler[g].pc \in {"sent", "answered"}
             /\ ~At(g, "idle") => /\ handler'[g].entry = handler[g].entry
                                  /\ handler'[g].name = handler[g].name
                                  /\ handler'[g].left = handler[g].left - 1
  <2>1. handler[g] \in Handling
    BY <1>1
  <2>2. CASE At(g, "idle")
    <3>1. handler'[g] = Idle
      BY <2>2 DEF Tick
    <3> QED BY <2>2, <3>1, IdleIsTyped DEF Refreshes, Refreshing, At
  <2>3. CASE ~ At(g, "idle")
    <3>1. handler[g].pc \in {"sent", "answered", "wait"}
      BY <2>3 DEF Tick, Waiting, At
    <3> DEFINE snap == IF handler[g].pc = "answered" THEN handler[g].snap + 1 ELSE handler[g].snap
    <3>2. handler'[g] = [handler[g] EXCEPT !.left = handler[g].left - 1, !.snap = snap]
      BY <2>3 DEF Tick, At
    <3> HIDE DEF snap
    <3>3. /\ handler'[g].pc = handler[g].pc /\ handler'[g].entry = handler[g].entry
          /\ handler'[g].left = handler[g].left - 1 /\ handler'[g].name = handler[g].name
      BY <2>1, <3>2 DEF Handling
    <3> QED BY <3>1, <3>3 DEF Refreshes, Refreshing, At
  <2> QED BY <2>2, <2>3
<1>4. \A g \in Handlers : Refreshes(g)' => Refreshes(g) /\ Stamped(g)'
  <2> SUFFICES ASSUME NEW g \in Handlers, Refreshes(g)'
               PROVE  Refreshes(g) /\ Stamped(g)'
    OBVIOUS
  <2>1. Refreshes(g) /\ ~At(g, "idle")
    BY <1>3 DEF Refreshes, Refreshing, At
  <2>2. handler'[g].entry = handler[g].entry /\ Stamped(g)
    BY <1>3, <2>1 DEF EarlyInv
  <2> QED BY <1>2, <2>1, <2>2 DEF Stamped
<1>5. ASSUME NEW r \in Requests, At(r, "wait")', stamp'[handler'[r].name] = None
      PROVE  Outlasts(r)'
  <2>1. r \in Handlers /\ At(r, "wait") /\ handler'[r].name = handler[r].name
    BY <1>3, <1>5 DEF At, Handlers
  <2>2. handler[r].name \in Entries /\ handler[r].left \in Nat /\ handler'[r].left = handler[r].left - 1
    BY <1>1, <1>3, <2>1 DEF Handling, At
  <2>3. stamp[handler[r].name] = None /\ lock # None
    BY <1>2, <1>5, <2>1, <2>2 DEF Tick, Waiting, At
  <2>4. lock \in Handlers /\ Refreshes(lock) /\ ToEnd(handler[lock]) < handler[r].left
    BY <1>1, <2>1, <2>3 DEF EarlyInv, Outlasts, TInv, FaultFree
  <2>5. ToEnd(handler'[lock]) = ToEnd(handler[lock]) - 1 /\ ToEnd(handler[lock]) \in Nat
    <3>1. /\ handler'[lock].pc = handler[lock].pc /\ handler[lock].pc \in {"sent", "answered"}
          /\ handler'[lock].entry = handler[lock].entry /\ handler'[lock].left = handler[lock].left - 1
      BY <1>3, <2>4 DEF At
    <3>2. /\ ToEnd(handler[lock]) = Turn(NumEntries) - Turn(handler[lock].entry) + handler[lock].left
          /\ ToEnd(handler'[lock]) = Turn(NumEntries) - Turn(handler[lock].entry) + (handler[lock].left - 1)
      BY <3>1 DEF ToEnd, Pending
    <3>3. /\ handler[lock].left \in Nat /\ Turn(handler[lock].entry) \in Nat /\ Turn(NumEntries) \in Nat
          /\ ToEnd(handler[lock]) \in Nat
      BY <1>1, <2>4, Turns, EndBounds, Constants DEF TInv, Handling
    <3> QED BY <3>2, <3>3
  <2> QED BY <1>1, <2>2, <2>3, <2>4, <2>5 DEF Outlasts
<1>6. \A r \in Requests : ~At(r, "serve")'
  BY <1>3 DEF At, Handlers
<1> QED
  BY <1>4, <1>5, <1>6 DEF EarlyInv

LEMMA NextEarly == TInv /\ EarlyInv /\ [Next]_vars => EarlyInv'
<1> SUFFICES ASSUME TInv, EarlyInv, [Next]_vars, faults' = 0
             PROVE  EarlyInv'
  BY DEF EarlyInv
<1>1. faults \in Nat
  BY DEF TInv, IInv, TypeOK
<1>2. CASE UNCHANGED vars
  BY <1>2 DEF vars, cache, locking, timers, EarlyInv, Refreshes, Stamped, Outlasts, At
<1>3. ASSUME NEW h \in Handlers, Refresh(h)
      PROVE  EarlyInv'
  <2>1. CASE AnswerIsLate(h) \/ EntryFails(h) \/ StoreEvicts(h) \/ HandlerAborts(h)
    BY <1>1, <2>1 DEF AnswerIsLate, EntryFails, StoreEvicts, HandlerAborts, Fault
  <2>2. CASE Check(h) \/ Answer(h) \/ Deliver(h) \/ StoreValue(h) \/ StoreStamp(h)
    <3>1. faults' = faults
      BY <2>2 DEF Check, Answer, Deliver, StoreValue, StoreStamp
    <3> QED BY <2>2, <3>1, RefreshEarly
  <2>3. CASE Unlock(h)
    <3>1. faults' = faults
      BY <2>3 DEF Unlock
    <3> QED BY <2>3, <3>1, UnlockEarly
  <2> QED BY <1>3, <2>1, <2>2, <2>3 DEF Refresh
<1>4. ASSUME NEW w \in Workers, TimerFires(w) \/ WorkerDies(w) \/ GcLock(w)
      PROVE  EarlyInv'
  <2>1. CASE WorkerDies(w) \/ GcLock(w)
    BY <1>1, <2>1 DEF WorkerDies, GcLock, Fault
  <2>2. CASE TimerFires(w)
    <3>1. faults' = faults /\ UNCHANGED stamp
      BY <2>2 DEF TimerFires, cache
    <3>2. CASE \E t \in Timers : TakeLock(t)
      BY <3>1, <3>2, TakeLockEarly DEF Handlers
    <3>3. CASE UNCHANGED <<locking, handler>>
      BY <3>1, <3>3 DEF locking, EarlyInv, Refreshes, Stamped, Outlasts, At
    <3> QED BY <2>2, <3>2, <3>3 DEF TimerFires
  <2> QED BY <1>4, <2>1, <2>2
<1>5. ASSUME NEW r \in Requests, Request(r) \/ LockAfterWait(r) \/ LockWaitTimeout(r) \/ Serve(r)
      PROVE  EarlyInv'
  <2>1. faults' = faults
    BY <1>5 DEF Request, LockAfterWait, LockWaitTimeout, Serve
  <2>2. LockAfterWait(r) => TakeLock(r) /\ UNCHANGED stamp /\ r \in Handlers
    BY DEF LockAfterWait, Handlers, cache
  <2> QED BY <1>5, <2>1, <2>2, TakeLockEarly, RequestEarly
<1>6. CASE LockExpires
  <2>1. /\ lock # None /\ lock \in Handlers /\ lockAge = LockTTL /\ faults' = faults
        /\ Turn(NumEntries) \in Nat /\ Turn(NumEntries) < LockTTL /\ LockTTL \in Nat
    BY <1>6, Constants DEF LockExpires, TInv, IInv, TypeOK
  <2>2. Refreshes(lock) /\ OnTime(lock) /\ ToEnd(handler[lock]) \in Nat
    BY <2>1, EndBounds DEF TInv, FaultFree
  <2> QED BY <2>1, <2>2 DEF OnTime
<1>7. CASE Tick
  <2>1. faults' = faults
    BY <1>7 DEF Tick
  <2> QED BY <1>7, <2>1, TickEarly
<1> QED
  BY <1>2, <1>3, <1>4, <1>5, <1>6, <1>7 DEF Next

(* A request that comes before the first refresh gets its entry: the       *)
(* refresh that it waits for, or that it does itself after one, comes to   *)
(* an end before the request gives up, and no entry is later too old to be *)
(* used (get_cache_entry).                                                 *)
THEOREM EarlyRequestsAreServed == Spec => []EarlyRequestServed
<1>1. Init => EarlyInv
  <2> SUFFICES ASSUME Init
               PROVE  EarlyInv
    OBVIOUS
  <2>1. \A h \in Handlers : handler[h].pc = "idle"
    BY IdleIsTyped DEF Init
  <2> QED BY <2>1 DEF EarlyInv, Refreshes, Refreshing, At, Handlers
<1>2. Spec => []TInv
  BY InitTiming, NextTiming, PTL DEF Spec
<1>3. Spec => []EarlyInv
  BY <1>1, <1>2, NextEarly, PTL DEF Spec
<1>4. TInv /\ EarlyInv => EarlyRequestServed
  <2> SUFFICES ASSUME TInv, EarlyInv, faults = 0, NEW r \in Requests, At(r, "serve")
               PROVE  Usable(handler[r].name)
    BY DEF EarlyRequestServed
  <2> DEFINE e == handler[r].name
  <2>1. e \in Entries /\ stamp[e] # None
    BY DEF EarlyInv, TInv, IInv, TypeOK, Handling, Handlers
  <2> HIDE DEF e
  <2>2. slow = 0
    BY DEF TInv, IInv, TypeOK, Bounds
  <2>3. Limit = Expiration + PollPeriod + Turn(NumEntries)
    <3>1. NumEntries * AnswerTime \in Nat /\ RequestTimeout \in Nat /\ FaultCost \in Nat
      BY Constants DEF Turn
    <3>2. 0 * RequestTimeout = 0 /\ 0 * FaultCost = 0
      BY <3>1
    <3> QED BY <2>2, <3>1, <3>2, Constants DEF Limit, RefreshTime, Turn
  <2>4. stamp[e] <= Limit
    BY <2>1, Refreshed DEF EntriesAreRefreshed, Limit, FaultCost
  <2>5. stamp[e] \in Nat /\ Limit \in Nat
    BY <2>1, Lasts
  <2>6. stamp[e] <= HardLimit
    BY <2>3, <2>4, <2>5, Constants
  <2>7. value[e] # None
    BY <2>1 DEF TInv, IInv, DataThere
  <2> QED BY <2>1, <2>6, <2>7 DEF Usable, e
<1> QED
  BY <1>2, <1>3, <1>4, PTL
=============================================================================
