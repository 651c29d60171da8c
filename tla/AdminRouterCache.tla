-------------------------- MODULE AdminRouterCache --------------------------
(***************************************************************************)
(* The cluster state cache of Admin Router:                                *)
(* src/packages/adminrouter/extra/src/lib/cache.lua.                       *)
(*                                                                         *)
(* The nginx workers share a dictionary with the cache entries, each with  *)
(* the time it was last refreshed, and a lock.  A timer in every worker    *)
(* refreshes what has expired, unless another refresh is under way; a      *)
(* request that comes before the first refresh waits for the lock and      *)
(* refreshes itself.  Whoever dies with the lock leaves it to its          *)
(* expiration time, or to the garbage collector of its worker, which       *)
(* deletes it whoever has it then.  A dictionary without room for a key    *)
(* drops others, so that the time of an entry may be there without data.   *)
(*                                                                         *)
(* Time is discrete.  Backend requests, waiting for the lock and the       *)
(* periods between timers take time, everything else happens within an     *)
(* instant, in any order.  Times are kept as ages and as times left.       *)
(***************************************************************************)
EXTENDS Integers, FiniteSets

CONSTANTS
    Workers,        \* the nginx workers, each with its refresh timer
    Timers,         \* bound: the handlers of timers that may run at a time
    Requests,       \* requests for a cache entry
    WorkerOf,       \* the worker that runs each handler and serves each request
    NumEntries,     \* cache entries, in the order refresh_cache takes them
    FirstPollDelay, PollPeriod, Expiration, HardLimit,
    AnswerTime,     \* how long a backend takes at most while nothing fails
    RequestTimeout, \* how long the HTTP client waits for the next bytes
    LockTimeout,    \* how long a request waits for the lock
    LockTTL,        \* when the lock expires
    None,
    MaxFaults       \* bound: late or failed answers, writes the dictionary refuses,
                    \*   keys it drops, aborted handlers, their locks collected, and
                    \*   dead workers

Entries == 1..NumEntries
Handlers == Timers \cup Requests

ASSUME CacheAssumption ==
    /\ Timers \cap Requests = {} /\ None \notin Handlers \cup Nat
    /\ WorkerOf \in [Handlers -> Workers]
    /\ {NumEntries, FirstPollDelay, PollPeriod, Expiration, HardLimit, AnswerTime,
        RequestTimeout, LockTimeout, LockTTL} \subseteq Nat \ {0}
    /\ FirstPollDelay < Expiration /\ Expiration < PollPeriod /\ PollPeriod < HardLimit
    /\ AnswerTime <= RequestTimeout /\ LockTimeout < LockTTL
    /\ MaxFaults \in Nat

(* What the defaults leave room for: all the answers of a refresh come     *)
(* while a request still waits for the lock, so while the lock lasts, and  *)
(* a refresh that comes a period late is not too late for the hard limit.  *)
ASSUME TimingAssumption ==
    /\ Workers # {}
    /\ NumEntries * AnswerTime < LockTimeout
    /\ Expiration + PollPeriod + NumEntries * AnswerTime <= HardLimit

VARIABLES
    value,   \* the age of each entry's data, None if there is no entry
    stamp,   \* the age of its "_last_refresh" time, None if there is none
    lock,    \* the handler that has taken the lock last, None if it is free
    lockAge,
    first,   \* the workers whose first timer has not fired yet
    poll,    \* the time until the next timer of each worker fires
    handler, \* what each handler does
    garbage, \* the locks aborted handlers of each worker have left behind
    slow, faults

cache == <<value, stamp>>
locking == <<lock, lockAge>>
timers == <<first, poll>>
vars == <<cache, locking, timers, handler, garbage, slow, faults>>

Refreshing == {"check", "sent", "answered", "store", "stamp", "unlock"}
MaxSnap == AnswerTime + MaxFaults * RequestTimeout

(* Ages above the limits are all the same. *)
Older(age, max) == IF age = None \/ age = max + 1 THEN age ELSE age + 1

(* A handler: the entry it is refreshing, the time left to its backend     *)
(* request or its wait for the lock, the age of the data it has received   *)
(* and the entry the request it serves has asked for.                      *)
Idle == [pc |-> "idle", entry |-> 1, left |-> 0, snap |-> 0, name |-> 1]

Init ==
    /\ value = [e \in Entries |-> None]
    /\ stamp = [e \in Entries |-> None]
    /\ lock = None /\ lockAge = 0
    /\ first = Workers
    /\ poll = [w \in Workers |-> FirstPollDelay]
    /\ handler = [h \in Handlers |-> Idle]
    /\ garbage = [w \in Workers |-> 0]
    /\ slow = 0 /\ faults = 0

At(h, pc) == handler[h].pc = pc
Become(h, state) == handler' = [handler EXCEPT ![h] = state]
Goto(h, pc) == handler' = [handler EXCEPT ![h].pc = pc]

Fault == faults < MaxFaults /\ faults' = faults + 1

----------------------------------------------------------------------------
(* refresh_cache: the lock *)

(* The handler begins with the first entry. *)
TakeLock(h) ==
    /\ lock = None
    /\ lock' = h /\ lockAge' = 0
    /\ Become(h, [handler[h] EXCEPT !.pc = "check", !.entry = 1, !.left = 0])

(* ngx.timer.at fires once, ngx.timer.every counts from the worker's start.*)
Rearm(w) ==
    /\ poll' = [poll EXCEPT ![w] = IF w \in first THEN PollPeriod - FirstPollDelay
                                                  ELSE PollPeriod]
    /\ first' = first \ {w}

(* A timer that does not get the lock at once does nothing until it fires  *)
(* the next time; whether an earlier handler of the worker still runs it   *)
(* does not ask.                                                           *)
TimerFires(w) ==
    /\ poll[w] = 0
    /\ Rearm(w)
    /\ \/ \E t \in Timers : WorkerOf[t] = w /\ At(t, "idle") /\ TakeLock(t)
       \/ lock # None /\ UNCHANGED <<locking, handler>>
    /\ UNCHANGED <<cache, garbage, slow, faults>>

LockAfterWait(r) ==
    /\ At(r, "wait")
    /\ TakeLock(r)
    /\ UNCHANGED <<cache, timers, garbage, slow, faults>>

LockWaitTimeout(r) ==
    /\ At(r, "wait") /\ handler[r].left = 0
    /\ lock # None
    /\ Goto(r, "serve")
    /\ UNCHANGED <<cache, locking, timers, garbage, slow, faults>>

(* Unlocking deletes the key, whoever has added it. *)
Unlock(h) ==
    /\ At(h, "unlock")
    /\ lock' = None /\ lockAge' = 0
    /\ IF h \in Requests THEN Goto(h, "serve") ELSE Become(h, Idle)
    /\ UNCHANGED <<cache, timers, garbage, slow, faults>>

LockExpires ==
    /\ lock # None /\ lockAge = LockTTL
    /\ lock' = None /\ lockAge' = 0
    /\ UNCHANGED <<cache, timers, handler, garbage, slow, faults>>

----------------------------------------------------------------------------
(* refresh_cache: the entries in turn *)

(* Mutant of RefreshNeeded: the wrong limit decides. *)
RefreshNeeded_HardLimit(e) == stamp[e] # None => stamp[e] > HardLimit

RefreshNeeded(e) == stamp[e] # None => stamp[e] > Expiration

NextEntry(h) ==
    Become(h, [handler[h] EXCEPT !.pc = "check", !.entry = @ + 1, !.left = 0, !.snap = 0])

Check(h) ==
    LET e == handler[h].entry IN
    /\ At(h, "check")
    /\ \/ e > NumEntries /\ Goto(h, "unlock")
       \/ /\ e <= NumEntries /\ RefreshNeeded(e)
          /\ Become(h, [handler[h] EXCEPT !.pc = "sent", !.left = AnswerTime])
       \/ e <= NumEntries /\ ~RefreshNeeded(e) /\ NextEntry(h)
    /\ UNCHANGED <<cache, locking, timers, garbage, slow, faults>>

(* The backend writes its state into the response ... *)
Answer(h) ==
    /\ At(h, "sent")
    /\ Goto(h, "answered")
    /\ UNCHANGED <<cache, locking, timers, garbage, slow, faults>>

(* ... which arrives. *)
Deliver(h) ==
    /\ At(h, "answered")
    /\ Goto(h, "store")
    /\ UNCHANGED <<cache, locking, timers, garbage, slow, faults>>

(* The backend keeps the client waiting: the timeout is one of every       *)
(* socket operation, and every byte that arrives starts it again.          *)
AnswerIsLate(h) ==
    /\ At(h, "sent") \/ At(h, "answered")
    /\ Fault
    /\ slow' = slow + 1
    /\ Become(h, [handler[h] EXCEPT !.left = RequestTimeout])
    /\ UNCHANGED <<cache, locking, timers, garbage>>

(* Mutant of EntryFails: the time is stored although the data was refused. *)
EntryFails_StillStamps(h) ==
    /\ handler[h].pc \in {"sent", "answered", "store", "stamp"}
    /\ Fault
    /\ IF At(h, "store") THEN Goto(h, "stamp") ELSE NextEntry(h)
    /\ UNCHANGED <<cache, locking, timers, garbage, slow>>

(* No response, not a usable one, or no room for the data or the time,     *)
(* after all: the entry is left to the next refresh.                       *)
EntryFails(h) ==
    /\ handler[h].pc \in {"sent", "answered", "store", "stamp"}
    /\ Fault
    /\ NextEntry(h)
    /\ UNCHANGED <<cache, locking, timers, garbage, slow>>

(* To make room the dictionary drops keys that were not used for long, one *)
(* after the other, or the key it replaces (`forcible' is ignored).        *)
StoreEvicts(h) ==
    /\ At(h, "store") \/ At(h, "stamp")
    /\ Fault
    /\ \E e \in Entries :
         \/ value[e] # None /\ value' = [value EXCEPT ![e] = None] /\ UNCHANGED stamp
         \/ stamp[e] # None /\ stamp' = [stamp EXCEPT ![e] = None] /\ UNCHANGED value
    /\ UNCHANGED <<locking, timers, handler, garbage, slow>>

StoreValue(h) ==
    /\ At(h, "store")
    /\ value' = [value EXCEPT ![handler[h].entry] = handler[h].snap]
    /\ Goto(h, "stamp")
    /\ UNCHANGED <<stamp, locking, timers, garbage, slow, faults>>

StoreStamp(h) ==
    /\ At(h, "stamp")
    /\ stamp' = [stamp EXCEPT ![handler[h].entry] = 0]
    /\ NextEntry(h)
    /\ UNCHANGED <<value, locking, timers, garbage, slow, faults>>

----------------------------------------------------------------------------
(* get_cache_entry *)

(* Mutant of Request: the request gives up like a timer when the lock is taken. *)
Request_NoWait(r) ==
    /\ At(r, "idle")
    /\ \E e \in Entries :
         Become(r, IF stamp[e] = None /\ lock = None
                   THEN [Idle EXCEPT !.pc = "wait", !.left = LockTimeout, !.name = e]
                   ELSE [Idle EXCEPT !.pc = "serve", !.name = e])
    /\ UNCHANGED <<cache, locking, timers, garbage, slow, faults>>

(* Only a request that finds no time for its entry refreshes the cache. *)
Request(r) ==
    /\ At(r, "idle")
    /\ \E e \in Entries :
         Become(r, IF stamp[e] = None
                   THEN [Idle EXCEPT !.pc = "wait", !.left = LockTimeout, !.name = e]
                   ELSE [Idle EXCEPT !.pc = "serve", !.name = e])
    /\ UNCHANGED <<cache, locking, timers, garbage, slow, faults>>

(* The entry, or nil, is what the request goes on with. *)
Serve(r) ==
    /\ At(r, "serve")
    /\ Become(r, Idle)
    /\ UNCHANGED <<cache, locking, timers, garbage, slow, faults>>

(* A time without data is an error of the request's, as is none at all.    *)
Usable(e) == stamp[e] # None /\ stamp[e] <= HardLimit /\ value[e] # None

----------------------------------------------------------------------------
(* Failures *)

(* A Lua error ends the handler, which leaves its lock to the collector.   *)
HandlerAborts(h) ==
    /\ handler[h].pc \in Refreshing
    /\ Fault
    /\ Become(h, Idle)
    /\ garbage' = [garbage EXCEPT ![WorkerOf[h]] = @ + 1]
    /\ UNCHANGED <<cache, locking, timers, slow>>

(* The collector deletes the key, whoever has added it since.              *)
GcLock(w) ==
    /\ garbage[w] > 0
    /\ Fault
    /\ garbage' = [garbage EXCEPT ![w] = @ - 1]
    /\ lock' = None /\ lockAge' = 0
    /\ UNCHANGED <<cache, timers, handler, slow>>

(* nginx starts another worker with timers of its own. *)
WorkerDies(w) ==
    /\ Fault
    /\ handler' = [h \in Handlers |->
                     IF WorkerOf[h] = w THEN Idle ELSE handler[h]]
    /\ poll' = [poll EXCEPT ![w] = FirstPollDelay]
    /\ first' = first \cup {w}
    /\ garbage' = [garbage EXCEPT ![w] = 0]
    /\ UNCHANGED <<cache, locking, slow>>

----------------------------------------------------------------------------
(* Time passes when nothing is left to be done at once. *)
Waiting(h) ==
    \/ At(h, "sent") \/ At(h, "answered")
    \/ At(h, "wait") /\ lock # None

Tick ==
    /\ \A h \in Handlers : At(h, "idle") \/ (Waiting(h) /\ handler[h].left > 0)
    /\ \A w \in Workers : poll[w] > 0
    /\ lock # None => lockAge < LockTTL
    /\ value' = [e \in Entries |-> Older(value[e], HardLimit + MaxSnap)]
    /\ stamp' = [e \in Entries |-> Older(stamp[e], HardLimit)]
    /\ lockAge' = IF lock = None THEN 0 ELSE lockAge + 1
    /\ poll' = [w \in Workers |-> poll[w] - 1]
    /\ handler' = [h \in Handlers |->
                     IF At(h, "idle") THEN Idle
                     ELSE [handler[h] EXCEPT !.left = @ - 1,
                                             !.snap = IF At(h, "answered") THEN @ + 1 ELSE @]]
    /\ UNCHANGED <<lock, first, garbage, slow, faults>>

Refresh(h) ==
    \/ Check(h) \/ Answer(h) \/ Deliver(h) \/ AnswerIsLate(h) \/ EntryFails(h)
    \/ StoreEvicts(h) \/ StoreValue(h) \/ StoreStamp(h) \/ Unlock(h) \/ HandlerAborts(h)

Next ==
    \/ \E w \in Workers : TimerFires(w) \/ WorkerDies(w) \/ GcLock(w)
    \/ \E r \in Requests : Request(r) \/ LockAfterWait(r) \/ LockWaitTimeout(r) \/ Serve(r)
    \/ \E h \in Handlers : Refresh(h)
    \/ LockExpires
    \/ Tick

Spec == Init /\ [][Next]_vars
----------------------------------------------------------------------------
(* How long the answers of all the components take together; when this is  *)
(* more than the lock lasts, two handlers may refresh at a time.           *)
RefreshTime == NumEntries * AnswerTime + slow * RequestTimeout

(* The longest a backend request can have taken. *)
Late == AnswerTime + slow * RequestTimeout

(* Even when two handlers refresh at a time, and data or times are dropped *)
(* between the two writes of either, the data a request is given are older *)
(* than their time says by one backend request at most.                    *)
DataAgeKnown == \A e \in Entries : Usable(e) => value[e] <= stamp[e] + Late

(* While the backends answer, the timers keep every entry below the hard   *)
(* limit: a timer that finds the entry not yet expired leaves it for a     *)
(* period, then its turn comes last.                                       *)
(* A failure, or a lock deleted under its holder, costs a period, and the  *)
(* time the lock takes to expire if it was left locked.                    *)
EntriesAreRefreshed ==
    \A e \in Entries : stamp[e] # None =>
        stamp[e] <= Expiration + PollPeriod + RefreshTime + faults * (LockTTL + PollPeriod)

(* "That code path must be kept explicit, regularly exercised, and         *)
(* well-tested" (cache.lua:48): while nothing fails, a request that comes  *)
(* before the first refresh ends with the entry it asked for, time and     *)
(* data, and so does every later one.                                      *)
EarlyRequestServed ==
    \A r \in Requests : At(r, "serve") /\ faults = 0 => Usable(handler[r].name)
=============================================================================
