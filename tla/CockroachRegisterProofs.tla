----------------------- MODULE CockroachRegisterProofs -----------------------
(***************************************************************************)
(* What holds of CockroachRegister for any set of masters and any number   *)
(* of crashes, as long as no session of a living process expires.          *)
(***************************************************************************)
EXTENDS CockroachRegister, TLAPS

Seeded(list) == \E m \in list : store[m] # None

Registered == {"release", "dump_locked", "release_last", "dump", "exec", "serving"}

(* Whoever is inside the lock's block owns the lock. *)
LockInv == \A n \in Nodes : pc[n] \in Locked => lock = n /\ ~orphaned

(* CockroachDB only runs without --join inside the block. *)
ChildInv == \A n \in child : pc[n] \in {"init_wait", "init_stop"}

(* A list that is about to be written back is the current one. *)
FreshInv == \A n \in Nodes : pc[n] = "reg_write" => nodes[n] = zkNodes

(* The first node to register has created a cluster. *)
SeedInv ==
    /\ zkNodes # {} => Seeded(zkNodes)
    /\ \A n \in Nodes :
         /\ pc[n] = "acquire" /\ way[n] = "join" => zkNodes # {}
         /\ pc[n] \in {"reg_read", "reg_write"} => zkNodes # {} \/ store[n] # None
         /\ pc[n] = "init_stop" => store[n] # None

(* The list that is dumped, and then the file, is good to join with. *)
ListInv ==
    \A n \in Nodes :
        /\ pc[n] \in {"release", "dump_locked", "dump"} => n \in nodes[n] /\ Seeded(nodes[n])
        /\ pc[n] \in {"release_last", "exec"} => n \in file[n] /\ Seeded(file[n])

MemberInv == \A n \in Nodes : pc[n] \in Registered => n \in zkNodes

IInv ==
    /\ TypeOK
    /\ LockInv /\ ChildInv /\ FreshInv /\ SeedInv /\ ListInv /\ MemberInv
----------------------------------------------------------------------------
LEMMA InitInv == Init => IInv
<1> SUFFICES ASSUME Init PROVE IInv
  OBVIOUS
<1> QED
  BY RegisterAssumption DEF Init, IInv, TypeOK, Steps, Locked, LockInv, ChildInv,
     FreshInv, SeedInv, ListInv, MemberInv, Registered

LEMMA ReadStep ==
  ASSUME IInv, NEW n \in Nodes, Read(n)
  PROVE  IInv'
<1> USE RegisterAssumption DEF IInv, Read, Goto, GetRegisteredNodes, DumpNodes, zk, data, counters
<1>1. TypeOK'
  BY DEF TypeOK, Steps, Locked
<1>2. LockInv'
  BY DEF TypeOK, LockInv, Locked
<1>3. ChildInv'
  BY DEF TypeOK, ChildInv, LockInv, Locked
<1>4. FreshInv'
  BY DEF TypeOK, FreshInv, LockInv, Locked
<1>5. SeedInv'
  BY DEF TypeOK, SeedInv, FreshInv, LockInv, Locked, Seeded
<1>6. ListInv'
  BY DEF TypeOK, ListInv, SeedInv, FreshInv, Seeded
<1>7. MemberInv'
  BY DEF TypeOK, MemberInv, LockInv, FreshInv, Locked, Registered
<1> QED
  BY <1>1, <1>2, <1>3, <1>4, <1>5, <1>6, <1>7 DEF IInv

LEMMA AcquireStep ==
  ASSUME IInv, NEW n \in Nodes, Acquire(n)
  PROVE  IInv'
<1> USE RegisterAssumption DEF IInv, Acquire, Goto, GetRegisteredNodes, DumpNodes, zk, data, counters
<1>1. TypeOK'
  BY DEF TypeOK, Steps, Locked
<1>2. LockInv'
  BY DEF TypeOK, LockInv, Locked
<1>3. ChildInv'
  BY DEF TypeOK, ChildInv, LockInv, Locked
<1>4. FreshInv'
  BY DEF TypeOK, FreshInv, LockInv, Locked
<1>5. SeedInv'
  BY DEF TypeOK, SeedInv, FreshInv, LockInv, Locked, Seeded
<1>6. ListInv'
  BY DEF TypeOK, ListInv, SeedInv, FreshInv, Seeded
<1>7. MemberInv'
  BY DEF TypeOK, MemberInv, LockInv, FreshInv, Locked, Registered
<1> QED
  BY <1>1, <1>2, <1>3, <1>4, <1>5, <1>6, <1>7 DEF IInv

LEMMA AcquireTimeoutStep ==
  ASSUME IInv, NEW n \in Nodes, AcquireTimeout(n)
  PROVE  IInv'
<1> USE RegisterAssumption DEF IInv, AcquireTimeout, Goto, GetRegisteredNodes, DumpNodes, zk, data, counters
<1>1. TypeOK'
  BY DEF TypeOK, Steps, Locked
<1>2. LockInv'
  BY DEF TypeOK, LockInv, Locked
<1>3. ChildInv'
  BY DEF TypeOK, ChildInv, LockInv, Locked
<1>4. FreshInv'
  BY DEF TypeOK, FreshInv, LockInv, Locked
<1>5. SeedInv'
  BY DEF TypeOK, SeedInv, FreshInv, LockInv, Locked, Seeded
<1>6. ListInv'
  BY DEF TypeOK, ListInv, SeedInv, FreshInv, Seeded
<1>7. MemberInv'
  BY DEF TypeOK, MemberInv, LockInv, FreshInv, Locked, Registered
<1> QED
  BY <1>1, <1>2, <1>3, <1>4, <1>5, <1>6, <1>7 DEF IInv

LEMMA CheckStep ==
  ASSUME IInv, NEW n \in Nodes, Check(n)
  PROVE  IInv'
<1> USE RegisterAssumption DEF IInv, Check, Goto, GetRegisteredNodes, DumpNodes, zk, data, counters
<1>1. TypeOK'
  BY DEF TypeOK, Steps, Locked
<1>2. LockInv'
  BY DEF TypeOK, LockInv, Locked
<1>3. ChildInv'
  BY DEF TypeOK, ChildInv, LockInv, Locked
<1>4. FreshInv'
  BY DEF TypeOK, FreshInv, LockInv, Locked
<1>5. SeedInv'
  BY DEF TypeOK, SeedInv, FreshInv, LockInv, Locked, Seeded
<1>6. ListInv'
  BY DEF TypeOK, ListInv, SeedInv, FreshInv, Seeded
<1>7. MemberInv'
  BY DEF TypeOK, MemberInv, LockInv, FreshInv, Locked, Registered
<1> QED
  BY <1>1, <1>2, <1>3, <1>4, <1>5, <1>6, <1>7 DEF IInv

LEMMA StartWithoutJoinStep ==
  ASSUME IInv, NEW n \in Nodes, StartWithoutJoin(n)
  PROVE  IInv'
<1> USE RegisterAssumption DEF IInv, StartWithoutJoin, Goto, GetRegisteredNodes, DumpNodes, zk, data, counters
<1>1. TypeOK'
  BY DEF TypeOK, Steps, Locked
<1>2. LockInv'
  BY DEF TypeOK, LockInv, Locked
<1>3. ChildInv'
  BY DEF TypeOK, ChildInv, LockInv, Locked
<1>4. FreshInv'
  BY DEF TypeOK, FreshInv, LockInv, Locked
<1>5. SeedInv'
  BY DEF TypeOK, SeedInv, FreshInv, LockInv, Locked, Seeded
<1>6. ListInv'
  BY DEF TypeOK, ListInv, SeedInv, FreshInv, Seeded
<1>7. MemberInv'
  BY DEF TypeOK, MemberInv, LockInv, FreshInv, Locked, Registered
<1> QED
  BY <1>1, <1>2, <1>3, <1>4, <1>5, <1>6, <1>7 DEF IInv

LEMMA CreateClusterStep ==
  ASSUME IInv, NEW n \in Nodes, CreateCluster(n)
  PROVE  IInv'
<1> USE RegisterAssumption DEF IInv, CreateCluster, Goto, GetRegisteredNodes, DumpNodes, zk, data, counters
<1>1. TypeOK'
  BY DEF TypeOK, Steps, Locked
<1>2. LockInv'
  BY DEF TypeOK, LockInv, Locked
<1>3. ChildInv'
  BY DEF TypeOK, ChildInv, LockInv, Locked
<1>4. FreshInv'
  BY DEF TypeOK, FreshInv, LockInv, Locked
<1>5. SeedInv'
  BY DEF TypeOK, SeedInv, FreshInv, LockInv, Locked, Seeded
<1>6. ListInv'
  BY DEF TypeOK, ListInv, SeedInv, FreshInv, Seeded
<1>7. MemberInv'
  BY DEF TypeOK, MemberInv, LockInv, FreshInv, Locked, Registered
<1> QED
  BY <1>1, <1>2, <1>3, <1>4, <1>5, <1>6, <1>7 DEF IInv

LEMMA ClusterIdSeenStep ==
  ASSUME IInv, NEW n \in Nodes, ClusterIdSeen(n)
  PROVE  IInv'
<1> USE RegisterAssumption DEF IInv, ClusterIdSeen, Goto, GetRegisteredNodes, DumpNodes, zk, data, counters
<1>1. TypeOK'
  BY DEF TypeOK, Steps, Locked
<1>2. LockInv'
  BY DEF TypeOK, LockInv, Locked
<1>3. ChildInv'
  BY DEF TypeOK, ChildInv, LockInv, Locked
<1>4. FreshInv'
  BY DEF TypeOK, FreshInv, LockInv, Locked
<1>5. SeedInv'
  BY DEF TypeOK, SeedInv, FreshInv, LockInv, Locked, Seeded
<1>6. ListInv'
  BY DEF TypeOK, ListInv, SeedInv, FreshInv, Seeded
<1>7. MemberInv'
  BY DEF TypeOK, MemberInv, LockInv, FreshInv, Locked, Registered
<1> QED
  BY <1>1, <1>2, <1>3, <1>4, <1>5, <1>6, <1>7 DEF IInv

LEMMA StopBootstrapStep ==
  ASSUME IInv, NEW n \in Nodes, StopBootstrap(n)
  PROVE  IInv'
<1> USE RegisterAssumption DEF IInv, StopBootstrap, Goto, GetRegisteredNodes, DumpNodes, zk, data, counters
<1>1. TypeOK'
  BY DEF TypeOK, Steps, Locked
<1>2. LockInv'
  BY DEF TypeOK, LockInv, Locked
<1>3. ChildInv'
  BY DEF TypeOK, ChildInv, LockInv, Locked
<1>4. FreshInv'
  BY DEF TypeOK, FreshInv, LockInv, Locked
<1>5. SeedInv'
  BY DEF TypeOK, SeedInv, FreshInv, LockInv, Locked, Seeded
<1>6. ListInv'
  BY DEF TypeOK, ListInv, SeedInv, FreshInv, Seeded
<1>7. MemberInv'
  BY DEF TypeOK, MemberInv, LockInv, FreshInv, Locked, Registered
<1> QED
  BY <1>1, <1>2, <1>3, <1>4, <1>5, <1>6, <1>7 DEF IInv

LEMMA RegisterReadStep ==
  ASSUME IInv, NEW n \in Nodes, RegisterRead(n)
  PROVE  IInv'
<1> USE RegisterAssumption DEF IInv, RegisterRead, Goto, GetRegisteredNodes, DumpNodes, zk, data, counters
<1>1. TypeOK'
  BY DEF TypeOK, Steps, Locked
<1>2. LockInv'
  BY DEF TypeOK, LockInv, Locked
<1>3. ChildInv'
  BY DEF TypeOK, ChildInv, LockInv, Locked
<1>4. FreshInv'
  BY DEF TypeOK, FreshInv, LockInv, Locked
<1>5. SeedInv'
  BY DEF TypeOK, SeedInv, FreshInv, LockInv, Locked, Seeded
<1>6. ListInv'
  BY DEF TypeOK, ListInv, SeedInv, FreshInv, Seeded
<1>7. MemberInv'
  BY DEF TypeOK, MemberInv, LockInv, FreshInv, Locked, Registered
<1> QED
  BY <1>1, <1>2, <1>3, <1>4, <1>5, <1>6, <1>7 DEF IInv

LEMMA RegisterWriteStep ==
  ASSUME IInv, NEW n \in Nodes, RegisterWrite(n)
  PROVE  IInv'
<1> USE RegisterAssumption DEF IInv, RegisterWrite, Goto, GetRegisteredNodes, DumpNodes, zk, data, counters
<1>1. TypeOK'
  BY DEF TypeOK, Steps, Locked
<1>2. LockInv'
  BY DEF TypeOK, LockInv, Locked
<1>3. ChildInv'
  BY DEF TypeOK, ChildInv, LockInv, Locked
<1>4. FreshInv'
  BY DEF TypeOK, FreshInv, LockInv, Locked
<1>5. SeedInv'
  BY DEF TypeOK, SeedInv, FreshInv, LockInv, Locked, Seeded
<1>6. ListInv'
  BY DEF TypeOK, ListInv, SeedInv, FreshInv, Seeded
<1>7. MemberInv'
  BY DEF TypeOK, MemberInv, LockInv, FreshInv, Locked, Registered
<1> QED
  BY <1>1, <1>2, <1>3, <1>4, <1>5, <1>6, <1>7 DEF IInv

LEMMA DumpStep ==
  ASSUME IInv, NEW n \in Nodes, Dump(n)
  PROVE  IInv'
<1> USE RegisterAssumption DEF IInv, Dump, Goto, GetRegisteredNodes, DumpNodes, zk, data, counters
<1>1. TypeOK'
  BY DEF TypeOK, Steps, Locked
<1>2. LockInv'
  BY DEF TypeOK, LockInv, Locked
<1>3. ChildInv'
  BY DEF TypeOK, ChildInv, LockInv, Locked
<1>4. FreshInv'
  BY DEF TypeOK, FreshInv, LockInv, Locked
<1>5. SeedInv'
  BY DEF TypeOK, SeedInv, FreshInv, LockInv, Locked, Seeded
<1>6. ListInv'
  BY DEF TypeOK, ListInv, SeedInv, FreshInv, Seeded
<1>7. MemberInv'
  BY DEF TypeOK, MemberInv, LockInv, FreshInv, Locked, Registered
<1> QED
  BY <1>1, <1>2, <1>3, <1>4, <1>5, <1>6, <1>7 DEF IInv

LEMMA ReleaseStep ==
  ASSUME IInv, NEW n \in Nodes, Release(n)
  PROVE  IInv'
<1> USE RegisterAssumption DEF IInv, Release, Goto, GetRegisteredNodes, DumpNodes, zk, data, counters
<1>1. TypeOK'
  BY DEF TypeOK, Steps, Locked
<1>2. LockInv'
  BY DEF TypeOK, LockInv, Locked
<1>3. ChildInv'
  BY DEF TypeOK, ChildInv, LockInv, Locked
<1>4. FreshInv'
  BY DEF TypeOK, FreshInv, LockInv, Locked
<1>5. SeedInv'
  BY DEF TypeOK, SeedInv, FreshInv, LockInv, Locked, Seeded
<1>6. ListInv'
  BY DEF TypeOK, ListInv, SeedInv, FreshInv, Seeded
<1>7. MemberInv'
  BY DEF TypeOK, MemberInv, LockInv, FreshInv, Locked, Registered
<1> QED
  BY <1>1, <1>2, <1>3, <1>4, <1>5, <1>6, <1>7 DEF IInv

LEMMA StartWithJoinStep ==
  ASSUME IInv, NEW n \in Nodes, StartWithJoin(n)
  PROVE  IInv'
<1> USE RegisterAssumption DEF IInv, StartWithJoin, Goto, GetRegisteredNodes, DumpNodes, zk, data, counters
<1>1. TypeOK'
  BY DEF TypeOK, Steps, Locked
<1>2. LockInv'
  BY DEF TypeOK, LockInv, Locked
<1>3. ChildInv'
  BY DEF TypeOK, ChildInv, LockInv, Locked
<1>4. FreshInv'
  BY DEF TypeOK, FreshInv, LockInv, Locked
<1>5. SeedInv'
  BY DEF TypeOK, SeedInv, FreshInv, LockInv, Locked, Seeded
<1>6. ListInv'
  BY DEF TypeOK, ListInv, SeedInv, FreshInv, Seeded
<1>7. MemberInv'
  BY DEF TypeOK, MemberInv, LockInv, FreshInv, Locked, Registered
<1> QED
  BY <1>1, <1>2, <1>3, <1>4, <1>5, <1>6, <1>7 DEF IInv

LEMMA CrashStep ==
  ASSUME IInv, NEW n \in Nodes, Crash(n)
  PROVE  IInv'
<1> USE RegisterAssumption DEF IInv, Crash, Goto, GetRegisteredNodes, DumpNodes, zk, data, counters
<1>1. TypeOK'
  BY DEF TypeOK, Steps, Locked
<1>2. LockInv'
  BY DEF TypeOK, LockInv, Locked
<1>3. ChildInv'
  BY DEF TypeOK, ChildInv, LockInv, Locked
<1>4. FreshInv'
  BY DEF TypeOK, FreshInv, LockInv, Locked
<1>5. SeedInv'
  BY DEF TypeOK, SeedInv, FreshInv, LockInv, Locked, Seeded
<1>6. ListInv'
  BY DEF TypeOK, ListInv, SeedInv, FreshInv, Seeded
<1>7. MemberInv'
  BY DEF TypeOK, MemberInv, LockInv, FreshInv, Locked, Registered
<1> QED
  BY <1>1, <1>2, <1>3, <1>4, <1>5, <1>6, <1>7 DEF IInv

LEMMA OrphanExpiresStep ==
  ASSUME IInv, OrphanExpires
  PROVE  IInv'
<1> QED
  BY DEF IInv, OrphanExpires, data, counters, TypeOK, LockInv, ChildInv, FreshInv,
     SeedInv, ListInv, MemberInv, Seeded, Locked

LEMMA StutterStep ==
  ASSUME IInv, UNCHANGED vars
  PROVE  IInv'
<1> QED
  BY DEF IInv, vars, zk, data, counters, TypeOK, LockInv, ChildInv, FreshInv,
     SeedInv, ListInv, MemberInv, Seeded

----------------------------------------------------------------------------
(* The inductive invariant holds in every reachable state. *)
THEOREM Invariance == StableSpec => []IInv
<1>1. Init => IInv
  BY InitInv
<1>2. IInv /\ [StableNext]_vars => IInv'
  <2> SUFFICES ASSUME IInv, [StableNext]_vars PROVE IInv'
    OBVIOUS
  <2>1. ASSUME NEW n \in Nodes, Step(n) PROVE IInv'
    BY <2>1, ReadStep, AcquireStep, AcquireTimeoutStep, CheckStep, StartWithoutJoinStep, CreateClusterStep, ClusterIdSeenStep, StopBootstrapStep, RegisterReadStep, RegisterWriteStep, DumpStep, ReleaseStep, StartWithJoinStep DEF Step
  <2>2. ASSUME NEW n \in Nodes, Crash(n) PROVE IInv'
    BY <2>2, CrashStep
  <2>3. CASE OrphanExpires
    BY <2>3, OrphanExpiresStep
  <2>4. CASE UNCHANGED vars
    BY <2>4, StutterStep
  <2> QED
    BY <2>1, <2>2, <2>3, <2>4 DEF StableNext
<1> QED
  BY <1>1, <1>2, PTL DEF StableSpec

(* Every variable keeps to its type, for any set of masters. *)
THEOREM TypeCorrect == StableSpec => []TypeOK
<1>1. IInv => TypeOK
  BY DEF IInv
<1> QED
  BY <1>1, Invariance, PTL

(* No two nodes run CockroachDB without --join at the same time. *)
THEOREM OneBootstrapAtATime == StableSpec => []OneBootstrap
<1>1. IInv => OneBootstrap
  <2> SUFFICES ASSUME IInv, NEW m \in child, NEW n \in child PROVE m = n
    BY DEF OneBootstrap
  <2>1. m \in Nodes /\ n \in Nodes
    BY DEF IInv, TypeOK
  <2>2. pc[m] \in Locked /\ pc[n] \in Locked
    BY DEF IInv, ChildInv, Locked
  <2> QED
    BY <2>1, <2>2 DEF IInv, LockInv
<1> QED
  BY <1>1, Invariance, PTL

(* Every list a node starts CockroachDB with is usable. *)
THEOREM JoinListsUsable == StableSpec => []JoinListUsable
<1>1. IInv => JoinListUsable
  BY DEF IInv, ListInv, Seeded, JoinListUsable
<1> QED
  BY <1>1, Invariance, PTL

(* A node that has created a cluster holds the lock until it is the first  *)
(* on the list; whoever else has data has joined a node that had some.     *)
ClusterInv ==
    /\ \A n \in Nodes :
         /\ store[n] # None =>
              n \in zkNodes \/ (zkNodes = {} /\ pc[n] \in {"init_wait", "init_stop",
                                                           "reg_read", "reg_write"})
         /\ pc[n] \in {"init", "init_wait", "init_stop"} => zkNodes = {}
    /\ \A m, n \in Nodes : store[m] # None /\ store[n] # None => store[m] = store[n]

LEMMA InitClusterInv == Init => ClusterInv
  BY DEF Init, ClusterInv

LEMMA ClusterInvStep ==
  ASSUME IInv, ClusterInv, NEW n \in Nodes, Step(n)
  PROVE  ClusterInv'
<1> USE RegisterAssumption DEF Goto, GetRegisteredNodes, DumpNodes, zk, data, counters
<1>1. CASE Read(n)
  BY <1>1 DEF Read, ClusterInv, IInv, TypeOK
<1>2. CASE Acquire(n)
  BY <1>2 DEF Acquire, ClusterInv, IInv, TypeOK
<1>3. CASE AcquireTimeout(n)
  BY <1>3 DEF AcquireTimeout, ClusterInv, IInv, TypeOK
<1>4. CASE Check(n)
  BY <1>4 DEF Check, ClusterInv, IInv, TypeOK
<1>5. CASE StartWithoutJoin(n)
  BY <1>5 DEF StartWithoutJoin, ClusterInv, IInv, TypeOK
<1>6. CASE CreateCluster(n)
  <2>1. pc[n] \in {"init_wait", "init_stop"} /\ zkNodes = {}
    BY <1>6 DEF CreateCluster, IInv, ChildInv, ClusterInv
  <2>2. \A m \in Nodes \ {n} : store[m] = None
    BY <2>1 DEF IInv, LockInv, Locked, ClusterInv
  <2> QED BY <1>6, <2>1, <2>2 DEF CreateCluster, ClusterInv, IInv, TypeOK
<1>7. CASE ClusterIdSeen(n)
  BY <1>7 DEF ClusterIdSeen, ClusterInv, IInv, TypeOK
<1>8. CASE StopBootstrap(n)
  BY <1>8 DEF StopBootstrap, ClusterInv, IInv, TypeOK
<1>9. CASE RegisterRead(n)
  BY <1>9 DEF RegisterRead, ClusterInv, IInv, TypeOK
<1>10. CASE RegisterWrite(n)
  <2>1. \A m \in Nodes \ {n} : /\ store[m] # None => m \in zkNodes
                               /\ pc[m] \notin {"init", "init_wait", "init_stop"}
    BY <1>10 DEF RegisterWrite, IInv, LockInv, Locked, ClusterInv
  <2>2. zkNodes' = zkNodes \cup {n} /\ pc'[n] \in {"release", "dump_locked"}
    BY <1>10 DEF RegisterWrite, IInv, TypeOK, FreshInv
  <2> QED BY <1>10, <2>1, <2>2 DEF RegisterWrite, ClusterInv, IInv, TypeOK
<1>11. CASE Dump(n)
  BY <1>11 DEF Dump, ClusterInv, IInv, TypeOK
<1>12. CASE Release(n)
  BY <1>12 DEF Release, ClusterInv, IInv, TypeOK
<1>13. CASE StartWithJoin(n)
  <2>1. n \in zkNodes
    BY <1>13 DEF StartWithJoin, IInv, MemberInv, Registered
  <2>2. store' = store \/ (store[n] = None /\ \E m \in Nodes :
             store[m] # None /\ store' = [store EXCEPT ![n] = store[m]])
    BY <1>13 DEF StartWithJoin, IInv, TypeOK
  <2> QED BY <1>13, <2>1, <2>2 DEF StartWithJoin, ClusterInv, IInv, TypeOK
<1> QED
  BY <1>1, <1>2, <1>3, <1>4, <1>5, <1>6, <1>7, <1>8, <1>9, <1>10, <1>11, <1>12, <1>13 DEF Step

(* While no program dies, all the data of the masters are of one cluster:  *)
(* nobody starts without --join who does not hold the lock over an empty   *)
(* list (_init_cockroachdb_cluster, _register_cluster_membership).         *)
THEOREM DataOfOneCluster == StableSpec => []OneCluster
<1>1. IInv /\ (crashes = 0 => ClusterInv) /\ [StableNext]_vars => (crashes = 0 => ClusterInv)'
  <2> SUFFICES ASSUME IInv, crashes = 0 => ClusterInv, [StableNext]_vars, crashes' = 0
               PROVE  ClusterInv'
    OBVIOUS
  <2>1. CASE UNCHANGED vars
    BY <2>1 DEF vars, zk, data, counters, ClusterInv
  <2>2. ASSUME NEW n \in Nodes, Step(n)
        PROVE  ClusterInv'
    <3>1. crashes = 0
      BY <2>2 DEF Step, Read, Acquire, AcquireTimeout, Check, StartWithoutJoin, CreateCluster,
         ClusterIdSeen, StopBootstrap, RegisterRead, RegisterWrite, Dump, Release,
         StartWithJoin, counters
    <3> QED BY <2>2, <3>1, ClusterInvStep
  <2>3. ASSUME NEW n \in Nodes, Crash(n)
        PROVE  FALSE
    BY <2>3 DEF Crash, IInv, TypeOK
  <2>4. CASE OrphanExpires
    BY <2>4 DEF OrphanExpires, data, counters, ClusterInv
  <2> QED BY <2>1, <2>2, <2>3, <2>4 DEF StableNext
<1>2. StableSpec => [](crashes = 0 => ClusterInv)
  BY <1>1, InitClusterInv, Invariance, PTL DEF StableSpec
<1>3. IInv /\ (crashes = 0 => ClusterInv) => OneCluster
  BY DEF IInv, TypeOK, ClusterInv, OneCluster
<1> QED
  BY <1>2, <1>3, Invariance, PTL

LEMMA MembersStay ==
  ASSUME IInv, [StableNext]_vars
  PROVE  zkNodes \subseteq zkNodes'
<1>1. CASE \E n \in Nodes : RegisterWrite(n)
  BY <1>1 DEF RegisterWrite, IInv, FreshInv
<1>2. CASE UNCHANGED zkNodes
  BY <1>2
<1>3. (\E n \in Nodes : RegisterWrite(n)) \/ UNCHANGED zkNodes
  BY DEF StableNext, vars, zk, Step, Read, Acquire, AcquireTimeout, Check, StartWithoutJoin, CreateCluster, ClusterIdSeen, StopBootstrap, RegisterRead, Dump, Release, StartWithJoin, Crash, OrphanExpires
<1> QED
  BY <1>1, <1>2, <1>3

(* No registration is ever lost, although each one writes the whole list. *)
THEOREM RegistrationsStay == StableSpec => MembersNeverLost
<1>1. IInv /\ [StableNext]_vars => [zkNodes \subseteq zkNodes']_vars
  BY MembersStay
<1> QED
  BY <1>1, Invariance, PTL DEF StableSpec, MembersNeverLost

LEMMA MembershipStep ==
  ASSUME IInv, [StableNext]_vars
  PROVE  [Membership!Next]_<<zkNodes, {n \in Nodes : pc[n] = "serving"}>>
<1> DEFINE serving == {n \in Nodes : pc[n] = "serving"}
<1>1. ASSUME NEW n \in Nodes, RegisterWrite(n) PROVE Membership!Join(n)
  <2>1. zkNodes' = zkNodes \cup {n}
    BY <1>1 DEF RegisterWrite, IInv, FreshInv
  <2>2. serving' = serving
    BY <1>1 DEF RegisterWrite, Goto, IInv, TypeOK
  <2> QED
    BY <2>1, <2>2 DEF Membership!Join
<1>2. ASSUME NEW n \in Nodes, StartWithJoin(n) PROVE Membership!Serve(n)
  <2>1. n \in zkNodes
    BY <1>2 DEF StartWithJoin, IInv, MemberInv, Registered
  <2>2. UNCHANGED zkNodes /\ serving' = serving \cup {n}
    BY <1>2 DEF StartWithJoin, Goto, zk, IInv, TypeOK
  <2> QED
    BY <2>1, <2>2 DEF Membership!Serve
<1>3. ASSUME NEW n \in Nodes, Crash(n) PROVE Membership!Stop(n)
  <2>1. UNCHANGED zkNodes /\ serving' = serving \ {n}
    BY <1>3 DEF Crash, Goto, IInv, TypeOK
  <2> QED
    BY <2>1 DEF Membership!Stop
<1>4. ASSUME NEW n \in Nodes, Step(n), ~RegisterWrite(n), ~StartWithJoin(n)
      PROVE  UNCHANGED <<zkNodes, serving>>
  BY <1>4 DEF Step, Goto, zk, IInv, TypeOK, Read, Acquire, AcquireTimeout, Check, StartWithoutJoin, CreateCluster, ClusterIdSeen, StopBootstrap, RegisterRead, Dump, Release
<1>5. ASSUME OrphanExpires \/ UNCHANGED vars PROVE UNCHANGED <<zkNodes, serving>>
  BY <1>5 DEF OrphanExpires, vars, zk
<1> QED
  BY <1>1, <1>2, <1>3, <1>4, <1>5 DEF StableNext, Membership!Next

(* The program implements the abstract membership list. *)
THEOREM Implementation == StableSpec => ImplementsMembership
<1>1. Init => Membership!Init
  BY DEF Init, Membership!Init
<1>2. IInv /\ [StableNext]_vars
      => [Membership!Next]_<<zkNodes, {n \in Nodes : pc[n] = "serving"}>>
  BY MembershipStep
<1> QED
  BY <1>1, <1>2, Invariance, PTL DEF StableSpec, ImplementsMembership, Membership!Spec
=============================================================================
