------------------------ MODULE EtcdDiscoveryProofs ------------------------
(***************************************************************************)
(* What holds of EtcdDiscovery for any set of masters and any number of    *)
(* crashes, replaced masters and leave-cluster commands.                   *)
(***************************************************************************)
EXTENDS EtcdDiscovery, FiniteSetTheorems, TLAPS

Lists == [nodes : SUBSET Nodes, new : BOOLEAN]

TypeOK ==
    /\ zkNodes \subseteq Nodes
    /\ lock \in {None} \cup ({"join", "leave"} \X Nodes) /\ orphaned \in BOOLEAN
    /\ members \in [Nodes -> [Nodes -> {"out", "added", "started"}]]
    /\ pc \in [Nodes -> Steps]
    /\ nodes \in [Nodes -> SUBSET Nodes] /\ fresh \in [Nodes -> BOOLEAN]
    /\ files \in [Nodes -> {None} \cup Lists]
    /\ dir \subseteq Nodes
    /\ data \in [Nodes -> {None} \cup Nodes]
    /\ leaving \in [Nodes -> {"no", "acquire"} \cup LeaveLocked]
    /\ left \in [Nodes -> SUBSET Nodes]
    /\ crashes \in Nat /\ losses \in Nat /\ leaves \in Nat

(* The lock is held by whoever is at a step that needs it. *)
LockInv ==
    /\ orphaned => crashes + losses > 0
    /\ \A n \in Nodes : pc[n] \in Locked => lock = <<"join", n>> /\ ~orphaned
    /\ \A x \in Nodes :
          /\ leaving[x] \in LeaveLocked => lock = <<"leave", x>> /\ ~orphaned
          /\ leaving[x] # "no" => leaves > 0

(* The list that is about to be written, or dumped, is the one in          *)
(* ZooKeeper, and only the first node takes itself for the first.          *)
ListInv ==
    /\ \A n \in Nodes :
          /\ pc[n] \in Locked \ {"read"} => nodes[n] = zkNodes
          /\ pc[n] \in {"dump", "release"} => n \in zkNodes
          /\ pc[n] \in Etcdctl => ~fresh[n]
          /\ pc[n] \in {"reg_read", "reg_write"} /\ fresh[n] => zkNodes = {}
          /\ pc[n] \in {"dump", "release"} /\ fresh[n] => zkNodes = {n}
    /\ \A x \in Nodes :
          /\ leaving[x] = "zk_write" => left[x] = zkNodes
          /\ leaving[x] \in {"members", "remove", "release"} => x \notin zkNodes

(* What is on the disk of a node at each step. *)
DiskInv ==
    \A n \in Nodes :
        /\ n \in dir => files[n] # None
        /\ data[n] # None => n \in dir
        /\ pc[n] \in {"acquire", "exec"} \cup Locked => n \notin dir
        /\ pc[n] \in {"etcd"} \cup Up => n \in dir
        /\ pc[n] \in Up => data[n] # None
        /\ pc[n] \in {"release", "exec"} => files[n] # None
        /\ files[n] # None =>
              n \in files[n].nodes /\ (files[n].new => files[n].nodes = {n})

(* Node n is to initialise a cluster. *)
Founding(n) == files[n] # None /\ files[n].new /\ data[n] = None

(* Node n is to start etcd with the list in its files. *)
Listed(n) == data[n] = None /\ (n \in dir \/ pc[n] \in {"release", "exec"})

(* Those who have registered since node n found the list empty (S, and all *)
(* that are on their lists) are not in an earlier cluster of that name.    *)
SinceInv ==
    \A n \in Nodes : Founding(n) =>
        \E S \in SUBSET Nodes :
            /\ zkNodes \subseteq S
            /\ \A m \in S : data[m] # n /\ (Listed(m) => files[m].nodes \subseteq S)

(* A cluster with members is in the log of a node. *)
LogInv == \A c, n \in Nodes : members[c][n] # "out" => \E k \in Nodes : data[k] = c

(* Registered nodes with data are members. *)
RegisteredInv == \A n \in zkNodes : data[n] # None => members[data[n]][n] # "out"

(* While nothing fails, members are registered under the lock. *)
QuorumInv ==
    crashes + losses + leaves = 0 =>
        \A c, n \in Nodes : members[c][n] # "out" /\ n \notin zkNodes =>
            pc[n] \in {"reg_read", "reg_write"}

(* As long as no node has left, there is one founder and one cluster ... *)
FounderInv ==
    leaves = 0 =>
        /\ \A n \in Nodes : files[n] # None => n \in zkNodes /\ files[n].nodes \subseteq zkNodes
        /\ \A m, n \in Nodes : files[m] # None /\ files[n] # None /\ files[m].new /\ files[n].new => m = n
        /\ \A n \in Nodes : Founding(n) => \A m \in Nodes : data[m] = None
        /\ \A c, n \in Nodes : members[c][n] = "started" => n \in zkNodes
        /\ zkNodes = {} => \A c, n \in Nodes : members[c][n] = "out"

(* ... and a member without its data is removed before it starts.          *)
StartedInv ==
    leaves = 0 =>
        \A c, n \in Nodes : members[c][n] = "started" /\ data[n] = None =>
            pc[n] \in {"begin", "acquire", "read", "relist", "remove"} /\ n \notin dir

IInv ==
    /\ TypeOK /\ LockInv /\ ListInv /\ DiskInv /\ SinceInv /\ LogInv
    /\ RegisteredInv /\ QuorumInv /\ FounderInv /\ OneCluster /\ StartedInv
----------------------------------------------------------------------------
LEMMA InitInv == Init => IInv
<1> SUFFICES ASSUME Init
             PROVE  IInv
  OBVIOUS
<1> USE EtcdAssumption DEF Init
<1>1. TypeOK
  BY DEF TypeOK, Steps, LeaveLocked
<1>2. LockInv /\ ListInv /\ DiskInv
  BY DEF LockInv, ListInv, DiskInv, Locked, Etcdctl, Up, LeaveLocked
<1>3. SinceInv /\ LogInv /\ RegisteredInv /\ QuorumInv
  BY DEF SinceInv, LogInv, RegisteredInv, QuorumInv, Founding
<1>4. FounderInv /\ OneCluster /\ StartedInv
  BY DEF FounderInv, OneCluster, StartedInv, Founding
<1> QED
  BY <1>1, <1>2, <1>3, <1>4 DEF IInv

(* Steps that register nobody, write no file and give no node a log.       *)
LEMMA SinceKept ==
  ASSUME SinceInv, zkNodes' \subseteq zkNodes,
         \A m \in Nodes : /\ data'[m] \in {data[m], None}
                          /\ Listed(m)' => Listed(m) /\ files'[m] = files[m]
                          /\ Founding(m)' => Founding(m)
  PROVE  SinceInv'
<1> SUFFICES ASSUME NEW n \in Nodes, Founding(n)'
             PROVE  \E S \in SUBSET Nodes :
                       /\ zkNodes' \subseteq S
                       /\ \A m \in S : data'[m] # n /\ (Listed(m)' => files'[m].nodes \subseteq S)
  BY DEF SinceInv
<1>1. PICK S \in SUBSET Nodes :
         /\ zkNodes \subseteq S
         /\ \A m \in S : data[m] # n /\ (Listed(m) => files[m].nodes \subseteq S)
  BY DEF SinceInv
<1> QED
  BY <1>1, EtcdAssumption

LEMMA BeginStep ==
  ASSUME IInv, NEW n \in Nodes, Begin(n)
  PROVE  IInv'
<1> USE EtcdAssumption DEF IInv, Begin, zk, disk, leaver, counters, Goto
<1>1. TypeOK'
  BY DEF TypeOK, Locked, Etcdctl, Up, Steps, Lists, LeaveLocked
<1>2. LockInv'
  BY DEF LockInv, TypeOK, Locked, Etcdctl, Up, Steps, LeaveLocked
<1>3. ListInv'
  BY DEF ListInv, LockInv, TypeOK, Locked, Etcdctl, Up, Steps, LeaveLocked
<1>4. DiskInv'
  BY DEF DiskInv, TypeOK, Locked, Etcdctl, Up, Steps
<1>5. SinceInv'
  BY SinceKept DEF DiskInv, TypeOK, Founding, Listed, Locked, Etcdctl, Up, Steps
<1>6. QuorumInv'
  BY DEF QuorumInv, TypeOK
<1>7. StartedInv'
  BY DEF StartedInv, TypeOK, DiskInv, Locked, Etcdctl, Up, Steps
<1>8. LogInv' /\ RegisteredInv' /\ FounderInv' /\ OneCluster'
  BY DEF LogInv, RegisteredInv, FounderInv, OneCluster, Founding
<1> QED
  BY <1>1, <1>2, <1>3, <1>4, <1>5, <1>6, <1>7, <1>8

LEMMA AcquireStep ==
  ASSUME IInv, NEW n \in Nodes, Acquire(n)
  PROVE  IInv'
<1> USE EtcdAssumption DEF IInv, Acquire, zk, disk, leaver, counters, Goto
<1>1. TypeOK'
  BY DEF TypeOK, Locked, Etcdctl, Up, Steps, Lists, LeaveLocked
<1>2. LockInv'
  BY DEF LockInv, TypeOK, Locked, Etcdctl, Up, Steps, LeaveLocked
<1>3. ListInv'
  BY DEF ListInv, LockInv, TypeOK, Locked, Etcdctl, Up, Steps, LeaveLocked
<1>4. DiskInv'
  BY DEF DiskInv, TypeOK, Locked, Etcdctl, Up, Steps
<1>5. SinceInv'
  BY SinceKept DEF DiskInv, TypeOK, Founding, Listed, Locked, Etcdctl, Up, Steps
<1>6. QuorumInv'
  BY DEF QuorumInv, TypeOK
<1>7. StartedInv'
  BY DEF StartedInv, TypeOK, DiskInv, Locked, Etcdctl, Up, Steps
<1>8. LogInv' /\ RegisteredInv' /\ FounderInv' /\ OneCluster'
  BY DEF LogInv, RegisteredInv, FounderInv, OneCluster, Founding
<1> QED
  BY <1>1, <1>2, <1>3, <1>4, <1>5, <1>6, <1>7, <1>8

LEMMA AcquireTimeoutStep ==
  ASSUME IInv, NEW n \in Nodes, AcquireTimeout(n)
  PROVE  IInv'
<1> USE EtcdAssumption DEF IInv, AcquireTimeout, zk, disk, leaver, counters, Goto
<1>1. TypeOK'
  BY DEF TypeOK, Locked, Etcdctl, Up, Steps, Lists, LeaveLocked
<1>2. LockInv'
  BY DEF LockInv, TypeOK, Locked, Etcdctl, Up, Steps, LeaveLocked
<1>3. ListInv'
  BY DEF ListInv, LockInv, TypeOK, Locked, Etcdctl, Up, Steps, LeaveLocked
<1>4. DiskInv'
  BY DEF DiskInv, TypeOK, Locked, Etcdctl, Up, Steps
<1>5. SinceInv'
  BY SinceKept DEF DiskInv, TypeOK, Founding, Listed, Locked, Etcdctl, Up, Steps
<1>6. QuorumInv'
  BY DEF QuorumInv, TypeOK
<1>7. StartedInv'
  BY DEF StartedInv, TypeOK, DiskInv, Locked, Etcdctl, Up, Steps
<1>8. LogInv' /\ RegisteredInv' /\ FounderInv' /\ OneCluster'
  BY DEF LogInv, RegisteredInv, FounderInv, OneCluster, Founding
<1> QED
  BY <1>1, <1>2, <1>3, <1>4, <1>5, <1>6, <1>7, <1>8

LEMMA ReadStep ==
  ASSUME IInv, NEW n \in Nodes, Read(n)
  PROVE  IInv'
<1> USE EtcdAssumption DEF IInv, Read, zk, disk, leaver, counters, Goto
<1>1. TypeOK'
  BY DEF TypeOK, Locked, Etcdctl, Up, Steps, Lists, LeaveLocked
<1>2. LockInv'
  BY DEF LockInv, TypeOK, Locked, Etcdctl, Up, Steps, LeaveLocked
<1>3. ListInv'
  BY DEF ListInv, LockInv, TypeOK, Locked, Etcdctl, Up, Steps, LeaveLocked
<1>4. DiskInv'
  BY DEF DiskInv, TypeOK, Locked, Etcdctl, Up, Steps
<1>5. SinceInv'
  BY SinceKept DEF DiskInv, TypeOK, Founding, Listed, Locked, Etcdctl, Up, Steps
<1>6. QuorumInv'
  BY DEF QuorumInv, TypeOK
<1>7. StartedInv'
  BY DEF StartedInv, FounderInv, DiskInv, TypeOK, Locked, Etcdctl, Steps
<1>8. LogInv' /\ RegisteredInv' /\ FounderInv' /\ OneCluster'
  BY DEF LogInv, RegisteredInv, FounderInv, OneCluster, Founding
<1> QED
  BY <1>1, <1>2, <1>3, <1>4, <1>5, <1>6, <1>7, <1>8

LEMMA RegisterReadStep ==
  ASSUME IInv, NEW n \in Nodes, RegisterRead(n)
  PROVE  IInv'
<1> USE EtcdAssumption DEF IInv, RegisterRead, zk, disk, leaver, counters, Goto
<1>1. TypeOK'
  BY DEF TypeOK, Locked, Etcdctl, Up, Steps, Lists, LeaveLocked
<1>2. LockInv'
  BY DEF LockInv, TypeOK, Locked, Etcdctl, Up, Steps, LeaveLocked
<1>3. ListInv'
  BY DEF ListInv, LockInv, TypeOK, Locked, Etcdctl, Up, Steps, LeaveLocked
<1>4. DiskInv'
  BY DEF DiskInv, TypeOK, Locked, Etcdctl, Up, Steps
<1>5. SinceInv'
  BY SinceKept DEF DiskInv, TypeOK, Founding, Listed, Locked, Etcdctl, Up, Steps
<1>6. QuorumInv'
  BY DEF QuorumInv, TypeOK
<1>7. StartedInv'
  BY DEF StartedInv, TypeOK, DiskInv, Locked, Etcdctl, Up, Steps
<1>8. LogInv' /\ RegisteredInv' /\ FounderInv' /\ OneCluster'
  BY DEF LogInv, RegisteredInv, FounderInv, OneCluster, Founding
<1> QED
  BY <1>1, <1>2, <1>3, <1>4, <1>5, <1>6, <1>7, <1>8

LEMMA RegisterWriteStep ==
  ASSUME IInv, NEW n \in Nodes, RegisterWrite(n)
  PROVE  IInv'
<1> USE EtcdAssumption DEF IInv, RegisterWrite, zk, disk, leaver, counters, Goto
<1>1. TypeOK'
  BY DEF TypeOK, Locked, Etcdctl, Up, Steps, Lists, LeaveLocked
<1>2. LockInv'
  BY DEF LockInv, TypeOK, Locked, Etcdctl, Up, Steps, LeaveLocked
<1>3. ListInv'
  BY DEF ListInv, LockInv, TypeOK, Locked, Etcdctl, Up, Steps, LeaveLocked
<1>4. DiskInv'
  BY DEF DiskInv, TypeOK, Locked, Etcdctl, Up, Steps
<1>5. SinceInv'
  <2> SUFFICES ASSUME NEW m \in Nodes, Founding(m)'
               PROVE  \E S \in SUBSET Nodes :
                         /\ zkNodes' \subseteq S
                         /\ \A k \in S : data'[k] # m /\ (Listed(k)' => files'[k].nodes \subseteq S)
    BY DEF SinceInv
  <2>1. PICK S \in SUBSET Nodes :
           /\ zkNodes \subseteq S
           /\ \A k \in S : data[k] # m /\ (Listed(k) => files[k].nodes \subseteq S)
    BY DEF SinceInv, Founding
  <2>2. data[n] = None /\ ~ Listed(n)' /\ zkNodes' = zkNodes \cup {n}
    BY DEF DiskInv, ListInv, Listed, TypeOK, Locked
  <2>3. \A k \in Nodes \ {n} : Listed(k)' => Listed(k)
    BY DEF Listed, TypeOK
  <2> WITNESS S \cup {n} \in SUBSET Nodes
  <2> QED BY <2>1, <2>2, <2>3
<1>6. RegisteredInv'
  BY DEF RegisteredInv, ListInv, DiskInv, TypeOK, Locked
<1>7. QuorumInv'
  BY DEF QuorumInv, ListInv, TypeOK, Locked
<1>8. FounderInv'
  BY DEF FounderInv, Founding, ListInv, TypeOK, Locked
<1>9. StartedInv'
  BY DEF StartedInv, TypeOK, DiskInv, Locked, Etcdctl, Up, Steps
<1>10. LogInv' /\ OneCluster'
  BY DEF LogInv, OneCluster
<1> QED
  BY <1>1, <1>2, <1>3, <1>4, <1>5, <1>6, <1>7, <1>8, <1>9, <1>10

LEMMA DumpStep ==
  ASSUME IInv, NEW n \in Nodes, Dump(n)
  PROVE  IInv'
<1> USE EtcdAssumption DEF IInv, Dump, zk, disk, leaver, counters, Goto
<1>1. TypeOK'
  BY DEF TypeOK, Locked, Etcdctl, Up, Steps, Lists, LeaveLocked
<1>2. LockInv'
  BY DEF LockInv, TypeOK, Locked, Etcdctl, Up, Steps, LeaveLocked
<1>3. ListInv'
  BY DEF ListInv, LockInv, TypeOK, Locked, Etcdctl, Up, Steps, LeaveLocked
<1>4. DiskInv'
  BY DEF DiskInv, ListInv, TypeOK, Locked, Etcdctl, Up, Steps, Lists
<1>5. SinceInv'
  <2> SUFFICES ASSUME NEW m \in Nodes, Founding(m)'
               PROVE  \E S \in SUBSET Nodes :
                         /\ zkNodes' \subseteq S
                         /\ \A k \in S : data'[k] # m /\ (Listed(k)' => files'[k].nodes \subseteq S)
    BY DEF SinceInv
  <2>1. /\ files'[n] = [nodes |-> zkNodes, new |-> fresh[n]] /\ data[n] = None
        /\ n \in zkNodes /\ (fresh[n] => zkNodes = {n})
    BY DEF ListInv, DiskInv, TypeOK, Locked
  <2>2. \A k \in Nodes \ {n} : /\ files'[k] = files[k] /\ (Listed(k)' => Listed(k))
                               /\ (Founding(k)' => Founding(k))
    BY DEF Listed, Founding, TypeOK
  <2>3. CASE m = n
    <3>1. zkNodes = {n}
      BY <2>1, <2>3 DEF Founding
    <3> WITNESS {n} \in SUBSET Nodes
    <3> QED BY <2>1, <2>3, <3>1
  <2>4. CASE m # n
    <3>1. PICK S \in SUBSET Nodes :
             /\ zkNodes \subseteq S
             /\ \A k \in S : data[k] # m /\ (Listed(k) => files[k].nodes \subseteq S)
      BY <2>2, <2>4 DEF SinceInv
    <3> WITNESS S \in SUBSET Nodes
    <3> QED BY <2>1, <2>2, <3>1
  <2> QED BY <2>3, <2>4
<1>6. QuorumInv'
  BY DEF QuorumInv, TypeOK
<1>7. FounderInv'
  <2> SUFFICES ASSUME leaves = 0
               PROVE  FounderInv'
    BY DEF FounderInv
  <2>1. /\ files'[n] = [nodes |-> zkNodes, new |-> fresh[n]] /\ data[n] = None
        /\ n \in zkNodes /\ (fresh[n] => zkNodes = {n})
    BY DEF ListInv, DiskInv, TypeOK, Locked
  <2>2. \A k \in Nodes \ {n} : files'[k] = files[k] /\ (Founding(k)' <=> Founding(k))
    BY DEF Founding, TypeOK
  <2>3. \A k \in Nodes : files[k] # None => k \in zkNodes
    BY DEF FounderInv
  <2>4. \A k \in Nodes : data[k] # None => k \in zkNodes
    BY <2>3 DEF DiskInv
  <2>5. \A k \in Nodes : files'[k] # None => k \in zkNodes' /\ files'[k].nodes \subseteq zkNodes'
    BY <2>1, <2>2 DEF FounderInv
  <2>6. \A k, l \in Nodes : files'[k] # None /\ files'[l] # None /\ files'[k].new /\ files'[l].new => k = l
    BY <2>1, <2>2, <2>3 DEF FounderInv
  <2>7. \A k \in Nodes : Founding(k)' => \A l \in Nodes : data'[l] = None
    <3> SUFFICES ASSUME NEW k \in Nodes, Founding(k)', NEW l \in Nodes
                 PROVE  data[l] = None
      OBVIOUS
    <3>1. CASE k = n
      BY <2>1, <2>4, <3>1 DEF Founding
    <3>2. CASE k # n
      BY <2>2, <3>2 DEF FounderInv
    <3> QED BY <3>1, <3>2
  <2> QED BY <2>5, <2>6, <2>7 DEF FounderInv
<1>8. StartedInv'
  BY DEF StartedInv, TypeOK, DiskInv, Locked, Etcdctl, Up, Steps
<1>9. LogInv' /\ RegisteredInv' /\ OneCluster'
  BY DEF LogInv, RegisteredInv, OneCluster
<1> QED
  BY <1>1, <1>2, <1>3, <1>4, <1>5, <1>6, <1>7, <1>8, <1>9

LEMMA ReleaseStep ==
  ASSUME IInv, NEW n \in Nodes, Release(n)
  PROVE  IInv'
<1> USE EtcdAssumption DEF IInv, Release, zk, disk, leaver, counters, Goto, Unlocked
<1>1. TypeOK'
  BY DEF TypeOK, Locked, Etcdctl, Up, Steps, Lists, LeaveLocked
<1>2. LockInv'
  BY DEF LockInv, TypeOK, Locked, Etcdctl, Up, Steps, LeaveLocked
<1>3. ListInv'
  BY DEF ListInv, LockInv, TypeOK, Locked, Etcdctl, Up, Steps, LeaveLocked
<1>4. DiskInv'
  BY DEF DiskInv, TypeOK, Locked, Etcdctl, Up, Steps
<1>5. SinceInv'
  BY SinceKept DEF DiskInv, TypeOK, Founding, Listed, Locked, Etcdctl, Up, Steps
<1>6. QuorumInv'
  BY DEF QuorumInv, TypeOK
<1>7. StartedInv'
  BY DEF StartedInv, TypeOK, DiskInv, Locked, Etcdctl, Up, Steps
<1>8. LogInv' /\ RegisteredInv' /\ FounderInv' /\ OneCluster'
  BY DEF LogInv, RegisteredInv, FounderInv, OneCluster, Founding
<1> QED
  BY <1>1, <1>2, <1>3, <1>4, <1>5, <1>6, <1>7, <1>8

LEMMA MakeDirStep ==
  ASSUME IInv, NEW n \in Nodes, MakeDir(n)
  PROVE  IInv'
<1> USE EtcdAssumption DEF IInv, MakeDir, zk, disk, leaver, counters, Goto
<1>1. TypeOK'
  BY DEF TypeOK, Locked, Etcdctl, Up, Steps, Lists, LeaveLocked
<1>2. LockInv'
  BY DEF LockInv, TypeOK, Locked, Etcdctl, Up, Steps, LeaveLocked
<1>3. ListInv'
  BY DEF ListInv, LockInv, TypeOK, Locked, Etcdctl, Up, Steps, LeaveLocked
<1>4. DiskInv'
  BY DEF DiskInv, TypeOK, Locked, Etcdctl, Up, Steps
<1>5. SinceInv'
  BY SinceKept DEF DiskInv, TypeOK, Founding, Listed, Locked, Etcdctl, Up, Steps
<1>6. QuorumInv'
  BY DEF QuorumInv, TypeOK
<1>7. StartedInv'
  BY DEF StartedInv, TypeOK, DiskInv, Locked, Etcdctl, Up, Steps
<1>8. LogInv' /\ RegisteredInv' /\ FounderInv' /\ OneCluster'
  BY DEF LogInv, RegisteredInv, FounderInv, OneCluster, Founding
<1> QED
  BY <1>1, <1>2, <1>3, <1>4, <1>5, <1>6, <1>7, <1>8

LEMMA RestartStep ==
  ASSUME IInv, NEW n \in Nodes, Restart(n)
  PROVE  IInv'
<1> USE EtcdAssumption DEF IInv, Restart, zk, disk, leaver, counters, Goto
<1>1. TypeOK'
  BY DEF TypeOK, Locked, Etcdctl, Up, Steps, Lists, LeaveLocked
<1>2. LockInv'
  BY DEF LockInv, TypeOK, Locked, Etcdctl, Up, Steps, LeaveLocked
<1>3. ListInv'
  BY DEF ListInv, LockInv, TypeOK, Locked, Etcdctl, Up, Steps, LeaveLocked
<1>4. DiskInv'
  BY DEF DiskInv, TypeOK, Locked, Etcdctl, Up, Steps
<1>5. SinceInv'
  BY SinceKept DEF DiskInv, TypeOK, Founding, Listed, Locked, Etcdctl, Up, Steps
<1>6. QuorumInv'
  BY DEF QuorumInv, TypeOK
<1>7. StartedInv'
  BY DEF StartedInv, TypeOK, DiskInv, Locked, Etcdctl, Up, Steps
<1>8. LogInv' /\ RegisteredInv' /\ FounderInv' /\ OneCluster'
  BY DEF LogInv, RegisteredInv, FounderInv, OneCluster, Founding
<1> QED
  BY <1>1, <1>2, <1>3, <1>4, <1>5, <1>6, <1>7, <1>8

LEMMA StartFailsStep ==
  ASSUME IInv, NEW n \in Nodes, StartFails(n)
  PROVE  IInv'
<1> USE EtcdAssumption DEF IInv, StartFails, zk, disk, leaver, counters, Goto
<1>1. TypeOK'
  BY DEF TypeOK, Locked, Etcdctl, Up, Steps, Lists, LeaveLocked
<1>2. LockInv'
  BY DEF LockInv, TypeOK, Locked, Etcdctl, Up, Steps, LeaveLocked
<1>3. ListInv'
  BY DEF ListInv, LockInv, TypeOK, Locked, Etcdctl, Up, Steps, LeaveLocked
<1>4. DiskInv'
  BY DEF DiskInv, TypeOK, Locked, Etcdctl, Up, Steps
<1>5. SinceInv'
  BY SinceKept DEF DiskInv, TypeOK, Founding, Listed, Locked, Etcdctl, Up, Steps
<1>6. QuorumInv'
  BY DEF QuorumInv, TypeOK
<1>7. StartedInv'
  BY DEF StartedInv, TypeOK, DiskInv, Locked, Etcdctl, Up, Steps
<1>8. LogInv' /\ RegisteredInv' /\ FounderInv' /\ OneCluster'
  BY DEF LogInv, RegisteredInv, FounderInv, OneCluster, Founding
<1> QED
  BY <1>1, <1>2, <1>3, <1>4, <1>5, <1>6, <1>7, <1>8

LEMMA ShutDownStep ==
  ASSUME IInv, NEW n \in Nodes, ShutDown(n)
  PROVE  IInv'
<1> USE EtcdAssumption DEF IInv, ShutDown, zk, disk, leaver, counters, Goto
<1>1. TypeOK'
  BY DEF TypeOK, Locked, Etcdctl, Up, Steps, Lists, LeaveLocked
<1>2. LockInv'
  BY DEF LockInv, TypeOK, Locked, Etcdctl, Up, Steps, LeaveLocked
<1>3. ListInv'
  BY DEF ListInv, LockInv, TypeOK, Locked, Etcdctl, Up, Steps, LeaveLocked
<1>4. DiskInv'
  BY DEF DiskInv, TypeOK, Locked, Etcdctl, Up, Steps
<1>5. SinceInv'
  BY SinceKept DEF DiskInv, TypeOK, Founding, Listed, Locked, Etcdctl, Up, Steps
<1>6. QuorumInv'
  BY DEF QuorumInv, FounderInv, DiskInv, TypeOK, Up
<1>7. StartedInv'
  BY DEF StartedInv, TypeOK, DiskInv, Locked, Etcdctl, Up, Steps
<1>8. LogInv' /\ RegisteredInv' /\ FounderInv' /\ OneCluster'
  BY DEF LogInv, RegisteredInv, FounderInv, OneCluster, Founding
<1> QED
  BY <1>1, <1>2, <1>3, <1>4, <1>5, <1>6, <1>7, <1>8

LEMMA LeaveStartStep ==
  ASSUME IInv, NEW x \in Nodes, LeaveStart(x)
  PROVE  IInv'
<1> USE EtcdAssumption DEF IInv, LeaveStart, zk, disk, leaver, counters, LeaveGoto
<1>1. TypeOK'
  BY DEF TypeOK, Locked, Etcdctl, Up, Steps, Lists, LeaveLocked
<1>2. LockInv'
  BY DEF LockInv, TypeOK, Locked, Etcdctl, Up, Steps, LeaveLocked
<1>3. ListInv'
  BY DEF ListInv, LockInv, TypeOK, Locked, Etcdctl, Up, Steps, LeaveLocked
<1>4. QuorumInv'
  BY DEF QuorumInv, TypeOK
<1>5. FounderInv'
  BY DEF FounderInv, Founding, TypeOK
<1>6. OneCluster'
  BY DEF OneCluster, TypeOK
<1>7. StartedInv'
  BY DEF StartedInv, TypeOK, DiskInv, Locked, Etcdctl, Up, Steps
<1>8. SinceInv'
  BY SinceKept DEF Founding, Listed
<1>9. DiskInv' /\ LogInv' /\ RegisteredInv'
  BY DEF DiskInv, LogInv, RegisteredInv
<1> QED
  BY <1>1, <1>2, <1>3, <1>4, <1>5, <1>6, <1>7, <1>8, <1>9

LEMMA LeaveAcquireStep ==
  ASSUME IInv, NEW x \in Nodes, LeaveAcquire(x)
  PROVE  IInv'
<1> USE EtcdAssumption DEF IInv, LeaveAcquire, zk, disk, leaver, counters, LeaveGoto
<1>1. TypeOK'
  BY DEF TypeOK, Locked, Etcdctl, Up, Steps, Lists, LeaveLocked
<1>2. LockInv'
  BY DEF LockInv, TypeOK, Locked, Etcdctl, Up, Steps, LeaveLocked
<1>3. ListInv'
  BY DEF ListInv, LockInv, TypeOK, Locked, Etcdctl, Up, Steps, LeaveLocked
<1>4. SinceInv'
  BY SinceKept DEF Founding, Listed
<1>5. DiskInv' /\ LogInv' /\ RegisteredInv' /\ QuorumInv' /\ FounderInv' /\ OneCluster' /\ StartedInv'
  BY DEF DiskInv, LogInv, RegisteredInv, QuorumInv, FounderInv, OneCluster, StartedInv, Founding
<1> QED
  BY <1>1, <1>2, <1>3, <1>4, <1>5

LEMMA LeaveTimeoutStep ==
  ASSUME IInv, NEW x \in Nodes, LeaveTimeout(x)
  PROVE  IInv'
<1> USE EtcdAssumption DEF IInv, LeaveTimeout, zk, disk, leaver, counters, LeaveGoto
<1>1. TypeOK'
  BY DEF TypeOK, Locked, Etcdctl, Up, Steps, Lists, LeaveLocked
<1>2. LockInv'
  BY DEF LockInv, TypeOK, Locked, Etcdctl, Up, Steps, LeaveLocked
<1>3. ListInv'
  BY DEF ListInv, LockInv, TypeOK, Locked, Etcdctl, Up, Steps, LeaveLocked
<1>4. SinceInv'
  BY SinceKept DEF Founding, Listed
<1>5. DiskInv' /\ LogInv' /\ RegisteredInv' /\ QuorumInv' /\ FounderInv' /\ OneCluster' /\ StartedInv'
  BY DEF DiskInv, LogInv, RegisteredInv, QuorumInv, FounderInv, OneCluster, StartedInv, Founding
<1> QED
  BY <1>1, <1>2, <1>3, <1>4, <1>5

LEMMA LeaveReadStep ==
  ASSUME IInv, NEW x \in Nodes, LeaveRead(x)
  PROVE  IInv'
<1> USE EtcdAssumption DEF IInv, LeaveRead, zk, disk, leaver, counters, LeaveGoto
<1>1. TypeOK'
  BY DEF TypeOK, Locked, Etcdctl, Up, Steps, Lists, LeaveLocked
<1>2. LockInv'
  BY DEF LockInv, TypeOK, Locked, Etcdctl, Up, Steps, LeaveLocked
<1>3. ListInv'
  BY DEF ListInv, LockInv, TypeOK, Locked, Etcdctl, Up, Steps, LeaveLocked
<1>4. SinceInv'
  BY SinceKept DEF Founding, Listed
<1>5. DiskInv' /\ LogInv' /\ RegisteredInv' /\ QuorumInv' /\ FounderInv' /\ OneCluster' /\ StartedInv'
  BY DEF DiskInv, LogInv, RegisteredInv, QuorumInv, FounderInv, OneCluster, StartedInv, Founding
<1> QED
  BY <1>1, <1>2, <1>3, <1>4, <1>5

LEMMA LeaveWriteStep ==
  ASSUME IInv, NEW x \in Nodes, LeaveWrite(x)
  PROVE  IInv'
<1> USE EtcdAssumption DEF IInv, LeaveWrite, zk, disk, leaver, counters, LeaveGoto
<1>1. TypeOK'
  BY DEF TypeOK, Locked, Etcdctl, Up, Steps, Lists, LeaveLocked
<1>2. LockInv'
  BY DEF LockInv, TypeOK, Locked, Etcdctl, Up, Steps, LeaveLocked
<1>3. ListInv'
  BY DEF ListInv, LockInv, TypeOK, Locked, Etcdctl, Up, Steps, LeaveLocked
<1>4. SinceInv'
  BY SinceKept DEF ListInv, Founding, Listed
<1>5. RegisteredInv'
  BY DEF RegisteredInv, ListInv, TypeOK, Locked
<1>6. QuorumInv'
  BY DEF QuorumInv, LockInv, TypeOK
<1>7. FounderInv'
  BY DEF FounderInv, LockInv, TypeOK
<1>8. DiskInv' /\ LogInv' /\ OneCluster' /\ StartedInv'
  BY DEF DiskInv, LogInv, OneCluster, StartedInv
<1> QED
  BY <1>1, <1>2, <1>3, <1>4, <1>5, <1>6, <1>7, <1>8

LEMMA LeaveListStep ==
  ASSUME IInv, NEW x \in Nodes, LeaveList(x)
  PROVE  IInv'
<1> USE EtcdAssumption DEF IInv, LeaveList, zk, disk, leaver, counters, LeaveGoto
<1>1. TypeOK'
  BY DEF TypeOK, Locked, Etcdctl, Up, Steps, Lists, LeaveLocked
<1>2. LockInv'
  BY DEF LockInv, TypeOK, Locked, Etcdctl, Up, Steps, LeaveLocked
<1>3. ListInv'
  BY DEF ListInv, LockInv, TypeOK, Locked, Etcdctl, Up, Steps, LeaveLocked
<1>4. SinceInv'
  BY SinceKept DEF Founding, Listed
<1>5. DiskInv' /\ LogInv' /\ RegisteredInv' /\ QuorumInv' /\ FounderInv' /\ OneCluster' /\ StartedInv'
  BY DEF DiskInv, LogInv, RegisteredInv, QuorumInv, FounderInv, OneCluster, StartedInv, Founding
<1> QED
  BY <1>1, <1>2, <1>3, <1>4, <1>5

LEMMA LeaveReleaseStep ==
  ASSUME IInv, NEW x \in Nodes, LeaveRelease(x)
  PROVE  IInv'
<1> USE EtcdAssumption DEF IInv, LeaveRelease, zk, disk, leaver, counters, LeaveGoto, Unlocked
<1>1. TypeOK'
  BY DEF TypeOK, Locked, Etcdctl, Up, Steps, Lists, LeaveLocked
<1>2. LockInv'
  BY DEF LockInv, TypeOK, Locked, Etcdctl, Up, Steps, LeaveLocked
<1>3. ListInv'
  BY DEF ListInv, LockInv, TypeOK, Locked, Etcdctl, Up, Steps, LeaveLocked
<1>4. SinceInv'
  BY SinceKept DEF Founding, Listed
<1>5. DiskInv' /\ LogInv' /\ RegisteredInv' /\ QuorumInv' /\ FounderInv' /\ OneCluster' /\ StartedInv'
  BY DEF DiskInv, LogInv, RegisteredInv, QuorumInv, FounderInv, OneCluster, StartedInv, Founding
<1> QED
  BY <1>1, <1>2, <1>3, <1>4, <1>5

LEMMA LeaveKilledStep ==
  ASSUME IInv, NEW x \in Nodes, LeaveKilled(x)
  PROVE  IInv'
<1> USE EtcdAssumption DEF IInv, LeaveKilled, zk, disk, leaver, counters, LeaveGoto
<1>1. TypeOK'
  BY DEF TypeOK, Locked, Etcdctl, Up, Steps, Lists, LeaveLocked
<1>2. LockInv'
  BY DEF LockInv, TypeOK, Locked, Etcdctl, Up, Steps, LeaveLocked
<1>3. ListInv'
  BY DEF ListInv, LockInv, TypeOK, Locked, Etcdctl, Up, Steps, LeaveLocked
<1>4. QuorumInv'
  BY DEF QuorumInv, TypeOK
<1>5. SinceInv'
  BY SinceKept DEF Founding, Listed
<1>6. DiskInv' /\ LogInv' /\ RegisteredInv' /\ FounderInv' /\ OneCluster' /\ StartedInv'
  BY DEF DiskInv, LogInv, RegisteredInv, FounderInv, OneCluster, StartedInv, Founding
<1> QED
  BY <1>1, <1>2, <1>3, <1>4, <1>5, <1>6

LEMMA OrphanExpiresStep ==
  ASSUME IInv, OrphanExpires
  PROVE  IInv'
<1> USE EtcdAssumption DEF IInv, OrphanExpires, zk, disk, leaver, counters
<1>1. TypeOK'
  BY DEF TypeOK, Locked, Etcdctl, Up, Steps, Lists, LeaveLocked
<1>2. LockInv'
  BY DEF LockInv, TypeOK, Locked, Etcdctl, Up, Steps, LeaveLocked
<1>3. SinceInv'
  BY SinceKept DEF Founding, Listed
<1>4. ListInv' /\ DiskInv' /\ LogInv' /\ RegisteredInv' /\ QuorumInv' /\ FounderInv' /\ OneCluster' /\ StartedInv'
  BY DEF ListInv, DiskInv, LogInv, RegisteredInv, QuorumInv, FounderInv, OneCluster, StartedInv, Founding
<1> QED
  BY <1>1, <1>2, <1>3, <1>4

(* What etcdctl changes. *)
LEMMA MemberSet ==
  ASSUME TypeOK, NEW c \in Nodes, NEW n \in Nodes, NEW status \in {"out", "added", "started"},
         SetMember(c, n, status)
  PROVE  /\ members' \in [Nodes -> [Nodes -> {"out", "added", "started"}]]
         /\ \A d, m \in Nodes :
               members'[d][m] = IF d = c /\ m = n THEN status ELSE members[d][m]
<1>1. members' = [members EXCEPT ![c] = [members[c] EXCEPT ![n] = status]]
  BY DEF SetMember
<1>2. [members[c] EXCEPT ![n] = status] \in [Nodes -> {"out", "added", "started"}]
  BY DEF TypeOK
<1> QED
  BY <1>1, <1>2 DEF TypeOK

(* A cluster that answers is in the log of a node that runs. *)
LEMMA HealthyRuns ==
  ASSUME NEW endpoints, NEW c \in Healthy(endpoints)
  PROVE  c \in Nodes /\ \E k \in Nodes : data[k] = c /\ pc[k] \in Up
  BY DEF Healthy, Running

(* A majority is not empty. *)
LEMMA MajorityExists ==
  ASSUME NEW S \in SUBSET Nodes, NEW c \in Nodes, Majority(S, c)
  PROVE  S \cap MembersOf(c) # {}
<1>1. IsFiniteSet(MembersOf(c))
  BY EtcdAssumption, FS_Subset DEF MembersOf
<1>2. Cardinality(MembersOf(c)) \in Nat
  BY <1>1, FS_CardinalityType
<1>3. Cardinality({}) = 0
  BY FS_EmptySet
<1>4. ASSUME S \cap MembersOf(c) = {}
      PROVE  FALSE
  <2>1. Cardinality(S \cap MembersOf(c)) = 0
    BY <1>3, <1>4
  <2> QED BY <1>2, <2>1 DEF Majority
<1> QED
  BY <1>4

LEMMA RemoveListStep ==
  ASSUME IInv, NEW n \in Nodes, RemoveList(n)
  PROVE  IInv'
<1> USE EtcdAssumption DEF IInv, RemoveList, zk, disk, leaver, counters, Goto
<1>1. TypeOK'
  BY DEF TypeOK, Locked, Etcdctl, Up, Steps, Lists, LeaveLocked
<1>2. LockInv'
  BY DEF LockInv, TypeOK, Locked, Etcdctl, Up, Steps, LeaveLocked
<1>3. ListInv'
  BY DEF ListInv, LockInv, TypeOK, Locked, Etcdctl, Up, Steps, LeaveLocked
<1>4. DiskInv'
  BY DEF DiskInv, TypeOK, Locked, Etcdctl, Up, Steps
<1>5. SinceInv'
  BY SinceKept DEF DiskInv, TypeOK, Founding, Listed, Locked, Etcdctl, Up, Steps
<1>6. QuorumInv'
  BY DEF QuorumInv, TypeOK
<1>7. StartedInv'
  <2>1. PICK c \in Healthy(nodes[n]) :
           pc' = [pc EXCEPT ![n] = IF members[c][n] = "started" THEN "remove" ELSE "list"]
    OBVIOUS
  <2>2. \A d \in Nodes : leaves = 0 /\ members[d][n] = "started" => d = c
    BY <2>1, HealthyRuns DEF LogInv, OneCluster, TypeOK
  <2> QED BY <2>1, <2>2 DEF StartedInv, TypeOK
<1>8. LogInv' /\ RegisteredInv' /\ FounderInv' /\ OneCluster'
  BY DEF LogInv, RegisteredInv, FounderInv, OneCluster, Founding
<1> QED
  BY <1>1, <1>2, <1>3, <1>4, <1>5, <1>6, <1>7, <1>8

LEMMA RemoveStep ==
  ASSUME IInv, NEW n \in Nodes, Remove(n)
  PROVE  IInv'
<1> USE EtcdAssumption DEF IInv, Remove, zk, disk, leaver, counters, Goto
<1>1. PICK c \in Nodes : /\ \E k \in Nodes : data[k] = c /\ pc[k] \in Up
                        /\ SetMember(c, n, "out")
  BY HealthyRuns
<1>2. /\ members' \in [Nodes -> [Nodes -> {"out", "added", "started"}]]
      /\ \A d, m \in Nodes :
            members'[d][m] = IF d = c /\ m = n THEN "out" ELSE members[d][m]
  BY <1>1, MemberSet
<1>3. TypeOK'
  BY <1>2 DEF TypeOK, Locked, Etcdctl, Up, Steps, LeaveLocked
<1>4. LockInv'
  BY DEF LockInv, TypeOK, Locked, Etcdctl, Up, Steps, LeaveLocked
<1>5. ListInv'
  BY DEF ListInv, LockInv, TypeOK, Locked, Etcdctl, Up, Steps, LeaveLocked
<1>6. DiskInv'
  BY DEF DiskInv, TypeOK, Locked, Etcdctl, Up, Steps
<1>7. SinceInv'
  BY SinceKept DEF DiskInv, TypeOK, Founding, Listed, Locked, Etcdctl, Up, Steps
<1>8. LogInv'
  BY <1>2 DEF LogInv
<1>9. RegisteredInv'
  BY <1>2 DEF RegisteredInv, DiskInv, TypeOK, Locked, Etcdctl
<1>10. QuorumInv'
  BY <1>2 DEF QuorumInv, TypeOK
<1>11. FounderInv'
  BY <1>2 DEF FounderInv, Founding, TypeOK
<1>12. StartedInv'
  <2>1. \A d \in Nodes : leaves = 0 /\ members[d][n] = "started" => d = c
    BY <1>1 DEF LogInv, OneCluster, TypeOK
  <2> QED BY <1>2, <2>1 DEF StartedInv, TypeOK
<1>13. OneCluster'
  BY DEF OneCluster
<1> QED
  BY <1>3, <1>4, <1>5, <1>6, <1>7, <1>8, <1>9, <1>10, <1>11, <1>12, <1>13

LEMMA EnsureListStep ==
  ASSUME IInv, NEW n \in Nodes, EnsureList(n)
  PROVE  IInv'
<1> USE EtcdAssumption DEF IInv, EnsureList, zk, disk, leaver, counters, Goto
<1>1. TypeOK'
  BY DEF TypeOK, Locked, Etcdctl, Up, Steps, Lists, LeaveLocked
<1>2. LockInv'
  BY DEF LockInv, TypeOK, Locked, Etcdctl, Up, Steps, LeaveLocked
<1>3. ListInv'
  BY DEF ListInv, LockInv, TypeOK, Locked, Etcdctl, Up, Steps, LeaveLocked
<1>4. DiskInv'
  BY DEF DiskInv, TypeOK, Locked, Etcdctl, Up, Steps
<1>5. SinceInv'
  BY SinceKept DEF DiskInv, TypeOK, Founding, Listed, Locked, Etcdctl, Up, Steps
<1>6. QuorumInv'
  BY DEF QuorumInv, TypeOK
<1>7. StartedInv'
  BY DEF StartedInv, TypeOK, DiskInv, Locked, Etcdctl, Up, Steps
<1>8. LogInv' /\ RegisteredInv' /\ FounderInv' /\ OneCluster'
  BY DEF LogInv, RegisteredInv, FounderInv, OneCluster, Founding
<1> QED
  BY <1>1, <1>2, <1>3, <1>4, <1>5, <1>6, <1>7, <1>8

LEMMA AddStep ==
  ASSUME IInv, NEW n \in Nodes, Add(n)
  PROVE  IInv'
<1> USE EtcdAssumption DEF IInv, Add, zk, disk, leaver, counters, Goto
<1>1. PICK c \in Nodes : /\ \E k \in Nodes : data[k] = c /\ pc[k] \in Up
                        /\ SetMember(c, n, "added")
  BY HealthyRuns
<1>2. /\ members' \in [Nodes -> [Nodes -> {"out", "added", "started"}]]
      /\ \A d, m \in Nodes :
            members'[d][m] = IF d = c /\ m = n THEN "added" ELSE members[d][m]
  BY <1>1, MemberSet
<1>3. TypeOK'
  BY <1>2 DEF TypeOK, Locked, Etcdctl, Up, Steps, LeaveLocked
<1>4. LockInv'
  BY DEF LockInv, TypeOK, Locked, Etcdctl, Up, Steps, LeaveLocked
<1>5. ListInv'
  BY DEF ListInv, LockInv, TypeOK, Locked, Etcdctl, Up, Steps, LeaveLocked
<1>6. DiskInv'
  BY DEF DiskInv, TypeOK, Locked, Etcdctl, Up, Steps
<1>7. SinceInv'
  BY SinceKept DEF DiskInv, TypeOK, Founding, Listed, Locked, Etcdctl, Up, Steps
<1>8. LogInv'
  BY <1>1, <1>2 DEF LogInv
<1>9. RegisteredInv'
  BY SMTT(40), <1>2 DEF RegisteredInv, TypeOK
<1>10. QuorumInv'
  BY <1>2 DEF QuorumInv, TypeOK
<1>11. FounderInv'
  BY <1>1, <1>2 DEF FounderInv, Founding, DiskInv, TypeOK, Up
<1>12. StartedInv'
  BY <1>2 DEF StartedInv, TypeOK
<1>13. OneCluster'
  BY DEF OneCluster
<1> QED
  BY <1>3, <1>4, <1>5, <1>6, <1>7, <1>8, <1>9, <1>10, <1>11, <1>12, <1>13

LEMMA EtcdctlFailsStep ==
  ASSUME IInv, NEW n \in Nodes, EtcdctlFails(n)
  PROVE  IInv'
<1> USE EtcdAssumption DEF IInv, EtcdctlFails, zk, disk, leaver, counters, Goto, Fail, Unlocked
<1>1. TypeOK'
  BY DEF TypeOK, Locked, Etcdctl, Up, Steps, Lists, LeaveLocked
<1>2. LockInv'
  BY DEF LockInv, TypeOK, Locked, Etcdctl, Up, Steps, LeaveLocked
<1>3. ListInv'
  BY DEF ListInv, LockInv, TypeOK, Locked, Etcdctl, Up, Steps, LeaveLocked
<1>4. DiskInv'
  BY DEF DiskInv, TypeOK, Locked, Etcdctl, Up, Steps
<1>5. SinceInv'
  BY SinceKept DEF DiskInv, TypeOK, Founding, Listed, Locked, Etcdctl, Up, Steps
<1>6. QuorumInv'
  BY DEF QuorumInv, TypeOK, Etcdctl
<1>7. StartedInv'
  BY DEF StartedInv, TypeOK, DiskInv, Locked, Etcdctl, Up, Steps
<1>8. LogInv' /\ RegisteredInv' /\ FounderInv' /\ OneCluster'
  BY DEF LogInv, RegisteredInv, FounderInv, OneCluster, Founding
<1> QED
  BY <1>1, <1>2, <1>3, <1>4, <1>5, <1>6, <1>7, <1>8

LEMMA NewClusterStep ==
  ASSUME IInv, NEW n \in Nodes, NewCluster(n)
  PROVE  IInv'
<1> USE EtcdAssumption DEF IInv, NewCluster, zk, disk, leaver, counters, Goto
<1>1. /\ files[n] # None /\ files[n].new /\ files[n].nodes = {n} /\ n \in dir /\ Founding(n)
  BY DEF DiskInv, Founding
<1>2. /\ data' = [data EXCEPT ![n] = n] /\ data'[n] = n
      /\ \A k \in Nodes \ {n} : data'[k] = data[k]
  BY DEF TypeOK
<1>3. /\ members' \in [Nodes -> [Nodes -> {"out", "added", "started"}]]
      /\ \A c, m \in Nodes :
            members'[c][m] = IF c = n THEN (IF m = n THEN "started" ELSE "out") ELSE members[c][m]
  BY <1>1 DEF TypeOK
<1>4. \A k \in Nodes \ {n} : (Founding(k)' <=> Founding(k)) /\ (Listed(k)' <=> Listed(k))
  BY <1>2 DEF Founding, Listed, TypeOK
<1>5. TypeOK'
  BY <1>3 DEF TypeOK, Locked, Etcdctl, Up, Steps
<1>6. LockInv'
  BY DEF LockInv, TypeOK, Locked, Etcdctl, Up, Steps, LeaveLocked
<1>7. ListInv'
  BY DEF ListInv, LockInv, TypeOK, Locked, Etcdctl, Up, Steps, LeaveLocked
<1>8. DiskInv'
  BY DEF DiskInv, TypeOK, Locked, Etcdctl, Up, Steps
<1>9. SinceInv'
  <2> SUFFICES ASSUME NEW m \in Nodes, Founding(m)'
               PROVE  \E S \in SUBSET Nodes :
                         /\ zkNodes' \subseteq S
                         /\ \A k \in S : data'[k] # m /\ (Listed(k)' => files'[k].nodes \subseteq S)
    BY DEF SinceInv
  <2>1. m # n /\ Founding(m)
    BY <1>2, <1>4, EtcdAssumption DEF Founding
  <2>2. PICK S \in SUBSET Nodes :
           /\ zkNodes \subseteq S
           /\ \A k \in S : data[k] # m /\ (Listed(k) => files[k].nodes \subseteq S)
    BY <2>1 DEF SinceInv
  <2>3. ~ Listed(n)'
    BY <1>2, EtcdAssumption DEF Listed
  <2> WITNESS S \in SUBSET Nodes
  <2> QED BY <1>2, <1>4, <2>1, <2>2, <2>3
<1>10. LogInv'
  BY <1>2, <1>3 DEF LogInv
<1>11. RegisteredInv'
  <2>1. PICK S \in SUBSET Nodes : zkNodes \subseteq S /\ \A k \in S : data[k] # n
    BY <1>1 DEF SinceInv
  <2> QED BY <1>2, <1>3, <2>1 DEF RegisteredInv, TypeOK
<1>12. QuorumInv'
  BY <1>1, <1>3 DEF QuorumInv, FounderInv, TypeOK
<1>13. FounderInv'
  <2> SUFFICES ASSUME leaves = 0
               PROVE  FounderInv'
    BY DEF FounderInv
  <2>1. n \in zkNodes
    BY <1>1 DEF FounderInv
  <2>2. \A k \in Nodes : ~ Founding(k)'
    BY <1>1, <1>2, <1>4, EtcdAssumption DEF FounderInv, Founding
  <2> QED BY <1>3, <2>1, <2>2 DEF FounderInv
<1>14. OneCluster'
  <2>1. leaves = 0 => \A k \in Nodes : data[k] = None
    BY <1>1 DEF FounderInv
  <2> QED BY <1>2, <2>1 DEF OneCluster
<1>15. StartedInv'
  BY <1>2, <1>3, EtcdAssumption DEF StartedInv, TypeOK
<1> QED
  BY <1>5, <1>6, <1>7, <1>8, <1>9, <1>10, <1>11, <1>12, <1>13, <1>14, <1>15

LEMMA JoinExistingStep ==
  ASSUME IInv, NEW n \in Nodes, JoinExisting(n)
  PROVE  IInv'
<1> USE EtcdAssumption DEF IInv, JoinExisting, zk, disk, leaver, counters, Goto
<1>1. files[n] # None /\ n \in files[n].nodes /\ files[n].nodes \subseteq Nodes /\ n \in dir /\ ~ Founding(n)
  BY DEF DiskInv, Founding, TypeOK, Lists
<1>2. PICK c \in Nodes : /\ data' = [data EXCEPT ![n] = c]
                        /\ n \in MembersOf(c)
                        /\ \E k \in files[n].nodes : data[k] = c /\ pc[k] \in Up
  BY <1>1 DEF Joinable, Running
<1>3. data'[n] = c /\ \A k \in Nodes \ {n} : data'[k] = data[k]
  BY <1>2 DEF TypeOK
<1>4. \A k \in Nodes \ {n} : (Founding(k)' <=> Founding(k)) /\ (Listed(k)' <=> Listed(k))
  BY <1>3 DEF Founding, Listed, TypeOK
<1>5. ~ Listed(n)' /\ ~ Founding(n)'
  BY <1>3, EtcdAssumption DEF Listed, Founding
<1>6. TypeOK'
  BY <1>2 DEF TypeOK, Locked, Etcdctl, Up, Steps
<1>7. LockInv'
  BY DEF LockInv, TypeOK, Locked, Etcdctl, Up, Steps, LeaveLocked
<1>8. ListInv'
  BY DEF ListInv, LockInv, TypeOK, Locked, Etcdctl, Up, Steps, LeaveLocked
<1>9. DiskInv'
  BY <1>1, <1>3 DEF DiskInv, TypeOK, Locked, Etcdctl, Up
<1>10. SinceInv'
  <2> SUFFICES ASSUME NEW m \in Nodes, Founding(m)'
               PROVE  \E S \in SUBSET Nodes :
                         /\ zkNodes' \subseteq S
                         /\ \A k \in S : data'[k] # m /\ (Listed(k)' => files'[k].nodes \subseteq S)
    BY DEF SinceInv
  <2>1. PICK S \in SUBSET Nodes :
           /\ zkNodes \subseteq S
           /\ \A k \in S : data[k] # m /\ (Listed(k) => files[k].nodes \subseteq S)
    BY <1>4, <1>5 DEF SinceInv
  <2>2. n \in S => c # m
    BY <1>1, <1>2, <2>1 DEF Listed
  <2> WITNESS S \in SUBSET Nodes
  <2> QED BY <1>3, <1>4, <1>5, <2>1, <2>2
<1>11. LogInv'
  BY <1>3, EtcdAssumption DEF LogInv, TypeOK
<1>12. RegisteredInv'
  BY <1>2, <1>3 DEF RegisteredInv, MembersOf, TypeOK
<1>13. QuorumInv'
  BY DEF QuorumInv, TypeOK
<1>14. FounderInv'
  <2>1. leaves = 0 => \A k \in Nodes : ~ Founding(k)
    BY <1>1, <1>2, EtcdAssumption DEF FounderInv
  <2> QED BY <1>4, <1>5, <2>1 DEF FounderInv
<1>15. OneCluster'
  BY <1>1, <1>2, <1>3, EtcdAssumption DEF OneCluster
<1>16. StartedInv'
  BY <1>3, EtcdAssumption DEF StartedInv, TypeOK
<1> QED
  BY <1>6, <1>7, <1>8, <1>9, <1>10, <1>11, <1>12, <1>13, <1>14, <1>15, <1>16

LEMMA PublishStep ==
  ASSUME IInv, NEW n \in Nodes, Publish(n)
  PROVE  IInv'
<1> USE EtcdAssumption DEF IInv, Publish, zk, disk, leaver, counters, Goto
<1>1. data[n] \in Nodes /\ n \in dir /\ n \in MembersOf(data[n])
  BY DEF DiskInv, TypeOK, Up
<1>2. SetMember(data[n], n, "started")
  OBVIOUS
<1>3. /\ members' \in [Nodes -> [Nodes -> {"out", "added", "started"}]]
      /\ \A d, m \in Nodes :
            members'[d][m] = IF d = data[n] /\ m = n THEN "started" ELSE members[d][m]
  BY <1>1, <1>2, MemberSet
<1>4. leaves = 0 => n \in zkNodes
  BY <1>1 DEF FounderInv, DiskInv
<1>5. TypeOK'
  BY <1>3 DEF TypeOK, Locked, Etcdctl, Up, Steps
<1>6. LockInv'
  BY DEF LockInv, TypeOK, Locked, Etcdctl, Up, Steps, LeaveLocked
<1>7. ListInv'
  BY DEF ListInv, LockInv, TypeOK, Locked, Etcdctl, Up, Steps, LeaveLocked
<1>8. DiskInv'
  BY DEF DiskInv, TypeOK, Locked, Etcdctl, Up, Steps
<1>9. SinceInv'
  BY SinceKept DEF DiskInv, TypeOK, Founding, Listed, Locked, Etcdctl, Up, Steps
<1>10. LogInv'
  BY <1>1, <1>3 DEF LogInv
<1>11. RegisteredInv'
  BY <1>3 DEF RegisteredInv, TypeOK
<1>12. QuorumInv'
  BY <1>3, <1>4 DEF QuorumInv, TypeOK
<1>13. FounderInv'
  BY <1>3, <1>4 DEF FounderInv, Founding
<1>14. StartedInv'
  BY <1>1, <1>3, EtcdAssumption DEF StartedInv, TypeOK
<1>15. OneCluster'
  BY DEF OneCluster
<1> QED
  BY <1>5, <1>6, <1>7, <1>8, <1>9, <1>10, <1>11, <1>12, <1>13, <1>14, <1>15

LEMMA LeaveRemoveStep ==
  ASSUME IInv, NEW x \in Nodes, LeaveRemove(x)
  PROVE  IInv'
<1> USE EtcdAssumption DEF IInv, LeaveRemove, zk, disk, leaver, counters, LeaveGoto
<1>1. PICK c \in Nodes : /\ \E k \in Nodes : data[k] = c /\ pc[k] \in Up
                        /\ SetMember(c, x, "out")
  BY HealthyRuns
<1>2. /\ members' \in [Nodes -> [Nodes -> {"out", "added", "started"}]]
      /\ \A d, m \in Nodes :
            members'[d][m] = IF d = c /\ m = x THEN "out" ELSE members[d][m]
  BY <1>1, MemberSet
<1>3. TypeOK'
  BY <1>2 DEF TypeOK, Locked, Etcdctl, Up, Steps, LeaveLocked
<1>4. LockInv'
  BY DEF LockInv, TypeOK, Locked, Etcdctl, Up, Steps, LeaveLocked
<1>5. ListInv'
  BY DEF ListInv, LockInv, TypeOK, Locked, Etcdctl, Up, Steps, LeaveLocked
<1>6. LogInv'
  BY <1>2 DEF LogInv
<1>7. RegisteredInv'
  BY <1>2 DEF RegisteredInv, ListInv, TypeOK
<1>8. QuorumInv'
  BY <1>2 DEF QuorumInv, TypeOK
<1>9. FounderInv'
  BY <1>2 DEF FounderInv, Founding
<1>10. StartedInv'
  BY <1>2 DEF StartedInv
<1>11. SinceInv'
  BY SinceKept DEF Founding, Listed
<1>12. DiskInv' /\ OneCluster'
  BY DEF DiskInv, OneCluster
<1> QED
  BY <1>3, <1>4, <1>5, <1>6, <1>7, <1>8, <1>9, <1>10, <1>11, <1>12

LEMMA CrashStep ==
  ASSUME IInv, NEW n \in Nodes, Crash(n)
  PROVE  IInv'
<1> USE EtcdAssumption DEF IInv, Crash, zk, disk, leaver, counters, Goto, Killed
<1>1. TypeOK'
  BY DEF TypeOK, Locked, Etcdctl, Up, Steps, Lists, LeaveLocked
<1>2. LockInv'
  BY DEF LockInv, TypeOK, Locked, Etcdctl, Up, Steps, LeaveLocked
<1>3. ListInv'
  BY DEF ListInv, LockInv, TypeOK, Locked, Etcdctl, Up, Steps, LeaveLocked
<1>4. DiskInv'
  BY DEF DiskInv, TypeOK, Locked, Etcdctl, Up, Steps
<1>5. SinceInv'
  BY SinceKept DEF DiskInv, TypeOK, Founding, Listed, Locked, Etcdctl, Up, Steps
<1>6. QuorumInv'
  BY DEF QuorumInv, TypeOK
<1>7. StartedInv'
  BY DEF StartedInv, TypeOK, DiskInv, Locked, Etcdctl, Up, Steps
<1>8. LogInv' /\ RegisteredInv' /\ FounderInv' /\ OneCluster'
  BY DEF LogInv, RegisteredInv, FounderInv, OneCluster, Founding
<1> QED
  BY <1>1, <1>2, <1>3, <1>4, <1>5, <1>6, <1>7, <1>8

LEMMA ReplacedStep ==
  ASSUME IInv, NEW n \in Nodes, Replaced(n)
  PROVE  IInv'
<1> USE EtcdAssumption DEF IInv, Replaced, zk, disk, leaver, counters, Goto, Killed
<1>1. TypeOK'
  BY DEF TypeOK, Locked, Etcdctl, Up, Steps, Lists, LeaveLocked
<1>2. LockInv'
  BY DEF LockInv, TypeOK, Locked, Etcdctl, Up, Steps, LeaveLocked
<1>3. ListInv'
  BY DEF ListInv, LockInv, TypeOK, Locked, Etcdctl, Up, Steps, LeaveLocked
<1>4. DiskInv'
  BY DEF DiskInv, TypeOK, Locked, Etcdctl, Up, Steps
<1>5. SinceInv'
  BY SinceKept DEF DiskInv, TypeOK, Founding, Listed, Locked, Etcdctl, Up, Steps
<1>6. LogInv'
  <2>1. data' = [data EXCEPT ![n] = None]
    OBVIOUS
  <2>2. data[n] # None => \E k \in Nodes \ {n} : data[k] = data[n]
    <3> SUFFICES ASSUME data[n] # None
                 PROVE  \E k \in Nodes \ {n} : data[k] = data[n]
      OBVIOUS
    <3>1. data[n] \in Nodes /\ Majority(Running(data[n]) \ {n}, data[n])
      BY DEF TypeOK
    <3>2. Running(data[n]) \ {n} \in SUBSET Nodes
      BY DEF Running
    <3> QED BY <3>1, <3>2, MajorityExists DEF Running
  <2> QED BY <2>1, <2>2 DEF LogInv, TypeOK
<1>7. RegisteredInv'
  BY DEF RegisteredInv, DiskInv, TypeOK, Locked, Etcdctl, Up, Steps
<1>8. QuorumInv'
  BY DEF QuorumInv, TypeOK
<1>9. FounderInv'
  BY DEF FounderInv, Founding, TypeOK
<1>10. OneCluster'
  BY DEF OneCluster, TypeOK
<1>11. StartedInv'
  BY DEF StartedInv, TypeOK, DiskInv, Locked, Etcdctl, Up, Steps
<1> QED
  BY <1>1, <1>2, <1>3, <1>4, <1>5, <1>6, <1>7, <1>8, <1>9, <1>10, <1>11

----------------------------------------------------------------------------
LEMMA NextInv == IInv /\ [Next]_vars => IInv'
<1> SUFFICES ASSUME IInv, [Next]_vars
             PROVE  IInv'
  OBVIOUS
<1>1. CASE UNCHANGED vars
  <2> USE <1>1 DEF vars, zk, disk, leaver, counters, IInv
  <2>1. TypeOK' /\ LockInv' /\ ListInv' /\ DiskInv' /\ LogInv' /\ RegisteredInv'
    BY DEF TypeOK, LockInv, ListInv, DiskInv, LogInv, RegisteredInv
  <2>2. SinceInv' /\ QuorumInv' /\ FounderInv' /\ OneCluster' /\ StartedInv'
    BY SinceKept DEF QuorumInv, FounderInv, OneCluster, StartedInv, Founding, Listed
  <2> QED BY <2>1, <2>2
<1>2. ASSUME NEW n \in Nodes, Join(n)
      PROVE  IInv'
  BY <1>2, BeginStep, AcquireStep, AcquireTimeoutStep, ReadStep, RemoveListStep, RemoveStep,
     EnsureListStep, AddStep, EtcdctlFailsStep, RegisterReadStep, RegisterWriteStep, DumpStep,
     ReleaseStep DEF Join
<1>3. ASSUME NEW n \in Nodes, Etcd(n)
      PROVE  IInv'
  BY <1>3, MakeDirStep, NewClusterStep, JoinExistingStep, RestartStep, StartFailsStep,
     PublishStep, ShutDownStep DEF Etcd
<1>4. ASSUME NEW x \in Nodes, Leave(x)
      PROVE  IInv'
  BY <1>4, LeaveAcquireStep, LeaveTimeoutStep, LeaveReadStep, LeaveWriteStep, LeaveListStep,
     LeaveRemoveStep, LeaveReleaseStep DEF Leave
<1>5. ASSUME NEW n \in Nodes, Crash(n) \/ Replaced(n) \/ LeaveStart(n) \/ LeaveKilled(n)
      PROVE  IInv'
  BY <1>5, CrashStep, ReplacedStep, LeaveStartStep, LeaveKilledStep
<1> QED
  BY <1>1, <1>2, <1>3, <1>4, <1>5, OrphanExpiresStep DEF Next

(* As long as no node has left, all masters that have data have that of    *)
(* one cluster, however often they are killed or replaced (join_cluster).  *)
THEOREM MastersFormOneCluster == Spec => []OneCluster
<1>1. Spec => []IInv
  BY InitInv, NextInv, PTL DEF Spec
<1>2. IInv => OneCluster
  BY DEF IInv
<1> QED
  BY <1>1, <1>2, PTL

(* A member that has lost its data has been removed from the cluster       *)
(* before etcd starts on it again (join_cluster).                          *)
THEOREM ReplacedMembersAreReadded == Spec => []ReplacedIsReadded
<1>1. Spec => []IInv
  BY InitInv, NextInv, PTL DEF Spec
<1>2. IInv => ReplacedIsReadded
  BY DEF IInv, StartedInv, ReplacedIsReadded
<1> QED
  BY <1>1, <1>2, PTL

(* Nodes that are registered and have data are members, whoever leaves, is *)
(* killed or replaced; and while nothing fails all members are registered  *)
(* when the lock is free (join_cluster, leave_cluster).                    *)
THEOREM TheListIsTheQuorum == Spec => []ListIsQuorum
<1>1. Spec => []IInv
  BY InitInv, NextInv, PTL DEF Spec
<1>2. IInv => ListIsQuorum
  BY EtcdAssumption DEF IInv, RegisteredInv, QuorumInv, LockInv, Locked, TypeOK, ListIsQuorum
<1> QED
  BY <1>1, <1>2, PTL
=============================================================================
