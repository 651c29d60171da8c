------------------------- MODULE CockroachRegister -------------------------
(***************************************************************************)
(* Bootstrapping the CockroachDB cluster of the DC/OS masters:             *)
(* src/packages/cockroach/extra/register.py, run by dcos-cockroach.service *)
(* before cockroach.sh on every master.                                    *)
(*                                                                         *)
(* The masters agree through ZooKeeper: a ZNode with the list of nodes     *)
(* that have joined, and a lock (an ephemeral node of the holder's         *)
(* session).  The first node starts CockroachDB without --join, which      *)
(* creates a cluster, and registers; the others register and start with    *)
(* --join=<registered nodes>.                                              *)
(*                                                                         *)
(* The program may die at any step (an exception, systemd's start timeout, *)
(* a reboot) and is restarted.  A lock it held stays until ZooKeeper has   *)
(* expired the session of the dead process.  Spec also lets the session of *)
(* a living process expire, as when its host is cut off from ZooKeeper for *)
(* longer than the session timeout: it gets a new session and is not told  *)
(* that its lock is gone.                                                  *)
(***************************************************************************)
EXTENDS Integers

CONSTANTS
    Nodes,      \* the masters, by IP address
    None,       \* no node
    MaxCrashes, \* bound: how often a program dies
    MaxExpiries \* bound: how often the session of a living program expires

ASSUME RegisterAssumption ==
    None \notin Nodes /\ MaxCrashes \in Nat /\ MaxExpiries \in Nat

VARIABLES
    zkNodes,    \* the nodes in the ZNode /cockroach/nodes
    lock,       \* the node whose session holds the ZNode /cockroach/lock
    orphaned,   \* the process of that session is dead
    pc,         \* where main() is on each node
    way,        \* how it has come to register: "bootstrap" or "join"
    nodes,      \* its variable "nodes", the members it last read
    file,       \* /run/dcos/cockroach/nodes on each node
    child,      \* the nodes running CockroachDB without --join
    store,      \* the cluster in /var/lib/dcos/cockroach, named after the
                \*   node that created it
    crashes, expiries

zk == <<zkNodes, lock, orphaned>>
data == <<file, child, store>>
counters == <<crashes, expiries>>
vars == <<zk, pc, way, nodes, data, counters>>

Locked == {"check", "init", "init_wait", "init_stop", "reg_read", "reg_write",
           "release", "dump_locked", "release_last"}
Steps == Locked \cup {"read", "acquire", "dump", "exec", "serving"}

TypeOK ==
    /\ zkNodes \subseteq Nodes
    /\ lock \in Nodes \cup {None}
    /\ orphaned \in BOOLEAN
    /\ pc \in [Nodes -> Steps]
    /\ way \in [Nodes -> {"bootstrap", "join"}]
    /\ nodes \in [Nodes -> SUBSET Nodes]
    /\ file \in [Nodes -> SUBSET Nodes]
    /\ child \subseteq Nodes
    /\ store \in [Nodes -> Nodes \cup {None}]
    /\ crashes \in Nat /\ expiries \in Nat

Init ==
    /\ zkNodes = {}
    /\ lock = None /\ orphaned = FALSE
    /\ pc = [n \in Nodes |-> "read"]
    /\ way = [n \in Nodes |-> "join"]
    /\ nodes = [n \in Nodes |-> {}]
    /\ file = [n \in Nodes |-> {}]
    /\ child = {}
    /\ store = [n \in Nodes |-> None]
    /\ crashes = 0 /\ expiries = 0

Goto(n, step) == pc' = [pc EXCEPT ![n] = step]

(* _get_registered_nodes: sync, then get. *)
GetRegisteredNodes(n) == nodes' = [nodes EXCEPT ![n] = zkNodes]

(* Mutant of DumpNodes: a separator after the last name adds an empty one *)
DumpNodesTrailingSeparator(n) == file' = [file EXCEPT ![n] = nodes[n] \cup {None}]

DumpNodes(n) == file' = [file EXCEPT ![n] = nodes[n]]

----------------------------------------------------------------------------
(* main *)

(* Mutant of Read: an existing cluster is joined without registering *)
ReadUnregistered(n) ==
    /\ pc[n] = "read"
    /\ GetRegisteredNodes(n)
    /\ way' = [way EXCEPT ![n] = IF zkNodes = {} THEN "bootstrap" ELSE "join"]
    /\ Goto(n, IF zkNodes # {} THEN "dump" ELSE "acquire")
    /\ UNCHANGED <<zk, data, counters>>

(* The first look at the list is taken without the lock. *)
Read(n) ==
    /\ pc[n] = "read"
    /\ GetRegisteredNodes(n)
    /\ way' = [way EXCEPT ![n] = IF zkNodes = {} THEN "bootstrap" ELSE "join"]
    /\ Goto(n, IF n \in zkNodes THEN "dump" ELSE "acquire")
    /\ UNCHANGED <<zk, data, counters>>

(* Mutant of Acquire: the result of a non-blocking acquire is not looked at *)
AcquireUnchecked(n) ==
    /\ pc[n] = "acquire"
    /\ lock' = n /\ orphaned' = FALSE
    /\ Goto(n, IF way[n] = "bootstrap" THEN "check" ELSE "reg_read")
    /\ UNCHANGED <<zkNodes, way, nodes, data, counters>>

Acquire(n) ==
    /\ pc[n] = "acquire"
    /\ lock = None
    /\ lock' = n /\ orphaned' = FALSE
    /\ Goto(n, IF way[n] = "bootstrap" THEN "check" ELSE "reg_read")
    /\ UNCHANGED <<zkNodes, way, nodes, data, counters>>

(* LockTimeout: the program fails and systemd starts it again. *)
AcquireTimeout(n) ==
    /\ pc[n] = "acquire"
    /\ lock # None
    /\ Goto(n, "read")
    /\ UNCHANGED <<zk, way, nodes, data, counters>>

(* Mutant of Check: the list is not checked again under the lock *)
CheckSkipped(n) ==
    /\ pc[n] = "check"
    /\ Goto(n, "init")
    /\ UNCHANGED <<zk, way, nodes, data, counters>>

Check(n) ==
    /\ pc[n] = "check"
    /\ GetRegisteredNodes(n)
    /\ Goto(n, IF zkNodes = {} THEN "init" ELSE "reg_read")
    /\ UNCHANGED <<zk, way, data, counters>>

(* _init_cockroachdb_cluster: start, wait for a cluster id, stop. *)
StartWithoutJoin(n) ==
    /\ pc[n] = "init"
    /\ child' = child \cup {n}
    /\ Goto(n, "init_wait")
    /\ UNCHANGED <<zk, way, nodes, file, store, counters>>

(* CockroachDB without --join makes an empty store a cluster of its own. *)
CreateCluster(n) ==
    /\ n \in child
    /\ store[n] = None
    /\ store' = [store EXCEPT ![n] = n]
    /\ UNCHANGED <<zk, pc, way, nodes, file, child, counters>>

ClusterIdSeen(n) ==
    /\ pc[n] = "init_wait"
    /\ store[n] # None
    /\ Goto(n, "init_stop")
    /\ UNCHANGED <<zk, way, nodes, data, counters>>

StopBootstrap(n) ==
    /\ pc[n] = "init_stop"
    /\ child' = child \ {n}
    /\ Goto(n, "reg_read")
    /\ UNCHANGED <<zk, way, nodes, file, store, counters>>

(* Mutant of RegisterRead: uses the list main read before it took the lock *)
RegisterReadStale(n) ==
    /\ pc[n] = "reg_read"
    /\ Goto(n, IF n \notin nodes[n] THEN "reg_write"
               ELSE IF way[n] = "join" THEN "release" ELSE "dump_locked")
    /\ UNCHANGED <<zk, way, nodes, data, counters>>

(* _register_cluster_membership *)
RegisterRead(n) ==
    /\ pc[n] = "reg_read"
    /\ GetRegisteredNodes(n)
    /\ Goto(n, IF n \notin zkNodes THEN "reg_write"
               ELSE IF way[n] = "join" THEN "release" ELSE "dump_locked")
    /\ UNCHANGED <<zk, way, data, counters>>

(* Mutant of RegisterWrite: the list is returned as it was read *)
RegisterWriteReturnsOld(n) ==
    /\ pc[n] = "reg_write"
    /\ zkNodes' = nodes[n] \cup {n}
    /\ Goto(n, IF way[n] = "join" THEN "release" ELSE "dump_locked")
    /\ UNCHANGED <<lock, orphaned, nodes, way, data, counters>>

RegisterWrite(n) ==
    /\ pc[n] = "reg_write"
    /\ zkNodes' = nodes[n] \cup {n}
    /\ nodes' = [nodes EXCEPT ![n] = zkNodes']
    /\ Goto(n, IF way[n] = "join" THEN "release" ELSE "dump_locked")
    /\ UNCHANGED <<lock, orphaned, way, data, counters>>

(* _dump_nodes_to_file, before the end of the lock's block or after it. *)
Dump(n) ==
    /\ pc[n] \in {"dump", "dump_locked"}
    /\ DumpNodes(n)
    /\ Goto(n, IF pc[n] = "dump" THEN "exec" ELSE "release_last")
    /\ UNCHANGED <<zk, way, nodes, child, store, counters>>

(* Mutant of Release: an early return leaves the lock taken *)
ReleaseForgotten(n) ==
    /\ pc[n] \in {"release", "release_last"}
    /\ Goto(n, IF pc[n] = "release" THEN "dump" ELSE "exec")
    /\ UNCHANGED <<zk, way, nodes, data, counters>>

(* Deletes the lock's ZNode if this session still has it. *)
Release(n) ==
    /\ pc[n] \in {"release", "release_last"}
    /\ lock' = IF lock = n /\ ~orphaned THEN None ELSE lock
    /\ Goto(n, IF pc[n] = "release" THEN "dump" ELSE "exec")
    /\ UNCHANGED <<zkNodes, orphaned, way, nodes, data, counters>>

(* cockroach.sh: cockroach start --join=<file>.  An empty store becomes    *)
(* part of the cluster of a peer on the list; a store that has a cluster   *)
(* keeps it.                                                               *)
StartWithJoin(n) ==
    /\ pc[n] = "exec"
    /\ \/ store[n] # None /\ UNCHANGED store
       \/ /\ store[n] = None
          /\ \E m \in file[n] : store[m] # None /\ store' = [store EXCEPT ![n] = store[m]]
    /\ Goto(n, "serving")
    /\ UNCHANGED <<zk, way, nodes, file, child, counters>>

----------------------------------------------------------------------------
(* The program or the service dies; systemd kills what it has started and *)
(* starts it again.                                                       *)
Crash(n) ==
    /\ crashes < MaxCrashes
    /\ crashes' = crashes + 1
    /\ Goto(n, "read")
    /\ child' = child \ {n}
    /\ orphaned' = (orphaned \/ lock = n)
    /\ UNCHANGED <<zkNodes, lock, way, nodes, file, store, expiries>>

(* ZooKeeper expires the session of a dead process. *)
OrphanExpires ==
    /\ orphaned
    /\ lock' = None /\ orphaned' = FALSE
    /\ UNCHANGED <<zkNodes, pc, way, nodes, data, counters>>

(* ... or of a living one, which goes on. *)
SessionExpires(n) ==
    /\ expiries < MaxExpiries
    /\ lock = n /\ ~orphaned
    /\ lock' = None
    /\ expiries' = expiries + 1
    /\ UNCHANGED <<zkNodes, orphaned, pc, way, nodes, data, crashes>>

Step(n) ==
    \/ Read(n) \/ Acquire(n) \/ AcquireTimeout(n) \/ Check(n)
    \/ StartWithoutJoin(n) \/ CreateCluster(n) \/ ClusterIdSeen(n) \/ StopBootstrap(n)
    \/ RegisterRead(n) \/ RegisterWrite(n) \/ Dump(n) \/ Release(n)
    \/ StartWithJoin(n)

StableNext == (\E n \in Nodes : Step(n) \/ Crash(n)) \/ OrphanExpires

Next == StableNext \/ \E n \in Nodes : SessionExpires(n)

Spec == Init /\ [][Next]_vars

(* No session of a living process expires. *)
StableSpec == Init /\ [][StableNext]_vars

(* Processes go on, and ZooKeeper expires the sessions of dead ones. *)
FairSpec ==
    /\ StableSpec
    /\ \A n \in Nodes : WF_vars(Step(n))
    /\ WF_vars(OrphanExpires)
----------------------------------------------------------------------------
(* "This lock prevents multiple instances from starting without --join at  *)
(* the same time" (main).                                                  *)
OneBootstrap == \A m, n \in child : m = n

(* "Nodes can only ever be added, never removed" from the list (module     *)
(* documentation, step 2), although each registration writes the whole     *)
(* list back.                                                              *)
MembersNeverLost == [][zkNodes \subseteq zkNodes']_vars

(* A node that starts with --join is given a list with itself and with a   *)
(* node that has a cluster to join, unless it has a store already.         *)
JoinListUsable ==
    \A n \in Nodes : pc[n] = "exec" =>
        n \in file[n] /\ \E m \in file[n] : store[m] # None

(* Without crashes, all registered nodes that have data have it from the    *)
(* same cluster.  (A node that dies between creating a cluster and          *)
(* registering keeps its store and brings it along when it registers later, *)
(* possibly with the members of another one.)                               *)
OneCluster ==
    crashes = 0 => \A m, n \in zkNodes :
        store[m] # None /\ store[n] # None => store[m] = store[n]

(* "The locking behaviour does converge and no timeout-sensitive livelock  *)
(* can occur" (ZK_LOCK_TIMEOUT): once the programs stop dying, every node  *)
(* ends up serving.                                                        *)
Converges == \A n \in Nodes : <>[](pc[n] = "serving")

Membership == INSTANCE ClusterMembership WITH
    members <- zkNodes,
    serving <- {n \in Nodes : pc[n] = "serving"}

(* The registered nodes and the serving ones are as the abstract           *)
(* membership list has it.                                                 *)
ImplementsMembership == Membership!Spec
=============================================================================
