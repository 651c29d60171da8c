--------------------------- MODULE EtcdDiscovery ---------------------------
(***************************************************************************)
(* Membership of the etcd cluster of the DC/OS masters:                    *)
(* src/packages/etcd/extra/etcd_discovery/etcd_discovery.py.               *)
(* dcos-etcd.service runs "join-cluster" before etcd.sh on every master;   *)
(* an operator runs "leave-cluster" for a master that is taken away.       *)
(*                                                                         *)
(* Three records of the membership have to agree: the list in ZooKeeper,   *)
(* written under a lock; the member list of etcd, changed with etcdctl,    *)
(* which works only while a majority of it is up; and the data directory   *)
(* of each node.  The programs may be killed between any two steps, and a  *)
(* master may be replaced by an empty one with the same address.           *)
(***************************************************************************)
EXTENDS Integers, FiniteSets

CONSTANTS
    Nodes,      \* the masters, by IP address; a cluster is named after the
                \*   node that initialised it
    None,
    MaxEvents   \* bound: how often a program dies, a master is replaced or
                \*   leave-cluster is run

Etcdctl == {"relist", "remove", "list", "add"}
Locked == {"read", "reg_read", "reg_write", "dump", "release"} \cup Etcdctl
Up == {"run", "serving"}
Steps == {"begin", "acquire", "exec", "etcd"} \cup Locked \cup Up
LeaveLocked == {"zk_read", "zk_write", "members", "remove", "release"}

ASSUME EtcdAssumption ==
    /\ None \notin Nodes /\ IsFiniteSet(Nodes)
    /\ \A n \in Nodes : None # <<"join", n>> /\ None # <<"leave", n>>
    /\ \A list \in [nodes : SUBSET Nodes, new : BOOLEAN] : list # None
    /\ MaxEvents \in Nat

VARIABLES
    zkNodes,   \* the nodes in the ZNode /etcd/nodes
    lock,      \* the program whose session holds the ZNode /etcd/locking
    orphaned,  \* that program is dead
    members,   \* the member list of each etcd cluster: a member that has been
               \*   added has no name before it has started
    pc,        \* where join-cluster, then etcd, is on each node
    nodes,     \* the list join-cluster last read
    fresh,     \* its cluster_state, "new" or "existing"
    files,     \* initial-nodes and initial-state on each node
    dir,       \* the nodes with a directory default.etcd
    data,      \* the cluster whose log is in it
    leaving,   \* where leave-cluster is, for each node it is run for
    left,      \* the list leave-cluster last read
    crashes, losses, leaves

zk == <<zkNodes, lock, orphaned>>
disk == <<files, dir, data>>
leaver == <<leaving, left>>
counters == <<crashes, losses, leaves>>
vars == <<zk, members, pc, nodes, fresh, disk, leaver, counters>>

Init ==
    /\ zkNodes = {}
    /\ lock = None /\ orphaned = FALSE
    /\ members = [c \in Nodes |-> [n \in Nodes |-> "out"]]
    /\ pc = [n \in Nodes |-> "begin"]
    /\ nodes = [n \in Nodes |-> {}]
    /\ fresh = [n \in Nodes |-> FALSE]
    /\ files = [n \in Nodes |-> None]
    /\ dir = {}
    /\ data = [n \in Nodes |-> None]
    /\ leaving = [n \in Nodes |-> "no"]
    /\ left = [n \in Nodes |-> {}]
    /\ crashes = 0 /\ losses = 0 /\ leaves = 0

Goto(n, step) == pc' = [pc EXCEPT ![n] = step]
LeaveGoto(x, step) == leaving' = [leaving EXCEPT ![x] = step]

Unlocked == lock' = None /\ UNCHANGED <<zkNodes, orphaned>>

----------------------------------------------------------------------------
(* etcd and etcdctl *)

MembersOf(c) == {n \in Nodes : members[c][n] # "out"}

Started(c) == {n \in Nodes : members[c][n] = "started"}

Majority(S, c) == 2 * Cardinality(S \cap MembersOf(c)) > Cardinality(MembersOf(c))

Running(c) == {n \in Nodes : pc[n] \in Up /\ data[n] = c}

(* "endpoint health" writes through the quorum: the clusters that one of   *)
(* the endpoints is a healthy node of.                                     *)
Healthy(endpoints) ==
    {c \in Nodes : Majority(Running(c), c)
                   /\ endpoints \cap Running(c) \cap MembersOf(c) # {}}

(* etcd refuses a change after which too few members would be started.     *)
CanAdd(c, n) ==
    /\ members[c][n] = "out"
    /\ \/ Cardinality(MembersOf(c)) = 1
       \/ 2 * Cardinality(Started(c)) > Cardinality(MembersOf(c)) + 1

CanRemove(c, n) ==
    2 * Cardinality(Started(c) \ {n}) > Cardinality(MembersOf(c) \ {n})

SetMember(c, n, status) == members' = [members EXCEPT ![c][n] = status]

----------------------------------------------------------------------------
(* join-cluster *)

(* A node with a data directory and both files goes straight to etcd.      *)
Begin(n) ==
    /\ pc[n] = "begin"
    /\ Goto(n, IF n \in dir /\ files[n] # None THEN "etcd" ELSE "acquire")
    /\ UNCHANGED <<zk, members, nodes, fresh, disk, leaver, counters>>

(* Mutant of Acquire: the result of a non-blocking acquire is not looked at *)
AcquireUnchecked(n) ==
    /\ pc[n] = "acquire"
    /\ lock' = <<"join", n>> /\ orphaned' = FALSE
    /\ Goto(n, "read")
    /\ UNCHANGED <<zkNodes, members, nodes, fresh, disk, leaver, counters>>

Acquire(n) ==
    /\ pc[n] = "acquire"
    /\ lock = None
    /\ lock' = <<"join", n>> /\ orphaned' = FALSE
    /\ Goto(n, "read")
    /\ UNCHANGED <<zkNodes, members, nodes, fresh, disk, leaver, counters>>

(* LockTimeout: the program fails and systemd starts it again. *)
AcquireTimeout(n) ==
    /\ pc[n] = "acquire"
    /\ lock # None
    /\ Goto(n, "begin")
    /\ UNCHANGED <<zk, members, nodes, fresh, disk, leaver, counters>>

(* Mutant of Read: a registered node is taken to have its data *)
ReadTrustsList(n) ==
    /\ pc[n] = "read"
    /\ nodes' = [nodes EXCEPT ![n] = zkNodes]
    /\ fresh' = [fresh EXCEPT ![n] = zkNodes = {}]
    /\ Goto(n, IF zkNodes # {} /\ n \notin zkNodes THEN "list" ELSE "reg_read")
    /\ UNCHANGED <<zk, members, disk, leaver, counters>>

(* The list decides: nobody is registered, I am not, my data is lost. *)
Read(n) ==
    /\ pc[n] = "read"
    /\ nodes' = [nodes EXCEPT ![n] = zkNodes]
    /\ fresh' = [fresh EXCEPT ![n] = zkNodes = {}]
    /\ Goto(n, IF zkNodes = {} THEN "reg_read"
               ELSE IF n \notin zkNodes THEN "list"
               ELSE IF n \notin dir THEN "relist" ELSE "reg_read")
    /\ UNCHANGED <<zk, members, disk, leaver, counters>>

(* Mutant of Fail: no "finally" around the lock's block *)
FailLocked(n) ==
    /\ Goto(n, "begin")
    /\ UNCHANGED <<zk, members, nodes, fresh, disk, leaver, counters>>

(* An exception: the lock is released, the program started again. *)
Fail(n) ==
    /\ Goto(n, "begin")
    /\ Unlocked
    /\ UNCHANGED <<members, nodes, fresh, disk, leaver, counters>>

(* remove_member: a member without a name is not found. *)
RemoveList(n) ==
    /\ pc[n] = "relist"
    /\ \E c \in Healthy(nodes[n]) :
         Goto(n, IF members[c][n] = "started" THEN "remove" ELSE "list")
    /\ UNCHANGED <<zk, members, nodes, fresh, disk, leaver, counters>>

Remove(n) ==
    /\ pc[n] = "remove"
    /\ \E c \in Healthy(nodes[n]) :
         /\ CanRemove(c, n)
         /\ SetMember(c, n, "out")
    /\ Goto(n, "list")
    /\ UNCHANGED <<zk, nodes, fresh, disk, leaver, counters>>

(* ensure_member: only a member with a name counts as one. *)
EnsureList(n) ==
    /\ pc[n] = "list"
    /\ \E c \in Healthy(nodes[n]) :
         Goto(n, IF members[c][n] = "started" THEN "reg_read" ELSE "add")
    /\ UNCHANGED <<zk, members, nodes, fresh, disk, leaver, counters>>

Add(n) ==
    /\ pc[n] = "add"
    /\ \E c \in Healthy(nodes[n]) :
         /\ CanAdd(c, n)
         /\ SetMember(c, n, "added")
    /\ Goto(n, "reg_read")
    /\ UNCHANGED <<zk, nodes, fresh, disk, leaver, counters>>

(* No healthy node, or etcd refuses the change. *)
EtcdctlFails(n) ==
    /\ pc[n] \in Etcdctl
    /\ \A c \in Healthy(nodes[n]) : CASE pc[n] = "remove" -> ~CanRemove(c, n)
                                      [] pc[n] = "add" -> ~CanAdd(c, n)
                                      [] OTHER -> FALSE
    /\ Fail(n)

(* register_cluster_membership *)
RegisterRead(n) ==
    /\ pc[n] = "reg_read"
    /\ nodes' = [nodes EXCEPT ![n] = zkNodes]
    /\ Goto(n, IF n \in zkNodes THEN "dump" ELSE "reg_write")
    /\ UNCHANGED <<zk, members, fresh, disk, leaver, counters>>

RegisterWrite(n) ==
    /\ pc[n] = "reg_write"
    /\ zkNodes' = nodes[n] \cup {n}
    /\ nodes' = [nodes EXCEPT ![n] = zkNodes']
    /\ Goto(n, "dump")
    /\ UNCHANGED <<lock, orphaned, members, fresh, disk, leaver, counters>>

(* Both files; etcd starts only after both, and a program that dies between *)
(* them writes both again.                                                  *)
Dump(n) ==
    /\ pc[n] = "dump"
    /\ files' = [files EXCEPT ![n] = [nodes |-> nodes[n], new |-> fresh[n]]]
    /\ Goto(n, "release")
    /\ UNCHANGED <<zk, members, nodes, fresh, dir, data, leaver, counters>>

Release(n) ==
    /\ pc[n] = "release"
    /\ Unlocked
    /\ Goto(n, "exec")
    /\ UNCHANGED <<members, nodes, fresh, disk, leaver, counters>>

----------------------------------------------------------------------------
(* etcd.sh and etcd *)

MakeDir(n) ==
    /\ pc[n] = "exec"
    /\ dir' = dir \cup {n}
    /\ Goto(n, "etcd")
    /\ UNCHANGED <<zk, members, nodes, fresh, files, data, leaver, counters>>

(* The cluster an empty node joins: that of a running peer, if its member  *)
(* list is the list the node was given.                                    *)
Joinable(n) ==
    {c \in Nodes : files[n].nodes \cap Running(c) # {} /\ MembersOf(c) = files[n].nodes}

NewCluster(n) ==
    /\ pc[n] = "etcd" /\ data[n] = None /\ files[n].new
    /\ data' = [data EXCEPT ![n] = n]
    /\ members' = [members EXCEPT ![n] = [m \in Nodes |-> IF m \in files[n].nodes THEN "started" ELSE "out"]]
    /\ Goto(n, "run")
    /\ UNCHANGED <<zk, nodes, fresh, files, dir, leaver, counters>>

JoinExisting(n) ==
    /\ pc[n] = "etcd" /\ data[n] = None /\ ~files[n].new
    /\ \E c \in Joinable(n) : data' = [data EXCEPT ![n] = c]
    /\ Goto(n, "run")
    /\ UNCHANGED <<zk, members, nodes, fresh, files, dir, leaver, counters>>

(* With a log, a member comes back without looking at the files. *)
Restart(n) ==
    /\ pc[n] = "etcd" /\ data[n] # None
    /\ members[data[n]][n] # "out"
    /\ Goto(n, "run")
    /\ UNCHANGED <<zk, members, nodes, fresh, disk, leaver, counters>>

StartFails(n) ==
    /\ pc[n] = "etcd"
    /\ \/ data[n] = None /\ ~files[n].new /\ Joinable(n) = {}
       \/ data[n] # None /\ members[data[n]][n] = "out"
    /\ Goto(n, "begin")
    /\ UNCHANGED <<zk, members, nodes, fresh, disk, leaver, counters>>

(* etcd tells systemd it is ready once it has published its name. *)
Publish(n) ==
    /\ pc[n] = "run"
    /\ LET c == data[n] IN
         /\ n \in MembersOf(c) /\ Majority(Running(c), c)
         /\ SetMember(c, n, "started")
    /\ Goto(n, "serving")
    /\ UNCHANGED <<zk, nodes, fresh, disk, leaver, counters>>

(* A member that has been removed shuts down. *)
ShutDown(n) ==
    /\ pc[n] \in Up
    /\ members[data[n]][n] = "out"
    /\ Goto(n, "begin")
    /\ UNCHANGED <<zk, members, nodes, fresh, disk, leaver, counters>>

----------------------------------------------------------------------------
(* leave-cluster, run for node x *)

LeaveStart(x) ==
    /\ leaving[x] = "no"
    /\ crashes + losses + leaves < MaxEvents
    /\ leaves' = leaves + 1
    /\ LeaveGoto(x, "acquire")
    /\ UNCHANGED <<zk, members, pc, nodes, fresh, disk, left, crashes, losses>>

LeaveAcquire(x) ==
    /\ leaving[x] = "acquire"
    /\ lock = None
    /\ lock' = <<"leave", x>> /\ orphaned' = FALSE
    /\ LeaveGoto(x, "zk_read")
    /\ UNCHANGED <<zkNodes, members, pc, nodes, fresh, disk, left, counters>>

LeaveTimeout(x) ==
    /\ leaving[x] = "acquire"
    /\ lock # None
    /\ LeaveGoto(x, "no")
    /\ UNCHANGED <<zk, members, pc, nodes, fresh, disk, left, counters>>

(* Mutant of LeaveRead: the list in ZooKeeper is left to a later step *)
LeaveReadOnly(x) ==
    /\ leaving[x] = "zk_read"
    /\ left' = [left EXCEPT ![x] = zkNodes]
    /\ LeaveGoto(x, "members")
    /\ UNCHANGED <<zk, members, pc, nodes, fresh, disk, counters>>

(* remove_cluster_membership, and the list read again after it. *)
LeaveRead(x) ==
    /\ leaving[x] = "zk_read"
    /\ left' = [left EXCEPT ![x] = zkNodes]
    /\ LeaveGoto(x, IF x \in zkNodes THEN "zk_write" ELSE "members")
    /\ UNCHANGED <<zk, members, pc, nodes, fresh, disk, counters>>

LeaveWrite(x) ==
    /\ leaving[x] = "zk_write"
    /\ zkNodes' = left[x] \ {x}
    /\ left' = [left EXCEPT ![x] = zkNodes']
    /\ LeaveGoto(x, "members")
    /\ UNCHANGED <<lock, orphaned, members, pc, nodes, fresh, disk, counters>>

LeaveList(x) ==
    /\ leaving[x] = "members"
    /\ \E c \in Healthy(left[x]) :
         LeaveGoto(x, IF members[c][x] = "started" THEN "remove" ELSE "release")
    /\ UNCHANGED <<zk, members, pc, nodes, fresh, disk, left, counters>>

LeaveRemove(x) ==
    /\ leaving[x] = "remove"
    /\ \E c \in Healthy(left[x]) : CanRemove(c, x) /\ SetMember(c, x, "out")
    /\ LeaveGoto(x, "release")
    /\ UNCHANGED <<zk, pc, nodes, fresh, disk, left, counters>>

(* The end of the lock's block: the work is done, or etcdctl has failed. *)
LeaveRelease(x) ==
    /\ \/ leaving[x] = "release"
       \/ leaving[x] = "members" /\ Healthy(left[x]) = {}
       \/ leaving[x] = "remove" /\ \A c \in Healthy(left[x]) : ~CanRemove(c, x)
    /\ Unlocked
    /\ LeaveGoto(x, "no")
    /\ UNCHANGED <<members, pc, nodes, fresh, disk, left, counters>>

----------------------------------------------------------------------------
(* Failures *)

Killed(n) ==
    /\ Goto(n, "begin")
    /\ orphaned' = (orphaned \/ lock = <<"join", n>>)
    /\ UNCHANGED <<zkNodes, lock, members, nodes, fresh, leaver, leaves>>

Crash(n) ==
    /\ crashes + losses + leaves < MaxEvents
    /\ crashes' = crashes + 1
    /\ Killed(n)
    /\ UNCHANGED <<disk, losses>>

(* A master is replaced by an empty one with its address, while the others *)
(* are a majority of its cluster: without one etcd cannot go on.           *)
Replaced(n) ==
    /\ crashes + losses + leaves < MaxEvents
    /\ losses' = losses + 1
    /\ data[n] # None => Majority(Running(data[n]) \ {n}, data[n])
    /\ Killed(n)
    /\ files' = [files EXCEPT ![n] = None]
    /\ dir' = dir \ {n}
    /\ data' = [data EXCEPT ![n] = None]
    /\ UNCHANGED crashes

LeaveKilled(x) ==
    /\ crashes + losses + leaves < MaxEvents
    /\ crashes' = crashes + 1
    /\ leaving[x] \in LeaveLocked
    /\ LeaveGoto(x, "no")
    /\ orphaned' = TRUE
    /\ UNCHANGED <<zkNodes, lock, members, pc, nodes, fresh, disk, left, losses, leaves>>

(* ZooKeeper expires the session of a dead program. *)
OrphanExpires ==
    /\ orphaned
    /\ lock' = None /\ orphaned' = FALSE
    /\ UNCHANGED <<zkNodes, members, pc, nodes, fresh, disk, leaver, counters>>

----------------------------------------------------------------------------
Join(n) ==
    \/ Begin(n) \/ Acquire(n) \/ AcquireTimeout(n) \/ Read(n)
    \/ RemoveList(n) \/ Remove(n) \/ EnsureList(n) \/ Add(n) \/ EtcdctlFails(n)
    \/ RegisterRead(n) \/ RegisterWrite(n) \/ Dump(n) \/ Release(n)

Etcd(n) ==
    \/ MakeDir(n) \/ NewCluster(n) \/ JoinExisting(n) \/ Restart(n) \/ StartFails(n)
    \/ Publish(n) \/ ShutDown(n)

Leave(x) ==
    \/ LeaveAcquire(x) \/ LeaveTimeout(x) \/ LeaveRead(x) \/ LeaveWrite(x)
    \/ LeaveList(x) \/ LeaveRemove(x) \/ LeaveRelease(x)

Next ==
    \/ \E n \in Nodes : Join(n) \/ Etcd(n) \/ Crash(n) \/ Replaced(n)
    \/ \E x \in Nodes : LeaveStart(x) \/ Leave(x) \/ LeaveKilled(x)
    \/ OrphanExpires

Spec == Init /\ [][Next]_vars

(* Programs go on (systemd starts them again), and ZooKeeper expires the   *)
(* sessions of dead ones.                                                  *)
FairSpec ==
    /\ Spec
    /\ \A n \in Nodes : WF_vars(Join(n) \/ Etcd(n))
    /\ \A x \in Nodes : WF_vars(Leave(x))
    /\ WF_vars(OrphanExpires)
----------------------------------------------------------------------------
(* "The first node to register becomes the designated node that will       *)
(* initialize cluster, all the other nodes will join it" (join_cluster).   *)
(* leave-cluster for the only registered node makes the next one the first *)
(* again.                                                                  *)
OneCluster ==
    leaves = 0 => \A m, n \in Nodes :
        data[m] # None /\ data[n] # None => data[m] = data[n]

(* etcd is never started with an empty log as a member that has had data:  *)
(* "we should remove the member first before joining the cluster again for *)
(* keeping the member without the original data will bring raft exception" *)
(* (join_cluster).  A leave-cluster that takes the node off the list and   *)
(* then fails to remove the member breaks this.                            *)
ReplacedIsReadded ==
    leaves = 0 => \A n \in Nodes : pc[n] = "etcd" /\ data[n] = None =>
        \A c \in Nodes : members[c][n] # "started"

(* "The list of nodes in ZK reflect the nodes that have been actually      *)
(* added to the quorum" (join_cluster): a registered node with data is a   *)
(* member, and, while nothing has failed, a member is registered whenever  *)
(* the lock is free.                                                       *)
ListIsQuorum ==
    /\ \A n \in zkNodes : data[n] # None => members[data[n]][n] # "out"
    /\ lock = None /\ crashes + losses + leaves = 0 =>
           \A n, c \in Nodes : members[c][n] # "out" => n \in zkNodes

(* A node that has died, or been replaced, after it was added to etcd or   *)
(* registered and before etcd had made its data directory: join-cluster    *)
(* now has no way to tell what it has done.                                *)
Wedged(n) ==
    /\ pc[n] = "begin" /\ n \notin dir
    /\ n \in zkNodes \/ \E c \in Nodes : members[c][n] = "added"
    /\ \A c \in Nodes : members[c][n] # "started"

(* Unless a node is wedged or leaves, every master ends up in the cluster. *)
Converges ==
    [](leaves = 0 /\ \A n \in Nodes : ~Wedged(n))
        => \A n \in Nodes : <>[](pc[n] = "serving")

(* "Once a node/nodes get restarted, the quorum-member nodes will start    *)
(* and will not try to execute etcdctl" (join_cluster): while no node      *)
(* leaves or is replaced, a registered node ends up serving where another  *)
(* one does.                                                               *)
RegisteredStarts ==
    [](leaves + losses = 0) =>
        \A m, n \in Nodes :
            [](n \in zkNodes /\ m # n /\ pc[m] = "serving" => <>(pc[n] = "serving"))
=============================================================================
