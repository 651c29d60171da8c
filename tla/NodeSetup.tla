----------------------------- MODULE NodeSetup ------------------------------
(***************************************************************************)
(* The programs that systemd runs on every node before a service starts,   *)
(* and again whenever they have failed: `bootstrap' (dcos_internal_utils), *)
(* which makes the nodes agree on the cluster id; the one that makes       *)
(* docker's calico network (create-calico-docker-network.py); the one that *)
(* moves the users of DC/OS 1.12 from ZooKeeper to the IAM                 *)
(* (iam-migrate-users-from-zk.py); and the move of telegraf's files.       *)
(*                                                                         *)
(* A behaviour is about one of them.  The nodes run it at the same time,   *)
(* any of them may be killed, lose its session or the answer to a call.    *)
(***************************************************************************)
EXTENDS Naturals, FiniteSets

CONSTANTS
    Nodes,
    MasterSets, \* the sets of nodes that may be the masters
    Users,
    MaxLost     \* bound: kills, lost answers and sessions, servers that leave

VARIABLES
    program, masters,
    at,         \* where the program of a node is
    lost,       \* kills and losses so far
    \* bootstrap
    mode,       \* of the ZooKeeper server of a master
    znode,      \* cluster-id in the ensemble and in a server on its own
    proposed,   \* ids, all different
    synced,     \* servers of the ensemble that have cluster-id
    got, id,    \* what a node has read, and its cluster-id file
    \* calico
    lock, created_by,
    networks, seen,             \* how many there are; which nodes see one
    config, daemon, restart,    \* daemon.json, docker, docker-restart
    disturbed,  \* history: a node made the network and did not set the flag,
                \*   or lost the lock
    \* users
    users_path, legacy, iam,
    uids, uid,  \* still to migrate; in hand
    removed,    \* history: users the operator has removed from the IAM
    \* telegraf
    old_files, new_files, access

bootstrapVars == <<mode, znode, proposed, synced, got, id>>
calicoVars == <<lock, created_by, networks, seen, config, daemon, restart, disturbed>>
usersVars == <<users_path, legacy, iam, uids, uid, removed>>
telegrafVars == <<old_files, new_files, access>>
vars == <<program, masters, at, lost, bootstrapVars, calicoVars, usersVars, telegrafVars>>

Nobody == "none"
NoId == 0
Resting == {"idle", "failed", "done"}

Goto(n, label) == at' = [at EXCEPT ![n] = label]
Lose == lost < MaxLost /\ lost' = lost + 1
Step(p, n, label) == program = p /\ at[n] = label /\ UNCHANGED <<program, masters>>
Begins(p, n) == program = p /\ at[n] \in Resting /\ UNCHANGED <<program, masters>>

-----------------------------------------------------------------------------
(* bootstrap.py, exhibitor.py, cli.py                                      *)

OthersThanBootstrap == UNCHANGED <<calicoVars, usersVars, telegrafVars>>

InEnsemble == {m \in masters : mode[m] = "ensemble"}
HasQuorum == 2 * Cardinality(InEnsemble) > Cardinality(masters)
Serves(m) == mode[m] = "standalone" \/ (mode[m] = "ensemble" /\ HasQuorum)

\* ZooKeeper: Exhibitor may start a server on its own before it knows of the
\* others
StartServer(m) ==
    /\ program = "bootstrap" /\ mode[m] = "down"
    /\ mode' = [mode EXCEPT ![m] = "standalone"]
    /\ UNCHANGED <<program, masters, at, lost, znode, proposed, synced, got, id>>
    /\ OthersThanBootstrap

Join(m) ==
    /\ program = "bootstrap" /\ Cardinality(masters) > 1 /\ mode[m] # "ensemble"
    /\ mode' = [mode EXCEPT ![m] = "ensemble"]
    /\ LET own == {znode[k] : k \in InEnsemble \cup {m}} \ {NoId}
       IN  IF znode["ensemble"] = NoId /\ own # {}
           THEN \E i \in own : znode' = [znode EXCEPT !["ensemble"] = i]
           ELSE UNCHANGED znode
    /\ UNCHANGED <<program, masters, at, lost, proposed, synced, got, id>>
    /\ OthersThanBootstrap

Leave(m) ==
    /\ program = "bootstrap" /\ mode[m] = "ensemble" /\ Lose
    /\ mode' = [mode EXCEPT ![m] = "latent"]
    /\ synced' = synced \ {m}
    /\ UNCHANGED <<program, masters, at, znode, proposed, got, id>>
    /\ OthersThanBootstrap

Desired == IF Cardinality(masters) = 1 THEN "standalone" ELSE "ensemble"

\* Mutant of wait: any server that answers will do
WaitForAny(n) ==
    /\ Begins("bootstrap", n) /\ n \in masters
    /\ Goto(n, IF Serves(n) THEN "create" ELSE "failed")
    /\ UNCHANGED <<lost, bootstrapVars>>
    /\ OthersThanBootstrap

wait(n) ==
    /\ Begins("bootstrap", n) /\ n \in masters
    /\ Goto(n, IF Serves(n) /\ mode[n] = Desired THEN "create" ELSE "failed")
    /\ UNCHANGED <<lost, bootstrapVars>>
    /\ OthersThanBootstrap

\* An agent has no master_count file, and does not propose
readonly(n) ==
    /\ Begins("bootstrap", n) /\ n \notin masters
    /\ Goto(n, "sync")
    /\ UNCHANGED <<lost, bootstrapVars>>
    /\ OthersThanBootstrap

StoreOf(m) == IF mode[m] = "standalone" THEN m ELSE "ensemble"

create(n) ==
    /\ Step("bootstrap", n, "create") /\ Serves(n)
    /\ IF znode[StoreOf(n)] = NoId
       THEN /\ znode' = [znode EXCEPT ![StoreOf(n)] = proposed + 1]
            /\ proposed' = proposed + 1
            /\ synced' = {n}
       ELSE UNCHANGED <<znode, proposed, synced>>
    /\ \/ Goto(n, "sync") /\ UNCHANGED lost
       \/ Goto(n, "failed") /\ Lose
    /\ UNCHANGED <<mode, got, id>>
    /\ OthersThanBootstrap

\* A master talks to its own server, an agent to any
ServersOf(n) == {m \in masters : Serves(m) /\ (n \in masters => m = n)}

sync(n) ==
    /\ Step("bootstrap", n, "sync")
    /\ \E m \in ServersOf(n) : synced' = synced \cup {m}
    /\ Goto(n, "get")
    /\ UNCHANGED <<lost, mode, znode, proposed, got, id>>
    /\ OthersThanBootstrap

get(n) ==
    /\ Step("bootstrap", n, "get")
    /\ \E m \in ServersOf(n) :
          IF m \in synced /\ znode[StoreOf(m)] # NoId
          THEN Goto(n, "write") /\ got' = [got EXCEPT ![n] = znode[StoreOf(m)]]
          ELSE Goto(n, "failed") /\ UNCHANGED got
    /\ UNCHANGED <<lost, mode, znode, proposed, synced, id>>
    /\ OthersThanBootstrap

write_file_on_mismatched_content(n) ==
    /\ Step("bootstrap", n, "write")
    /\ id' = [id EXCEPT ![n] = got[n]]
    /\ Goto(n, "done")
    /\ UNCHANGED <<lost, mode, znode, proposed, synced, got>>
    /\ OthersThanBootstrap

-----------------------------------------------------------------------------
(* create-calico-docker-network.py                                         *)

OthersThanCalico == UNCHANGED <<bootstrapVars, usersVars, telegrafVars>>
dockerVars == <<config, daemon, restart>>
networkVars == <<lock, created_by, networks, seen, disturbed>>

wait_calico_libnetwork_ready(n) ==
    /\ Begins("calico", n)
    /\ \E label \in {"configure", "failed"} : Goto(n, label)
    /\ UNCHANGED <<lost, calicoVars>>
    /\ OthersThanCalico

config_docker_cluster_store(n) ==
    /\ Step("calico", n, "configure")
    /\ config' = [config EXCEPT ![n] = "new"]
    /\ Goto(n, IF n \in restart THEN "stop" ELSE "reload")
    /\ UNCHANGED <<lost, daemon, restart, networkVars>>
    /\ OthersThanCalico

stop_docker(n) ==
    /\ Step("calico", n, "stop")
    /\ daemon' = [daemon EXCEPT ![n].up = FALSE]
    /\ Goto(n, "unlink")
    /\ UNCHANGED <<lost, config, restart, networkVars>>
    /\ OthersThanCalico

unlink(n) ==
    /\ Step("calico", n, "unlink")
    /\ restart' = restart \ {n}
    /\ Goto(n, "reload")
    /\ UNCHANGED <<lost, config, daemon, networkVars>>
    /\ OthersThanCalico

\* A daemon that runs reads daemon.json again; one that starts also reads the
\* certificates
reload_docker_daemon(n) ==
    /\ Step("calico", n, "reload")
    /\ daemon' = [daemon EXCEPT ![n] =
                    [up |-> TRUE, config |-> config[n],
                     certificates |-> IF @.up THEN @.certificates ELSE "new"]]
    /\ Goto(n, "lock")
    /\ UNCHANGED <<lost, config, restart, networkVars>>
    /\ OthersThanCalico

zk_cluster_lock(n) ==
    /\ Step("calico", n, "lock")
    /\ IF lock = Nobody THEN lock' = n /\ Goto(n, "flag") ELSE Goto(n, "failed") /\ UNCHANGED lock
    /\ UNCHANGED <<lost, dockerVars, created_by, networks, seen, disturbed>>
    /\ OthersThanCalico

Holding == {"flag", "look", "look_long", "create_network", "look_again", "set_flag"}

\* The lock is released however the block ends
Leaves(n, how) == Goto(n, how) /\ lock' = IF lock = n THEN Nobody ELSE lock

zk_flag_get(n) ==
    /\ Step("calico", n, "flag")
    /\ Goto(n, IF created_by = Nobody THEN "look" ELSE "look_long")
    /\ UNCHANGED <<lost, calicoVars>>
    /\ OthersThanCalico

\* After 5 s, or after 120 s if there is a flag
is_docker_calico_network_available(n) ==
    /\ \E label \in {"look", "look_long"} : Step("calico", n, label)
    /\ IF n \in seen THEN Leaves(n, "done")
       ELSE IF at[n] = "look" THEN Goto(n, "create_network") /\ UNCHANGED lock
       ELSE Leaves(n, "failed")
    /\ UNCHANGED <<lost, dockerVars, created_by, networks, seen, disturbed>>
    /\ OthersThanCalico

\* docker can only tell the node that a network exists once it knows of it
create_calico_docker_network(n) ==
    /\ Step("calico", n, "create_network")
    /\ \/ networks > 0 /\ Leaves(n, "done") /\ UNCHANGED <<networks, seen>>
       \/ /\ networks < 2 /\ n \notin seen
          /\ networks' = networks + 1 /\ seen' = seen \cup {n}
          /\ Goto(n, "look_again") /\ UNCHANGED lock
       \/ Leaves(n, "failed") /\ UNCHANGED <<networks, seen>>
    /\ UNCHANGED <<lost, dockerVars, created_by, disturbed>>
    /\ OthersThanCalico

look_again(n) ==
    /\ Step("calico", n, "look_again")
    /\ \/ Goto(n, "set_flag") /\ UNCHANGED <<lock, disturbed, lost>>
       \/ Leaves(n, "failed") /\ disturbed' = TRUE /\ Lose
    /\ UNCHANGED <<dockerVars, created_by, networks, seen>>
    /\ OthersThanCalico

zk_flag_set(n) ==
    /\ Step("calico", n, "set_flag")
    /\ created_by' = n
    /\ Leaves(n, "done")
    /\ UNCHANGED <<lost, dockerVars, networks, seen, disturbed>>
    /\ OthersThanCalico

\* docker: the other nodes learn of the network
Spread(n) ==
    /\ program = "calico" /\ networks > 0 /\ n \notin seen
    /\ seen' = seen \cup {n}
    /\ UNCHANGED <<program, masters, at, lost, dockerVars, lock, created_by, networks, disturbed>>
    /\ OthersThanCalico

\* ZooKeeper: the session of a node that was killed ends, or that of one
\* that does not know of it
Expire ==
    /\ program = "calico" /\ lock # Nobody
    /\ lock' = Nobody
    /\ IF at[lock] \notin Holding THEN UNCHANGED <<lost, disturbed>>
       ELSE Lose /\ disturbed' = TRUE
    /\ UNCHANGED <<program, masters, at, dockerVars, created_by, networks, seen>>
    /\ OthersThanCalico

-----------------------------------------------------------------------------
(* iam-migrate-users-from-zk.py                                            *)

OthersThanUsers == UNCHANGED <<bootstrapVars, calicoVars, telegrafVars>>

exists(n) ==
    /\ Begins("users", n) /\ n \in masters
    /\ Goto(n, IF users_path THEN "children" ELSE "done")
    /\ UNCHANGED <<lost, usersVars>>
    /\ OthersThanUsers

\* The IAM may not be up, the path may be gone by now
get_legacy_uids_from_zk(n) ==
    /\ Step("users", n, "children")
    /\ \/ users_path /\ uids' = [uids EXCEPT ![n] = legacy] /\ Goto(n, "put")
       \/ Goto(n, "failed") /\ UNCHANGED uids
    /\ UNCHANGED <<lost, users_path, legacy, iam, uid, removed>>
    /\ OthersThanUsers

migrate_user(n) ==
    /\ Step("users", n, "put") /\ uids[n] # {}
    /\ \/ \E u \in uids[n] :
             /\ iam' = iam \cup {u}
             /\ uid' = [uid EXCEPT ![n] = u] /\ uids' = [uids EXCEPT ![n] = @ \ {u}]
             /\ Goto(n, "delete")
       \/ Goto(n, "failed") /\ UNCHANGED <<iam, uid, uids>>
    /\ UNCHANGED <<lost, users_path, legacy, removed>>
    /\ OthersThanUsers

delete_user(n) ==
    /\ Step("users", n, "delete")
    /\ legacy' = legacy \ {uid[n]}
    /\ Goto(n, "put")
    /\ UNCHANGED <<lost, users_path, iam, uids, uid, removed>>
    /\ OthersThanUsers

\* A path that is not empty is not deleted
delete_path(n) ==
    /\ Step("users", n, "put") /\ uids[n] = {}
    /\ IF legacy = {} THEN users_path' = FALSE /\ Goto(n, "done")
       ELSE Goto(n, "failed") /\ UNCHANGED users_path
    /\ UNCHANGED <<lost, legacy, iam, uids, uid, removed>>
    /\ OthersThanUsers

RemoveUser ==
    /\ program = "users" /\ iam # {}
    /\ \E u \in iam : iam' = iam \ {u} /\ removed' = removed \cup {u}
    /\ UNCHANGED <<program, masters, at, lost, users_path, legacy, uids, uid>>
    /\ OthersThanUsers

-----------------------------------------------------------------------------
(* cli.py: dcos_telegraf_common, migrate_containers                        *)

OthersThanTelegraf == UNCHANGED <<bootstrapVars, calicoVars, usersVars>>

migrate_containers(n) ==
    /\ Begins("telegraf", n)
    /\ IF ~old_files[n] THEN Goto(n, "mkdir") /\ UNCHANGED new_files
       ELSE IF new_files[n] = "files" THEN Goto(n, "failed") /\ UNCHANGED new_files
       ELSE Goto(n, "replace") /\ new_files' = [new_files EXCEPT ![n] = "missing"]
    /\ UNCHANGED <<lost, old_files, access>>
    /\ OthersThanTelegraf

replace(n) ==
    /\ Step("telegraf", n, "replace")
    /\ old_files' = [old_files EXCEPT ![n] = FALSE]
    /\ new_files' = [new_files EXCEPT ![n] = "files"]
    /\ access' = [access EXCEPT ![n] = "unset"]
    /\ Goto(n, "chmod")
    /\ UNCHANGED lost
    /\ OthersThanTelegraf

chmod(n) ==
    /\ Step("telegraf", n, "chmod")
    /\ access' = [access EXCEPT ![n] = "telegraf"]
    /\ Goto(n, "done")
    /\ UNCHANGED <<lost, old_files, new_files>>
    /\ OthersThanTelegraf

mkdir(n) ==
    /\ Step("telegraf", n, "mkdir")
    /\ new_files' = [new_files EXCEPT ![n] = IF @ = "missing" THEN "empty" ELSE @]
    /\ Goto(n, "done")
    /\ UNCHANGED <<lost, old_files, access>>
    /\ OthersThanTelegraf

-----------------------------------------------------------------------------
\* The session of a killed node goes later
Kill(n) ==
    /\ at[n] \notin Resting /\ Lose
    /\ Goto(n, "failed")
    /\ disturbed' = (disturbed \/ at[n] \in {"look_again", "set_flag"})
    /\ UNCHANGED <<program, masters, bootstrapVars, dockerVars, lock, created_by, networks, seen,
                   usersVars, telegrafVars>>

Init ==
    /\ program \in {"bootstrap", "calico", "users", "telegraf"}
    /\ masters \in MasterSets
    /\ at = [n \in Nodes |-> "idle"] /\ lost = 0
    /\ mode = [m \in Nodes |-> "down"] /\ znode = [s \in Nodes \cup {"ensemble"} |-> NoId]
    /\ proposed = 0 /\ synced = {} /\ got = [n \in Nodes |-> NoId] /\ id = got
    /\ lock = Nobody /\ created_by = Nobody /\ networks = 0 /\ seen = {}
    /\ config = [n \in Nodes |-> "old"]
    /\ restart \in IF program = "calico" THEN SUBSET Nodes ELSE {{}}
    /\ daemon = [n \in Nodes |-> [up |-> TRUE, config |-> "old",
                                  certificates |-> IF n \in restart THEN "old" ELSE "new"]]
    /\ disturbed = FALSE
    /\ users_path = TRUE /\ legacy = Users /\ iam = {} /\ removed = {}
    /\ uids = [n \in Nodes |-> {}] /\ uid = [n \in Nodes |-> Nobody]
    /\ old_files \in IF program = "telegraf" THEN [Nodes -> BOOLEAN] ELSE {[n \in Nodes |-> FALSE]}
    /\ new_files \in IF program = "telegraf" THEN [Nodes -> {"missing", "empty", "files"}]
                     ELSE {[n \in Nodes |-> "missing"]}
    /\ access = [n \in Nodes |-> "telegraf"]

Next ==
    \/ \E m \in masters : StartServer(m) \/ Join(m) \/ Leave(m)
    \/ \E n \in Nodes :
          \/ wait(n) \/ readonly(n) \/ create(n) \/ sync(n) \/ get(n)
          \/ write_file_on_mismatched_content(n)
          \/ wait_calico_libnetwork_ready(n) \/ config_docker_cluster_store(n)
          \/ stop_docker(n) \/ unlink(n) \/ reload_docker_daemon(n)
          \/ zk_cluster_lock(n) \/ zk_flag_get(n) \/ is_docker_calico_network_available(n)
          \/ create_calico_docker_network(n) \/ look_again(n) \/ zk_flag_set(n) \/ Spread(n)
          \/ exists(n) \/ get_legacy_uids_from_zk(n) \/ migrate_user(n) \/ delete_user(n)
          \/ delete_path(n)
          \/ migrate_containers(n) \/ replace(n) \/ chmod(n) \/ mkdir(n)
          \/ Kill(n)
    \/ Expire \/ RemoveUser

Spec == Init /\ [][Next]_vars

-----------------------------------------------------------------------------
(* Properties                                                              *)

TheId == znode[IF Cardinality(masters) = 1 THEN CHOOSE m \in masters : TRUE ELSE "ensemble"]

\* However the programs of the nodes meet and wherever they are killed: every
\* cluster-id file has the id that the ensemble keeps; the calico network is
\* made once, unless its creator was killed, gave up or lost the lock before
\* it set the flag, the flag means that it is there, and a docker on a node
\* that is done runs with the new configuration and the new certificates; no
\* user is lost on the way to the IAM; no file of telegraf is lost, and
\* telegraf can read those that were moved, unless the program was killed in
\* between (bootstrap.py, exhibitor.py, create-calico-docker-network.py,
\* iam-migrate-users-from-zk.py, cli.py).
NodesAreSetUp ==
    /\ \A n \in Nodes : id[n] \in {NoId, TheId}
    /\ networks > 1 => disturbed
    /\ created_by # Nobody => networks > 0
    /\ (program = "calico") => \A n \in Nodes : at[n] = "done" =>
          /\ networks > 0
          /\ daemon[n] = [up |-> TRUE, config |-> "new", certificates |-> "new"]
    /\ Users = legacy \cup iam \cup removed
    /\ \A n \in Nodes : (at[n] = "done" /\ lost = 0) => access[n] = "telegraf"
=============================================================================
