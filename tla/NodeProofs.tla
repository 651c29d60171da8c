----------------------------- MODULE NodeProofs -----------------------------
(***************************************************************************)
(* What holds of the programs that bring a node up: NodeSetup for any      *)
(* nodes, masters and users, ExhibitorStart for any addresses and          *)
(* ensembles, AgentStart for any volumes, DcosNet for any servers,         *)
(* Installer for any generations and roles, and of the tools that save     *)
(* what it keeps, Backups for any data; each for any number of kills,      *)
(* losses, reboots and failures.  Of the arguments a cluster is brought up *)
(* with, GenCalc: those accepted work together.  Each has its own          *)
(* variables.                                                              *)
(***************************************************************************)
EXTENDS NodeSetup, Sequences, FiniteSetTheorems, SequenceTheorems, TLAPS

CONSTANTS
    Addresses, Ensembles, MaxTroubles,
    Volumes, Sizes, MaxEvents,
    Servers, Resolvers, OtherPorts, MAX_SERVER_COUNT, MaxNetEvents,
    Generations, RoleArguments, MaxRuns, MaxJobs, Tries,
    Versions, MaxFaults

VARIABLES
    settings, address, root_cert, artifacts, readable, certificates, exhibitor_pc, commands,
    detected, exhibitor, troubles, moved, killed_in,
    mounted, free, resources, resources_cache, checkpoint, agent_pc, found, measured, cni, events,
    forgot, away, cut_moves, rebooted,
    net, answering, rules, link, networkd, unit, checked, up, resolv, busy, watch, net_events,
    missed, changed, cut_off, steady,
    run, served, script, upgrades, job, host, left_runs, left_jobs, disturbed_files, promised, mishaps,
    tool, live, serving, backup, copies, fresh_database, old_database, state_files, saved_pc, verb,
    temporary, exit, failures, hits, kept, taken, stale

Exhibitor == INSTANCE ExhibitorStart
Agent == INSTANCE AgentStart
Net == INSTANCE DcosNet WITH MaxEvents <- MaxNetEvents
Installer == INSTANCE Installer WITH disturbed <- disturbed_files
Saved == INSTANCE Backups WITH
    running <- serving, path <- backup, tmp <- copies, fresh <- fresh_database, old <- old_database,
    files <- state_files, pc <- saved_pc, place <- temporary, failed <- failures, faults <- hits

-----------------------------------------------------------------------------
(* NodeSetup                                                               *)
-----------------------------------------------------------------------------
(* Nodes have names of their own, and there are masters. *)
SetupAssumption ==
    /\ "ensemble" \notin Nodes /\ Nobody \notin Nodes
    /\ \A s \in MasterSets : s \subseteq Nodes /\ IsFiniteSet(s) /\ s # {}

CommonInv ==
    /\ program \in {"bootstrap", "calico", "users", "telegraf"}
    /\ masters \in MasterSets
    /\ at = [n \in Nodes |-> at[n]] /\ lost \in Nat

----------------------------------------------------------------------------
(* A master that proposes an id is a server of the ensemble, or the only   *)
(* one there is, so that no server on its own ever has an id, and whatever *)
(* a node reads is the id the ensemble keeps.                              *)
Alone == Cardinality(masters) = 1
BootInv ==
    /\ mode = [m \in Nodes |-> mode[m]] /\ znode \in [Nodes \cup {"ensemble"} -> Nat]
    /\ proposed \in Nat /\ got \in [Nodes -> Nat] /\ id \in [Nodes -> Nat]
    /\ Alone => \A m \in Nodes : mode[m] \in {"down", "standalone"}
    /\ ~Alone => \A m \in Nodes : znode[m] = NoId
    /\ ~Alone /\ program = "bootstrap" => \A n \in Nodes :
         at[n] = "create" => mode[n] \in {"ensemble", "latent"}
    /\ program = "bootstrap" => \A n \in Nodes : at[n] = "create" => n \in masters
    /\ \A n \in Nodes : got[n] \in {NoId, TheId} /\ id[n] \in {NoId, TheId}

(* As long as nobody is disturbed, whoever is inside the lock's block has  *)
(* the lock, and the flag tells whether there is a network, but between    *)
(* the making of the network and the setting of the flag.                  *)
NetworkInv ==
    /\ lock \in Nodes \cup {Nobody} /\ created_by \in Nodes \cup {Nobody}
    /\ networks \in Nat /\ disturbed \in BOOLEAN
    /\ seen # {} => networks > 0
    /\ created_by # Nobody => networks > 0
    /\ program # "calico" => networks = 0
    /\ program = "calico" => \A n \in Nodes :
         at[n] \in {"look_again", "set_flag", "done"} => networks > 0
    /\ ~disturbed /\ program = "calico" =>
         /\ \A n \in Nodes : at[n] \in Holding => lock = n
         /\ \A n \in Nodes : at[n] \in {"look", "create_network"} => created_by = Nobody
         /\ networks <= 1
         /\ networks > 0 /\ created_by = Nobody =>
              \E n \in Nodes : at[n] \in {"look_again", "set_flag"}

(* docker-restart asks for a stop as long as docker has the old            *)
(* certificates.                                                           *)
DockerInv ==
    /\ config \in [Nodes -> {"old", "new"}]
    /\ daemon \in [Nodes -> [up : BOOLEAN, config : {"old", "new"}, certificates : {"old", "new"}]]
    /\ program = "calico" => \A n \in Nodes :
         /\ n \notin restart => ~daemon[n].up \/ daemon[n].certificates = "new"
         /\ at[n] = "unlink" => ~daemon[n].up
         /\ at[n] \in {"stop", "unlink", "reload"} => config[n] = "new"
         /\ at[n] = "reload" => n \notin restart
         /\ at[n] \in {"lock", "done"} \cup Holding =>
              daemon[n] = [up |-> TRUE, config |-> "new", certificates |-> "new"]

(* A user is deleted after it has arrived. *)
UserInv ==
    /\ legacy \subseteq Users /\ uids \in [Nodes -> SUBSET Users]
    /\ uid \in [Nodes -> Users \cup {Nobody}]
    /\ Users = legacy \cup iam \cup removed
    /\ program = "users" => \A n \in Nodes : at[n] = "delete" => uid[n] \in iam \cup removed

(* telegraf is kept out between the move and the change of the access. *)
FileInv ==
    /\ access = [n \in Nodes |-> access[n]]
    /\ \A n \in Nodes : lost = 0 /\ access[n] # "telegraf" => program = "telegraf" /\ at[n] = "chmod"

IInv == CommonInv /\ BootInv /\ NetworkInv /\ DockerInv /\ UserInv /\ FileInv

----------------------------------------------------------------------------
(* What the programs do to each other: nothing.                            *)

(* A step of p moves at most one node, and loses at most one thing. *)
StepOf(p) ==
  /\ program = p /\ UNCHANGED <<program, masters>> /\ lost' \in {lost, lost + 1}
  /\ at' = at \/ \E n \in Nodes : \E label : Goto(n, label)

LEMMA CommonKept ==
  ASSUME CommonInv, NEW p, StepOf(p)
  PROVE  CommonInv'
<1>1. at' = [n \in Nodes |-> at'[n]]
  BY DEF CommonInv, Goto, StepOf
<1> QED
  BY <1>1 DEF CommonInv, StepOf

LEMMA BootAside ==
  ASSUME BootInv, program # "bootstrap", UNCHANGED <<program, masters, bootstrapVars>>
  PROVE  BootInv'
<1>1. UNCHANGED <<program, masters, mode, znode, proposed, got, id>>
  BY DEF bootstrapVars
<1>2. Alone' = Alone /\ TheId' = TheId
  BY <1>1 DEF Alone, TheId
<1> QED
  BY <1>1, <1>2 DEF BootInv

LEMMA NetworkAside ==
  ASSUME NetworkInv, program # "calico", UNCHANGED <<program, networkVars>>
  PROVE  NetworkInv'
<1>1. UNCHANGED <<program, lock, created_by, networks, seen, disturbed>>
  BY DEF networkVars
<1> QED
  BY <1>1 DEF NetworkInv

LEMMA DockerAside ==
  ASSUME DockerInv, program # "calico", UNCHANGED <<program, dockerVars>>
  PROVE  DockerInv'
<1>1. UNCHANGED <<program, config, daemon, restart>>
  BY DEF dockerVars
<1> QED
  BY <1>1 DEF DockerInv

LEMMA UserAside ==
  ASSUME UserInv, program # "users", UNCHANGED <<program, usersVars>>
  PROVE  UserInv'
<1>1. UNCHANGED <<program, legacy, iam, uids, uid, removed>>
  BY DEF usersVars
<1> QED
  BY <1>1 DEF UserInv

LEMMA FileAside ==
  ASSUME FileInv, CommonInv, program # "telegraf", UNCHANGED <<program, telegrafVars>>,
         lost' \in {lost, lost + 1}
  PROVE  FileInv'
<1>1. UNCHANGED <<program, access>> /\ (lost' = 0 => lost = 0)
  BY DEF telegrafVars, CommonInv
<1> QED
  BY <1>1 DEF FileInv

LEMMA CalicoAside ==
  ASSUME IInv, program # "calico", UNCHANGED <<program, calicoVars>>
  PROVE  NetworkInv' /\ DockerInv'
<1>1. UNCHANGED <<program, networkVars>> /\ UNCHANGED <<program, dockerVars>>
  BY DEF calicoVars, networkVars, dockerVars
<1> QED
  BY <1>1, NetworkAside, DockerAside DEF IInv

----------------------------------------------------------------------------
(* bootstrap                                                               *)

(* Where the id of the cluster is kept. *)
LEMMA TheKey ==
  ASSUME SetupAssumption, CommonInv
  PROVE  \E k : /\ Alone => k \in Nodes /\ masters = {k}
                /\ ~Alone => k = "ensemble"
                /\ TheId = znode[k]
                /\ masters' = masters => Alone' = Alone /\ TheId' = znode'[k]
<1>1. CASE Alone
  <2>1. IsFiniteSet(masters) /\ masters \subseteq Nodes
    BY DEF SetupAssumption, CommonInv
  <2>2. PICK k : masters = {k}
    BY <1>1, <2>1, FS_Singleton DEF Alone
  <2>3. (CHOOSE m \in masters : TRUE) = k
    BY <2>2
  <2>4. masters' = masters => Alone' /\ (CHOOSE m \in masters' : TRUE) = k
    BY <1>1, <2>3 DEF Alone
  <2> QED BY <1>1, <2>1, <2>2, <2>3, <2>4 DEF Alone, TheId
<1>2. CASE ~Alone
  <2>1. masters' = masters => Alone' = Alone
    BY DEF Alone
  <2> QED BY <1>2, <2>1 DEF Alone, TheId
<1> QED
  BY <1>1, <1>2

(* Whatever server serves a node keeps no id or the id of the cluster. *)
LEMMA ServersAgree ==
  ASSUME SetupAssumption, CommonInv, BootInv, NEW m \in masters, Serves(m)
  PROVE  StoreOf(m) \in Nodes \cup {"ensemble"} /\ znode[StoreOf(m)] \in {NoId, TheId}
<1>1. PICK k : /\ Alone => k \in Nodes /\ masters = {k}
               /\ ~Alone => k = "ensemble"
               /\ TheId = znode[k]
  BY TheKey
<1>2. m \in Nodes
  BY DEF SetupAssumption, CommonInv
<1>3. CASE Alone
  <2>1. m = k /\ StoreOf(m) = m
    BY <1>1, <1>2, <1>3 DEF BootInv, Serves, StoreOf
  <2> QED BY <1>1, <1>2, <2>1
<1>4. CASE ~Alone
  BY <1>1, <1>2, <1>4 DEF BootInv, StoreOf
<1> QED
  BY <1>3, <1>4

LEMMA BootKept ==
  ASSUME BootInv, UNCHANGED <<program, masters, mode, znode, proposed, got, id>>,
         NEW n \in Nodes, NEW label, label # "create", Goto(n, label), CommonInv
  PROVE  BootInv'
<1>1. \A k \in Nodes : at'[k] = "create" => at[k] = "create"
  BY DEF Goto, CommonInv
<1>2. Alone' = Alone /\ TheId' = TheId
  BY DEF Alone, TheId
<1> QED
  BY <1>1, <1>2 DEF BootInv

LEMMA StartServerKeeps ==
  ASSUME SetupAssumption, IInv, NEW m \in masters, StartServer(m)
  PROVE  BootInv'
<1>1. m \in Nodes
  BY DEF SetupAssumption, CommonInv, IInv
<1>2. Alone' = Alone /\ TheId' = TheId
  BY DEF Alone, TheId, StartServer
<1>3. \A k \in Nodes : mode'[k] = IF k = m THEN "standalone" ELSE mode[k]
  BY <1>1 DEF StartServer, IInv, BootInv
<1> QED
  BY <1>1, <1>2, <1>3 DEF StartServer, IInv, BootInv

LEMMA JoinKeeps ==
  ASSUME SetupAssumption, IInv, NEW m \in masters, Join(m)
  PROVE  BootInv'
<1>1. m \in Nodes /\ masters \subseteq Nodes
  BY DEF SetupAssumption, CommonInv, IInv
<1>2. ~Alone
  BY DEF Join, Alone
<1>3. \A k \in InEnsemble \cup {m} : znode[k] = NoId
  BY <1>1, <1>2 DEF InEnsemble, IInv, BootInv
<1>4. UNCHANGED znode
  BY <1>3 DEF Join
<1>5. Alone' = Alone /\ TheId' = TheId
  BY <1>4 DEF Alone, TheId, Join
<1>6. \A k \in Nodes : mode'[k] = IF k = m THEN "ensemble" ELSE mode[k]
  BY <1>1 DEF Join, IInv, BootInv
<1> QED
  BY <1>1, <1>2, <1>4, <1>5, <1>6 DEF Join, IInv, BootInv

LEMMA LeaveKeeps ==
  ASSUME SetupAssumption, IInv, NEW m \in masters, Leave(m)
  PROVE  BootInv'
<1>1. m \in Nodes
  BY DEF SetupAssumption, CommonInv, IInv
<1>2. Alone' = Alone /\ TheId' = TheId
  BY DEF Alone, TheId, Leave
<1>3. ~Alone
  BY <1>1 DEF Leave, IInv, BootInv
<1>4. \A k \in Nodes : mode'[k] = IF k = m THEN "latent" ELSE mode[k]
  BY <1>1 DEF Leave, IInv, BootInv
<1> QED
  BY <1>1, <1>2, <1>3, <1>4 DEF Leave, IInv, BootInv

LEMMA WaitKeeps ==
  ASSUME SetupAssumption, IInv, NEW n \in Nodes, wait(n)
  PROVE  BootInv'
<1>1. UNCHANGED <<program, masters, mode, znode, proposed, got, id>>
  BY DEF wait, Begins, bootstrapVars
<1>2. Alone' = Alone /\ TheId' = TheId
  BY <1>1 DEF Alone, TheId
<1>3. \A k \in Nodes : at'[k] = "create" =>
        \/ at[k] = "create"
        \/ k \in masters /\ mode[k] = Desired
  BY DEF wait, Goto, IInv, CommonInv
<1> QED
  BY <1>1, <1>2, <1>3 DEF IInv, BootInv, Desired, Alone

LEMMA CreateKeeps ==
  ASSUME SetupAssumption, IInv, NEW n \in Nodes, create(n)
  PROVE  BootInv'
<1>1. program = "bootstrap" /\ n \in masters /\ Serves(n) /\ UNCHANGED <<program, masters, mode, got, id>>
  BY DEF create, Step, IInv, BootInv
<1>2. PICK k : /\ Alone => k \in Nodes /\ masters = {k}
               /\ ~Alone => k = "ensemble"
               /\ TheId = znode[k]
               /\ Alone' = Alone /\ TheId' = znode'[k]
  BY <1>1, TheKey DEF IInv
<1>3. StoreOf(n) = k
  BY <1>1, <1>2 DEF StoreOf, create, Step, Serves, IInv, BootInv
<1>4. \A j \in Nodes : at'[j] = "create" => at[j] = "create"
  BY DEF create, Goto, IInv, CommonInv
<1>5. CASE UNCHANGED <<znode, proposed>>
  BY <1>1, <1>2, <1>4, <1>5 DEF IInv, BootInv
<1>6. CASE znode[k] = NoId /\ znode' = [znode EXCEPT ![k] = proposed + 1] /\ proposed' = proposed + 1
  <2>1. proposed' \in Nat /\ znode' \in [Nodes \cup {"ensemble"} -> Nat]
    BY <1>2, <1>6 DEF IInv, BootInv
  <2>2. \A j \in Nodes : got[j] = NoId /\ id[j] = NoId
    BY <1>2, <1>6 DEF IInv, BootInv
  <2>3. ~Alone => \A m \in Nodes : znode'[m] = NoId
    BY <1>2, <1>6 DEF IInv, BootInv, SetupAssumption
  <2> QED BY <1>1, <1>2, <1>4, <2>1, <2>2, <2>3 DEF IInv, BootInv
<1> QED
  BY <1>3, <1>5, <1>6 DEF create

LEMMA GetKeeps ==
  ASSUME SetupAssumption, IInv, NEW n \in Nodes, get(n)
  PROVE  BootInv'
<1>1. UNCHANGED <<program, masters, mode, znode, proposed, id>>
  BY DEF get, Step
<1>2. Alone' = Alone /\ TheId' = TheId
  BY <1>1 DEF Alone, TheId
<1>3. \A k \in Nodes : at'[k] = "create" => at[k] = "create"
  BY DEF get, Goto, IInv, CommonInv
<1>4. got' = got \/ \E m \in masters : Serves(m) /\ got' = [got EXCEPT ![n] = znode[StoreOf(m)]]
  BY DEF get, ServersOf
<1>5. got' \in [Nodes -> Nat] /\ \A k \in Nodes : got'[k] \in {NoId, TheId}
  <2>1. CASE got' = got
    BY <2>1 DEF IInv, BootInv
  <2>2. CASE \E m \in masters : Serves(m) /\ got' = [got EXCEPT ![n] = znode[StoreOf(m)]]
    <3>1. PICK m \in masters : Serves(m) /\ got' = [got EXCEPT ![n] = znode[StoreOf(m)]]
      BY <2>2
    <3>2. StoreOf(m) \in Nodes \cup {"ensemble"} /\ znode[StoreOf(m)] \in {NoId, TheId}
      BY <3>1, ServersAgree DEF IInv
    <3>3. znode[StoreOf(m)] \in Nat
      BY <3>2 DEF IInv, BootInv
    <3> QED BY <3>1, <3>2, <3>3 DEF IInv, BootInv
  <2> QED BY <1>4, <2>1, <2>2
<1> QED
  BY <1>1, <1>2, <1>3, <1>5 DEF IInv, BootInv

LEMMA WriteKeeps ==
  ASSUME SetupAssumption, IInv, NEW n \in Nodes, write_file_on_mismatched_content(n)
  PROVE  BootInv'
<1>1. UNCHANGED <<program, masters, mode, znode, proposed, got>>
  BY DEF write_file_on_mismatched_content, Step
<1>2. Alone' = Alone /\ TheId' = TheId
  BY <1>1 DEF Alone, TheId
<1>3. \A k \in Nodes : at'[k] = "create" => at[k] = "create"
  BY DEF write_file_on_mismatched_content, Goto, IInv, CommonInv
<1>4. id' \in [Nodes -> Nat] /\ \A k \in Nodes : id'[k] \in {NoId, TheId}
  BY DEF write_file_on_mismatched_content, IInv, BootInv
<1> QED
  BY <1>1, <1>2, <1>3, <1>4 DEF IInv, BootInv

BootstrapStep ==
  \/ \E m \in masters : StartServer(m) \/ Join(m) \/ Leave(m)
  \/ \E n \in Nodes : \/ wait(n) \/ readonly(n) \/ create(n) \/ sync(n) \/ get(n)
                      \/ write_file_on_mismatched_content(n)

LEMMA BootstrapKeeps ==
  ASSUME SetupAssumption, IInv, BootstrapStep
  PROVE  IInv'
<1>1. StepOf("bootstrap") /\ OthersThanBootstrap
  <2>1. CASE \E m \in masters : StartServer(m) \/ Join(m) \/ Leave(m)
    BY <2>1 DEF StartServer, Join, Leave, Lose, StepOf
  <2>2. ASSUME NEW n \in Nodes, wait(n) \/ readonly(n)
        PROVE  StepOf("bootstrap") /\ OthersThanBootstrap
    BY <2>2 DEF wait, readonly, Begins, StepOf
  <2>3. ASSUME NEW n \in Nodes, create(n)
        PROVE  StepOf("bootstrap") /\ OthersThanBootstrap
    BY <2>3 DEF create, Step, Lose, StepOf
  <2>4. ASSUME NEW n \in Nodes, sync(n) \/ get(n)
        PROVE  StepOf("bootstrap") /\ OthersThanBootstrap
    BY <2>4 DEF sync, get, Step, StepOf
  <2>5. ASSUME NEW n \in Nodes, write_file_on_mismatched_content(n)
        PROVE  StepOf("bootstrap") /\ OthersThanBootstrap
    BY <2>5 DEF write_file_on_mismatched_content, Step, StepOf
  <2> QED BY <2>1, <2>2, <2>3, <2>4, <2>5 DEF BootstrapStep
<1>2. CommonInv'
  BY <1>1, CommonKept DEF IInv
<1>3. NetworkInv' /\ DockerInv' /\ UserInv' /\ FileInv'
  BY <1>1, CalicoAside, UserAside, FileAside DEF IInv, OthersThanBootstrap, StepOf
<1>4. BootInv'
  <2>1. ASSUME NEW n \in Nodes, readonly(n) PROVE BootInv'
    <3>1. Goto(n, "sync") /\ UNCHANGED <<program, masters, mode, znode, proposed, got, id>>
      BY <2>1 DEF readonly, Begins, bootstrapVars
    <3> QED BY <3>1, BootKept DEF IInv
  <2>2. ASSUME NEW n \in Nodes, sync(n) PROVE BootInv'
    <3>1. Goto(n, "get") /\ UNCHANGED <<program, masters, mode, znode, proposed, got, id>>
      BY <2>2 DEF sync, Step
    <3> QED BY <3>1, BootKept DEF IInv
  <2> QED BY <2>1, <2>2, StartServerKeeps, JoinKeeps, LeaveKeeps, WaitKeeps, CreateKeeps,
             GetKeeps, WriteKeeps DEF BootstrapStep
<1> QED
  BY <1>2, <1>3, <1>4 DEF IInv

----------------------------------------------------------------------------
(* create-calico-docker-network                                            *)

(* Outside the lock's block a node does not matter to the network, and     *)
(* inside it docker is left alone.                                         *)
LEMMA NetworkKept ==
  ASSUME CommonInv, NetworkInv, program' = program, UNCHANGED networkVars,
         NEW n \in Nodes, at[n] \notin Holding,
         NEW label, label \notin Holding \cup {"done"}, Goto(n, label)
  PROVE  NetworkInv'
<1>1. UNCHANGED <<lock, created_by, networks, seen, disturbed>>
  BY DEF networkVars
<1>2. \A k \in Nodes : at'[k] = IF k = n THEN label ELSE at[k]
  BY DEF Goto, CommonInv
<1> QED
  BY <1>1, <1>2 DEF NetworkInv, Holding

LEMMA DockerKept ==
  ASSUME CommonInv, DockerInv, program' = program, UNCHANGED dockerVars,
         NEW n \in Nodes, at[n] \in {"lock"} \cup Holding,
         NEW label \in Holding \cup {"done", "failed"}, Goto(n, label)
  PROVE  DockerInv'
<1>1. UNCHANGED <<config, daemon, restart>>
  BY DEF dockerVars
<1>2. \A k \in Nodes : at'[k] = IF k = n THEN label ELSE at[k]
  BY DEF Goto, CommonInv
<1> QED
  BY <1>1, <1>2 DEF DockerInv, Holding

DockerStep(n) ==
  \/ wait_calico_libnetwork_ready(n) \/ config_docker_cluster_store(n) \/ stop_docker(n)
  \/ unlink(n) \/ reload_docker_daemon(n)

LEMMA DockerKeeps ==
  ASSUME IInv, NEW n \in Nodes, DockerStep(n)
  PROVE  NetworkInv' /\ DockerInv'
<1> USE DEF IInv
<1>1. CASE wait_calico_libnetwork_ready(n)
  <2>1. PICK label \in {"configure", "failed"} :
          Goto(n, label) /\ program' = program /\ UNCHANGED networkVars /\ UNCHANGED dockerVars
          /\ at[n] \in Resting
    BY <1>1 DEF wait_calico_libnetwork_ready, Begins, calicoVars, networkVars, dockerVars
  <2>2. NetworkInv'
    BY <2>1, NetworkKept DEF Holding, Resting
  <2>3. \A k \in Nodes : at'[k] = IF k = n THEN label ELSE at[k]
    BY <2>1 DEF Goto, CommonInv
  <2>4. DockerInv'
    BY <2>1, <2>3 DEF DockerInv, Holding, dockerVars
  <2> QED BY <2>2, <2>4
<1>2. CASE config_docker_cluster_store(n)
  <2>1. PICK label \in {"stop", "reload"} :
          /\ Goto(n, label) /\ label = (IF n \in restart THEN "stop" ELSE "reload")
          /\ program' = program /\ UNCHANGED networkVars
          /\ at[n] = "configure" /\ config' = [config EXCEPT ![n] = "new"]
          /\ UNCHANGED <<daemon, restart>>
    BY <1>2 DEF config_docker_cluster_store, Step
  <2>2. NetworkInv'
    BY <2>1, NetworkKept DEF Holding
  <2>3. \A k \in Nodes : at'[k] = IF k = n THEN label ELSE at[k]
    BY <2>1 DEF Goto, CommonInv
  <2>4. DockerInv'
    BY <2>1, <2>3 DEF DockerInv, Holding
  <2> QED BY <2>2, <2>4
<1>3. CASE stop_docker(n)
  <2>1. /\ Goto(n, "unlink") /\ program' = program /\ UNCHANGED networkVars
        /\ at[n] = "stop" /\ daemon' = [daemon EXCEPT ![n].up = FALSE]
        /\ UNCHANGED <<config, restart>>
    BY <1>3 DEF stop_docker, Step
  <2>2. NetworkInv'
    BY <2>1, NetworkKept DEF Holding
  <2>3. \A k \in Nodes : at'[k] = IF k = n THEN "unlink" ELSE at[k]
    BY <2>1 DEF Goto, CommonInv
  <2>4. /\ daemon' \in [Nodes -> [up : BOOLEAN, config : {"old", "new"}, certificates : {"old", "new"}]]
        /\ ~daemon'[n].up
        /\ \A k \in Nodes : k # n => daemon'[k] = daemon[k]
    BY <2>1 DEF DockerInv
  <2>5. program = "calico" => config[n] = "new"
    BY <2>1 DEF DockerInv
  <2>6. DockerInv'
    BY ZenonT(60), <2>1, <2>3, <2>4, <2>5 DEF DockerInv, Holding
  <2> QED BY <2>2, <2>6
<1>4. CASE unlink(n)
  <2>1. /\ Goto(n, "reload") /\ program' = program /\ UNCHANGED networkVars
        /\ program = "calico" /\ at[n] = "unlink" /\ restart' = restart \ {n}
        /\ UNCHANGED <<config, daemon>>
    BY <1>4 DEF unlink, Step
  <2>2. NetworkInv'
    BY <2>1, NetworkKept DEF Holding
  <2>3. \A k \in Nodes : at'[k] = IF k = n THEN "reload" ELSE at[k]
    BY <2>1 DEF Goto, CommonInv
  <2>4. DockerInv'
    BY <2>1, <2>3 DEF DockerInv, Holding
  <2> QED BY <2>2, <2>4
<1>5. CASE reload_docker_daemon(n)
  <2> DEFINE new == [up |-> TRUE, config |-> "new", certificates |-> "new"]
  <2>1. /\ Goto(n, "lock") /\ program' = program /\ UNCHANGED networkVars
        /\ program = "calico" /\ at[n] = "reload"
        /\ UNCHANGED <<config, restart>>
    BY <1>5 DEF reload_docker_daemon, Step
  <2>2. config[n] = "new" /\ (~daemon[n].up \/ daemon[n].certificates = "new")
    BY <2>1 DEF DockerInv
  <2>3. daemon' = [daemon EXCEPT ![n] = new]
    BY <1>5, <2>2 DEF reload_docker_daemon
  <2>4. new \in [up : BOOLEAN, config : {"old", "new"}, certificates : {"old", "new"}]
        /\ new.certificates = "new"
    OBVIOUS
  <2>5. NetworkInv'
    BY <2>1, NetworkKept DEF Holding
  <2>6. \A k \in Nodes : at'[k] = IF k = n THEN "lock" ELSE at[k]
    BY <2>1 DEF Goto, CommonInv
  <2>7. /\ daemon' \in [Nodes -> [up : BOOLEAN, config : {"old", "new"}, certificates : {"old", "new"}]]
        /\ \A k \in Nodes : daemon'[k] = IF k = n THEN new ELSE daemon[k]
    BY <2>3, <2>4 DEF DockerInv
  <2>8. DockerInv'
    <3> HIDE DEF new
    <3> QED BY SMTT(40), <2>1, <2>4, <2>6, <2>7 DEF DockerInv, Holding, new
  <2> QED BY <2>5, <2>8
<1> QED
  BY <1>1, <1>2, <1>3, <1>4, <1>5 DEF DockerStep

NetworkStep(n) ==
  \/ zk_cluster_lock(n) \/ zk_flag_get(n) \/ is_docker_calico_network_available(n)
  \/ create_calico_docker_network(n) \/ look_again(n) \/ zk_flag_set(n)

(* A node that leaves the lock's block. *)
LEMMA LeavesKeeps ==
  ASSUME CommonInv, NetworkInv, program = "calico", program' = program,
         NEW n \in Nodes, at[n] \in {"look", "look_long", "create_network"},
         NEW how \in {"done", "failed"}, Leaves(n, how), how = "done" => networks > 0,
         UNCHANGED <<created_by, networks, seen, disturbed>>
  PROVE  NetworkInv'
<1>1. \A k \in Nodes : at'[k] = IF k = n THEN how ELSE at[k]
  BY DEF Leaves, Goto, CommonInv
<1>2. lock' = IF lock = n THEN Nobody ELSE lock
  BY DEF Leaves
<1> QED
  BY <1>1, <1>2 DEF NetworkInv, Holding

LEMMA NetworkKeeps ==
  ASSUME SetupAssumption, IInv, NEW n \in Nodes, NetworkStep(n)
  PROVE  NetworkInv'
<1> USE DEF IInv
<1>0. program = "calico" /\ program' = program
  BY DEF NetworkStep, zk_cluster_lock, zk_flag_get, is_docker_calico_network_available,
         create_calico_docker_network, look_again, zk_flag_set, Step
<1>1. CASE zk_cluster_lock(n)
  <2>1. at[n] = "lock" /\ UNCHANGED <<created_by, networks, seen, disturbed>>
    BY <1>1 DEF zk_cluster_lock, Step
  <2>2. CASE lock # Nobody
    <3>1. Goto(n, "failed") /\ UNCHANGED networkVars
      BY <1>1, <2>1, <2>2 DEF zk_cluster_lock, networkVars
    <3> QED BY <1>0, <2>1, <3>1, NetworkKept DEF Holding
  <2>3. CASE lock = Nobody
    <3>1. lock' = n /\ \A k \in Nodes : at'[k] = IF k = n THEN "flag" ELSE at[k]
      BY <1>1, <2>3 DEF zk_cluster_lock, Goto, CommonInv
    <3>2. ~disturbed => \A k \in Nodes : at[k] \notin Holding
      BY <1>0, <2>3 DEF NetworkInv, SetupAssumption
    <3> QED BY <1>0, <2>1, <3>1, <3>2 DEF NetworkInv, Holding
  <2> QED BY <2>2, <2>3
<1>2. CASE zk_flag_get(n)
  <2>1. at[n] = "flag" /\ UNCHANGED <<lock, created_by, networks, seen, disturbed>>
    BY <1>2 DEF zk_flag_get, Step, calicoVars
  <2>2. \A k \in Nodes : at'[k] = IF k = n THEN IF created_by = Nobody THEN "look" ELSE "look_long"
                                  ELSE at[k]
    BY <1>2 DEF zk_flag_get, Goto, CommonInv
  <2> QED BY <1>0, <2>1, <2>2 DEF NetworkInv, Holding
<1>3. CASE is_docker_calico_network_available(n)
  <2>1. at[n] \in {"look", "look_long"} /\ UNCHANGED <<created_by, networks, seen, disturbed>>
    BY <1>3 DEF is_docker_calico_network_available, Step
  <2>2. CASE \E how \in {"done", "failed"} : Leaves(n, how) /\ (how = "done" => n \in seen)
    <3>1. \E how \in {"done", "failed"} : Leaves(n, how) /\ (how = "done" => networks > 0)
      BY <2>2 DEF NetworkInv
    <3> QED BY <1>0, <2>1, <3>1, LeavesKeeps
  <2>3. CASE at[n] = "look" /\ Goto(n, "create_network") /\ UNCHANGED lock
    <3>1. \A k \in Nodes : at'[k] = IF k = n THEN "create_network" ELSE at[k]
      BY <2>3 DEF Goto, CommonInv
    <3> QED BY <1>0, <2>1, <2>3, <3>1 DEF NetworkInv, Holding
  <2> QED BY <1>3, <2>2, <2>3 DEF is_docker_calico_network_available
<1>4. CASE create_calico_docker_network(n)
  <2>1. at[n] = "create_network" /\ UNCHANGED <<created_by, disturbed>>
    BY <1>4 DEF create_calico_docker_network, Step
  <2>2. CASE \E how \in {"done", "failed"} :
               Leaves(n, how) /\ (how = "done" => networks > 0) /\ UNCHANGED <<networks, seen>>
    BY <1>0, <2>1, <2>2, LeavesKeeps
  <2>3. CASE /\ networks' = networks + 1 /\ seen' = seen \cup {n}
             /\ Goto(n, "look_again") /\ UNCHANGED lock
    <3>1. \A k \in Nodes : at'[k] = IF k = n THEN "look_again" ELSE at[k]
      BY <2>3 DEF Goto, CommonInv
    <3>2. ~disturbed => networks = 0
      <4>1. ~disturbed => lock = n /\ created_by = Nobody
        BY <1>0, <2>1 DEF NetworkInv, Holding
      <4>2. ~disturbed => \A k \in Nodes : at[k] \notin {"look_again", "set_flag"}
        BY <1>0, <2>1, <4>1 DEF NetworkInv, Holding
      <4> QED BY <1>0, <4>1, <4>2 DEF NetworkInv
    <3>3. networks' \in Nat /\ networks' > 0 /\ (~disturbed => networks' <= 1)
      BY <2>3, <3>2 DEF NetworkInv
    <3> QED BY <1>0, <2>1, <2>3, <3>1, <3>3 DEF NetworkInv, Holding
  <2> QED BY <1>4, <2>2, <2>3 DEF create_calico_docker_network
<1>5. CASE look_again(n)
  <2>1. /\ at[n] = "look_again" /\ UNCHANGED <<created_by, networks, seen>>
        /\ \/ Goto(n, "set_flag") /\ UNCHANGED <<lock, disturbed>>
           \/ Leaves(n, "failed") /\ disturbed' = TRUE
    BY <1>5 DEF look_again, Step
  <2>2. PICK label \in {"set_flag", "failed"} :
          /\ \A k \in Nodes : at'[k] = IF k = n THEN label ELSE at[k]
          /\ label = "set_flag" => UNCHANGED <<lock, disturbed>>
          /\ label = "failed" => disturbed' = TRUE
    BY <2>1 DEF Leaves, Goto, CommonInv
  <2>3. lock' \in Nodes \cup {Nobody}
    BY <2>1 DEF Leaves, NetworkInv
  <2>4. CASE label = "set_flag"
    BY <1>0, <2>1, <2>2, <2>4 DEF NetworkInv, Holding
  <2>5. CASE label = "failed"
    BY <1>0, <2>1, <2>2, <2>3, <2>5 DEF NetworkInv, Holding
  <2> QED BY <2>4, <2>5
<1>6. CASE zk_flag_set(n)
  <2>1. at[n] = "set_flag" /\ created_by' = n /\ UNCHANGED <<networks, seen, disturbed>>
    BY <1>6 DEF zk_flag_set, Step
  <2>2. /\ \A k \in Nodes : at'[k] = IF k = n THEN "done" ELSE at[k]
        /\ lock' = IF lock = n THEN Nobody ELSE lock
    BY <1>6 DEF zk_flag_set, Leaves, Goto, CommonInv
  <2>3. ~disturbed => \A k \in Nodes \ {n} : at[k] \notin Holding
    BY <1>0, <2>1 DEF NetworkInv, Holding
  <2> QED BY <1>0, <2>1, <2>2, <2>3 DEF NetworkInv, Holding, SetupAssumption
<1> QED
  BY <1>1, <1>2, <1>3, <1>4, <1>5, <1>6 DEF NetworkStep

LEMMA NetworkKeepsDocker ==
  ASSUME IInv, NEW n \in Nodes, NetworkStep(n)
  PROVE  DockerInv'
<1>1. PICK label \in Holding \cup {"done", "failed"} : Goto(n, label)
  BY DEF NetworkStep, zk_cluster_lock, zk_flag_get, is_docker_calico_network_available,
         create_calico_docker_network, look_again, zk_flag_set, Leaves, Holding
<1>2. at[n] \in {"lock"} \cup Holding /\ program' = program /\ UNCHANGED dockerVars
  BY DEF NetworkStep, zk_cluster_lock, zk_flag_get, is_docker_calico_network_available,
         create_calico_docker_network, look_again, zk_flag_set, Step, Holding, calicoVars,
         dockerVars
<1> QED
  BY <1>1, <1>2, DockerKept DEF IInv

LEMMA ExpireKeeps ==
  ASSUME SetupAssumption, IInv, Expire
  PROVE  NetworkInv' /\ DockerInv'
<1>1. /\ program = "calico" /\ lock # Nobody /\ lock' = Nobody
      /\ UNCHANGED <<program, at, created_by, networks, seen, config, daemon, restart>>
  BY DEF Expire, dockerVars
<1>2. IF at[lock] \in Holding THEN disturbed' = TRUE ELSE UNCHANGED disturbed
  BY DEF Expire
<1>3. NetworkInv'
  BY <1>1, <1>2 DEF IInv, NetworkInv
<1>4. DockerInv'
  BY <1>1 DEF IInv, DockerInv
<1> QED
  BY <1>3, <1>4

LEMMA SpreadKeeps ==
  ASSUME IInv, NEW n \in Nodes, Spread(n)
  PROVE  NetworkInv' /\ DockerInv'
<1>1. /\ networks > 0
      /\ UNCHANGED <<program, at, lock, created_by, networks, disturbed, config, daemon, restart>>
  BY DEF Spread, dockerVars
<1> QED
  BY <1>1 DEF IInv, NetworkInv, DockerInv

CalicoStep ==
  \/ \E n \in Nodes : DockerStep(n) \/ NetworkStep(n) \/ Spread(n)
  \/ Expire

LEMMA CalicoKeeps ==
  ASSUME SetupAssumption, IInv, CalicoStep
  PROVE  IInv'
<1>1. StepOf("calico") /\ OthersThanCalico
  <2>1. ASSUME NEW n \in Nodes, DockerStep(n)
        PROVE  StepOf("calico") /\ OthersThanCalico
    BY <2>1 DEF DockerStep, wait_calico_libnetwork_ready, config_docker_cluster_store,
       stop_docker,
                unlink, reload_docker_daemon, Begins, Step, StepOf
  <2>2. ASSUME NEW n \in Nodes, NetworkStep(n)
        PROVE  StepOf("calico") /\ OthersThanCalico
    BY <2>2 DEF NetworkStep, zk_cluster_lock, zk_flag_get, is_docker_calico_network_available,
                create_calico_docker_network, look_again, zk_flag_set, Step, Leaves, Lose, StepOf
  <2>3. ASSUME Expire \/ \E n \in Nodes : Spread(n)
        PROVE  StepOf("calico") /\ OthersThanCalico
    BY <2>3 DEF Expire, Spread, Lose, StepOf
  <2> QED BY <2>1, <2>2, <2>3 DEF CalicoStep
<1>2. CommonInv'
  BY <1>1, CommonKept DEF IInv
<1>3. BootInv' /\ UserInv' /\ FileInv'
  BY <1>1, BootAside, UserAside, FileAside DEF IInv, OthersThanCalico, StepOf
<1>4. NetworkInv' /\ DockerInv'
  BY DockerKeeps, NetworkKeeps, NetworkKeepsDocker, ExpireKeeps, SpreadKeeps DEF CalicoStep
<1> QED
  BY <1>2, <1>3, <1>4 DEF IInv

----------------------------------------------------------------------------
(* iam-migrate-users-from-zk                                               *)

UsersStep ==
  \/ \E n \in Nodes : \/ exists(n) \/ get_legacy_uids_from_zk(n) \/ migrate_user(n)
                      \/ delete_user(n) \/ delete_path(n)
  \/ RemoveUser

(* Only the step that puts a user brings a node to the deletion of one. *)
LEMMA UserKept ==
  ASSUME CommonInv, UserInv, program' = program, UNCHANGED <<iam, uid, removed>>,
         NEW n \in Nodes, NEW label, label # "delete", Goto(n, label),
         uids' \in [Nodes -> SUBSET Users], legacy' \subseteq legacy,
         Users \subseteq legacy' \cup iam \cup removed
  PROVE  UserInv'
<1>1. \A k \in Nodes : at'[k] = "delete" => at[k] = "delete"
  BY DEF Goto, CommonInv
<1> QED
  BY <1>1 DEF UserInv

LEMMA UsersKeep ==
  ASSUME SetupAssumption, IInv, UsersStep
  PROVE  UserInv'
<1> USE DEF IInv
<1>1. ASSUME NEW n \in Nodes, exists(n) PROVE UserInv'
  <2>1. /\ program' = program /\ UNCHANGED <<legacy, iam, uids, uid, removed>>
        /\ \E label \in {"children", "done"} : Goto(n, label)
    BY <1>1 DEF exists, Begins, usersVars
  <2> QED BY <2>1, UserKept DEF UserInv
<1>2. ASSUME NEW n \in Nodes, get_legacy_uids_from_zk(n) PROVE UserInv'
  <2>1. /\ program' = program /\ UNCHANGED <<legacy, iam, uid, removed>>
        /\ \E label \in {"put", "failed"} : Goto(n, label)
        /\ uids' \in {uids, [uids EXCEPT ![n] = legacy]}
    BY <1>2 DEF get_legacy_uids_from_zk, Step
  <2>2. uids' \in [Nodes -> SUBSET Users]
    BY <2>1 DEF UserInv
  <2> QED BY <2>1, <2>2, UserKept DEF UserInv
<1>3. ASSUME NEW n \in Nodes, migrate_user(n) PROVE UserInv'
  <2>1. program' = program /\ UNCHANGED <<legacy, removed>>
    BY <1>3 DEF migrate_user, Step
  <2>2. CASE Goto(n, "failed") /\ UNCHANGED <<iam, uid, uids>>
    BY <2>1, <2>2, UserKept DEF UserInv
  <2>3. CASE \E u \in uids[n] :
               /\ iam' = iam \cup {u}
               /\ uid' = [uid EXCEPT ![n] = u] /\ uids' = [uids EXCEPT ![n] = @ \ {u}]
               /\ Goto(n, "delete")
    <3>1. PICK u \in uids[n] :
               /\ iam' = iam \cup {u}
               /\ uid' = [uid EXCEPT ![n] = u] /\ uids' = [uids EXCEPT ![n] = @ \ {u}]
               /\ Goto(n, "delete")
      BY <2>3
    <3>2. u \in Users /\ uids' \in [Nodes -> SUBSET Users] /\ uid' \in [Nodes -> Users \cup {Nobody}]
      BY <3>1 DEF UserInv
    <3>3. \A k \in Nodes : k # n => at'[k] = at[k] /\ uid'[k] = uid[k]
      BY <3>1 DEF Goto, CommonInv, UserInv
    <3>4. uid'[n] = u
      BY <3>1 DEF UserInv
    <3> QED BY <2>1, <3>1, <3>2, <3>3, <3>4 DEF UserInv
  <2> QED BY <1>3, <2>2, <2>3 DEF migrate_user
<1>4. ASSUME NEW n \in Nodes, delete_user(n) PROVE UserInv'
  <2>1. /\ program = "users" /\ program' = program /\ at[n] = "delete" /\ Goto(n, "put")
        /\ legacy' = legacy \ {uid[n]} /\ UNCHANGED <<iam, uids, uid, removed>>
    BY <1>4 DEF delete_user, Step
  <2>2. uid[n] \in iam \cup removed
    BY <2>1 DEF UserInv
  <2> QED BY <2>1, <2>2, UserKept DEF UserInv
<1>5. ASSUME NEW n \in Nodes, delete_path(n) PROVE UserInv'
  <2>1. /\ program' = program /\ UNCHANGED <<legacy, iam, uids, uid, removed>>
        /\ \E label \in {"done", "failed"} : Goto(n, label)
    BY <1>5 DEF delete_path, Step
  <2> QED BY <2>1, UserKept DEF UserInv
<1>6. CASE RemoveUser
  <2>1. UNCHANGED <<program, at, legacy, uids, uid>>
    BY <1>6 DEF RemoveUser
  <2>2. \E u \in iam : iam' = iam \ {u} /\ removed' = removed \cup {u}
    BY <1>6 DEF RemoveUser
  <2>3. UNCHANGED <<iam \cup removed>>
    BY <2>2
  <2>4. Users = legacy' \cup iam' \cup removed'
    BY <2>1, <2>3 DEF UserInv
  <2> QED BY <2>1, <2>3, <2>4 DEF UserInv
<1> QED
  BY <1>1, <1>2, <1>3, <1>4, <1>5, <1>6 DEF UsersStep

LEMMA UsersStepKeeps ==
  ASSUME SetupAssumption, IInv, UsersStep
  PROVE  IInv'
<1>1. StepOf("users") /\ lost' = lost /\ OthersThanUsers
  BY DEF UsersStep, exists, get_legacy_uids_from_zk, migrate_user, delete_user, delete_path,
         RemoveUser, Begins, Step, StepOf
<1>2. CommonInv'
  BY <1>1, CommonKept DEF IInv
<1>3. BootInv' /\ NetworkInv' /\ DockerInv' /\ FileInv'
  BY <1>1, BootAside, CalicoAside, FileAside DEF IInv, OthersThanUsers, StepOf
<1> QED
  BY <1>2, <1>3, UsersKeep DEF IInv

----------------------------------------------------------------------------
(* The move of telegraf's files                                            *)

TelegrafStep ==
  \E n \in Nodes : migrate_containers(n) \/ replace(n) \/ chmod(n) \/ mkdir(n)

LEMMA TelegrafKeeps ==
  ASSUME IInv, TelegrafStep
  PROVE  IInv'
<1> USE DEF IInv
<1>1. StepOf("telegraf") /\ lost' = lost /\ OthersThanTelegraf
  BY DEF TelegrafStep, migrate_containers, replace, chmod, mkdir, Begins, Step, StepOf
<1>2. CommonInv'
  BY <1>1, CommonKept
<1>3. BootInv' /\ NetworkInv' /\ DockerInv' /\ UserInv'
  BY <1>1, BootAside, CalicoAside, UserAside DEF OthersThanTelegraf, StepOf
<1>4. FileInv'
  <2>1. PICK n \in Nodes : migrate_containers(n) \/ replace(n) \/ chmod(n) \/ mkdir(n)
    BY DEF TelegrafStep
  <2>2. CASE replace(n)
    <3>1. Goto(n, "chmod") /\ access' = [access EXCEPT ![n] = "unset"]
      BY <2>2 DEF replace
    <3> QED BY <1>1, <3>1 DEF Goto, CommonInv, FileInv, StepOf
  <2>3. CASE chmod(n)
    <3>1. Goto(n, "done") /\ access' = [access EXCEPT ![n] = "telegraf"]
      BY <2>3 DEF chmod
    <3> QED BY <1>1, <3>1 DEF Goto, CommonInv, FileInv, StepOf
  <2>4. CASE migrate_containers(n) \/ mkdir(n)
    <3>1. /\ access' = access /\ at[n] # "chmod"
          /\ \E label \in {"mkdir", "failed", "replace", "done"} : Goto(n, label)
      BY <2>4 DEF migrate_containers, mkdir, Begins, Step, Resting
    <3> QED BY <1>1, <3>1 DEF Goto, CommonInv, FileInv, StepOf
  <2> QED BY <2>1, <2>2, <2>3, <2>4
<1> QED
  BY <1>2, <1>3, <1>4

----------------------------------------------------------------------------
LEMMA KillKeeps ==
  ASSUME IInv, NEW n \in Nodes, Kill(n)
  PROVE  IInv'
<1> USE DEF IInv
<1>1. /\ UNCHANGED <<program, masters, bootstrapVars, dockerVars, lock, created_by, networks, seen,
                     usersVars, telegrafVars>>
      /\ lost' = lost + 1 /\ Goto(n, "failed")
      /\ disturbed' = (disturbed \/ at[n] \in {"look_again", "set_flag"})
  BY DEF Kill, Lose
<1>2. CommonInv'
  <2>1. StepOf(program)
    BY <1>1 DEF StepOf
  <2> QED BY <2>1, CommonKept
<1>3. \A k \in Nodes : at'[k] = IF k = n THEN "failed" ELSE at[k]
  BY <1>1 DEF Goto, CommonInv
<1>4. BootInv'
  <2>1. UNCHANGED <<program, masters, mode, znode, proposed, got, id>>
    BY <1>1 DEF bootstrapVars
  <2> QED BY <1>1, <2>1, BootKept
<1>5. NetworkInv'
  BY <1>1, <1>3 DEF NetworkInv, Holding
<1>6. DockerInv'
  <2>1. UNCHANGED <<program, config, daemon, restart>>
    BY <1>1 DEF dockerVars
  <2> QED BY <1>3, <2>1 DEF DockerInv, Holding
<1>7. UserInv'
  <2>1. UNCHANGED <<program, legacy, iam, uids, uid, removed>>
    BY <1>1 DEF usersVars
  <2> QED BY <1>3, <2>1 DEF UserInv
<1>8. FileInv'
  BY <1>1 DEF telegrafVars, CommonInv, FileInv
<1> QED
  BY <1>2, <1>4, <1>5, <1>6, <1>7, <1>8

LEMMA InitInv ==
  ASSUME SetupAssumption, Init
  PROVE  IInv
<1>1. CommonInv
  BY DEF Init, CommonInv
<1>2. BootInv
  BY DEF Init, BootInv, NoId
<1>3. NetworkInv
  <2>1. /\ \A n \in Nodes : at[n] = "idle"
        /\ lock = Nobody /\ created_by = Nobody /\ networks = 0 /\ seen = {} /\ disturbed = FALSE
    BY DEF Init
  <2>2. \A n \in Nodes : at[n] \notin Holding \cup {"done"}
    BY <2>1 DEF Holding
  <2>3. networks \in Nat /\ ~(networks > 0) /\ networks <= 1
    BY <2>1
  <2>4. disturbed \in BOOLEAN
    BY <2>1, Zenon
  <2> QED BY <2>1, <2>2, <2>3, <2>4 DEF NetworkInv, Holding
<1>4. DockerInv
  BY DEF Init, DockerInv, Holding
<1>5. UserInv
  BY DEF Init, UserInv
<1>6. FileInv
  BY DEF Init, FileInv
<1> QED
  BY <1>1, <1>2, <1>3, <1>4, <1>5, <1>6 DEF IInv

LEMMA StutterKeeps ==
  ASSUME IInv, UNCHANGED vars
  PROVE  IInv'
<1>1. UNCHANGED <<program, masters, at, lost, bootstrapVars, calicoVars, usersVars, telegrafVars>>
  BY DEF vars
<1>2. CommonInv'
  BY <1>1 DEF IInv, CommonInv
<1>3. BootInv'
  <2>1. Alone' = Alone /\ TheId' = TheId
    BY <1>1 DEF Alone, TheId, bootstrapVars
  <2> QED BY <1>1, <2>1 DEF IInv, BootInv, bootstrapVars
<1>4. NetworkInv' /\ DockerInv'
  BY <1>1 DEF IInv, NetworkInv, DockerInv, calicoVars
<1>5. UserInv' /\ FileInv'
  BY <1>1 DEF IInv, UserInv, FileInv, usersVars, telegrafVars
<1> QED
  BY <1>2, <1>3, <1>4, <1>5 DEF IInv

LEMMA InvImpliesProperty ==
  ASSUME IInv
  PROVE  NodesAreSetUp
<1>1. \A n \in Nodes : id[n] \in {NoId, TheId}
  BY DEF IInv, BootInv
<1>2. networks > 1 => disturbed
  BY DEF IInv, NetworkInv
<1>3. created_by # Nobody => networks > 0
  BY DEF IInv, NetworkInv
<1>4. (program = "calico") => \A n \in Nodes : at[n] = "done" =>
        /\ networks > 0
        /\ daemon[n] = [up |-> TRUE, config |-> "new", certificates |-> "new"]
  BY DEF IInv, NetworkInv, DockerInv
<1>5. Users = legacy \cup iam \cup removed
  BY DEF IInv, UserInv
<1>6. \A n \in Nodes : (at[n] = "done" /\ lost = 0) => access[n] = "telegraf"
  BY DEF IInv, FileInv
<1> QED
  BY <1>1, <1>2, <1>3, <1>4, <1>5, <1>6 DEF NodesAreSetUp

(* However the programs that run before the services meet, and however     *)
(* often they are killed: the nodes agree on the cluster id, there is one  *)
(* calico network unless its creator was disturbed, docker runs with what  *)
(* is new where the program is done, and no user and no file is lost.      *)
THEOREM NodesSetUp == ASSUME SetupAssumption PROVE Spec => []NodesAreSetUp
<1>1. Init => IInv
  BY InitInv
<1>2. IInv /\ [Next]_vars => IInv'
  <2> SUFFICES ASSUME IInv, [Next]_vars PROVE IInv'
    OBVIOUS
  <2>1. CASE BootstrapStep
    BY <2>1, BootstrapKeeps
  <2>2. CASE CalicoStep
    BY <2>2, CalicoKeeps
  <2>3. CASE UsersStep
    BY <2>3, UsersStepKeeps
  <2>4. CASE TelegrafStep
    BY <2>4, TelegrafKeeps
  <2>5. CASE \E n \in Nodes : Kill(n)
    BY <2>5, KillKeeps
  <2>6. CASE UNCHANGED vars
    BY <2>6, StutterKeeps
  <2> QED
    BY <2>1, <2>2, <2>3, <2>4, <2>5, <2>6
    DEF Next, BootstrapStep, CalicoStep, DockerStep, NetworkStep, UsersStep, TelegrafStep
<1>3. IInv => NodesAreSetUp
  BY InvImpliesProperty
<1> QED
  BY <1>1, <1>2, <1>3, PTL DEF Spec

-----------------------------------------------------------------------------
(* Exhibitor: artifacts and certificates                                   *)
-----------------------------------------------------------------------------
(* Stores are there but not whole only while they are written or removed,  *)
(* or because that was cut off; whole ones are those of the address the    *)
(* server's certificate was signed for.                                    *)
ToRun == {<<"init_server", "init_client", "csr_server", "csr_client", "create">>,
          <<"init_client", "csr_server", "csr_client", "create">>,
          <<"csr_server", "csr_client", "create">>, <<"csr_client", "create">>, <<"create">>}
Cut == killed_in \cap {"create", "remove"} # {}
Writing == exhibitor_pc = "command" /\ Head(commands) = "create"

ExhibitorType ==
    /\ settings \in [enabled : BOOLEAN, required : BOOLEAN, url : BOOLEAN,
                     backend : {"STATIC", "ZK", "other"}, ensemble : Ensembles, size : {1, 3}]
    /\ artifacts = [exists |-> artifacts.exists, files |-> artifacts.files, ip |-> artifacts.ip]
    /\ artifacts.exists \in BOOLEAN /\ artifacts.files \subseteq Exhibitor!Stores
    /\ certificates = [e \in {"server", "client"} |-> certificates[e]]
    /\ address \in Addresses /\ root_cert \in BOOLEAN /\ moved \in BOOLEAN
    /\ exhibitor_pc \in {"idle", "failed", "generate", "command", "remove", "unlink",
                         "permissions", "start", "running"}
    /\ exhibitor_pc = "command" => commands \in ToRun

StoresInv ==
    /\ ~artifacts.exists => artifacts.files = {}
    /\ exhibitor_pc = "generate" \/ (exhibitor_pc = "command" /\ ~Writing) => ~artifacts.exists
    /\ exhibitor_pc \in {"idle", "failed", "permissions", "start", "running"} =>
         \/ artifacts.exists => artifacts.files = Exhibitor!Stores
         \/ Cut
    /\ exhibitor_pc = "unlink" => artifacts.files = Exhibitor!Stores
    /\ exhibitor_pc \in {"permissions", "start"} /\ settings.enabled /\ settings.required =>
         artifacts.exists
    /\ exhibitor_pc = "start" /\ artifacts.files = Exhibitor!Stores =>
         Exhibitor!Stores \subseteq readable

CertificatesInv ==
    /\ ~moved =>
         /\ artifacts.files # {} => artifacts.ip = address
         /\ exhibitor_pc = "command" => detected = address
         /\ exhibitor_pc = "command" /\ Head(commands) \in {"csr_client", "create"} =>
              certificates["server"] = address
    /\ /\ exhibitor_pc \in {"idle", "failed", "permissions", "start", "running"}
       /\ artifacts.exists /\ root_cert /\ certificates["client"] # Exhibitor!Nowhere
       => killed_in \cap {"create", "remove", "unlink"} # {}

RunningInv ==
    exhibitor_pc = "running" =>
      /\ exhibitor.tls => artifacts.files = Exhibitor!Stores
      /\ ~moved => exhibitor.hostname = address

ExhibitorInv ==
    ExhibitorType /\ StoresInv /\ CertificatesInv /\ RunningInv /\ Exhibitor!ExhibitorIsSafe

USE DEF Exhibitor!At, Exhibitor!Goto, Exhibitor!node, Exhibitor!disk

LEMMA NextCommand ==
    ASSUME commands \in ToRun
    PROVE  /\ Head(commands) \in {"init_server", "init_client", "csr_server", "csr_client", "create"}
           /\ Head(commands) # "create" => Tail(commands) \in ToRun
           /\ Head(commands) = "init_server" => Head(Tail(commands)) = "init_client"
           /\ Head(commands) = "init_client" => Head(Tail(commands)) = "csr_server"
           /\ Head(commands) = "csr_server" => Head(Tail(commands)) = "csr_client"
           /\ Head(commands) = "csr_client" => Head(Tail(commands)) = "create"
<1>1. CASE commands = <<"create">>
  BY <1>1 DEF ToRun
<1>2. CASE commands = <<"csr_client", "create">>
  BY <1>2 DEF ToRun
<1>3. CASE commands = <<"csr_server", "csr_client", "create">>
  BY <1>3 DEF ToRun
<1>4. CASE commands = <<"init_client", "csr_server", "csr_client", "create">>
  BY <1>4 DEF ToRun
<1>5. CASE commands = <<"init_server", "init_client", "csr_server", "csr_client", "create">>
  BY <1>5 DEF ToRun
<1>6. QED  BY <1>1, <1>2, <1>3, <1>4, <1>5 DEF ToRun

LEMMA ExhibitorBegins == Exhibitor!Init => ExhibitorInv
<1> SUFFICES ASSUME Exhibitor!Init PROVE ExhibitorInv  OBVIOUS
<1> USE DEF Exhibitor!Init, Exhibitor!NoArtifacts
<1>1. ExhibitorType
  <2>1. CASE artifacts = Exhibitor!NoArtifacts
    BY <2>1 DEF ExhibitorType
  <2>2. CASE artifacts = [exists |-> TRUE, files |-> Exhibitor!Stores, ip |-> address]
    BY <2>2 DEF ExhibitorType
  <2>3. QED  BY <2>1, <2>2
<1>2. StoresInv
  BY DEF StoresInv
<1>3. CertificatesInv
  BY DEF CertificatesInv
<1>4. QED  BY <1>1, <1>2, <1>3 DEF ExhibitorInv, RunningInv, Exhibitor!ExhibitorIsSafe

LEMMA StartSequenceKeeps == ASSUME ExhibitorInv, Exhibitor!main PROVE ExhibitorInv'
<1> USE DEF Exhibitor!main, Exhibitor!_fail_and_calculate_status, ExhibitorInv
<1>1. ExhibitorType'
  BY DEF ExhibitorType
<1>2. StoresInv'
  BY DEF ExhibitorType, StoresInv, Cut, Writing
<1>3. CertificatesInv'
  BY DEF ExhibitorType, StoresInv, CertificatesInv, Cut, Writing
<1>4. RunningInv' /\ Exhibitor!ExhibitorIsSafe'
  BY DEF RunningInv, Exhibitor!ExhibitorIsSafe
<1>5. QED  BY <1>1, <1>2, <1>3, <1>4

LEMMA GenerateKeeps == ASSUME ExhibitorInv, Exhibitor!gen_tls_artifacts PROVE ExhibitorInv'
<1> USE DEF Exhibitor!gen_tls_artifacts, ToRun, ExhibitorInv
<1>1. ExhibitorType'
  BY DEF ExhibitorType
<1>2. StoresInv'
  BY DEF ExhibitorType, StoresInv, Cut, Writing
<1>3. CertificatesInv'
  <2>1. Head(<<"init_server", "init_client", "csr_server", "csr_client", "create">>) = "init_server"
    OBVIOUS
  <2>2. QED
    BY <2>1 DEF ExhibitorType, StoresInv, CertificatesInv, Cut, Writing
<1>4. RunningInv' /\ Exhibitor!ExhibitorIsSafe'
  BY DEF RunningInv, Exhibitor!ExhibitorIsSafe
<1>5. QED  BY <1>1, <1>2, <1>3, <1>4

LEMMA InitEntityKeeps == ASSUME ExhibitorInv, Exhibitor!init_entity PROVE ExhibitorInv'
<1> USE DEF Exhibitor!init_entity, ExhibitorInv
<1>1. ExhibitorType'
  BY NextCommand DEF ExhibitorType
<1>2. StoresInv'
  BY NextCommand DEF ExhibitorType, StoresInv, Cut, Writing
<1>3. CertificatesInv'
  BY NextCommand DEF ExhibitorType, StoresInv, CertificatesInv, Cut, Writing
<1>4. RunningInv' /\ Exhibitor!ExhibitorIsSafe'
  BY NextCommand DEF RunningInv, Exhibitor!ExhibitorIsSafe
<1>5. QED  BY <1>1, <1>2, <1>3, <1>4

LEMMA CsrKeeps == ASSUME ExhibitorInv, Exhibitor!csr PROVE ExhibitorInv'
<1> USE DEF Exhibitor!csr, ExhibitorInv
<1>1. ExhibitorType'
  BY NextCommand DEF ExhibitorType
<1>2. StoresInv'
  BY NextCommand DEF ExhibitorType, StoresInv, Cut, Writing
<1>3. CertificatesInv'
  BY NextCommand DEF ExhibitorType, StoresInv, CertificatesInv, Cut, Writing
<1>4. RunningInv' /\ Exhibitor!ExhibitorIsSafe'
  BY NextCommand DEF RunningInv, Exhibitor!ExhibitorIsSafe
<1>5. QED  BY <1>1, <1>2, <1>3, <1>4

LEMMA CreateStoresKeeps == ASSUME ExhibitorInv, Exhibitor!create_exhibitor_artifacts PROVE ExhibitorInv'
<1> USE DEF Exhibitor!create_exhibitor_artifacts, ExhibitorInv
<1> DEFINE Adds(f) == artifacts' = [exists |-> TRUE, files |-> artifacts.files \cup {f},
                                    ip |-> certificates["server"]]
<1>0. \/ /\ \E f \in Exhibitor!Stores \ artifacts.files : Adds(f)
         /\ exhibitor_pc' = "command"
      \/ artifacts.files = Exhibitor!Stores /\ exhibitor_pc' = "unlink" /\ artifacts' = artifacts
  BY DEF Exhibitor!create_exhibitor_artifacts
<1>1. ExhibitorType'
  <2>1. ASSUME NEW f \in Exhibitor!Stores, Adds(f), exhibitor_pc' = "command" PROVE ExhibitorType'
    BY <2>1 DEF ExhibitorType
  <2>2. CASE artifacts' = artifacts /\ exhibitor_pc' = "unlink"
    BY <2>2 DEF ExhibitorType
  <2>3. QED  BY <1>0, <2>1, <2>2
<1>2. StoresInv'
  BY DEF ExhibitorType, StoresInv, Cut, Writing
<1>3. CertificatesInv'
  BY DEF ExhibitorType, StoresInv, CertificatesInv, Cut, Writing
<1>4. RunningInv' /\ Exhibitor!ExhibitorIsSafe'
  BY DEF RunningInv, Exhibitor!ExhibitorIsSafe
<1>5. QED  BY <1>1, <1>2, <1>3, <1>4

LEMMA CommandFailsKeeps == ASSUME ExhibitorInv, Exhibitor!command_fails PROVE ExhibitorInv'
<1> USE DEF Exhibitor!command_fails, ExhibitorInv
<1>1. ExhibitorType'
  BY DEF ExhibitorType
<1>2. StoresInv'
  BY DEF ExhibitorType, StoresInv, Cut, Writing
<1>3. CertificatesInv'
  BY DEF ExhibitorType, StoresInv, CertificatesInv, Cut, Writing
<1>4. RunningInv' /\ Exhibitor!ExhibitorIsSafe'
  BY DEF RunningInv, Exhibitor!ExhibitorIsSafe
<1>5. QED  BY <1>1, <1>2, <1>3, <1>4

LEMMA RemoveKeeps == ASSUME ExhibitorInv, Exhibitor!_remove_artifact_dir PROVE ExhibitorInv'
<1> USE DEF Exhibitor!_remove_artifact_dir, Exhibitor!NoArtifacts,
     Exhibitor!_fail_and_calculate_status, ExhibitorInv
<1>1. ExhibitorType'
  <2>1. CASE artifacts.files # {}
    <3>1. /\ artifacts'.files \subseteq artifacts.files
          /\ artifacts' = [exists |-> artifacts.exists, files |-> artifacts'.files, ip |-> artifacts.ip]
      BY <2>1 DEF ExhibitorType
    <3>2. QED  BY <2>1, <3>1 DEF ExhibitorType
  <2>2. CASE artifacts.files = {}
    <3>1. artifacts' = [exists |-> FALSE, files |-> {}, ip |-> Exhibitor!Nowhere]
      BY <2>2
    <3>2. exhibitor_pc' \in {"failed", "permissions"}
      BY <2>2
    <3>3. QED  BY <3>1, <3>2 DEF ExhibitorType
  <2>3. QED  BY <2>1, <2>2
<1>2. StoresInv'
  BY DEF ExhibitorType, StoresInv, Cut, Writing
<1>3. CertificatesInv'
  BY DEF ExhibitorType, StoresInv, CertificatesInv, Cut, Writing
<1>4. RunningInv' /\ Exhibitor!ExhibitorIsSafe'
  BY DEF RunningInv, Exhibitor!ExhibitorIsSafe
<1>5. QED  BY <1>1, <1>2, <1>3, <1>4

LEMMA UnlinkKeeps == ASSUME ExhibitorInv, Exhibitor!unlink PROVE ExhibitorInv'
<1> USE DEF Exhibitor!unlink, ExhibitorInv
<1>1. ExhibitorType'
  BY DEF ExhibitorType
<1>2. StoresInv'
  BY DEF ExhibitorType, StoresInv, Cut, Writing, Exhibitor!Stores
<1>3. CertificatesInv'
  BY DEF ExhibitorType, StoresInv, CertificatesInv, Cut, Writing
<1>4. RunningInv' /\ Exhibitor!ExhibitorIsSafe'
  BY DEF RunningInv, Exhibitor!ExhibitorIsSafe
<1>5. QED  BY <1>1, <1>2, <1>3, <1>4

LEMMA PermissionsKeep == ASSUME ExhibitorInv, Exhibitor!set_permissions PROVE ExhibitorInv'
<1> USE DEF Exhibitor!set_permissions, ExhibitorInv
<1>1. ExhibitorType'
  BY DEF ExhibitorType
<1>2. StoresInv'
  BY DEF ExhibitorType, StoresInv, Cut, Writing
<1>3. CertificatesInv'
  BY DEF ExhibitorType, StoresInv, CertificatesInv, Cut, Writing
<1>4. RunningInv' /\ Exhibitor!ExhibitorIsSafe'
  BY DEF RunningInv, Exhibitor!ExhibitorIsSafe
<1>5. QED  BY <1>1, <1>2, <1>3, <1>4

LEMMA StartKeeps == ASSUME ExhibitorInv, Exhibitor!start PROVE ExhibitorInv'
<1> USE DEF Exhibitor!start, Exhibitor!CanStart, Exhibitor!Ensemble, ExhibitorInv
<1>1. ExhibitorType'
  BY DEF ExhibitorType
<1>2. StoresInv'
  BY DEF ExhibitorType, StoresInv, Cut, Writing
<1>3. CertificatesInv'
  BY DEF ExhibitorType, StoresInv, CertificatesInv, Cut, Writing
<1>4. RunningInv' /\ Exhibitor!ExhibitorIsSafe'
  <2>1. CASE exhibitor_pc' = "failed"
    BY <2>1 DEF RunningInv, Exhibitor!ExhibitorIsSafe
  <2> DEFINE tls == artifacts.files = Exhibitor!Stores
  <2>2. CASE /\ Exhibitor!CanStart /\ exhibitor_pc' = "running"
             /\ exhibitor' = [tls |-> tls, hostname |-> address, ensemble |-> Exhibitor!Ensemble]
    <3>1. exhibitor'.tls = tls /\ exhibitor'.hostname = address
      BY <2>2
    <3>2. RunningInv'
      BY <2>2, <3>1 DEF RunningInv
    <3>3. settings.backend = "STATIC" \/ settings.size = 1 => address \in Exhibitor!Ensemble
      BY <2>2 DEF ExhibitorType
    <3>4. settings.enabled /\ settings.required => tls \/ Cut
      BY DEF StoresInv
    <3>5. tls => artifacts.exists
      BY DEF StoresInv, Exhibitor!Stores
    <3>6. tls => Exhibitor!Stores \subseteq readable /\ (moved \/ artifacts.ip = address)
      BY DEF StoresInv, CertificatesInv, Exhibitor!Stores
    <3>7. tls /\ root_cert /\ certificates["client"] # Exhibitor!Nowhere =>
            killed_in \cap {"create", "remove", "unlink"} # {}
      BY <3>5 DEF CertificatesInv
    <3>8. exhibitor'.ensemble = Exhibitor!Ensemble
      BY <2>2
    <3> HIDE DEF Exhibitor!start, ExhibitorInv, tls, Exhibitor!Ensemble
    <3>9. UNCHANGED <<settings, artifacts, readable, root_cert, certificates, moved, killed_in>>
      BY DEF Exhibitor!start
    <3>10. QED
      BY <3>1, <3>2, <3>3, <3>4, <3>6, <3>7, <3>8, <3>9 DEF Exhibitor!ExhibitorIsSafe, Cut
  <2>3. QED  BY <2>1, <2>2
<1>5. QED  BY <1>1, <1>2, <1>3, <1>4

LEMMA KillStartKeeps == ASSUME ExhibitorInv, Exhibitor!Kill PROVE ExhibitorInv'
<1> USE DEF Exhibitor!Kill, Exhibitor!Trouble, Exhibitor!Stopped, ExhibitorInv
<1>1. ExhibitorType'
  BY NextCommand DEF ExhibitorType
<1>2. StoresInv'
  BY NextCommand DEF ExhibitorType, StoresInv, Cut, Writing
<1>3. CertificatesInv'
  BY NextCommand DEF ExhibitorType, StoresInv, CertificatesInv, Cut, Writing
<1>4. RunningInv' /\ Exhibitor!ExhibitorIsSafe'
  BY NextCommand DEF RunningInv, Exhibitor!ExhibitorIsSafe
<1>5. QED  BY <1>1, <1>2, <1>3, <1>4

LEMMA ChangeAddressKeeps == ASSUME ExhibitorInv, Exhibitor!ChangeAddress PROVE ExhibitorInv'
<1> USE DEF Exhibitor!ChangeAddress, Exhibitor!Trouble, ExhibitorInv
<1>1. ExhibitorType'
  BY DEF ExhibitorType
<1>2. StoresInv'
  BY DEF ExhibitorType, StoresInv, Cut, Writing
<1>3. CertificatesInv'
  BY DEF ExhibitorType, StoresInv, CertificatesInv, Cut, Writing
<1>4. RunningInv' /\ Exhibitor!ExhibitorIsSafe'
  BY DEF RunningInv, Exhibitor!ExhibitorIsSafe
<1>5. QED  BY <1>1, <1>2, <1>3, <1>4

LEMMA CleanTmpKeeps == ASSUME ExhibitorInv, Exhibitor!CleanTmp PROVE ExhibitorInv'
<1> USE DEF Exhibitor!CleanTmp, Exhibitor!Trouble, ExhibitorInv
<1>1. ExhibitorType'
  BY DEF ExhibitorType
<1>2. StoresInv'
  BY DEF ExhibitorType, StoresInv, Cut, Writing
<1>3. CertificatesInv'
  BY DEF ExhibitorType, StoresInv, CertificatesInv, Cut, Writing
<1>4. RunningInv' /\ Exhibitor!ExhibitorIsSafe'
  BY DEF RunningInv, Exhibitor!ExhibitorIsSafe, Cut
<1>5. QED  BY <1>1, <1>2, <1>3, <1>4

LEMMA ExhibitorStutters == ASSUME ExhibitorInv, UNCHANGED Exhibitor!vars PROVE ExhibitorInv'
<1> USE DEF Exhibitor!vars, ExhibitorInv
<1>1. ExhibitorType'
  BY DEF ExhibitorType
<1>2. StoresInv'
  BY DEF ExhibitorType, StoresInv, Cut, Writing
<1>3. CertificatesInv'
  BY DEF ExhibitorType, StoresInv, CertificatesInv, Cut, Writing
<1>4. RunningInv' /\ Exhibitor!ExhibitorIsSafe'
  BY DEF RunningInv, Exhibitor!ExhibitorIsSafe
<1>5. QED  BY <1>1, <1>2, <1>3, <1>4

(* Exhibitor runs without TLS where it is required only if a program was   *)
(* killed while it wrote or removed the stores; with TLS it can read them  *)
(* all, they are for its address unless that has changed, and a root       *)
(* certificate that was used is gone unless a kill kept it; a static       *)
(* ensemble has the master in it (bootstrap_exhibitor_tls.py,              *)
(* start_exhibitor.py).                                                    *)
THEOREM ExhibitorSafe == Exhibitor!Spec => []Exhibitor!ExhibitorIsSafe
<1>1. ExhibitorInv /\ [Exhibitor!Next]_(Exhibitor!vars) => ExhibitorInv'
  BY StartSequenceKeeps, GenerateKeeps, InitEntityKeeps, CsrKeeps, CreateStoresKeeps,
     CommandFailsKeeps, RemoveKeeps,
     UnlinkKeeps, PermissionsKeep, StartKeeps, KillStartKeeps, ChangeAddressKeeps, CleanTmpKeeps,
     ExhibitorStutters DEF Exhibitor!Next
<1>2. ExhibitorInv => Exhibitor!ExhibitorIsSafe
  BY DEF ExhibitorInv
<1>3. QED  BY ExhibitorBegins, <1>1, <1>2, PTL DEF Exhibitor!Spec

-----------------------------------------------------------------------------
(* The agent's volumes and CNI state                                       *)
-----------------------------------------------------------------------------
(* The root volume's name is not a volume's. *)
VolumesAssumption == Agent!Work \notin Volumes

(* If no volume was unmounted and the operator has renamed mesos-resources *)
(* when he wanted a new one, the space of the volumes the agent uses is    *)
(* what the file says, or the cache while there is no file.                *)
Says(file) == \A v \in DOMAIN checkpoint : v \in DOMAIN file /\ file[v] = checkpoint[v]

SpaceInv ==
    /\ DOMAIN checkpoint \subseteq Volumes
    /\ agent_pc = "measure" => resources = Agent!NoFile
    /\ agent_pc \in {"move", "new", "nested", "rmtree", "recover"} => resources # Agent!NoFile
    /\ ~away =>
         /\ DOMAIN checkpoint \subseteq mounted
         /\ DOMAIN resources \subseteq mounted \cup {Agent!Work}
         /\ agent_pc = "measure" => found \cup DOMAIN measured \subseteq mounted
    /\ ~forgot /\ ~away =>
         /\ Says(IF resources = Agent!NoFile THEN resources_cache ELSE resources)
         /\ agent_pc = "measure" => \A v \in DOMAIN checkpoint :
              v \in found \/ (v \in DOMAIN measured /\ measured[v] = checkpoint[v])
         /\ agent_pc # "refused"

(* Until a reboot there is a whole copy of CNI's data, or none is needed.  *)
(* As long as no move was cut off, all go to their place; one that was cut *)
(* off leaves room for the next.                                           *)
States == {"none", "partial", "whole"}
CniInv ==
    /\ cni = [old |-> cni.old, new |-> cni.new, nested |-> cni.nested]
    /\ cni.old \in States /\ cni.new \in States /\ cni.nested \in States
    /\ cut_moves \in Nat
    /\ agent_pc \in {"stopped", "measure", "move", "new", "nested", "rmtree", "recover",
                     "running", "refused"}
    /\ agent_pc = "new" => cni.new = "partial"
    /\ agent_pc = "nested" => cni.nested = "partial"
    /\ agent_pc \in {"new", "nested", "rmtree"} => cni.old # "none"
    /\ agent_pc \in {"recover", "running", "refused"} => cni.old = "none"

CopyInv == ~rebooted =>
    /\ \/ "whole" \in {cni.old, cni.new, cni.nested}
       \/ cni.old = "none" /\ cni.new = "none" /\ cni.nested = "none"
    /\ cni.nested # "none" => cni.new # "none"
    /\ agent_pc = "new" => cni.old = "whole" /\ cni.nested = "none"
    /\ agent_pc = "nested" => cni.old = "whole" \/ cni.new = "whole"
    /\ agent_pc = "rmtree" => cni.new = "whole" \/ cni.nested = "whole"

PlaceInv ==
    /\ cut_moves = 0 =>
         /\ cni.nested = "none"
         /\ cni.new = "partial" => agent_pc = "new"
         /\ cni.old = "partial" => agent_pc = "rmtree"
         /\ cni.old # "none" /\ cni.new # "none" => agent_pc \in {"new", "rmtree"}
    /\ cut_moves < 2 /\ cni.nested # "none" /\ cni.old # "none" =>
         agent_pc \in {"nested", "rmtree"}

AgentInv == SpaceInv /\ CniInv /\ CopyInv /\ PlaceInv

USE DEF Agent!At, Agent!Goto, Agent!disks, Agent!files, Agent!histories, Agent!Event

LEMMA AgentIsFine == AgentInv => Agent!AgentIsAccepted
<1> SUFFICES ASSUME AgentInv PROVE Agent!AgentIsAccepted  OBVIOUS
<1> USE DEF AgentInv
<1>1. agent_pc = "refused" => forgot \/ away
  BY DEF SpaceInv
<1>2. "whole" \in {cni.old, cni.new, cni.nested} \/ {cni.old, cni.new, cni.nested} = {"none"}
      \/ rebooted
  BY DEF CopyInv
<1>3. agent_pc = "running" => cni.old = "none"
  BY DEF CniInv
<1>4. agent_pc = "running" /\ cut_moves = 0 => cni.nested = "none" /\ cni.new # "partial"
  BY DEF PlaceInv
<1>5. agent_pc = "move" /\ cni.old # "none" /\ cni[Agent!Target] # "none" => cut_moves > 1
  BY DEF PlaceInv, CniInv, Agent!Target
<1>6. QED  BY <1>1, <1>2, <1>3, <1>4, <1>5 DEF Agent!AgentIsAccepted

LEMMA AgentBegins == Agent!Init => AgentInv
BY DEF Agent!Init, AgentInv, SpaceInv, CniInv, CopyInv, PlaceInv, States, Says, Agent!NoFile,
   Agent!Nothing

----------------------------------------------------------------------------
(* CNI's data *)

LEMMA SameFiles ==
    ASSUME AgentInv, UNCHANGED <<mounted, resources, resources_cache, checkpoint, forgot, away>>,
           agent_pc' \in {"stopped", "running"} \/
             /\ agent_pc \in {"move", "new", "nested", "rmtree"} 
             /\ agent_pc' \in {"new", "nested", "rmtree", "recover"}
    PROVE  SpaceInv'
BY DEF AgentInv, SpaceInv, Says

LEMMA SameCni ==
    ASSUME AgentInv, UNCHANGED <<cni, cut_moves, rebooted>>,
           \/ agent_pc' = agent_pc
           \/ /\ agent_pc \in {"stopped", "measure"} /\ agent_pc' \in {"stopped", "measure", "move"}
           \/ /\ agent_pc \in {"recover", "running", "refused"}
              /\ agent_pc' \in {"stopped", "running", "refused"}
    PROVE  CniInv' /\ CopyInv' /\ PlaceInv'
<1> USE DEF AgentInv, CniInv
<1>1. CniInv'
  OBVIOUS
<1>2. CopyInv'
  BY DEF CopyInv
<1>3. PlaceInv'
  BY DEF PlaceInv
<1>4. QED  BY <1>1, <1>2, <1>3

----------------------------------------------------------------------------
(* The volumes *)

LEMMA FindKeeps == ASSUME AgentInv, Agent!find_mounts_matching PROVE AgentInv'
<1> USE DEF Agent!find_mounts_matching
<1>1. SpaceInv'
  BY DEF AgentInv, SpaceInv, Says, Agent!Nothing
<1>2. QED  BY <1>1, SameCni DEF AgentInv

LEMMA MeasureKeeps == ASSUME AgentInv, Agent!get_mounts_and_freespace PROVE AgentInv'
<1>1. /\ agent_pc = "measure"
      /\ UNCHANGED <<mounted, resources, resources_cache, checkpoint, forgot, away>>
      /\ UNCHANGED <<cni, cut_moves, rebooted>>
  BY DEF Agent!get_mounts_and_freespace
<1>2. \/ agent_pc' = "stopped"
      \/ /\ agent_pc' = agent_pc
         /\ \E v \in found : /\ measured' = Agent!With(v, Agent!net_free_space(v), measured)
                             /\ found' = found \ {v}
  BY DEF Agent!get_mounts_and_freespace
<1>3. ASSUME NEW v \in found, agent_pc' = agent_pc, found' = found \ {v},
             measured' = Agent!With(v, Agent!net_free_space(v), measured)
      PROVE  SpaceInv'
  <2>1. DOMAIN measured' = {v} \cup DOMAIN measured
    BY <1>3 DEF Agent!With
  <2>2. \A w \in DOMAIN measured :
          measured'[w] = IF w = v THEN Agent!net_free_space(v) ELSE measured[w]
    BY <1>3 DEF Agent!With
  <2>3. measured'[v] = Agent!net_free_space(v)
    BY <1>3 DEF Agent!With
  <2>4. ASSUME ~forgot, ~away, v \in DOMAIN checkpoint
        PROVE  Agent!net_free_space(v) = checkpoint[v]
    <3>1. v \in DOMAIN resources_cache /\ resources_cache[v] = checkpoint[v]
      BY <1>1, <2>4 DEF AgentInv, SpaceInv, Says
    <3>2. resources_cache # Agent!NoFile
      BY <3>1 DEF Agent!NoFile
    <3>3. QED  BY <3>1, <3>2 DEF Agent!net_free_space
  <2>5. ~forgot /\ ~away => \A w \in DOMAIN checkpoint :
          w \in found' \/ (w \in DOMAIN measured' /\ measured'[w] = checkpoint[w])
    BY <1>1, <1>3, <2>1, <2>2, <2>3, <2>4 DEF AgentInv, SpaceInv
  <2>6. QED  BY <1>1, <1>3, <2>1, <2>5 DEF AgentInv, SpaceInv, Says
<1>4. SpaceInv'
  BY <1>1, <1>2, <1>3, SameFiles
<1>5. QED  BY <1>1, <1>2, <1>4, SameCni DEF AgentInv

LEMMA RootKeeps ==
    ASSUME VolumesAssumption, AgentInv, Agent!_handle_root_volume PROVE AgentInv'
<1>1. /\ agent_pc = "measure" /\ found = {}
      /\ UNCHANGED <<mounted, resources_cache, checkpoint, forgot, away, found, measured>>
      /\ UNCHANGED <<cni, cut_moves, rebooted>>
  BY DEF Agent!_handle_root_volume
<1>2. \/ agent_pc' = "stopped" /\ resources' = resources
      \/ /\ agent_pc' = "move"
         /\ resources' = Agent!With(Agent!Work, free[Agent!Work], measured)
  BY DEF Agent!_handle_root_volume
<1>3. ASSUME agent_pc' = "move",
             resources' = Agent!With(Agent!Work, free[Agent!Work], measured)
      PROVE  SpaceInv'
  <2>1. DOMAIN resources' = {Agent!Work} \cup DOMAIN measured
    BY <1>3 DEF Agent!With
  <2>2. \A w \in DOMAIN measured :
          resources'[w] = IF w = Agent!Work THEN free[Agent!Work] ELSE measured[w]
    BY <1>3 DEF Agent!With
  <2>3. resources' # Agent!NoFile
    BY <2>1 DEF Agent!NoFile
  <2>4. ~forgot /\ ~away => \A w \in DOMAIN checkpoint :
          w \in DOMAIN resources' /\ resources'[w] = checkpoint[w]
    BY <1>1, <2>1, <2>2 DEF AgentInv, SpaceInv, VolumesAssumption
  <2>5. QED  BY <1>1, <1>3, <2>1, <2>3, <2>4 DEF AgentInv, SpaceInv, Says
<1>4. SpaceInv'
  BY <1>1, <1>2, <1>3, SameFiles
<1>5. QED  BY <1>1, <1>2, <1>4, SameCni DEF AgentInv

----------------------------------------------------------------------------
LEMMA MoveKeeps == ASSUME AgentInv, Agent!move PROVE AgentInv'
<1> USE DEF Agent!move, Agent!Target, AgentInv, CniInv, States
<1>1. SpaceInv'
  BY SameFiles
<1>2. CniInv'
  OBVIOUS
<1>3. CopyInv'
  BY DEF CopyInv
<1>4. PlaceInv'
  BY DEF PlaceInv
<1>5. QED  BY <1>1, <1>2, <1>3, <1>4

LEMMA CopyTreeKeeps == ASSUME AgentInv, NEW place \in {"new", "nested"}, Agent!copytree(place) PROVE AgentInv'
<1> USE DEF Agent!copytree, AgentInv, CniInv, States
<1>1. SpaceInv'
  BY SameFiles
<1>2. CniInv'
  OBVIOUS
<1>3. CopyInv'
  BY DEF CopyInv
<1>4. PlaceInv'
  BY DEF PlaceInv
<1>5. QED  BY <1>1, <1>2, <1>3, <1>4

LEMMA RmtreeKeeps == ASSUME AgentInv, Agent!rmtree PROVE AgentInv'
<1> USE DEF Agent!rmtree, AgentInv, CniInv, States
<1>1. SpaceInv'
  BY DEF SpaceInv, Says
<1>2. CniInv'
  OBVIOUS
<1>3. CopyInv'
  BY DEF CopyInv
<1>4. PlaceInv'
  BY DEF PlaceInv
<1>5. QED  BY <1>1, <1>2, <1>3, <1>4

----------------------------------------------------------------------------
(* The agent, and what happens to the node *)

LEMMA RecoverKeeps == ASSUME AgentInv, Agent!recover PROVE AgentInv'
<1>1. SpaceInv'
  BY DEF Agent!recover, Agent!Accepts, AgentInv, SpaceInv, Says
<1>2. QED  BY <1>1, SameCni DEF Agent!recover, AgentInv

LEMMA UseKeeps ==
    ASSUME VolumesAssumption, AgentInv, NEW v \in Volumes, Agent!Use(v)
    PROVE  AgentInv'
<1>1. /\ v \in DOMAIN resources /\ checkpoint' = Agent!With(v, resources[v], checkpoint)
      /\ UNCHANGED <<mounted, resources, resources_cache, forgot, away, found, measured, agent_pc>>
      /\ agent_pc = "running" /\ UNCHANGED <<cni, cut_moves, rebooted>>
  BY DEF Agent!Use
<1>2. /\ DOMAIN checkpoint' = {v} \cup DOMAIN checkpoint
      /\ \A w \in DOMAIN checkpoint :
           checkpoint'[w] = IF w = v THEN resources[v] ELSE checkpoint[w]
      /\ checkpoint'[v] = resources[v]
  BY <1>1 DEF Agent!With
<1>3. resources # Agent!NoFile
  BY <1>1 DEF Agent!NoFile
<1>4. ~away => v \in mounted
  BY <1>1 DEF AgentInv, SpaceInv, VolumesAssumption
<1>5. SpaceInv'
  BY <1>1, <1>2, <1>3, <1>4 DEF AgentInv, SpaceInv, Says
<1>6. QED  BY <1>1, <1>5, SameCni DEF AgentInv

LEMMA RefusedKeeps == ASSUME AgentInv, Agent!Refused PROVE AgentInv'
<1>1. SpaceInv'
  BY DEF Agent!Refused, AgentInv, SpaceInv, Says
<1>2. QED  BY <1>1, SameCni DEF Agent!Refused, AgentInv

LEMMA StopKeeps == ASSUME AgentInv, Agent!Kill \/ Agent!Reboot PROVE AgentInv'
<1> USE DEF Agent!Kill, Agent!Reboot, Agent!CutMoves
<1>1. SpaceInv'
  BY SameFiles
<1>2. /\ agent_pc' = "stopped" /\ cut_moves' \in Nat /\ cut_moves' >= cut_moves
      /\ agent_pc \in {"new", "nested", "rmtree"} => cut_moves' = cut_moves + 1
  BY DEF AgentInv, CniInv
<1>3. \/ cni' = cni /\ rebooted' = rebooted
      \/ /\ cni' = [old |-> cni.old, new |-> "none", nested |-> "none"]
         /\ rebooted' = TRUE
  BY DEF AgentInv, CniInv
<1> HIDE DEF Agent!Kill, Agent!Reboot, Agent!CutMoves
<1>4. CniInv'
  BY <1>2, <1>3 DEF AgentInv, CniInv, States
<1>5. CopyInv'
  BY <1>2, <1>3 DEF AgentInv, CniInv, CopyInv
<1>6. PlaceInv'
  BY <1>2, <1>3 DEF AgentInv, CniInv, PlaceInv
<1>7. QED  BY <1>1, <1>4, <1>5, <1>6 DEF AgentInv

LEMMA DisksKeep ==
    ASSUME AgentInv,
           \/ \E v \in Volumes : Agent!Mount(v) \/ Agent!Unmount(v)
           \/ \E v \in Volumes \cup {Agent!Work} : Agent!SpaceChanges(v)
    PROVE  AgentInv'
<1>1. SpaceInv'
  BY DEF Agent!Mount, Agent!Unmount, Agent!SpaceChanges, AgentInv, SpaceInv, Says
<1>2. QED  BY <1>1, SameCni DEF Agent!Mount, Agent!Unmount, Agent!SpaceChanges, AgentInv

LEMMA DiscoverKeeps == ASSUME AgentInv, Agent!DiscoverAgain PROVE AgentInv'
<1>1. SpaceInv'
  BY DEF Agent!DiscoverAgain, Agent!Resting, Agent!NoFile, AgentInv, SpaceInv, Says
<1>2. QED  BY <1>1, SameCni DEF Agent!DiscoverAgain, AgentInv

(* The agent is only refused if the operator has deleted mesos-resources   *)
(* instead of renaming it or a volume was unmounted; CNI's state is whole  *)
(* in some place until a reboot, and the agent runs only with what is left *)
(* of it in its place (make_disk_resources.py, upgrade_cni.py).            *)
THEOREM AgentAccepted == ASSUME VolumesAssumption PROVE Agent!Spec => []Agent!AgentIsAccepted
<1>1. AgentInv /\ [Agent!Next]_(Agent!vars) => AgentInv'
  <2>1. AgentInv /\ UNCHANGED Agent!vars => AgentInv'
    BY DEF Agent!vars, AgentInv, SpaceInv, Says, CniInv, CopyInv, PlaceInv
  <2>2. QED
    BY <2>1, FindKeeps, MeasureKeeps, RootKeeps, MoveKeeps, CopyTreeKeeps, RmtreeKeeps,
       RecoverKeeps,
       UseKeeps, RefusedKeeps, StopKeeps, DisksKeep, DiscoverKeeps DEF Agent!Next
<1>2. QED  BY AgentBegins, AgentIsFine, <1>1, PTL DEF Agent!Spec

-----------------------------------------------------------------------------
(* dcos-net: systemd-networkd and resolv.conf                              *)
-----------------------------------------------------------------------------
(* Servers are addresses. *)
AddressesAssumption ==
    /\ "idle" \notin Servers /\ "write" \notin Servers
    /\ "partial" \notin Servers /\ "partial" \notin Resolvers

(* networkd has loaded the file, once the file is the package's, unless    *)
(* its restart is still to come or was missed.                             *)
NetworkdInv ==
    /\ rules \in {0, 1} /\ (net = "add" => rules = 0)
    /\ networkd = [source |-> networkd.source, file |-> networkd.file, loaded |-> networkd.loaded]
    /\ networkd.source \in {"old", "new"}
    /\ networkd.source = "old" => networkd.file # "new"
    /\ missed \in BOOLEAN
    /\ net = "restart" => networkd.file = networkd.source
    /\ unit = "active" /\ ~missed =>
         /\ networkd.file = networkd.source /\ net # "restart" => networkd.loaded = networkd.source
         /\ net \in {"link", "up"} => networkd.file = networkd.source

(* Unless a server has changed, those that have been asked are up if they  *)
(* answer.                                                                 *)
ResolvInv ==
    /\ answering \subseteq Servers /\ up \subseteq Servers
    /\ checked \subseteq Servers \/ checked = {"idle"} \/ checked = {"write"}
    /\ changed \in BOOLEAN
    /\ ~changed /\ checked \subseteq Servers => up = answering \ checked
    /\ ~changed /\ checked = {"write"} => up = answering
    /\ resolv = {"partial"} => cut_off \/ checked = {"write"}
    /\ checked = {"idle"} /\ ~changed /\ ~cut_off /\ resolv # {"host"} =>
         \/ answering # {} /\ resolv = answering
         \/ answering = {} /\ resolv \in Net!FallbackServers

(* Who has answered since the round began is still to be asked.            *)
WatchInv ==
    /\ watch = [round |-> watch.round, ask |-> watch.ask]
    /\ steady \subseteq answering
    /\ watch.round # 0 => steady \subseteq watch.ask

NetInv == NetworkdInv /\ ResolvInv /\ WatchInv

USE DEF Net!At, Net!Goto, Net!Event, Net!Answers, Net!NotSetup, Net!NotResolv, Net!NotWatchdog,
        Net!setupVars, Net!resolvVars

LEMMA NetIsFine == NetInv => Net!NetIsSetUp
<1> SUFFICES ASSUME NetInv PROVE Net!NetIsSetUp  OBVIOUS
<1>1. rules < 2
  BY DEF NetInv, NetworkdInv
<1>2. net = "up" /\ unit = "active" => networkd.loaded = networkd.source \/ missed
  BY DEF NetInv, NetworkdInv
<1>3. watch.round # 0 /\ watch.ask = {} => steady = {}
  BY DEF NetInv, WatchInv
<1>4. QED  BY <1>1, <1>2, <1>3 DEF NetInv, ResolvInv, Net!NetIsSetUp, Net!Partial

LEMMA NetBegins == Net!Init => NetInv
<1> SUFFICES ASSUME Net!Init PROVE NetInv  OBVIOUS
<1> USE DEF Net!Init
<1>1. NetworkdInv
  BY DEF NetworkdInv
<1>2. ResolvInv
  <2>1. checked = {"idle"} /\ checked # {"write"} /\ resolv # {"partial"}
    OBVIOUS
  <2>2. QED  BY <2>1 DEF ResolvInv
<1>3. WatchInv
  BY DEF WatchInv
<1>4. QED  BY <1>1, <1>2, <1>3 DEF NetInv

(* The three phases of gen_resolvconf.                                     *)
LEMMA Phases ==
    ASSUME AddressesAssumption, NEW c, c \subseteq Servers
    PROVE  c # {"idle"} /\ c # {"write"} /\ {"idle"} # {"write"}
           /\ ~({"idle"} \subseteq Servers) /\ ~({"write"} \subseteq Servers)
BY DEF AddressesAssumption

LEMMA CheckRuleKeeps == ASSUME NetInv, Net!check_rule PROVE NetInv'
<1> USE DEF Net!check_rule
<1>1. NetworkdInv'
  BY DEF NetInv, NetworkdInv
<1>2. ResolvInv'
  BY DEF NetInv, ResolvInv
<1>3. WatchInv'
  BY DEF NetInv, WatchInv
<1>4. QED  BY <1>1, <1>2, <1>3 DEF NetInv

LEMMA AddRuleKeeps == ASSUME NetInv, Net!add_rule PROVE NetInv'
<1> USE DEF Net!add_rule
<1>1. NetworkdInv'
  BY DEF NetInv, NetworkdInv
<1>2. ResolvInv'
  BY DEF NetInv, ResolvInv
<1>3. WatchInv'
  BY DEF NetInv, WatchInv
<1>4. QED  BY <1>1, <1>2, <1>3 DEF NetInv

LEMMA AddConfigKeeps == ASSUME NetInv, Net!add_config PROVE NetInv'
<1> USE DEF Net!add_config, Net!copy_file
<1>1. NetworkdInv'
  BY DEF NetInv, NetworkdInv
<1>2. ResolvInv'
  BY DEF NetInv, ResolvInv
<1>3. WatchInv'
  BY DEF NetInv, WatchInv
<1>4. QED  BY <1>1, <1>2, <1>3 DEF NetInv

LEMMA RestartKeeps == ASSUME NetInv, Net!restart_unit PROVE NetInv'
<1> USE DEF Net!restart_unit
<1>1. NetworkdInv'
  BY DEF NetInv, NetworkdInv
<1>2. ResolvInv'
  BY DEF NetInv, ResolvInv
<1>3. WatchInv'
  BY DEF NetInv, WatchInv
<1>4. QED  BY <1>1, <1>2, <1>3 DEF NetInv

LEMMA AddLinkKeeps == ASSUME NetInv, Net!add_link PROVE NetInv'
<1> USE DEF Net!add_link
<1>1. NetworkdInv'
  BY DEF NetInv, NetworkdInv
<1>2. ResolvInv'
  BY DEF NetInv, ResolvInv
<1>3. WatchInv'
  BY DEF NetInv, WatchInv
<1>4. QED  BY <1>1, <1>2, <1>3 DEF NetInv

LEMMA BeginKeeps == ASSUME AddressesAssumption, NetInv, Net!begin PROVE NetInv'
<1> USE DEF Net!begin
<1>1. NetworkdInv'
  BY DEF NetInv, NetworkdInv
<1>2. ResolvInv'
  <2>1. checked = {"idle"} /\ checked # {"write"}
    BY Phases
  <2>2. checked' = Servers /\ checked' # {"idle"} /\ checked' # {"write"}
    BY Phases
  <2>3. up' = answering \ checked' /\ answering' = answering /\ up' \subseteq Servers
    BY <2>2 DEF NetInv, ResolvInv
  <2>4. QED  BY <2>1, <2>2, <2>3 DEF NetInv, ResolvInv
<1>3. WatchInv'
  BY DEF NetInv, WatchInv
<1>4. QED  BY <1>1, <1>2, <1>3 DEF NetInv

LEMMA CheckServerKeeps == ASSUME AddressesAssumption, NetInv, Net!check_server PROVE NetInv'
<1> USE DEF Net!check_server
<1>1. NetworkdInv'
  BY DEF NetInv, NetworkdInv
<1>2. ResolvInv'
  <2> PICK ns \in checked \cap Servers :
        /\ up' = IF ns \in answering THEN up \cup {ns} ELSE up
        /\ checked' = IF checked = {ns} THEN {"write"} ELSE checked \ {ns}
    OBVIOUS
  <2>1. checked \subseteq Servers /\ checked # {"idle"} /\ checked # {"write"}
    BY Phases DEF NetInv, ResolvInv, AddressesAssumption
  <2>2. UNCHANGED <<answering, changed, cut_off, resolv>>
    OBVIOUS
  <2>3. up' \subseteq Servers
    BY DEF NetInv, ResolvInv
  <2> HIDE DEF Net!check_server
  <2>4. CASE checked = {ns}
    <3>1. checked' = {"write"} /\ checked' # {"idle"} /\ ~(checked' \subseteq Servers)
      BY <2>4, Phases
    <3>2. ~changed => up' = answering
      BY <2>1, <2>4 DEF NetInv, ResolvInv
    <3>3. QED  BY <2>1, <2>2, <2>3, <3>1, <3>2 DEF NetInv, ResolvInv
  <2>5. CASE checked # {ns}
    <3>1. checked' \subseteq Servers /\ checked' # {"idle"} /\ checked' # {"write"}
      BY <2>1, <2>5, Phases
    <3>2. ~changed => up' = answering \ checked'
      BY <2>1, <2>5 DEF NetInv, ResolvInv
    <3>3. QED  BY <2>1, <2>2, <2>3, <3>1, <3>2 DEF NetInv, ResolvInv
  <2>6. QED  BY <2>4, <2>5
<1>3. WatchInv'
  BY DEF NetInv, WatchInv
<1>4. QED  BY <1>1, <1>2, <1>3 DEF NetInv

LEMMA WriteResolvKeeps == ASSUME AddressesAssumption, NetInv, Net!write_resolv PROVE NetInv'
<1> USE DEF Net!write_resolv, Net!Contents, Net!Partial
<1>1. NetworkdInv'
  BY DEF NetInv, NetworkdInv
<1>2. ResolvInv'
  <2>1. checked # {"idle"} /\ ~(checked \subseteq Servers)
    BY Phases
  <2>2. UNCHANGED <<answering, changed, cut_off, up>>
    OBVIOUS
  <2>3. ~changed => up = answering
    BY DEF NetInv, ResolvInv
  <2>4. \/ checked' = {"idle"} /\ resolv' \in Net!Contents
        \/ checked' = checked
    OBVIOUS
  <2> HIDE DEF Net!write_resolv, Net!Contents
  <2>5. CASE checked' = {"idle"} /\ resolv' \in Net!Contents
    <3>1. resolv' # {"partial"}
      <4>1. CASE up # {}
        BY <2>5, <4>1 DEF NetInv, ResolvInv, Net!Contents, AddressesAssumption
      <4>2. CASE up = {}
        BY <2>5, <4>2 DEF Net!Contents, Net!FallbackServers, AddressesAssumption
      <4>3. QED  BY <4>1, <4>2
    <3>2. QED  BY <2>1, <2>2, <2>3, <2>5, <3>1, Phases DEF NetInv, ResolvInv, Net!Contents
  <2>6. CASE checked' = checked
    BY <2>1, <2>2, <2>3, <2>6 DEF NetInv, ResolvInv, Net!write_resolv
  <2>7. QED  BY <2>4, <2>5, <2>6
<1>3. WatchInv'
  BY DEF NetInv, WatchInv
<1>4. QED  BY <1>1, <1>2, <1>3 DEF NetInv

LEMMA LoopKeeps == ASSUME NetInv, Net!loop PROVE NetInv'
<1> USE DEF Net!loop
<1>1. NetworkdInv'
  BY DEF NetInv, NetworkdInv
<1>2. ResolvInv'
  BY DEF NetInv, ResolvInv
<1>3. WatchInv'
  BY DEF NetInv, ResolvInv, WatchInv
<1>4. QED  BY <1>1, <1>2, <1>3 DEF NetInv

LEMMA WatchdogKeeps == ASSUME NetInv, Net!watchdog PROVE NetInv'
<1> USE DEF Net!watchdog
<1>1. NetworkdInv'
  BY DEF NetInv, NetworkdInv
<1>2. ResolvInv'
  BY DEF NetInv, ResolvInv
<1>3. WatchInv'
  BY DEF NetInv, WatchInv
<1>4. QED  BY <1>1, <1>2, <1>3 DEF NetInv

LEMMA SleepKeeps == ASSUME NetInv, Net!sleep PROVE NetInv'
<1> USE DEF Net!sleep
<1>1. NetworkdInv'
  BY DEF NetInv, NetworkdInv
<1>2. ResolvInv'
  BY DEF NetInv, ResolvInv
<1>3. WatchInv'
  BY DEF NetInv, ResolvInv, WatchInv
<1>4. QED  BY <1>1, <1>2, <1>3 DEF NetInv

LEMMA KillNetKeeps == ASSUME NetInv, Net!kill PROVE NetInv'
<1> USE DEF Net!kill
<1>1. NetworkdInv'
  BY DEF NetInv, NetworkdInv
<1>2. ResolvInv'
  BY DEF NetInv, ResolvInv
<1>3. WatchInv'
  BY DEF NetInv, WatchInv
<1>4. QED  BY <1>1, <1>2, <1>3 DEF NetInv

LEMMA ErrorKeeps == ASSUME NetInv, Net!unexpected_error PROVE NetInv'
<1> USE DEF Net!unexpected_error
<1>1. NetworkdInv'
  BY DEF NetInv, NetworkdInv
<1>2. ResolvInv'
  BY DEF NetInv, ResolvInv
<1>3. WatchInv'
  BY DEF NetInv, WatchInv
<1>4. QED  BY <1>1, <1>2, <1>3 DEF NetInv

LEMMA StartOrStopKeeps == ASSUME NetInv, Net!StartOrStopAnswering PROVE NetInv'
<1> USE DEF Net!StartOrStopAnswering
<1>1. NetworkdInv'
  BY DEF NetInv, NetworkdInv
<1>2. ResolvInv'
  BY DEF NetInv, ResolvInv
<1>3. WatchInv'
  BY DEF NetInv, WatchInv
<1>4. QED  BY <1>1, <1>2, <1>3 DEF NetInv

LEMMA SetupFailsKeeps == ASSUME NetInv, Net!SetupFails PROVE NetInv'
<1> USE DEF Net!SetupFails
<1>1. NetworkdInv'
  BY DEF NetInv, NetworkdInv
<1>2. ResolvInv'
  BY DEF NetInv, ResolvInv
<1>3. WatchInv'
  BY DEF NetInv, WatchInv
<1>4. QED  BY <1>1, <1>2, <1>3 DEF NetInv

LEMMA CutOffNetKeeps == ASSUME AddressesAssumption, NetInv, Net!CutOff PROVE NetInv'
<1> USE DEF Net!CutOff
<1>1. NetworkdInv'
  BY DEF NetInv, NetworkdInv
<1>2. ResolvInv'
  <2>1. checked' = {"idle"} /\ checked' # {"write"} /\ ~(checked' \subseteq Servers)
    BY Phases
  <2>2. QED  BY <2>1 DEF NetInv, ResolvInv
<1>3. WatchInv'
  BY DEF NetInv, WatchInv
<1>4. QED  BY <1>1, <1>2, <1>3 DEF NetInv

LEMMA FlushKeeps == ASSUME NetInv, Net!Flush PROVE NetInv'
<1> USE DEF Net!Flush
<1>1. NetworkdInv'
  BY DEF NetInv, NetworkdInv
<1>2. ResolvInv'
  BY DEF NetInv, ResolvInv
<1>3. WatchInv'
  BY DEF NetInv, WatchInv
<1>4. QED  BY <1>1, <1>2, <1>3 DEF NetInv

LEMMA UpgradeNetKeeps == ASSUME NetInv, Net!Upgrade PROVE NetInv'
<1> USE DEF Net!Upgrade
<1>1. NetworkdInv'
  BY DEF NetInv, NetworkdInv
<1>2. ResolvInv'
  BY DEF NetInv, ResolvInv
<1>3. WatchInv'
  BY DEF NetInv, WatchInv
<1>4. QED  BY <1>1, <1>2, <1>3 DEF NetInv

(* While dcos-net is up networkd runs with the package's configuration,    *)
(* unless a restart was missed; resolv.conf has the servers that answer or *)
(* resolvers that it can have, unless a server changed meanwhile or the    *)
(* program was cut off; the watchdog kills dcos-net only if no server has  *)
(* answered throughout a round (dcos-net's helpers).                       *)
THEOREM NetIsSetUpAlways == ASSUME AddressesAssumption PROVE Net!Spec => []Net!NetIsSetUp
<1>1. NetInv /\ [Net!Next]_(Net!vars) => NetInv'
  <2>1. NetInv /\ UNCHANGED Net!vars => NetInv'
    BY DEF Net!vars, NetInv, NetworkdInv, ResolvInv, WatchInv
  <2>2. QED
    BY <2>1, CheckRuleKeeps, AddRuleKeeps, AddConfigKeeps, RestartKeeps, AddLinkKeeps,
       BeginKeeps, CheckServerKeeps, WriteResolvKeeps, LoopKeeps, WatchdogKeeps, SleepKeeps,
       KillNetKeeps, ErrorKeeps, StartOrStopKeeps, SetupFailsKeeps, CutOffNetKeeps, FlushKeeps,
       UpgradeNetKeeps
    DEF Net!Next
<1>2. QED  BY NetBegins, NetIsFine, <1>1, PTL DEF Net!Spec

-----------------------------------------------------------------------------
(* The installer and the nodes it installs                                 *)
-----------------------------------------------------------------------------
(* The installer.  What is not whole was disturbed_files, or is about to be      *)
(* removed; a run has copied what is no longer among its todo.             *)
Served == UNION {Installer!Needed(g) : g \in Generations}

RunType ==
    /\ run = [at |-> run.at, of |-> run.of, from |-> run.from, todo |-> run.todo,
              created |-> run.created]
    /\ run.at \in {"bundle", "copy", "rollback", "done"}
    /\ run.at # "done" => run.of \in Generations
    /\ run.created \in Seq(Served)
    /\ run.at \in {"bundle", "done"} => run.created = <<>>
    /\ run.at = "done" => run.todo = <<>>
    /\ served = [f \in Served |-> served[f]]
    /\ promised \subseteq Generations
    /\ run.at = "bundle" =>
         run.todo \in {Installer!artifacts(run.of), <<Installer!ConfigOf(run.of)>>, <<>>}
    /\ run.at = "copy" => run.todo \in {Installer!cached(run.of), <<Installer!Common>>, <<>>}

CopiesInv ==
    /\ \A f \in Served : served[f] \in {"no", "part", "whole"}
    /\ \A f \in Served : served[f] = "part" => f \in disturbed_files \cup Installer!Elements(run.created)
    /\ run.at = "bundle" /\ run.todo = <<>> => served[Installer!ConfigOf(run.of)] = "whole"
    /\ run.at = "copy" =>
         /\ \A f \in Installer!Elements(run.created) : served[f] = "whole"
         /\ served[Installer!ConfigOf(run.of)] = "whole"
         /\ run.todo = <<Installer!Common>> =>
              served[Installer!Bootstrap(run.of.version)] = "whole"
         /\ run.todo = <<>> => \A f \in {Installer!Bootstrap(run.of.version), Installer!Common} :
              served[f] = "whole" \/ f \in disturbed_files

(* Of what was promised, what is not excused is whole.                     *)
PromisesInv == \A g \in promised : \A f \in Installer!Needed(g) :
    served[f] = "whole" \/ f \in disturbed_files \/ f \in Installer!Elements(run.created)

RunInv == RunType /\ CopiesInv /\ PromisesInv

(* The node.  A node that was checked, and only once, gets one role, and   *)
(* list and units of one generation; its boot begins after that.           *)
Upgrading == {"version", "fetch", "activate", "poststart"}
NodeType ==
    /\ job = [at |-> job.at, of |-> job.of, from |-> job.from, roles |-> job.roles,
              skip |-> job.skip, tries |-> job.tries, checked |-> job.checked,
              status |-> job.status]
    /\ job.at \in {"check", "roles", "configure", "services", "start", "done"} \cup Upgrading
    /\ host = [roles |-> host.roles, list |-> host.list, units |-> host.units,
               enabled |-> host.enabled, boot |-> host.boot, tarball |-> host.tarball,
               opt |-> host.opt, cut |-> host.cut, active |-> host.active]
    /\ host.enabled \in BOOLEAN /\ host.cut \in BOOLEAN
    /\ host.boot \in {"no", "download", "unpack", "setup", "up", "failed", "refused", "idle"}
    /\ host.opt = [p \in Installer!Parts |-> host.opt[p]]

OneKindInv == mishaps = {} =>
    /\ host.boot # "refused"
    /\ host.roles = {} \/ \E r : host.roles = {r}
    /\ host.roles = {} \/ job.at \in {"configure", "services"} =>
         ~host.enabled /\ host.boot = "no"
    /\ job.at = "roles" => host.roles = {} /\ \E r : job.roles = {r}
    /\ ~host.enabled => host.boot = "no" /\ host.opt = Installer!Unpacked(0)
    /\ job.at \in {"configure", "services", "start"} => host.roles # {}
    /\ job.at \in {"services", "start"} => host.list = job.of
    /\ job.at = "start" => host.enabled
    /\ host.enabled => host.units = host.list
    /\ host.boot = "unpack" => host.tarball = host.list.version
    /\ host.opt["active"] # 0 \/ host.boot = "setup" => host.opt["active"] = host.list.version

(* What has active/ has the rest, while it is not being unpacked, unless an *)
(* unpacking was cut off.                                                  *)
TreeInv == ~host.cut =>
    /\ host.boot # "idle"
    /\ host.boot \in {"setup", "up", "refused"} \/ (host.boot # "unpack" /\ host.opt["active"] # 0) =>
         host.opt["rest"] = host.opt["active"]

UpgradeInv ==
    /\ job.at # "done" => job.status = 1
    /\ job.at \in Upgrading \/ (job.at = "done" /\ job.status = 0) => host.boot = "up"
    /\ job.at \in {"fetch", "activate", "poststart"} => Cardinality(host.roles) = 1
    /\ job.at = "poststart" => host.active = job.of
    /\ job.at = "done" /\ job.status = 0 =>
         host.active = job.of /\ Cardinality(host.roles) = 1 /\ (job.skip \/ job.checked)

NodeInv == NodeType /\ OneKindInv /\ TreeInv /\ UpgradeInv

InstallerInv == RunInv /\ NodeInv

USE DEF Installer!At, Installer!JobAt, Installer!JobGoto, Installer!Failed, Installer!genVars,
        Installer!nodeVars

LEMMA SameCardinality == \A S : Installer!Cardinality(S) = Cardinality(S)
BY Zenon DEF Installer!Cardinality, Cardinality

LEMMA InstallationsAreFine == InstallerInv => Installer!InstallationsAreWhole
<1> SUFFICES ASSUME InstallerInv PROVE Installer!InstallationsAreWhole  OBVIOUS
<1>1. Installer!PromisesAreKept
  BY DEF InstallerInv, RunInv, PromisesInv, Installer!PromisesAreKept, Installer!Whole
<1>2. Installer!NodesAreOfOneKind
  <2>1. \A r : Cardinality({r}) = 1 /\ Cardinality({}) = 0
    BY FS_Singleton, FS_EmptySet
  <2>2. CASE mishaps # {}
    BY <2>2 DEF Installer!NodesAreOfOneKind
  <2>3. CASE mishaps = {}
    <3>1. host.boot # "refused" /\ (host.roles = {} \/ \E r : host.roles = {r})
      BY <2>3 DEF InstallerInv, NodeInv, OneKindInv
    <3>2. Cardinality(host.roles) \in {0, 1}
      BY <2>1, <3>1
    <3>3. QED  BY <3>1, <3>2, SameCardinality DEF Installer!NodesAreOfOneKind
  <2>4. QED  BY <2>2, <2>3
<1>3. Installer!UpgradesSucceed
  BY SameCardinality DEF InstallerInv, NodeInv, UpgradeInv, Installer!UpgradesSucceed
<1>4. Installer!NodesAreWhole
  <2>1. SUFFICES ASSUME host.boot \in {"up", "idle"}, ~host.cut
                 PROVE  host.boot = "up" /\ host.opt = Installer!Unpacked(host.opt["active"])
    BY DEF Installer!NodesAreWhole
  <2>2. host.boot = "up" /\ host.opt["rest"] = host.opt["active"]
    BY <2>1 DEF InstallerInv, NodeInv, TreeInv
  <2>3. host.opt = [p \in Installer!Parts |-> host.opt[p]]
    BY DEF InstallerInv, NodeInv, NodeType
  <2>4. QED  BY <2>2, <2>3 DEF Installer!Unpacked, Installer!Parts
<1>5. QED  BY <1>1, <1>2, <1>3, <1>4 DEF Installer!InstallationsAreWhole

LEMMA InstallerBegins == Installer!Init => InstallerInv
<1> SUFFICES ASSUME Installer!Init PROVE InstallerInv  OBVIOUS
<1> USE DEF Installer!Init, Installer!NoRun, Installer!NoJob, Installer!Elements
<1>1. RunType
  BY DEF RunType, Served
<1>2. CopiesInv
  BY DEF CopiesInv, Served
<1>3. PromisesInv
  BY DEF PromisesInv
<1>4. NodeType
  BY DEF NodeType, Upgrading, Installer!Unpacked, Installer!Parts
<1>5. OneKindInv
  BY DEF OneKindInv, Installer!Unpacked, Installer!Parts
<1>6. TreeInv
  BY DEF TreeInv, Installer!Unpacked, Installer!Parts
<1>7. UpgradeInv
  BY DEF UpgradeInv, Upgrading
<1>8. QED  BY <1>1, <1>2, <1>3, <1>4, <1>5, <1>6, <1>7 DEF InstallerInv, RunInv, NodeInv

----------------------------------------------------------------------------
(* Steps on the node *)

LEMMA NodeAside == ASSUME NodeInv, UNCHANGED Installer!nodeVars PROVE NodeInv'
<1>1. NodeType' /\ TreeInv'
  BY DEF NodeInv, NodeType, TreeInv
<1>2. OneKindInv'
  BY DEF NodeInv, OneKindInv
<1>3. UpgradeInv'
  BY DEF NodeInv, UpgradeInv
<1>4. QED  BY <1>1, <1>2, <1>3 DEF NodeInv

LEMMA RunAside == ASSUME RunInv, UNCHANGED Installer!genVars PROVE RunInv'
BY DEF RunInv, RunType, CopiesInv, PromisesInv

LEMMA InstallKeeps == ASSUME NodeInv, Installer!main PROVE NodeInv'
<1> USE DEF Installer!main, Installer!NewJob
<1>1. NodeType'
  BY DEF NodeInv, NodeType, Upgrading
<1>2. OneKindInv'
  <2>1. job'.at \in {"roles", "check"} /\ host' = host
        /\ (mishaps' = {} => mishaps = {} /\ job'.at = "check")
    OBVIOUS
  <2>2. QED  BY <2>1 DEF NodeInv, OneKindInv
<1>3. UpgradeInv'
  BY DEF NodeInv, NodeType, UpgradeInv, Upgrading
<1>4. TreeInv'
  BY DEF NodeInv, NodeType, TreeInv
<1>5. QED  BY <1>1, <1>2, <1>3, <1>4 DEF NodeInv

LEMMA CheckKeeps == ASSUME NodeInv, Installer!check_all PROVE NodeInv'
<1> USE DEF Installer!check_all, Installer!NoJob, Installer!check_preexisting_dcos,
     Installer!InvalidRole
<1>1. NodeType'
  BY DEF NodeInv, NodeType, Upgrading
<1>2. OneKindInv'
  <2>1. CASE job' = Installer!NoJob /\ mishaps' = mishaps
    BY <2>1 DEF NodeInv, OneKindInv
  <2>2. CASE /\ job' = [job EXCEPT !.at = "roles"]
             /\ host.opt = Installer!Unpacked(0) /\ ~Installer!InvalidRole(job.roles)
             /\ mishaps' = mishaps \cup
                  (IF host.opt = Installer!Unpacked(0) /\ host.roles # {} THEN {"again"} ELSE {})
    <3>1. job'.at = "roles" /\ job'.of = job.of /\ job'.roles = job.roles
      BY <2>2 DEF NodeInv, NodeType
    <3>2. \E r : job.roles = {r}
      BY <2>2
    <3>3. ASSUME mishaps' = {} PROVE mishaps = {} /\ host.roles = {}
      BY <2>2, <3>3
    <3>4. QED  BY <3>1, <3>2, <3>3 DEF NodeInv, OneKindInv
  <2>3. QED  BY <2>1, <2>2
<1>3. UpgradeInv'
  BY DEF NodeInv, NodeType, UpgradeInv, Upgrading
<1>4. TreeInv'
  BY DEF NodeInv, NodeType, TreeInv
<1>5. QED  BY <1>1, <1>2, <1>3, <1>4 DEF NodeInv

LEMMA RolesKeep == ASSUME NodeInv, Installer!setup_dcos_roles PROVE NodeInv'
<1> USE DEF Installer!setup_dcos_roles
<1>1. NodeType'
  BY DEF NodeInv, NodeType, Upgrading
<1>2. OneKindInv'
  <2>1. /\ host'.boot = host.boot /\ host'.opt = host.opt /\ host'.roles = host.roles \cup job.roles
        /\ host'.enabled = host.enabled /\ host'.list = host.list /\ host'.units = host.units
        /\ host'.tarball = host.tarball
    BY DEF NodeInv, NodeType
  <2>2. job.at = "roles" /\ job'.at = "configure" /\ mishaps' = mishaps
    BY DEF NodeInv, NodeType
  <2>3. QED  BY <2>1, <2>2 DEF NodeInv, OneKindInv
<1>3. UpgradeInv'
  BY DEF NodeInv, NodeType, UpgradeInv, Upgrading
<1>4. TreeInv'
  BY DEF NodeInv, NodeType, TreeInv
<1>5. QED  BY <1>1, <1>2, <1>3, <1>4 DEF NodeInv

LEMMA ConfigureKeeps == ASSUME NodeInv, Installer!configure_dcos PROVE NodeInv'
<1> USE DEF Installer!configure_dcos
<1>1. NodeType'
  BY DEF NodeInv, NodeType, Upgrading
<1>2. OneKindInv'
  <2>1. /\ host'.boot = host.boot /\ host'.opt = host.opt /\ host'.roles = host.roles
        /\ host'.enabled = host.enabled /\ host'.list = job.of /\ host'.units = host.units
        /\ host'.tarball = host.tarball
    BY DEF NodeInv, NodeType
  <2>2. job.at = "configure" /\ job'.at = "services" /\ job'.of = job.of /\ mishaps' = mishaps
    BY DEF NodeInv, NodeType
  <2>3. QED  BY <2>1, <2>2 DEF NodeInv, OneKindInv, Installer!Unpacked, Installer!Parts
<1>3. UpgradeInv'
  BY DEF NodeInv, NodeType, UpgradeInv, Upgrading
<1>4. TreeInv'
  BY DEF NodeInv, NodeType, TreeInv
<1>5. QED  BY <1>1, <1>2, <1>3, <1>4 DEF NodeInv

LEMMA ServicesKeep == ASSUME NodeInv, Installer!setup_and_start_services PROVE NodeInv'
<1>1. CASE /\ job.at = "services" /\ job' = [job EXCEPT !.at = "start"] /\ mishaps' = mishaps
           /\ host' = [host EXCEPT !.units = job.of, !.enabled = TRUE]
  <2>1. NodeType'
    BY <1>1 DEF NodeInv, NodeType
  <2>2. OneKindInv'
    BY <1>1 DEF NodeInv, NodeType, OneKindInv, Installer!Unpacked, Installer!Parts
  <2>3. TreeInv'
    BY <1>1 DEF NodeInv, NodeType, TreeInv
  <2>4. UpgradeInv'
    BY <1>1 DEF NodeInv, NodeType, UpgradeInv, Upgrading
  <2>5. QED  BY <2>1, <2>2, <2>3, <2>4 DEF NodeInv
<1>2. CASE /\ job.at = "start" /\ job' = Installer!NoJob /\ mishaps' = mishaps
           /\ host' = Installer!Boot(host)
  <2>1. \/ host' = host
        \/ host' = [host EXCEPT !.boot = "download"] /\ host.boot # "up" /\ host.opt["active"] = 0
        \/ host' = [host EXCEPT !.boot = "setup"] /\ host.boot \notin {"up", "unpack"} /\ host.opt["active"] # 0
    BY <1>2 DEF Installer!Boot
  <2>2. NodeType'
    BY <1>2, <2>1 DEF NodeInv, NodeType, Installer!NoJob
  <2>3. OneKindInv'
    BY <1>2, <2>1 DEF NodeInv, NodeType, OneKindInv, Installer!NoJob
  <2>4. TreeInv'
    BY <2>1 DEF NodeInv, NodeType, TreeInv
  <2>5. UpgradeInv'
    BY <1>2, <2>1 DEF NodeInv, NodeType, UpgradeInv, Upgrading, Installer!NoJob
  <2>6. QED  BY <2>2, <2>3, <2>4, <2>5 DEF NodeInv
<1>3. QED  BY <1>1, <1>2 DEF Installer!setup_and_start_services

LEMMA CutOffJobKeeps == ASSUME NodeInv, Installer!CutOff PROVE NodeInv'
<1> USE DEF Installer!CutOff, Installer!NoJob
<1>1. NodeType'
  BY DEF NodeInv, NodeType, Upgrading
<1>2. OneKindInv'
  BY DEF NodeInv, NodeType, OneKindInv
<1>3. UpgradeInv'
  BY DEF NodeInv, NodeType, UpgradeInv, Upgrading
<1>4. TreeInv'
  BY DEF NodeInv, NodeType, TreeInv
<1>5. QED  BY <1>1, <1>2, <1>3, <1>4 DEF NodeInv

(* What a unit that fails, or the machine that stops, does to the node.     *)
LEMMA StoppedHost ==
    ASSUME NodeType, TreeInv, NEW h, h = Installer!Stopped(host)
    PROVE  /\ h = [host EXCEPT !.boot = h.boot, !.tarball = h.tarball, !.cut = h.cut]
           /\ h.cut \in BOOLEAN
           /\ \/ h = host
              \/ h.boot = "failed" /\ host.boot \in {"download", "unpack", "setup"}
           /\ ~h.cut /\ h.boot # "unpack" /\ h.opt["active"] # 0 => h.opt["rest"] = h.opt["active"]
           /\ ~h.cut => ~host.cut
           /\ h.boot = "unpack" => h = host
<1>1. CASE host.boot \notin {"download", "unpack", "setup"}
  <2>1. h = host
    BY <1>1 DEF Installer!Stopped
  <2>2. QED  BY <1>1, <2>1 DEF NodeType, TreeInv
<1>2. CASE host.boot \in {"download", "unpack", "setup"}
  <2>1. h = [host EXCEPT !.boot = "failed", !.tarball = 0,
                         !.cut = host.cut \/ host.opt["active"] \notin {0, host.opt["rest"]}]
    BY <1>2 DEF Installer!Stopped, NodeType
  <2>2. h.boot = "failed" /\ h.opt = host.opt
        /\ h.cut = (host.cut \/ host.opt["active"] \notin {0, host.opt["rest"]})
    BY <2>1 DEF NodeType
  <2>3. h = [host EXCEPT !.boot = h.boot, !.tarball = h.tarball, !.cut = h.cut]
    BY <2>1, <2>2 DEF NodeType
  <2>4. QED  BY <1>2, <2>2, <2>3 DEF NodeType
<1>3. QED  BY <1>1, <1>2

LEMMA StoppedKeeps ==
    ASSUME NodeInv, host' = Installer!Stopped(host), UNCHANGED <<job, left_jobs, mishaps>>
    PROVE  NodeInv'
<1> DEFINE h == Installer!Stopped(host)
<1>1. /\ h = [host EXCEPT !.boot = h.boot, !.tarball = h.tarball, !.cut = h.cut]
      /\ h.cut \in BOOLEAN
      /\ \/ h = host
         \/ h.boot = "failed" /\ host.boot \in {"download", "unpack", "setup"}
      /\ ~h.cut /\ h.boot # "unpack" /\ h.opt["active"] # 0 => h.opt["rest"] = h.opt["active"]
      /\ ~h.cut => ~host.cut
  BY StoppedHost DEF NodeInv
<1>2. host' = h
  OBVIOUS
<1> HIDE DEF h
<1>3. CASE h = host
  BY <1>2, <1>3, NodeAside
<1>4. CASE h.boot = "failed" /\ host.boot \in {"download", "unpack", "setup"}
  <2>1. NodeType'
    BY <1>1, <1>2, <1>4 DEF NodeInv, NodeType
  <2>2. OneKindInv'
    <3>1. /\ host'.boot = "failed" /\ host'.opt = host.opt /\ host'.roles = host.roles
          /\ host'.enabled = host.enabled /\ host'.list = host.list /\ host'.units = host.units
      BY <1>1, <1>2, <1>4 DEF NodeInv, NodeType
    <3>2. QED  BY <1>4, <3>1 DEF NodeInv, OneKindInv
  <2>3. TreeInv'
    BY <1>1, <1>2, <1>4 DEF NodeInv, NodeType, TreeInv
  <2>4. UpgradeInv'
    BY <1>1, <1>2, <1>4 DEF NodeInv, NodeType, UpgradeInv
  <2>5. QED  BY <2>1, <2>2, <2>3, <2>4 DEF NodeInv
<1>5. QED  BY <1>1, <1>3, <1>4

LEMMA RebootKeeps == ASSUME NodeInv, Installer!Reboot PROVE NodeInv'
<1> DEFINE h == Installer!Stopped(host)
<1>1. /\ h = [host EXCEPT !.boot = h.boot, !.tarball = h.tarball, !.cut = h.cut]
      /\ h.cut \in BOOLEAN
      /\ \/ h = host
         \/ h.boot = "failed" /\ host.boot \in {"download", "unpack", "setup"}
      /\ ~h.cut /\ h.boot # "unpack" /\ h.opt["active"] # 0 => h.opt["rest"] = h.opt["active"]
      /\ ~h.cut => ~host.cut
  BY StoppedHost DEF NodeInv
<1>2. \/ host' = host /\ ~host.enabled
      \/ host' = h /\ h = host
      \/ /\ host' = [h EXCEPT !.boot = "download"] /\ host.enabled
         /\ h.boot # "up" /\ h.opt["active"] = 0
      \/ /\ host' = [h EXCEPT !.boot = "setup"] /\ host.enabled
         /\ h.boot \notin {"up", "unpack"} /\ h.opt["active"] # 0
  BY <1>1 DEF Installer!Reboot, Installer!Boot
<1>3. job' = Installer!NoJob /\ mishaps' = mishaps
  BY DEF Installer!Reboot
<1> HIDE DEF h
<1>4. CASE host' = host
  <2>1. NodeType' /\ TreeInv'
    BY <1>3, <1>4 DEF NodeInv, NodeType, TreeInv, Installer!NoJob
  <2>2. OneKindInv'
    BY <1>3, <1>4 DEF NodeInv, OneKindInv, Installer!NoJob
  <2>3. UpgradeInv'
    BY <1>3, <1>4 DEF NodeInv, UpgradeInv, Upgrading, Installer!NoJob
  <2>4. QED  BY <2>1, <2>2, <2>3 DEF NodeInv
<1>5. ASSUME NEW b \in {"download", "setup"}, host' = [h EXCEPT !.boot = b],
             h.boot # "up", b = "download" <=> h.opt["active"] = 0,
             b = "setup" => h.boot # "unpack", host.enabled
      PROVE  NodeInv'
  <2>1. /\ host' = [host EXCEPT !.boot = b, !.tarball = h.tarball, !.cut = h.cut]
        /\ h.opt = host.opt /\ host.boot # "up"
    BY <1>1, <1>5 DEF NodeInv, NodeType
  <2>2. NodeType'
    BY <1>1, <1>3, <1>5, <2>1 DEF NodeInv, NodeType, Installer!NoJob
  <2>3. OneKindInv'
    <3>1. /\ host'.boot = b /\ host'.opt = host.opt /\ host'.roles = host.roles
          /\ host'.enabled = host.enabled /\ host'.list = host.list /\ host'.units = host.units
      BY <2>1 DEF NodeInv, NodeType
    <3>2. job'.at = "done" /\ mishaps' = mishaps
      BY <1>3 DEF Installer!NoJob
    <3>3. b = "setup" => host.opt["active"] # 0
      BY <1>5, <2>1
    <3>4. QED  BY <1>5, <3>1, <3>2, <3>3 DEF NodeInv, OneKindInv
  <2>4. TreeInv'
    BY <1>1, <1>5, <2>1 DEF NodeInv, NodeType, TreeInv
  <2>5. UpgradeInv'
    BY <1>3, <2>1 DEF NodeInv, NodeType, UpgradeInv, Upgrading, Installer!NoJob
  <2>6. QED  BY <2>2, <2>3, <2>4, <2>5 DEF NodeInv
<1>6. QED  BY <1>2, <1>4, <1>5

LEMMA DownloadKeeps == ASSUME NodeInv, Installer!Download PROVE NodeInv'
<1>1. CASE host' = Installer!Stopped(host)
  BY <1>1, StoppedKeeps DEF Installer!Download
<1>2. CASE host' = [host EXCEPT !.boot = "unpack", !.tarball = host.units.version]
  <2> USE DEF Installer!Download
  <2>1. NodeType'
    BY <1>2 DEF NodeInv, NodeType
  <2>2. OneKindInv'
    BY <1>2 DEF NodeInv, NodeType, OneKindInv
  <2>3. TreeInv'
    BY <1>2 DEF NodeInv, NodeType, TreeInv
  <2>4. UpgradeInv'
    BY <1>2 DEF NodeInv, NodeType, UpgradeInv, Upgrading
  <2>5. QED  BY <2>1, <2>2, <2>3, <2>4 DEF NodeInv
<1>3. QED  BY <1>1, <1>2 DEF Installer!Download

LEMMA UnpackKeeps == ASSUME NodeInv, Installer!Unpack PROVE NodeInv'
<1>1. CASE host' = Installer!Stopped(host)
  BY <1>1, StoppedKeeps DEF Installer!Unpack
<1>2. ASSUME NEW p \in Installer!Parts, host' = [host EXCEPT !.opt[p] = host.tarball]
      PROVE  NodeInv'
  <2> USE DEF Installer!Unpack
  <2>1. host' = [host EXCEPT !.opt = [host.opt EXCEPT ![p] = host.tarball]]
    BY <1>2
  <2>2. /\ host'.opt = [q \in Installer!Parts |-> host'.opt[q]]
        /\ host'.opt["active"] \in {host.opt["active"], host.tarball}
    BY <1>2, <2>1 DEF NodeInv, NodeType, Installer!Parts
  <2>3. NodeType'
    BY <2>1, <2>2 DEF NodeInv, NodeType
  <2>4. OneKindInv'
    BY <2>1, <2>2 DEF NodeInv, NodeType, OneKindInv
  <2>5. TreeInv'
    BY <2>1 DEF NodeInv, NodeType, TreeInv
  <2>6. UpgradeInv'
    BY <2>1 DEF NodeInv, NodeType, UpgradeInv, Upgrading
  <2>7. QED  BY <2>3, <2>4, <2>5, <2>6 DEF NodeInv
<1>3. CASE /\ host.opt = Installer!Unpacked(host.tarball)
           /\ host' = [host EXCEPT !.boot = "setup", !.tarball = 0]
  <2> USE DEF Installer!Unpack
  <2>1. host.opt["active"] = host.tarball /\ host.opt["rest"] = host.tarball
    BY <1>3 DEF Installer!Unpacked, Installer!Parts
  <2>2. NodeType'
    BY <1>3 DEF NodeInv, NodeType
  <2>3. OneKindInv'
    BY <1>3, <2>1 DEF NodeInv, NodeType, OneKindInv
  <2>4. TreeInv'
    BY <1>3, <2>1 DEF NodeInv, NodeType, TreeInv
  <2>5. UpgradeInv'
    BY <1>3 DEF NodeInv, NodeType, UpgradeInv, Upgrading
  <2>6. QED  BY <2>2, <2>3, <2>4, <2>5 DEF NodeInv
<1>4. QED  BY <1>1, <1>2, <1>3 DEF Installer!Unpack

LEMMA SetupKeeps == ASSUME NodeInv, Installer!Setup PROVE NodeInv'
<1>1. CASE host' = Installer!Stopped(host)
  BY <1>1, StoppedKeeps DEF Installer!Setup
<1>2. ASSUME NEW b, NEW a, host' = [host EXCEPT !.boot = b, !.active = a],
             \/ b = "idle" /\ host.opt["rest"] # host.opt["active"]
             \/ b = "up" /\ host.opt["active"] = host.list.version
             \/ b = "refused" /\ host.opt["active"] # host.list.version
      PROVE  NodeInv'
  <2>1. host.boot = "setup" /\ UNCHANGED <<job, mishaps>>
    BY DEF Installer!Setup
  <2>2. NodeType'
    BY <1>2, <2>1 DEF NodeInv, NodeType
  <2>3. OneKindInv'
    BY <1>2, <2>1 DEF NodeInv, NodeType, OneKindInv
  <2>4. TreeInv'
    BY <1>2, <2>1 DEF NodeInv, NodeType, TreeInv
  <2>5. UpgradeInv'
    BY <1>2, <2>1 DEF NodeInv, NodeType, UpgradeInv, Upgrading
  <2>6. QED  BY <2>2, <2>3, <2>4, <2>5 DEF NodeInv
<1>3. \/ host' = Installer!Stopped(host)
      \/ /\ host' = [host EXCEPT !.boot = "idle", !.active = host.active]
         /\ host.opt["rest"] # host.opt["active"]
      \/ /\ host' = [host EXCEPT !.boot = "up", !.active = host.list]
         /\ host.opt["active"] = host.list.version
      \/ /\ host' = [host EXCEPT !.boot = "refused", !.active = host.active]
         /\ host.opt["active"] # host.list.version
  BY DEF Installer!Setup, NodeInv, NodeType
<1>4. QED  BY <1>1, <1>2, <1>3

LEMMA UpgradeKeeps == ASSUME NodeInv, Installer!upgrade PROVE NodeInv'
<1> USE DEF Installer!upgrade, Installer!NewJob
<1>1. NodeType'
  BY DEF NodeInv, NodeType, Upgrading
<1>2. OneKindInv'
  <2>1. job'.at = "version" /\ UNCHANGED <<host, mishaps>>
    OBVIOUS
  <2>2. QED  BY <2>1 DEF NodeInv, OneKindInv
<1>3. UpgradeInv'
  BY DEF NodeInv, NodeType, UpgradeInv, Upgrading
<1>4. TreeInv'
  BY DEF NodeInv, NodeType, TreeInv
<1>5. QED  BY <1>1, <1>2, <1>3, <1>4 DEF NodeInv

LEMMA MayUpgradeKeeps == ASSUME NodeInv, Installer!may_upgrade PROVE NodeInv'
<1> USE DEF Installer!may_upgrade, Installer!NoJob
<1>1. NodeType'
  BY DEF NodeInv, NodeType, Upgrading
<1>2. OneKindInv'
  BY DEF NodeInv, NodeType, OneKindInv
<1>3. UpgradeInv'
  BY SameCardinality DEF NodeInv, NodeType, UpgradeInv, Upgrading
<1>4. TreeInv'
  BY DEF NodeInv, NodeType, TreeInv
<1>5. QED  BY <1>1, <1>2, <1>3, <1>4 DEF NodeInv

LEMMA FetchKeeps == ASSUME NodeInv, Installer!fetch PROVE NodeInv'
<1> USE DEF Installer!fetch, Installer!NoJob
<1>1. NodeType'
  BY DEF NodeInv, NodeType, Upgrading
<1>2. OneKindInv'
  <2>1. job'.at \in {"activate", "done"} /\ UNCHANGED <<host, mishaps>>
    BY DEF NodeInv, NodeType
  <2>2. QED  BY <2>1 DEF NodeInv, OneKindInv
<1>3. UpgradeInv'
  BY DEF NodeInv, NodeType, UpgradeInv, Upgrading
<1>4. TreeInv'
  BY DEF NodeInv, NodeType, TreeInv
<1>5. QED  BY <1>1, <1>2, <1>3, <1>4 DEF NodeInv

LEMMA ActivateKeeps == ASSUME NodeInv, Installer!activate PROVE NodeInv'
<1> USE DEF Installer!activate, Installer!Succeeded
<1>1. NodeType'
  BY DEF NodeInv, NodeType, Upgrading
<1>2. OneKindInv'
  BY DEF NodeInv, NodeType, OneKindInv
<1>3. UpgradeInv'
  BY DEF NodeInv, NodeType, UpgradeInv, Upgrading
<1>4. TreeInv'
  BY DEF NodeInv, NodeType, TreeInv
<1>5. QED  BY <1>1, <1>2, <1>3, <1>4 DEF NodeInv

LEMMA PoststartKeeps == ASSUME NodeInv, Installer!poststart_checks PROVE NodeInv'
<1>1. PICK st, n :
        /\ \/ job' = [job EXCEPT !.at = "done", !.checked = TRUE, !.status = st]
           \/ job' = Installer!NoJob
           \/ job' = [job EXCEPT !.tries = n]
        /\ UNCHANGED <<host, mishaps>> /\ job.at = "poststart"
  BY DEF Installer!poststart_checks
<1>2. CASE job' = [job EXCEPT !.at = "done", !.checked = TRUE, !.status = st]
  <2>1. job'.at = "done" /\ job'.of = job.of /\ job'.checked = TRUE /\ NodeType'
    BY <1>1, <1>2 DEF NodeInv, NodeType
  <2>2. QED  BY <1>1, <2>1 DEF NodeInv, OneKindInv, TreeInv, UpgradeInv, Upgrading
<1>3. CASE job' = Installer!NoJob
  <2>1. job'.at = "done" /\ job'.status = 1 /\ NodeType'
    BY <1>1, <1>3 DEF NodeInv, NodeType, Installer!NoJob
  <2>2. QED  BY <1>1, <2>1 DEF NodeInv, OneKindInv, TreeInv, UpgradeInv, Upgrading
<1>4. CASE job' = [job EXCEPT !.tries = n]
  <2>1. job'.at = "poststart" /\ job'.of = job.of /\ job'.status = job.status /\ NodeType'
    BY <1>1, <1>4 DEF NodeInv, NodeType, Upgrading
  <2>2. QED  BY <1>1, <2>1 DEF NodeInv, OneKindInv, TreeInv, UpgradeInv, Upgrading
<1>5. QED  BY <1>1, <1>2, <1>3, <1>4

----------------------------------------------------------------------------
(* Steps of the installer *)

LEMMA NoElements == Installer!Elements(<<>>) = {}
BY DEF Installer!Elements

LEMMA ElementsOfAppend ==
    ASSUME NEW S, NEW s \in Seq(S), NEW e \in S
    PROVE  /\ Append(s, e) \in Seq(S)
           /\ Installer!Elements(Append(s, e)) = Installer!Elements(s) \cup {e}
<1>1. Append(s, e) \in Seq(S) /\ DOMAIN Append(s, e) = 1 .. (Len(s) + 1) /\ DOMAIN s = 1 .. Len(s)
      /\ Len(s) \in Nat
  OBVIOUS
<1>2. \A i \in 1 .. Len(s) : Append(s, e)[i] = s[i]
  OBVIOUS
<1>3. Append(s, e)[Len(s) + 1] = e
  OBVIOUS
<1>4. \A x \in Installer!Elements(Append(s, e)) : x \in Installer!Elements(s) \cup {e}
  BY <1>1, <1>2, <1>3 DEF Installer!Elements
<1>5. \A x \in Installer!Elements(s) \cup {e} : x \in Installer!Elements(Append(s, e))
  BY <1>1, <1>2, <1>3 DEF Installer!Elements
<1>6. QED  BY <1>1, <1>4, <1>5

LEMMA ElementsOfFront ==
    ASSUME NEW S, NEW s \in Seq(S), s # <<>>
    PROVE  /\ SubSeq(s, 1, Len(s) - 1) \in Seq(S) /\ s[Len(s)] \in S
           /\ Installer!Elements(s) = Installer!Elements(SubSeq(s, 1, Len(s) - 1)) \cup {s[Len(s)]}
<1> DEFINE t == SubSeq(s, 1, Len(s) - 1)
<1>1. Len(s) \in Nat \ {0} /\ DOMAIN s = 1 .. Len(s)
  OBVIOUS
<1>2. t \in Seq(S) /\ Len(t) = Len(s) - 1 /\ \A i \in 1 .. (Len(s) - 1) : t[i] = s[i]
  BY <1>1
<1>3. DOMAIN t = 1 .. (Len(s) - 1) /\ s[Len(s)] \in S
  BY <1>1, <1>2
<1> HIDE DEF t
<1>4. \A x \in Installer!Elements(s) : x \in Installer!Elements(t) \cup {s[Len(s)]}
  BY <1>1, <1>2, <1>3 DEF Installer!Elements
<1>5. \A x \in Installer!Elements(t) \cup {s[Len(s)]} : x \in Installer!Elements(s)
  BY <1>1, <1>2, <1>3 DEF Installer!Elements
<1>6. QED  BY <1>2, <1>3, <1>4, <1>5 DEF t

LEMMA Kinds ==
    /\ \A g \in Generations : Installer!Needed(g) \subseteq Served
    /\ \A g \in Generations :
         Installer!Needed(g) = {Installer!Bootstrap(g.version), Installer!Common, Installer!ConfigOf(g)}
    /\ Installer!InstallScript \notin Served
<1>1. \A g \in Generations : Installer!Needed(g) \subseteq Served
  BY DEF Served
<1>2. \A g \in Generations :
        Installer!Needed(g) = {Installer!Bootstrap(g.version), Installer!Common, Installer!ConfigOf(g)}
  BY DEF Installer!Needed, Installer!cluster_packages
<1>3. \A g \in Generations : Installer!InstallScript \notin Installer!Needed(g)
  BY <1>2 DEF Installer!InstallScript, Installer!Bootstrap, Installer!Common,
     Installer!ConfigOf
<1>4. QED  BY <1>1, <1>2, <1>3 DEF Served

LEMMA PutOne ==
    ASSUME RunType, NEW f \in Served \cup {Installer!InstallScript}, NEW c, Installer!Put(f, c)
    PROVE  /\ served' = [h \in Served |-> served'[h]]
           /\ \A h \in Served : served'[h] = IF h = f THEN c ELSE served[h]
<1>1. CASE f = Installer!InstallScript
  <2>1. served' = served
    BY <1>1 DEF Installer!Put
  <2>2. QED  BY <1>1, <2>1, Kinds DEF RunType
<1>2. CASE f # Installer!InstallScript
  <2>1. served' = [served EXCEPT ![f] = c]
    BY <1>2 DEF Installer!Put
  <2>2. QED  BY <2>1 DEF RunType
<1>3. QED  BY <1>1, <1>2

LEMMA ShortLists ==
    ASSUME NEW a, NEW b
    PROVE  /\ Head(<<a, b>>) = a /\ Tail(<<a, b>>) = <<b>> /\ <<a, b>> # <<>>
           /\ Head(<<a>>) = a /\ Tail(<<a>>) = <<>> /\ <<a>> # <<>>
OBVIOUS

LEMMA NextFile ==
    ASSUME RunType, run.at \in {"bundle", "copy"}, run.todo # <<>>
    PROVE  /\ Head(run.todo) \in Served \cup {Installer!InstallScript}
           /\ run.at = "bundle" =>
                \/ /\ Head(run.todo) = Installer!InstallScript
                   /\ Tail(run.todo) = <<Installer!ConfigOf(run.of)>>
                   /\ Tail(run.todo) # <<>>
                \/ Head(run.todo) = Installer!ConfigOf(run.of) /\ Tail(run.todo) = <<>>
           /\ run.at = "copy" =>
                /\ Head(run.todo) \in Served
                /\ \/ /\ Head(run.todo) = Installer!Bootstrap(run.of.version)
                      /\ Tail(run.todo) = <<Installer!Common>>
                      /\ Tail(run.todo) # <<>>
                   \/ /\ Head(run.todo) = Installer!Common /\ Tail(run.todo) = <<>>
                      /\ run.todo = <<Installer!Common>>
<1>1. run.of \in Generations
  BY DEF RunType
<1>2. {Installer!Bootstrap(run.of.version), Installer!Common, Installer!ConfigOf(run.of)} \subseteq Served
  BY <1>1, Kinds
<1>3. CASE run.at = "bundle"
  <2>1. run.todo = <<Installer!InstallScript, Installer!ConfigOf(run.of)>>
        \/ run.todo = <<Installer!ConfigOf(run.of)>>
    BY <1>3 DEF RunType, Installer!artifacts
  <2>2. CASE run.todo = <<Installer!InstallScript, Installer!ConfigOf(run.of)>>
    <3>1. Head(run.todo) = Installer!InstallScript /\ Tail(run.todo) = <<Installer!ConfigOf(run.of)>>
      <4>1. Head(<<Installer!InstallScript, Installer!ConfigOf(run.of)>>) = Installer!InstallScript
            /\ Tail(<<Installer!InstallScript, Installer!ConfigOf(run.of)>>) = <<Installer!ConfigOf(run.of)>>
        BY ShortLists
      <4>2. QED  BY <2>2, <4>1, Zenon
    <3>2. Tail(run.todo) # <<>>
      BY <3>1, ShortLists, Zenon
    <3>3. QED  BY <1>3, <3>1, <3>2
  <2>3. CASE run.todo = <<Installer!ConfigOf(run.of)>>
    BY <1>2, <1>3, <2>3, ShortLists, Zenon
  <2>4. QED  BY <2>1, <2>2, <2>3
<1>4. CASE run.at = "copy"
  <2>1. run.todo = <<Installer!Bootstrap(run.of.version), Installer!Common>>
        \/ run.todo = <<Installer!Common>>
    BY <1>4 DEF RunType, Installer!cached
  <2>2. CASE run.todo = <<Installer!Bootstrap(run.of.version), Installer!Common>>
    <3>1. Head(run.todo) = Installer!Bootstrap(run.of.version) /\ Tail(run.todo) = <<Installer!Common>>
      <4>1. Head(<<Installer!Bootstrap(run.of.version), Installer!Common>>) = Installer!Bootstrap(run.of.version)
            /\ Tail(<<Installer!Bootstrap(run.of.version), Installer!Common>>) = <<Installer!Common>>
        BY ShortLists
      <4>2. QED  BY <2>2, <4>1, Zenon
    <3>2. Tail(run.todo) # <<>>
      BY <3>1, ShortLists, Zenon
    <3>3. QED  BY <1>2, <1>4, <3>1, <3>2
  <2>3. CASE run.todo = <<Installer!Common>>
    BY <1>2, <1>4, <2>3, ShortLists, Zenon
  <2>4. QED  BY <2>1, <2>2, <2>3
<1>5. QED  BY <1>3, <1>4

LEMMA PromisesKept ==
    ASSUME RunInv, promised' = promised,
           \A h \in Served : \/ served[h] = "whole" \/ h \in disturbed_files
                             \/ h \in Installer!Elements(run.created)
             => \/ served'[h] = "whole" \/ h \in disturbed_files'
                \/ h \in Installer!Elements(run'.created)
    PROVE  PromisesInv'
BY Kinds DEF RunInv, RunType, PromisesInv

LEMMA ConfigureBegins ==
    ASSUME RunInv, Installer!dispatch PROVE RunInv'
<1>1. PICK g, from :
        /\ g \in Generations /\ Installer!At("done")
        /\ run' = [at |-> "bundle", of |-> g, from |-> from, todo |-> Installer!artifacts(g),
                   created |-> <<>>]
        /\ UNCHANGED <<served, script, upgrades, disturbed_files, promised>>
  BY DEF Installer!dispatch, Installer!do_configure, Installer!generate_node_upgrade_script,
         Installer!onprem_generate
<1>2. run'.at = "bundle" /\ run'.of = g /\ run'.todo = Installer!artifacts(g) /\ run'.created = <<>>
      /\ run.created = <<>>
  BY <1>1 DEF RunInv, RunType
<1>3. run'.todo # <<>>
  BY <1>2, ShortLists DEF Installer!artifacts
<1>4. RunType'
  BY <1>1, <1>2 DEF RunInv, RunType
<1>5. CopiesInv'
  BY <1>1, <1>2, <1>3 DEF RunInv, CopiesInv
<1>6. PromisesInv'
  BY <1>1, <1>2 DEF RunInv, PromisesInv
<1>7. QED  BY <1>4, <1>5, <1>6 DEF RunInv

LEMMA CopyKeeps ==
    ASSUME RunInv, Installer!copy, run.at \in {"bundle", "copy"} PROVE RunInv'
<1> DEFINE f == Head(run.todo)
<1>1. /\ run.todo # <<>> /\ Installer!Put(f, "whole") /\ disturbed_files' = disturbed_files \ {f}
      /\ run' = [run EXCEPT !.todo = Tail(@),
                            !.created = IF run.at = "copy" THEN Append(@, f) ELSE @]
      /\ promised' = promised
  BY DEF Installer!copy
<1>2. f \in Served \cup {Installer!InstallScript}
  BY <1>1, NextFile DEF RunInv
<1>3. /\ served' = [h \in Served |-> served'[h]]
      /\ \A h \in Served : served'[h] = IF h = f THEN "whole" ELSE served[h]
  <2> HIDE DEF f
  <2>1. QED  BY <1>1, <1>2, PutOne, Zenon DEF RunInv
<1>4. /\ run' = [at |-> run'.at, of |-> run'.of, from |-> run'.from, todo |-> run'.todo,
                 created |-> run'.created]
      /\ run'.at = run.at /\ run'.of = run.of /\ run'.todo = Tail(run.todo)
      /\ run'.created = IF run.at = "copy" THEN Append(run.created, f) ELSE run.created
  BY <1>1 DEF RunInv, RunType
<1>5. run.at = "copy" =>
        /\ run'.created \in Seq(Served)
        /\ Installer!Elements(run'.created) = Installer!Elements(run.created) \cup {f}
  BY <1>1, <1>4, NextFile, ElementsOfAppend DEF RunInv, RunType
<1>6. run.of \in Generations
  BY DEF RunInv, RunType
<1>7. {Installer!Bootstrap(run.of.version), Installer!Common, Installer!ConfigOf(run.of)} \subseteq Served
  BY <1>6, Kinds
<1>8. /\ run.at = "bundle" =>
           \/ run'.todo = <<Installer!ConfigOf(run.of)>> /\ run'.todo # <<>>
           \/ f = Installer!ConfigOf(run.of) /\ run'.todo = <<>>
      /\ run.at = "copy" =>
           \/ /\ f = Installer!Bootstrap(run.of.version)
              /\ run'.todo = <<Installer!Common>> /\ run'.todo # <<>>
           \/ /\ f = Installer!Common /\ run'.todo = <<>> /\ run.todo = <<Installer!Common>>
  BY <1>1, <1>4, NextFile, Zenon DEF RunInv
<1>9. <<Installer!Common>> # <<>>
  BY ShortLists
<1> HIDE DEF f
<1>10. RunType'
  BY <1>1, <1>3, <1>4, <1>5, <1>8 DEF RunInv, RunType
<1>11. CopiesInv'
  <2>1. CASE run.at = "bundle"
    <3>1. run'.at = "bundle" /\ run'.created = run.created
      BY <2>1, <1>4
    <3>2. run'.todo = <<>> => served'[Installer!ConfigOf(run.of)] = "whole"
      BY <2>1, <1>3, <1>7, <1>8
    <3>3. \A h \in Served : served'[h] = "part" => h \in disturbed_files' \cup Installer!Elements(run'.created)
      BY <1>1, <1>3, <3>1 DEF RunInv, CopiesInv
    <3>4. QED  BY <1>3, <1>4, <3>1, <3>2, <3>3 DEF RunInv, CopiesInv
  <2>2. CASE run.at = "copy"
    <3>1. run'.at = "copy"
          /\ Installer!Elements(run'.created) = Installer!Elements(run.created) \cup {f}
      BY <2>2, <1>4, <1>5
    <3>2. \A h \in Served : served'[h] = "part" => h \in disturbed_files' \cup Installer!Elements(run'.created)
      BY <1>1, <1>3, <3>1 DEF RunInv, CopiesInv
    <3>3. \A h \in Served : served[h] = "whole" => served'[h] = "whole"
      BY <1>3
    <3>4. Installer!Elements(run.created) \subseteq Served
      BY DEF RunInv, RunType, Installer!Elements
    <3>5. f \in Served /\ served'[f] = "whole"
      BY <1>3, <1>7, <1>8, <2>2
    <3>6. \A h \in Installer!Elements(run'.created) : served'[h] = "whole"
      BY <3>1, <3>3, <3>4, <3>5, <2>2 DEF RunInv, CopiesInv
    <3>7. served'[Installer!ConfigOf(run.of)] = "whole"
      BY <1>7, <2>2, <3>3 DEF RunInv, CopiesInv
    <3>8. CASE f = Installer!Bootstrap(run.of.version) /\ run'.todo = <<Installer!Common>>
               /\ run'.todo # <<>>
      BY <1>3, <1>4, <3>1, <3>2, <3>5, <3>6, <3>7, <3>8 DEF RunInv, CopiesInv
    <3>9. CASE f = Installer!Common /\ run'.todo = <<>> /\ run.todo = <<Installer!Common>>
      <4>1. served'[Installer!Bootstrap(run.of.version)] = "whole"
        BY <1>7, <2>2, <3>3, <3>9 DEF RunInv, CopiesInv
      <4>2. QED  BY <1>3, <1>4, <1>9, <3>1, <3>2, <3>5, <3>6, <3>7, <3>9, <4>1 DEF RunInv,
           CopiesInv
    <3>10. QED  BY <1>8, <2>2, <3>8, <3>9
  <2>3. QED  BY <2>1, <2>2
<1>12. PromisesInv'
  BY <1>1, <1>3, <1>4, <1>5, PromisesKept
<1>13. QED  BY <1>10, <1>11, <1>12 DEF RunInv

LEMMA FetchArtifactsKeeps == ASSUME RunInv, Installer!fetch_artifacts PROVE RunInv'
<1> DEFINE all_there == \A f \in Installer!Elements(Installer!cached(run.of)) : served[f] # "no"
<1>1. /\ run.at = "bundle" /\ run.todo = <<>>
      /\ run' = [run EXCEPT !.at = "copy", !.todo = IF all_there THEN <<>> ELSE Installer!cached(run.of)]
      /\ UNCHANGED <<served, disturbed_files, promised>>
  BY DEF Installer!fetch_artifacts
<1>2. run' = [at |-> "copy", of |-> run.of, from |-> run.from,
              todo |-> IF all_there THEN <<>> ELSE Installer!cached(run.of), created |-> run.created]
      /\ run.created = <<>> /\ run.of \in Generations
  BY <1>1 DEF RunInv, RunType
<1>3. all_there => \A f \in {Installer!Bootstrap(run.of.version), Installer!Common} : served[f] # "no"
  <2>1. Installer!cached(run.of)[1] = Installer!Bootstrap(run.of.version)
        /\ Installer!cached(run.of)[2] = Installer!Common
        /\ {1, 2} \subseteq DOMAIN Installer!cached(run.of)
    BY DEF Installer!cached
  <2>2. QED  BY <2>1 DEF Installer!Elements
<1>4. {Installer!Bootstrap(run.of.version), Installer!Common} \subseteq Served
  BY <1>2, Kinds
<1>5. all_there => \A f \in {Installer!Bootstrap(run.of.version), Installer!Common} :
                  served[f] = "whole" \/ f \in disturbed_files
  BY <1>2, <1>3, <1>4, NoElements DEF RunInv, CopiesInv
<1> HIDE DEF all_there
<1>6. Installer!cached(run.of) # <<Installer!Common>> /\ Installer!cached(run.of) # <<>>
      /\ <<Installer!Common>> # <<>>
  <2>1. Len(Installer!cached(run.of)) = 2 /\ Len(<<Installer!Common>>) = 1
    BY DEF Installer!cached
  <2>2. QED  BY <2>1, ShortLists DEF Installer!cached
<1>7. RunType'
  BY <1>1, <1>2 DEF RunInv, RunType
<1>8. CopiesInv'
  BY <1>1, <1>2, <1>5, <1>6, NoElements DEF RunInv, CopiesInv
<1>9. PromisesInv'
  BY <1>1, <1>2, PromisesKept
<1>10. QED  BY <1>7, <1>8, <1>9 DEF RunInv

LEMMA CopyFailsKeeps == ASSUME RunInv, Installer!copy_fails PROVE RunInv'
<1> DEFINE f == Head(run.todo)
<1>1. /\ run.todo # <<>> /\ ~Installer!At("rollback") /\ Installer!Put(f, "part")
      /\ IF run.at = "copy"
         THEN /\ run' = [run EXCEPT !.at = "rollback", !.created = Append(@, f)]
              /\ disturbed_files' = disturbed_files
         ELSE run' = Installer!NoRun /\ disturbed_files' = disturbed_files \cup {f}
      /\ promised' = promised
  BY DEF Installer!copy_fails
<1>2. run.at \in {"bundle", "copy"}
  BY <1>1 DEF RunInv, RunType
<1>3. f \in Served \cup {Installer!InstallScript} /\ (run.at = "copy" => f \in Served)
  BY <1>1, <1>2, NextFile DEF RunInv
<1>4. /\ served' = [h \in Served |-> served'[h]]
      /\ \A h \in Served : served'[h] = IF h = f THEN "part" ELSE served[h]
  <2> HIDE DEF f
  <2>1. QED  BY <1>1, <1>3, PutOne, Zenon DEF RunInv
<1> HIDE DEF f
<1>5. CASE run.at = "copy"
  <2>1. /\ run' = [at |-> "rollback", of |-> run.of, from |-> run.from, todo |-> run.todo,
                   created |-> Append(run.created, f)]
        /\ disturbed_files' = disturbed_files
    BY <1>1, <1>5 DEF RunInv, RunType
  <2>2. /\ run'.created \in Seq(Served)
        /\ Installer!Elements(run'.created) = Installer!Elements(run.created) \cup {f}
    BY <1>3, <1>5, <2>1, ElementsOfAppend DEF RunInv, RunType
  <2>3. RunType'
    BY <1>1, <1>4, <1>5, <2>1, <2>2 DEF RunInv, RunType
  <2>4. CopiesInv'
    BY <1>4, <2>1, <2>2 DEF RunInv, CopiesInv
  <2>5. PromisesInv'
    BY <1>1, <1>4, <2>1, <2>2, PromisesKept
  <2>6. QED  BY <2>3, <2>4, <2>5 DEF RunInv
<1>6. CASE run.at = "bundle"
  <2>1. run' = Installer!NoRun /\ disturbed_files' = disturbed_files \cup {f} /\ run.created = <<>>
    BY <1>1, <1>6 DEF RunInv, RunType
  <2>2. RunType'
    BY <1>1, <1>4, <2>1, NoElements DEF RunInv, RunType, Installer!NoRun
  <2>3. CopiesInv'
    BY <1>4, <2>1 DEF RunInv, CopiesInv, Installer!NoRun
  <2>4. PromisesInv'
    BY <1>1, <1>4, <2>1, NoElements, PromisesKept
  <2>5. QED  BY <2>2, <2>3, <2>4 DEF RunInv
<1>7. QED  BY <1>2, <1>5, <1>6

LEMMA RollbackKeeps == ASSUME RunInv, Installer!rollback PROVE RunInv'
<1>1. run.at = "rollback" /\ promised' = promised
  BY DEF Installer!rollback
<1>2. CASE run.created = <<>>
  <2>1. run' = Installer!NoRun /\ UNCHANGED <<served, disturbed_files>>
    BY <1>2 DEF Installer!rollback
  <2>2. RunType'
    BY <1>1, <2>1 DEF RunInv, RunType, Installer!NoRun
  <2>3. CopiesInv'
    BY <1>2, <2>1, NoElements DEF RunInv, CopiesInv, Installer!NoRun
  <2>4. PromisesInv'
    BY <1>1, <1>2, <2>1, NoElements, PromisesKept
  <2>5. QED  BY <2>2, <2>3, <2>4 DEF RunInv
<1>3. CASE run.created # <<>>
  <2> DEFINE last == run.created[Len(run.created)]
             left == SubSeq(run.created, 1, Len(run.created) - 1)
  <2>1. /\ served' = [served EXCEPT ![last] = "no"] /\ disturbed_files' = disturbed_files \cup {last}
        /\ run' = [run EXCEPT !.created = left]
    BY <1>3 DEF Installer!rollback
  <2>2. /\ left \in Seq(Served) /\ last \in Served
        /\ Installer!Elements(run.created) = Installer!Elements(left) \cup {last}
    BY <1>3, ElementsOfFront DEF RunInv, RunType
  <2> HIDE DEF last, left
  <2>3. run' = [at |-> "rollback", of |-> run.of, from |-> run.from, todo |-> run.todo,
                created |-> left]
    BY <1>1, <2>1 DEF RunInv, RunType
  <2>4. /\ served' = [h \in Served |-> served'[h]]
        /\ \A h \in Served : served'[h] = IF h = last THEN "no" ELSE served[h]
    BY <2>1 DEF RunInv, RunType
  <2>5. RunType'
    BY <1>1, <2>2, <2>3, <2>4 DEF RunInv, RunType
  <2>6. CopiesInv'
    BY <2>1, <2>2, <2>3, <2>4 DEF RunInv, CopiesInv
  <2>7. PromisesInv'
    BY <1>1, <2>1, <2>2, <2>3, <2>4, PromisesKept
  <2>8. QED  BY <2>5, <2>6, <2>7 DEF RunInv
<1>4. QED  BY <1>2, <1>3

LEMMA KillRunKeeps == ASSUME RunInv, Installer!Kill PROVE RunInv'
<1>1. run' = Installer!NoRun /\ promised' = promised /\ run.at # "done"
  BY DEF Installer!Kill
<1>2. run'.at = "done" /\ run'.created = <<>>
  BY <1>1 DEF Installer!NoRun
<1>3. \A h \in Installer!Elements(run.created) :
        h \in Served /\ (run.at # "rollback" => served[h] = "whole")
  <2>1. run.at \in {"bundle", "copy", "rollback"}
    BY <1>1 DEF RunInv, RunType
  <2>2. Installer!Elements(run.created) \subseteq Served
    BY DEF RunInv, RunType, Installer!Elements
  <2>3. run.at = "bundle" => Installer!Elements(run.created) = {}
    BY NoElements DEF RunInv, RunType
  <2>4. QED  BY <2>1, <2>2, <2>3 DEF RunInv, CopiesInv
<1>4. CASE /\ run.todo # <<>> /\ run.at # "rollback" /\ Installer!Put(Head(run.todo), "part")
           /\ disturbed_files' = disturbed_files \cup {Head(run.todo)}
  <2> DEFINE f == Head(run.todo)
  <2>1. f \in Served \cup {Installer!InstallScript}
    BY <1>1, <1>4, NextFile DEF RunInv, RunType
  <2>2. Installer!Put(f, "part") /\ disturbed_files' = disturbed_files \cup {f}
    BY <1>4
  <2> HIDE DEF f
  <2>3. /\ served' = [h \in Served |-> served'[h]]
        /\ \A h \in Served : served'[h] = IF h = f THEN "part" ELSE served[h]
    BY <2>1, <2>2, PutOne, Zenon DEF RunInv
  <2>4. RunType'
    BY <1>1, <2>3 DEF RunInv, RunType, Installer!NoRun
  <2>5. CopiesInv'
    BY <1>2, <1>3, <1>4, <2>2, <2>3 DEF RunInv, CopiesInv
  <2>6. PromisesInv'
    BY <1>1, <1>3, <1>4, <2>2, <2>3, PromisesKept
  <2>7. QED  BY <2>4, <2>5, <2>6 DEF RunInv
<1>5. CASE /\ disturbed_files' = disturbed_files \cup
                 (IF run.at = "rollback" THEN Installer!Elements(run.created) ELSE {})
           /\ UNCHANGED <<served, script>>
  <2>1. RunType'
    BY <1>1, <1>5 DEF RunInv, RunType, Installer!NoRun
  <2>2. CopiesInv'
    BY <1>2, <1>3, <1>5 DEF RunInv, CopiesInv
  <2>3. PromisesInv'
    BY <1>1, <1>3, <1>5, PromisesKept
  <2>4. QED  BY <2>1, <2>2, <2>3 DEF RunInv
<1>6. QED  BY <1>4, <1>5 DEF Installer!Kill

LEMMA MakeServeDirKeeps == ASSUME RunInv, Installer!make_serve_dir PROVE RunInv'
<1>1. /\ run.at = "copy" /\ run.todo = <<>> /\ run' = Installer!NoRun
      /\ promised' = promised \cup {run.of} /\ UNCHANGED <<served, disturbed_files>>
  BY DEF Installer!make_serve_dir
<1>2. run'.at = "done" /\ run'.created = <<>> /\ run.of \in Generations
  BY <1>1 DEF Installer!NoRun, RunInv, RunType
<1>3. \A h \in Installer!Elements(run.created) : h \in Served /\ served[h] = "whole"
  BY <1>1 DEF RunInv, RunType, CopiesInv, Installer!Elements
<1>4. \A h \in Installer!Needed(run.of) : served[h] = "whole" \/ h \in disturbed_files
  BY <1>1, <1>2, Kinds DEF RunInv, CopiesInv
<1>5. RunType'
  BY <1>1, <1>2 DEF RunInv, RunType, Installer!NoRun
<1>6. CopiesInv'
  BY <1>1, <1>2, <1>3 DEF RunInv, CopiesInv
<1>7. PromisesInv'
  <2> SUFFICES ASSUME NEW g \in promised', NEW h \in Installer!Needed(g)
               PROVE  served'[h] = "whole" \/ h \in disturbed_files'
    BY DEF PromisesInv
  <2>1. CASE g \in promised
    BY <1>1, <1>3, <2>1 DEF RunInv, PromisesInv
  <2>2. CASE g = run.of
    BY <1>1, <1>4, <2>2
  <2>3. QED  BY <1>1, <2>1, <2>2
<1>8. QED  BY <1>5, <1>6, <1>7 DEF RunInv

LEMMA RunKeeps ==
    ASSUME RunInv,
           \/ Installer!dispatch \/ Installer!do_bundle_onprem \/ Installer!fetch_artifacts
           \/ Installer!do_move_atomic \/ Installer!copy_fails \/ Installer!rollback
           \/ Installer!Kill \/ Installer!make_serve_dir
    PROVE  RunInv'
<1>1. ASSUME Installer!do_bundle_onprem \/ Installer!do_move_atomic PROVE RunInv'
  BY <1>1, CopyKeeps DEF Installer!do_bundle_onprem, Installer!do_move_atomic
<1>2. QED  BY <1>1, ConfigureBegins, FetchArtifactsKeeps, CopyFailsKeeps, RollbackKeeps,
     KillRunKeeps,
              MakeServeDirKeeps

LEMMA InstallerKeeps == InstallerInv /\ [Installer!Next]_(Installer!vars) => InstallerInv'
<1> SUFFICES ASSUME InstallerInv, [Installer!Next]_(Installer!vars) PROVE InstallerInv'
  OBVIOUS
<1>1. RunInv /\ NodeInv
  BY DEF InstallerInv
<1>2. CASE UNCHANGED Installer!vars
  BY <1>1, <1>2, RunAside, NodeAside DEF InstallerInv, Installer!vars
<1>3. CASE \/ Installer!dispatch \/ Installer!do_bundle_onprem \/ Installer!fetch_artifacts
           \/ Installer!do_move_atomic \/ Installer!copy_fails \/ Installer!rollback
           \/ Installer!Kill \/ Installer!make_serve_dir
  <2>1. UNCHANGED Installer!nodeVars
    BY <1>3 DEF Installer!dispatch, Installer!do_configure,
       Installer!generate_node_upgrade_script,
         Installer!onprem_generate, Installer!do_bundle_onprem, Installer!do_move_atomic,
         Installer!copy, Installer!fetch_artifacts, Installer!copy_fails, Installer!rollback,
         Installer!Kill, Installer!make_serve_dir
  <2>2. QED  BY <1>1, <1>3, <2>1, RunKeeps, NodeAside DEF InstallerInv
<1>4. CASE \/ Installer!main \/ Installer!check_all \/ Installer!setup_dcos_roles
           \/ Installer!configure_dcos \/ Installer!setup_and_start_services
           \/ Installer!CutOff \/ Installer!Reboot \/ Installer!Download \/ Installer!Unpack
           \/ Installer!Setup
           \/ Installer!upgrade \/ Installer!may_upgrade \/ Installer!fetch
           \/ Installer!activate \/ Installer!poststart_checks
  <2>1. UNCHANGED Installer!genVars
    BY <1>4 DEF Installer!main, Installer!check_all, Installer!setup_dcos_roles,
         Installer!configure_dcos, Installer!setup_and_start_services, Installer!CutOff,
         Installer!Reboot, Installer!Download, Installer!Unpack, Installer!Setup, Installer!upgrade,
         Installer!may_upgrade, Installer!fetch, Installer!activate, Installer!poststart_checks
  <2>2. NodeInv'
    BY <1>1, <1>4, InstallKeeps, CheckKeeps, RolesKeep, ConfigureKeeps, ServicesKeep,
       CutOffJobKeeps,
       RebootKeeps, DownloadKeeps, UnpackKeeps, SetupKeeps, UpgradeKeeps, MayUpgradeKeeps, FetchKeeps,
       ActivateKeeps, PoststartKeeps
  <2>3. QED  BY <1>1, <2>1, <2>2, RunAside DEF InstallerInv
<1>5. QED  BY <1>2, <1>3, <1>4 DEF Installer!Next

(* What a run of the installer has announced is there, whole, unless a     *)
(* later copy was cut off or rolled back over it; nodes that were checked  *)
(* and installed once have one role and boot one version, and what comes   *)
(* up was unpacked as a whole unless that was cut off after active/; an    *)
(* upgrade that ends with status 0 has activated what it was generated for *)
(* (config_util.py, bash.py, dcos-services.yaml, upgrade.py).              *)
THEOREM Installations ==
    Installer!Init /\ [][Installer!Next]_(Installer!vars) => []Installer!InstallationsAreWhole
BY InstallerBegins, InstallerKeeps, InstallationsAreFine, PTL

-----------------------------------------------------------------------------
(* Backups                                                                 *)
-----------------------------------------------------------------------------
(* What a backup or a database may hold; a version of the data is none of  *)
(* the words for its absence.                                              *)
Content == Versions \cup {Saved!Empty, Saved!Partial, Saved!Missing}
DataAssumption ==
    /\ Versions \cap {Saved!Empty, Saved!Partial, Saved!Missing, Saved!Unknown} = {}
    /\ MaxFaults \in Nat

DataOK ==
    /\ live \in Content /\ fresh_database \in Content /\ old_database \in Content /\ kept \in Content
    /\ backup \in [content : Content, whole : BOOLEAN]
    /\ taken \in Content \cup {Saved!Unknown}

ControlOK ==
    /\ tool \in {"zk", "etcd", "iam"} /\ serving \in BOOLEAN /\ stale \in BOOLEAN
    /\ state_files \subseteq {"initial-nodes", "initial-state"}
    /\ verb \in {"backup", "restore"} /\ temporary \in {"operator", "own"}
    /\ exit \in {"none", "ok", "failed", "killed"}

CountersOK == failures \in Nat /\ hits \in Nat

SavedTypeOK == DataOK /\ ControlOK /\ CountersOK

(* The copies in the two temporary directories. *)
SavedCopyInv == copies \in [{"operator", "own"} -> Seq(Content)]

(* Which steps are of which tool, of a backup and of a restore, and that   *)
(* ZooKeeper stays down while its data are replaced.                       *)
SavedStepInv ==
    /\ tool = "zk" => saved_pc \in {"idle", "start", "copy", "tar", "rmtree", "extract", "cleanup"}
    /\ tool = "etcd" => saved_pc \in {"idle", "start", "tar", "rmtree", "extract", "nodes", "state",
                                "cleanup"}
    /\ tool = "iam" => saved_pc \in {"idle", "start", "dump", "create", "create from scratch",
                               "rename", "rename iam", "rename iam_new", "rename iam_old",
                               "drop iam_new", "drop iam_old"}
    /\ saved_pc # "idle" => exit = "none"
    /\ tool # "zk" => temporary = "own"
    /\ saved_pc \in {"tar", "dump"} => verb = "backup"
    /\ saved_pc \in {"rmtree", "extract", "nodes", "state", "create", "create from scratch", "rename",
               "rename iam", "rename iam_new", "rename iam_old", "drop iam_new", "drop iam_old"}
         => verb = "restore"
    /\ tool = "zk" /\ saved_pc \notin {"idle", "start"} => ~serving

(* The file is what a backup that reported success has said; until then    *)
(* the archive is of the one copy that was made, if there was no other.    *)
ArchiveInv ==
    /\ taken # Saved!Unknown => backup.whole /\ (~stale => backup.content = taken)
    /\ tool # "iam" /\ verb = "backup" /\ saved_pc # "idle" => taken = Saved!Unknown
    /\ saved_pc = "tar" => Saved!Copies # Saved!NoCopy /\ (~stale => Len(Saved!Copies) = 1)
    /\ saved_pc = "cleanup" /\ verb = "backup" =>
         /\ Saved!Copies # Saved!NoCopy /\ (~stale => Len(Saved!Copies) = 1)
         /\ backup = Saved!Whole(Head(Saved!Copies))

(* A restore of ZooKeeper or etcd: the old data are kept, then the new     *)
(* ones are in place.                                                      *)
ReplaceInv ==
    verb = "restore" =>
    /\ tool = "zk" /\ saved_pc \in {"start", "copy"} => live = kept
    /\ tool = "zk" /\ saved_pc \in {"rmtree", "extract"} => kept \in Saved!ToSet(Saved!Copies)
    /\ saved_pc \in {"nodes", "state", "cleanup"} /\ ~(tool = "etcd" /\ serving) =>
         live = backup.content
    /\ tool = "etcd" /\ saved_pc \in {"state", "cleanup"} => "initial-nodes" \in state_files
    /\ tool = "etcd" /\ saved_pc = "cleanup" => "initial-state" \in state_files

(* A restore of the database of the IAM: where its users' data are.        *)
RenameInv ==
    tool = "iam" /\ verb = "restore" =>
    /\ saved_pc \in {"start", "create", "create from scratch", "rename", "rename iam"} => live = kept
    /\ saved_pc \in {"rename", "rename iam", "rename iam_new"} => fresh_database = backup.content
    /\ saved_pc \in {"rename iam_new", "rename iam_old"} => live = Saved!Missing /\ old_database = kept
    /\ saved_pc = "rename iam_old" => failures > 0
    /\ saved_pc = "drop iam_new" => live = kept \/ (live = Saved!Missing /\ old_database = kept /\ failures > 1)
    /\ saved_pc = "drop iam_old" => live = backup.content

(* What the end of a restore says. *)
SavedExitInv ==
    verb = "restore" =>
    /\ exit = "ok" /\ ~(tool = "etcd" /\ serving) => live = backup.content
    /\ exit = "ok" /\ tool = "etcd" => state_files = {"initial-nodes", "initial-state"}
    /\ exit = "failed" /\ tool = "iam" =>
         live = kept \/ (live = Saved!Missing /\ old_database = kept /\ failures > 1)
    /\ exit = "killed" /\ tool = "iam" =>
         live = kept \/ (live = Saved!Missing /\ old_database = kept) \/ live = backup.content

SavedInv ==
    /\ SavedTypeOK /\ SavedCopyInv /\ SavedStepInv
    /\ ArchiveInv /\ ReplaceInv /\ RenameInv /\ SavedExitInv
----------------------------------------------------------------------------
LEMMA SavedContents ==
  /\ {Saved!Empty, Saved!Partial, Saved!Missing} \subseteq Content /\ Versions \subseteq Content
  /\ Saved!NoCopy \in Seq(Content)
  BY DEF Content, Saved!NoCopy

LEMMA ArchiveKept ==
  ASSUME ArchiveInv, UNCHANGED <<tool, backup, copies, saved_pc, verb, temporary, taken, stale>>
  PROVE  ArchiveInv'
<1>1. Saved!Copies' = Saved!Copies
  BY DEF Saved!Copies
<1> QED
  BY <1>1, Zenon DEF ArchiveInv, Saved!Whole

LEMMA Counters ==
  ASSUME CountersOK, UNCHANGED <<failures, hits>> \/ (Saved!Fault /\ failures' \in {failures, failures + 1})
  PROVE  CountersOK'
  BY DEF CountersOK, Saved!Fault

LEMMA FailedGrows ==
  ASSUME CountersOK, failures' = failures + 1
  PROVE  failures' > 0 /\ (failures > 0 => failures' > 1)
  BY DEF CountersOK

LEMMA FilesAreTyped ==
  ASSUME NEW c \in Content
  PROVE  /\ Saved!Whole(c) \in [content : Content, whole : BOOLEAN]
         /\ Saved!Cut \in [content : Content, whole : BOOLEAN]
  BY SavedContents DEF Saved!Whole, Saved!Cut

(* A copy lands in the directory, beside an earlier one. *)
LEMMA CopyLands ==
  ASSUME SavedTypeOK, SavedCopyInv, NEW c \in Content
  PROVE  /\ Saved!Copied(c) \in [{"operator", "own"} -> Seq(Content)]
         /\ c \in Saved!ToSet(Saved!Copied(c)[temporary])
         /\ Saved!Copied(c)[temporary] # Saved!NoCopy
         /\ Saved!Copies = Saved!NoCopy => Len(Saved!Copied(c)[temporary]) = 1
<1>1. temporary \in {"operator", "own"} /\ Saved!Copies \in Seq(Content)
  BY DEF SavedTypeOK, ControlOK, SavedCopyInv, Saved!Copies
<1> DEFINE s == IF Saved!Copies = Saved!NoCopy THEN <<c>> ELSE <<Head(Saved!Copies), c>>
<1>2. Saved!Copied(c)[temporary] = s /\ Saved!Copied(c) = [copies EXCEPT ![temporary] = s]
  BY <1>1 DEF Saved!Copied, SavedCopyInv, Saved!Copies
<1>3. CASE Saved!Copies = Saved!NoCopy
  <2>1. s = <<c>>
    BY <1>3
  <2>2. s \in Seq(Content) /\ s # <<>> /\ Len(s) = 1 /\ 1 \in DOMAIN s /\ s[1] = c
    BY <2>1
  <2> QED BY <1>1, <1>2, <2>2 DEF SavedCopyInv, Saved!ToSet, Saved!NoCopy
<1>4. CASE Saved!Copies # Saved!NoCopy
  <2>1. Head(Saved!Copies) \in Content
    BY <1>1, <1>4 DEF Saved!NoCopy
  <2>2. s = <<Head(Saved!Copies), c>>
    BY <1>4
  <2>3. s \in Seq(Content) /\ s # <<>> /\ 2 \in DOMAIN s /\ s[2] = c
    BY <2>1, <2>2
  <2> QED BY <1>1, <1>2, <1>4, <2>3 DEF SavedCopyInv, Saved!ToSet, Saved!NoCopy
<1> QED BY <1>3, <1>4

LEMMA LastIsIn ==
  ASSUME NEW S, NEW s \in Seq(S), s # <<>>
  PROVE  Saved!Last(s) \in S /\ (Len(s) = 1 => Saved!Last(s) = Head(s))
  BY DEF Saved!Last

LEMMA SavedInitInv ==
  ASSUME DataAssumption, Saved!Init
  PROVE  SavedInv
<1>1. SavedTypeOK
  BY SavedContents DEF Saved!Init, SavedTypeOK, DataOK, ControlOK, CountersOK, Saved!NoFile,
     DataAssumption
<1>3. SavedCopyInv
  BY SavedContents DEF Saved!Init, SavedCopyInv
<1>2. SavedStepInv /\ ArchiveInv /\ ReplaceInv /\ RenameInv /\ SavedExitInv
  BY DEF Saved!Init, SavedStepInv, ArchiveInv, ReplaceInv, RenameInv, SavedExitInv
<1> QED
  BY <1>1, <1>2, <1>3 DEF SavedInv

LEMMA BeginStep ==
  ASSUME DataAssumption, SavedInv, NEW v \in {"backup", "restore"}, NEW d \in {"operator", "own"},
         Saved!Begin(v, d)
  PROVE  SavedInv'
<1> USE DEF SavedInv, Saved!Begin, Saved!NoFile, Saved!service, Saved!databases
<1>1. SavedTypeOK'
  <2>1. DataOK'
    BY SavedContents DEF SavedTypeOK, DataOK
  <2>2. ControlOK'
    BY DEF SavedTypeOK, ControlOK
  <2>3. CountersOK'
    BY DEF SavedTypeOK, CountersOK
  <2> QED BY <2>1, <2>2, <2>3 DEF SavedTypeOK
<1>2. SavedCopyInv'
  BY SavedContents DEF SavedTypeOK, DataOK, ControlOK, SavedCopyInv
<1>3. SavedStepInv'
  BY DEF SavedTypeOK, DataOK, ControlOK, SavedStepInv
<1>4. ArchiveInv'
  BY DEF SavedTypeOK, DataOK, ControlOK, SavedStepInv, ArchiveInv
<1>5. ReplaceInv'
  BY DEF SavedTypeOK, DataOK, ControlOK, SavedStepInv, ReplaceInv
<1>6. RenameInv'
  BY DEF SavedTypeOK, DataOK, ControlOK, SavedStepInv, RenameInv
<1>7. SavedExitInv'
  BY DEF SavedTypeOK, DataOK, ControlOK, SavedStepInv, ReplaceInv, RenameInv, SavedExitInv
<1> QED
  BY <1>1, <1>2, <1>3, <1>4, <1>5, <1>6, <1>7

LEMMA OtherPathStep ==
  ASSUME DataAssumption, SavedInv, Saved!OtherPath
  PROVE  SavedInv'
<1> USE DEF SavedInv, Saved!OtherPath, Saved!NoFile, Saved!service, Saved!databases
<1>1. SavedTypeOK'
  <2>1. DataOK'
    BY SavedContents DEF SavedTypeOK, DataOK
  <2>2. ControlOK'
    BY DEF SavedTypeOK, ControlOK
  <2>3. CountersOK'
    BY Counters DEF SavedTypeOK
  <2> QED BY <2>1, <2>2, <2>3 DEF SavedTypeOK
<1>2. SavedCopyInv'
  BY SavedContents DEF SavedTypeOK, DataOK, ControlOK, SavedCopyInv
<1>3. SavedStepInv'
  BY DEF SavedTypeOK, DataOK, ControlOK, SavedStepInv
<1>4. ArchiveInv'
  BY DEF SavedTypeOK, DataOK, ControlOK, SavedStepInv, ArchiveInv
<1>5. ReplaceInv'
  BY DEF SavedTypeOK, DataOK, ControlOK, SavedStepInv, ReplaceInv
<1>6. RenameInv'
  BY DEF SavedTypeOK, DataOK, ControlOK, SavedStepInv, RenameInv
<1>7. SavedExitInv'
  BY DEF SavedTypeOK, DataOK, ControlOK, SavedStepInv, ReplaceInv, RenameInv, SavedExitInv
<1> QED
  BY <1>1, <1>2, <1>3, <1>4, <1>5, <1>6, <1>7

LEMMA StartOrStopStep ==
  ASSUME DataAssumption, SavedInv, Saved!StartOrStop
  PROVE  SavedInv'
<1> USE DEF SavedInv, Saved!StartOrStop, Saved!databases, Saved!history
<1>1. SavedTypeOK'
  <2>1. DataOK'
    BY SavedContents DEF SavedTypeOK, DataOK
  <2>2. ControlOK'
    BY DEF SavedTypeOK, ControlOK
  <2>3. CountersOK'
    BY Counters DEF SavedTypeOK
  <2> QED BY <2>1, <2>2, <2>3 DEF SavedTypeOK
<1>2. SavedCopyInv'
  BY SavedContents DEF SavedTypeOK, DataOK, ControlOK, SavedCopyInv
<1>3. SavedStepInv'
  BY DEF SavedTypeOK, DataOK, ControlOK, SavedStepInv
<1>4. ArchiveInv'
  BY DEF SavedTypeOK, DataOK, ControlOK, SavedStepInv, ArchiveInv
<1>5. ReplaceInv'
  BY DEF SavedTypeOK, DataOK, ControlOK, SavedStepInv, ReplaceInv
<1>6. RenameInv'
  BY DEF SavedTypeOK, DataOK, ControlOK, SavedStepInv, RenameInv
<1>7. SavedExitInv'
  BY DEF SavedTypeOK, DataOK, ControlOK, SavedStepInv, ReplaceInv, RenameInv, SavedExitInv
<1> QED
  BY <1>1, <1>2, <1>3, <1>4, <1>5, <1>6, <1>7

LEMMA WriteStep ==
  ASSUME DataAssumption, SavedInv, Saved!Write
  PROVE  SavedInv'
<1> USE DEF SavedInv, Saved!Write, Saved!databases
<1>1. SavedTypeOK'
  <2>1. DataOK'
    BY SavedContents DEF SavedTypeOK, DataOK
  <2>2. ControlOK'
    BY DEF SavedTypeOK, ControlOK
  <2>3. CountersOK'
    BY Counters DEF SavedTypeOK
  <2> QED BY <2>1, <2>2, <2>3 DEF SavedTypeOK
<1>2. SavedCopyInv'
  BY SavedContents DEF SavedTypeOK, DataOK, ControlOK, SavedCopyInv
<1>3. SavedStepInv'
  BY DEF SavedTypeOK, DataOK, ControlOK, SavedStepInv
<1>4. ArchiveInv'
  <2>1. UNCHANGED <<tool, backup, copies, saved_pc, verb, temporary, taken, stale>>
    OBVIOUS
  <2>2. ArchiveInv
    OBVIOUS
  <2> QED BY <2>1, <2>2, ArchiveKept
<1>5. ReplaceInv'
  BY DEF SavedTypeOK, DataOK, ControlOK, SavedStepInv, ReplaceInv
<1>6. RenameInv'
  <2>1. /\ UNCHANGED <<tool, backup, fresh_database, old_database, saved_pc, verb, failures>> /\ saved_pc # "drop iam_old"
        /\ live' = kept' /\ live # Saved!Missing
    BY DEF DataAssumption
  <2>2. RenameInv
    OBVIOUS
  <2> QED BY <2>1, <2>2 DEF RenameInv
<1>7. SavedExitInv'
  BY DEF SavedTypeOK, DataOK, ControlOK, SavedStepInv, ReplaceInv, RenameInv, SavedExitInv
<1> QED
  BY <1>1, <1>2, <1>3, <1>4, <1>5, <1>6, <1>7

LEMMA KillStep ==
  ASSUME DataAssumption, SavedInv, Saved!Kill
  PROVE  SavedInv'
<1> USE DEF SavedInv, Saved!Kill, Saved!Exit, Saved!service, Saved!databases, Saved!history
<1>1. SavedTypeOK'
  <2>1. DataOK'
    BY SavedContents DEF SavedTypeOK, DataOK
  <2>2. ControlOK'
    BY DEF SavedTypeOK, ControlOK
  <2>3. CountersOK'
    BY Counters DEF SavedTypeOK
  <2> QED BY <2>1, <2>2, <2>3 DEF SavedTypeOK
<1>2. SavedCopyInv'
  BY SavedContents DEF SavedTypeOK, DataOK, ControlOK, SavedCopyInv
<1>3. SavedStepInv'
  BY DEF SavedTypeOK, DataOK, ControlOK, SavedStepInv
<1>4. ArchiveInv'
  BY DEF SavedTypeOK, DataOK, ControlOK, SavedStepInv, ArchiveInv
<1>5. ReplaceInv'
  BY DEF SavedTypeOK, DataOK, ControlOK, SavedStepInv, ReplaceInv
<1>6. RenameInv'
  BY DEF SavedTypeOK, DataOK, ControlOK, SavedStepInv, RenameInv
<1>7. SavedExitInv'
  BY DEF SavedTypeOK, DataOK, ControlOK, SavedStepInv, ReplaceInv, RenameInv, SavedExitInv
<1> QED
  BY <1>1, <1>2, <1>3, <1>4, <1>5, <1>6, <1>7

LEMMA IsZookeeperRunningStep ==
  ASSUME DataAssumption, SavedInv, Saved!is_zookeeper_running
  PROVE  SavedInv'
<1> USE DEF SavedInv, Saved!is_zookeeper_running, Saved!Goto, Saved!Refuse, Saved!Exit,
   Saved!Step, Saved!databases, Saved!history
<1>1. SavedTypeOK'
  <2>1. DataOK'
    BY SavedContents DEF SavedTypeOK, DataOK
  <2>2. ControlOK'
    BY DEF SavedTypeOK, ControlOK
  <2>3. CountersOK'
    BY Counters DEF SavedTypeOK
  <2> QED BY <2>1, <2>2, <2>3 DEF SavedTypeOK
<1>2. SavedCopyInv'
  BY SavedContents DEF SavedTypeOK, DataOK, ControlOK, SavedCopyInv
<1>3. SavedStepInv'
  BY DEF SavedTypeOK, DataOK, ControlOK, SavedStepInv
<1>4. ArchiveInv'
  BY DEF SavedTypeOK, DataOK, ControlOK, SavedStepInv, ArchiveInv
<1>5. ReplaceInv'
  BY DEF SavedTypeOK, DataOK, ControlOK, SavedStepInv, ReplaceInv
<1>6. RenameInv'
  BY DEF SavedTypeOK, DataOK, ControlOK, SavedStepInv, RenameInv
<1>7. SavedExitInv'
  BY DEF SavedTypeOK, DataOK, ControlOK, SavedStepInv, ReplaceInv, RenameInv, SavedExitInv
<1> QED
  BY <1>1, <1>2, <1>3, <1>4, <1>5, <1>6, <1>7

LEMMA CopyDirStep ==
  ASSUME DataAssumption, SavedInv, Saved!copy_dir
  PROVE  SavedInv'
<1> USE DEF SavedInv, Saved!copy_dir, Saved!Goto, Saved!Copies, Saved!Step, Saved!Copied,
   Saved!databases
<1>1. SavedTypeOK'
  <2>1. DataOK'
    BY SavedContents DEF SavedTypeOK, DataOK
  <2>2. ControlOK'
    BY DEF SavedTypeOK, ControlOK
  <2>3. CountersOK'
    BY Counters DEF SavedTypeOK
  <2> QED BY <2>1, <2>2, <2>3 DEF SavedTypeOK
<1>2. SavedCopyInv'
  BY CopyLands DEF SavedTypeOK, DataOK, SavedCopyInv
<1>3. SavedStepInv'
  BY DEF SavedTypeOK, DataOK, ControlOK, SavedStepInv
<1>4. ArchiveInv'
  BY CopyLands DEF SavedTypeOK, DataOK, SavedStepInv, ArchiveInv
<1>5. ReplaceInv'
  BY CopyLands DEF SavedTypeOK, DataOK, SavedStepInv, ReplaceInv
<1>6. RenameInv'
  BY DEF SavedTypeOK, DataOK, ControlOK, SavedStepInv, RenameInv
<1>7. SavedExitInv'
  BY DEF SavedTypeOK, DataOK, ControlOK, SavedStepInv, ReplaceInv, RenameInv, SavedExitInv
<1> QED
  BY <1>1, <1>2, <1>3, <1>4, <1>5, <1>6, <1>7

LEMMA CopyDirFailsStep ==
  ASSUME DataAssumption, SavedInv, Saved!copy_dir_fails
  PROVE  SavedInv'
<1> USE DEF SavedInv, Saved!copy_dir_fails, Saved!Refuse, Saved!Exit, Saved!Step,
   Saved!Copied, Saved!databases, Saved!history
<1>1. SavedTypeOK'
  <2>1. DataOK'
    BY SavedContents DEF SavedTypeOK, DataOK
  <2>2. ControlOK'
    BY DEF SavedTypeOK, ControlOK
  <2>3. CountersOK'
    BY Counters DEF SavedTypeOK
  <2> QED BY <2>1, <2>2, <2>3 DEF SavedTypeOK
<1>2. SavedCopyInv'
  BY ZenonT(60), CopyLands, SavedContents DEF SavedCopyInv
<1>3. SavedStepInv'
  BY DEF SavedTypeOK, DataOK, ControlOK, SavedStepInv
<1>4. ArchiveInv'
  BY DEF SavedTypeOK, DataOK, ControlOK, SavedStepInv, ArchiveInv
<1>5. ReplaceInv'
  BY DEF SavedTypeOK, DataOK, ControlOK, SavedStepInv, ReplaceInv
<1>6. RenameInv'
  BY DEF SavedTypeOK, DataOK, ControlOK, SavedStepInv, RenameInv
<1>7. SavedExitInv'
  BY DEF SavedTypeOK, DataOK, ControlOK, SavedStepInv, ReplaceInv, RenameInv, SavedExitInv
<1> QED
  BY <1>1, <1>2, <1>3, <1>4, <1>5, <1>6, <1>7

LEMMA TarStep ==
  ASSUME DataAssumption, SavedInv, Saved!Tar
  PROVE  SavedInv'
<1> USE DEF SavedInv, Saved!Tar, Saved!Goto, Saved!Raise, Saved!Exit, Saved!Copies,
   Saved!Whole, Saved!Cut, Saved!databases, Saved!history
<1>1. SavedTypeOK'
  <2>1. DataOK'
    <3>1. Saved!Copies \in Seq(Content) /\ Saved!Copies # <<>>
      BY DEF SavedTypeOK, ControlOK, SavedCopyInv, ArchiveInv, Saved!NoCopy
    <3>2. Head(Saved!Copies) \in Content
      BY <3>1
    <3>3. backup' \in {Saved!Whole(Head(Saved!Copies)), Saved!Cut}
      OBVIOUS
    <3>4. backup' \in [content : Content, whole : BOOLEAN]
      BY <3>2, <3>3, FilesAreTyped
    <3> QED BY <3>4 DEF SavedTypeOK, DataOK
  <2>2. ControlOK'
    BY DEF SavedTypeOK, ControlOK
  <2>3. CountersOK'
    BY Counters DEF SavedTypeOK
  <2> QED BY <2>1, <2>2, <2>3 DEF SavedTypeOK
<1>2. SavedCopyInv'
  BY SavedContents DEF SavedTypeOK, DataOK, ControlOK, SavedCopyInv
<1>3. SavedStepInv'
  BY DEF SavedTypeOK, DataOK, ControlOK, SavedStepInv
<1>4. ArchiveInv'
  BY DEF SavedTypeOK, DataOK, ControlOK, SavedStepInv, ArchiveInv
<1>5. ReplaceInv'
  BY DEF SavedTypeOK, DataOK, ControlOK, SavedStepInv, ReplaceInv
<1>6. RenameInv'
  BY DEF SavedTypeOK, DataOK, ControlOK, SavedStepInv, RenameInv
<1>7. SavedExitInv'
  BY DEF SavedTypeOK, DataOK, ControlOK, SavedStepInv, ReplaceInv, RenameInv, SavedExitInv
<1> QED
  BY <1>1, <1>2, <1>3, <1>4, <1>5, <1>6, <1>7

LEMMA RmtreeStep ==
  ASSUME DataAssumption, SavedInv, Saved!rmtree
  PROVE  SavedInv'
<1> USE DEF SavedInv, Saved!rmtree, Saved!Goto, Saved!Raise, Saved!Exit, Saved!databases,
   Saved!history
<1>1. SavedTypeOK'
  <2>1. DataOK'
    BY SavedContents DEF SavedTypeOK, DataOK
  <2>2. ControlOK'
    BY DEF SavedTypeOK, ControlOK
  <2>3. CountersOK'
    BY Counters DEF SavedTypeOK
  <2> QED BY <2>1, <2>2, <2>3 DEF SavedTypeOK
<1>2. SavedCopyInv'
  BY SavedContents DEF SavedTypeOK, DataOK, ControlOK, SavedCopyInv
<1>3. SavedStepInv'
  BY DEF SavedTypeOK, DataOK, ControlOK, SavedStepInv
<1>4. ArchiveInv'
  BY DEF SavedTypeOK, DataOK, ControlOK, SavedStepInv, ArchiveInv
<1>5. ReplaceInv'
  <2>1. /\ UNCHANGED <<tool, verb, temporary, kept>> /\ saved_pc' \in {"extract", "idle"}
        /\ saved_pc' = "extract" => copies' = copies
        /\ ReplaceInv /\ saved_pc = "rmtree"
    OBVIOUS
  <2> QED BY <2>1 DEF ReplaceInv, Saved!Copies
<1>6. RenameInv'
  BY DEF SavedTypeOK, DataOK, ControlOK, SavedStepInv, RenameInv
<1>7. SavedExitInv'
  BY DEF SavedTypeOK, DataOK, ControlOK, SavedStepInv, ReplaceInv, RenameInv, SavedExitInv
<1> QED
  BY <1>1, <1>2, <1>3, <1>4, <1>5, <1>6, <1>7

LEMMA ExtractallStep ==
  ASSUME DataAssumption, SavedInv, Saved!extractall
  PROVE  SavedInv'
<1> USE DEF SavedInv, Saved!extractall, Saved!Goto, Saved!Raise, Saved!Exit, Saved!Refuse,
   Saved!Step, Saved!databases, Saved!history
<1>1. SavedTypeOK'
  <2>1. DataOK'
    BY SavedContents DEF SavedTypeOK, DataOK
  <2>2. ControlOK'
    BY DEF SavedTypeOK, ControlOK
  <2>3. CountersOK'
    BY Counters DEF SavedTypeOK
  <2> QED BY <2>1, <2>2, <2>3 DEF SavedTypeOK
<1>2. SavedCopyInv'
  BY SavedContents DEF SavedTypeOK, DataOK, ControlOK, SavedCopyInv
<1>3. SavedStepInv'
  BY DEF SavedTypeOK, DataOK, ControlOK, SavedStepInv
<1>4. ArchiveInv'
  BY DEF SavedTypeOK, DataOK, ControlOK, SavedStepInv, ArchiveInv
<1>5. ReplaceInv'
  BY DEF SavedTypeOK, DataOK, ControlOK, SavedStepInv, ReplaceInv
<1>6. RenameInv'
  BY DEF SavedTypeOK, DataOK, ControlOK, SavedStepInv, RenameInv
<1>7. SavedExitInv'
  BY DEF SavedTypeOK, DataOK, ControlOK, SavedStepInv, ReplaceInv, RenameInv, SavedExitInv
<1> QED
  BY <1>1, <1>2, <1>3, <1>4, <1>5, <1>6, <1>7

LEMMA CleanupStep ==
  ASSUME DataAssumption, SavedInv, Saved!cleanup
  PROVE  SavedInv'
<1> USE DEF SavedInv, Saved!cleanup, Saved!Copies, Saved!databases
<1>1. SavedTypeOK'
  <2>1. DataOK'
    <3>1. verb = "backup" => Saved!Copies \in Seq(Content) /\ Saved!Copies # <<>>
      BY DEF SavedTypeOK, ControlOK, SavedCopyInv, ArchiveInv, Saved!NoCopy
    <3>2. taken' \in Content \cup {Saved!Unknown}
      BY <3>1, LastIsIn DEF SavedTypeOK, DataOK
    <3> QED BY <3>2 DEF SavedTypeOK, DataOK
  <2>2. ControlOK'
    BY DEF SavedTypeOK, ControlOK
  <2>3. CountersOK'
    BY Counters DEF SavedTypeOK
  <2> QED BY <2>1, <2>2, <2>3 DEF SavedTypeOK
<1>2. SavedCopyInv'
  BY SavedContents DEF SavedTypeOK, DataOK, ControlOK, SavedCopyInv
<1>3. SavedStepInv'
  BY DEF SavedTypeOK, DataOK, ControlOK, SavedStepInv
<1>4. ArchiveInv'
  <2>1. saved_pc' = "idle" /\ UNCHANGED <<backup, stale>> /\ ArchiveInv /\ saved_pc = "cleanup"
    OBVIOUS
  <2>2. CASE verb = "restore"
    BY <2>1, <2>2 DEF ArchiveInv
  <2>3. CASE verb = "backup"
    <3>1. Saved!Copies \in Seq(Content) /\ Saved!Copies # <<>>
      BY <2>1, <2>3 DEF SavedTypeOK, ControlOK, SavedCopyInv, ArchiveInv, Saved!NoCopy
    <3>2. /\ taken' = Saved!Last(Saved!Copies)
          /\ Len(Saved!Copies) = 1 => Saved!Last(Saved!Copies) = Head(Saved!Copies)
      BY <2>3, <3>1, LastIsIn
    <3> QED BY <2>1, <2>3, <3>2 DEF ArchiveInv, Saved!Whole
  <2> QED BY <2>2, <2>3 DEF SavedTypeOK, ControlOK
<1>5. ReplaceInv'
  BY DEF SavedTypeOK, DataOK, ControlOK, SavedStepInv, ReplaceInv
<1>6. RenameInv'
  BY DEF SavedTypeOK, DataOK, ControlOK, SavedStepInv, RenameInv
<1>7. SavedExitInv'
  BY DEF SavedTypeOK, DataOK, ControlOK, SavedStepInv, ReplaceInv, RenameInv, SavedExitInv
<1> QED
  BY <1>1, <1>2, <1>3, <1>4, <1>5, <1>6, <1>7

LEMMA SnapshotSaveStep ==
  ASSUME DataAssumption, SavedInv, Saved!snapshot_save
  PROVE  SavedInv'
<1> USE DEF SavedInv, Saved!snapshot_save, Saved!Goto, Saved!Raise, Saved!Refuse, Saved!Exit, Saved!Step,
   Saved!databases, Saved!history
<1>1. SavedTypeOK'
  <2>1. DataOK'
    BY SavedContents DEF SavedTypeOK, DataOK
  <2>2. ControlOK'
    BY DEF SavedTypeOK, ControlOK
  <2>3. CountersOK'
    BY Counters DEF SavedTypeOK
  <2> QED BY <2>1, <2>2, <2>3 DEF SavedTypeOK
<1>2. SavedCopyInv'
  <2>1. <<live>> \in Seq(Content)
    BY DEF SavedTypeOK, DataOK
  <2> QED BY <2>1, SavedContents DEF SavedCopyInv
<1>3. SavedStepInv'
  BY DEF SavedTypeOK, DataOK, ControlOK, SavedStepInv
<1>4. ArchiveInv'
  <2>1. <<live>> # <<>> /\ Len(<<live>>) = 1
    OBVIOUS
  <2>2. saved_pc' = "tar" => Saved!Copies' = <<live>>
    <3> SUFFICES ASSUME saved_pc' = "tar"
                 PROVE  copies'[temporary'] = <<live>>
      BY DEF Saved!Copies
    <3>1. copies' = [copies EXCEPT !["own"] = <<live>>] /\ temporary' = "own"
      BY DEF SavedStepInv
    <3> QED BY <3>1 DEF SavedCopyInv
  <2>3. /\ UNCHANGED <<tool, backup, verb, taken, stale>> /\ tool = "etcd" /\ verb = "backup"
        /\ saved_pc = "start" /\ saved_pc' \in {"tar", "idle"} /\ ArchiveInv
    OBVIOUS
  <2> HIDE DEF Saved!Copies
  <2> QED BY <2>1, <2>2, <2>3 DEF ArchiveInv, Saved!NoCopy
<1>5. ReplaceInv'
  BY DEF SavedTypeOK, DataOK, ControlOK, SavedStepInv, ReplaceInv
<1>6. RenameInv'
  BY DEF SavedTypeOK, DataOK, ControlOK, SavedStepInv, RenameInv
<1>7. SavedExitInv'
  BY DEF SavedTypeOK, DataOK, ControlOK, SavedStepInv, ReplaceInv, RenameInv, SavedExitInv
<1> QED
  BY <1>1, <1>2, <1>3, <1>4, <1>5, <1>6, <1>7

LEMMA EtcdRestoreStep ==
  ASSUME DataAssumption, SavedInv, Saved!etcd_restore
  PROVE  SavedInv'
<1> USE DEF SavedInv, Saved!etcd_restore, Saved!Goto, Saved!Step, Saved!databases,
   Saved!history
<1>1. SavedTypeOK'
  <2>1. DataOK'
    BY SavedContents DEF SavedTypeOK, DataOK
  <2>2. ControlOK'
    BY DEF SavedTypeOK, ControlOK
  <2>3. CountersOK'
    BY Counters DEF SavedTypeOK
  <2> QED BY <2>1, <2>2, <2>3 DEF SavedTypeOK
<1>2. SavedCopyInv'
  BY SavedContents DEF SavedTypeOK, DataOK, ControlOK, SavedCopyInv
<1>3. SavedStepInv'
  BY DEF SavedTypeOK, DataOK, ControlOK, SavedStepInv
<1>4. ArchiveInv'
  BY DEF SavedTypeOK, DataOK, ControlOK, SavedStepInv, ArchiveInv
<1>5. ReplaceInv'
  BY DEF SavedTypeOK, DataOK, ControlOK, SavedStepInv, ReplaceInv
<1>6. RenameInv'
  BY DEF SavedTypeOK, DataOK, ControlOK, SavedStepInv, RenameInv
<1>7. SavedExitInv'
  BY DEF SavedTypeOK, DataOK, ControlOK, SavedStepInv, ReplaceInv, RenameInv, SavedExitInv
<1> QED
  BY <1>1, <1>2, <1>3, <1>4, <1>5, <1>6, <1>7

LEMMA SnapshotRestoreStep ==
  ASSUME DataAssumption, SavedInv, Saved!snapshot_restore
  PROVE  SavedInv'
<1> USE DEF SavedInv, Saved!snapshot_restore, Saved!Goto, Saved!Raise, Saved!Exit,
   Saved!Refuse, Saved!Step, Saved!databases, Saved!history
<1>1. SavedTypeOK'
  <2>1. DataOK'
    BY SavedContents DEF SavedTypeOK, DataOK
  <2>2. ControlOK'
    BY DEF SavedTypeOK, ControlOK
  <2>3. CountersOK'
    BY Counters DEF SavedTypeOK
  <2> QED BY <2>1, <2>2, <2>3 DEF SavedTypeOK
<1>2. SavedCopyInv'
  BY SavedContents DEF SavedTypeOK, DataOK, ControlOK, SavedCopyInv
<1>3. SavedStepInv'
  BY DEF SavedTypeOK, DataOK, ControlOK, SavedStepInv
<1>4. ArchiveInv'
  BY DEF SavedTypeOK, DataOK, ControlOK, SavedStepInv, ArchiveInv
<1>5. ReplaceInv'
  BY DEF SavedTypeOK, DataOK, ControlOK, SavedStepInv, ReplaceInv
<1>6. RenameInv'
  BY DEF SavedTypeOK, DataOK, ControlOK, SavedStepInv, RenameInv
<1>7. SavedExitInv'
  BY DEF SavedTypeOK, DataOK, ControlOK, SavedStepInv, ReplaceInv, RenameInv, SavedExitInv
<1> QED
  BY <1>1, <1>2, <1>3, <1>4, <1>5, <1>6, <1>7

LEMMA WriteNodesStep ==
  ASSUME DataAssumption, SavedInv, Saved!write_file("nodes", "initial-nodes", "state")
  PROVE  SavedInv'
<1> USE DEF SavedInv, Saved!write_file, Saved!Goto, Saved!Raise, Saved!Exit, Saved!Step,
   Saved!databases, Saved!history
<1>1. SavedTypeOK'
  <2>1. DataOK'
    BY SavedContents DEF SavedTypeOK, DataOK
  <2>2. ControlOK'
    BY DEF SavedTypeOK, ControlOK
  <2>3. CountersOK'
    BY Counters DEF SavedTypeOK
  <2> QED BY <2>1, <2>2, <2>3 DEF SavedTypeOK
<1>2. SavedCopyInv'
  BY SavedContents DEF SavedTypeOK, DataOK, ControlOK, SavedCopyInv
<1>3. SavedStepInv'
  BY DEF SavedTypeOK, DataOK, ControlOK, SavedStepInv
<1>4. ArchiveInv'
  BY DEF SavedTypeOK, DataOK, ControlOK, SavedStepInv, ArchiveInv
<1>5. ReplaceInv'
  BY DEF SavedTypeOK, DataOK, ControlOK, SavedStepInv, ReplaceInv
<1>6. RenameInv'
  BY DEF SavedTypeOK, DataOK, ControlOK, SavedStepInv, RenameInv
<1>7. SavedExitInv'
  BY DEF SavedTypeOK, DataOK, ControlOK, SavedStepInv, ReplaceInv, RenameInv, SavedExitInv
<1> QED
  BY <1>1, <1>2, <1>3, <1>4, <1>5, <1>6, <1>7

LEMMA WriteStateStep ==
  ASSUME DataAssumption, SavedInv, Saved!write_file("state", "initial-state", "cleanup")
  PROVE  SavedInv'
<1> USE DEF SavedInv, Saved!write_file, Saved!Goto, Saved!Raise, Saved!Exit, Saved!Step,
   Saved!databases, Saved!history
<1>1. SavedTypeOK'
  <2>1. DataOK'
    BY SavedContents DEF SavedTypeOK, DataOK
  <2>2. ControlOK'
    BY DEF SavedTypeOK, ControlOK
  <2>3. CountersOK'
    BY Counters DEF SavedTypeOK
  <2> QED BY <2>1, <2>2, <2>3 DEF SavedTypeOK
<1>2. SavedCopyInv'
  BY SavedContents DEF SavedTypeOK, DataOK, ControlOK, SavedCopyInv
<1>3. SavedStepInv'
  BY DEF SavedTypeOK, DataOK, ControlOK, SavedStepInv
<1>4. ArchiveInv'
  BY DEF SavedTypeOK, DataOK, ControlOK, SavedStepInv, ArchiveInv
<1>5. ReplaceInv'
  BY DEF SavedTypeOK, DataOK, ControlOK, SavedStepInv, ReplaceInv
<1>6. RenameInv'
  BY DEF SavedTypeOK, DataOK, ControlOK, SavedStepInv, RenameInv
<1>7. SavedExitInv'
  BY DEF SavedTypeOK, DataOK, ControlOK, SavedStepInv, ReplaceInv, RenameInv, SavedExitInv
<1> QED
  BY <1>1, <1>2, <1>3, <1>4, <1>5, <1>6, <1>7

LEMMA DumpDatabaseStep ==
  ASSUME DataAssumption, SavedInv, Saved!dump_database
  PROVE  SavedInv'
<1> USE DEF SavedInv, Saved!dump_database, Saved!Goto, Saved!Step, Saved!Cut, Saved!databases
<1>1. SavedTypeOK'
  <2>1. DataOK'
    BY SavedContents DEF SavedTypeOK, DataOK
  <2>2. ControlOK'
    BY DEF SavedTypeOK, ControlOK
  <2>3. CountersOK'
    BY Counters DEF SavedTypeOK
  <2> QED BY <2>1, <2>2, <2>3 DEF SavedTypeOK
<1>2. SavedCopyInv'
  BY SavedContents DEF SavedTypeOK, DataOK, ControlOK, SavedCopyInv
<1>3. SavedStepInv'
  BY DEF SavedTypeOK, DataOK, ControlOK, SavedStepInv
<1>4. ArchiveInv'
  BY DEF SavedTypeOK, DataOK, ControlOK, SavedStepInv, ArchiveInv
<1>5. ReplaceInv'
  BY DEF SavedTypeOK, DataOK, ControlOK, SavedStepInv, ReplaceInv
<1>6. RenameInv'
  BY DEF SavedTypeOK, DataOK, ControlOK, SavedStepInv, RenameInv
<1>7. SavedExitInv'
  BY DEF SavedTypeOK, DataOK, ControlOK, SavedStepInv, ReplaceInv, RenameInv, SavedExitInv
<1> QED
  BY <1>1, <1>2, <1>3, <1>4, <1>5, <1>6, <1>7

LEMMA DumpStep ==
  ASSUME DataAssumption, SavedInv, Saved!dump
  PROVE  SavedInv'
<1> USE DEF SavedInv, Saved!dump, Saved!Raise, Saved!Exit, Saved!Refuse, Saved!Succeed,
   Saved!Step, Saved!Whole, Saved!databases
<1>1. SavedTypeOK'
  <2>1. DataOK'
    <3>1. backup' \in {backup, Saved!Whole(live)} /\ backup \in [content : Content, whole : BOOLEAN]
      BY DEF SavedTypeOK, DataOK
    <3>3. backup' \in [content : Content, whole : BOOLEAN]
      BY <3>1, FilesAreTyped DEF SavedTypeOK, DataOK
    <3>2. taken' \in Content \cup {Saved!Unknown}
      BY DEF SavedTypeOK, DataOK
    <3> QED BY <3>2, <3>3 DEF SavedTypeOK, DataOK
  <2>2. ControlOK'
    BY DEF SavedTypeOK, ControlOK
  <2>3. CountersOK'
    BY Counters DEF SavedTypeOK
  <2> QED BY <2>1, <2>2, <2>3 DEF SavedTypeOK
<1>2. SavedCopyInv'
  BY SavedContents DEF SavedTypeOK, DataOK, ControlOK, SavedCopyInv
<1>3. SavedStepInv'
  BY DEF SavedTypeOK, DataOK, ControlOK, SavedStepInv
<1>4. ArchiveInv'
  BY DEF SavedTypeOK, DataOK, ControlOK, SavedStepInv, ArchiveInv
<1>5. ReplaceInv'
  BY DEF SavedTypeOK, DataOK, ControlOK, SavedStepInv, ReplaceInv
<1>6. RenameInv'
  BY DEF SavedTypeOK, DataOK, ControlOK, SavedStepInv, RenameInv
<1>7. SavedExitInv'
  BY DEF SavedTypeOK, DataOK, ControlOK, SavedStepInv, ReplaceInv, RenameInv, SavedExitInv
<1> QED
  BY <1>1, <1>2, <1>3, <1>4, <1>5, <1>6, <1>7

LEMMA LookupDatabaseStep ==
  ASSUME DataAssumption, SavedInv, Saved!lookup_database
  PROVE  SavedInv'
<1> USE DEF SavedInv, Saved!lookup_database, Saved!Step, Saved!Continue, Saved!CommandFails,
   Saved!Unharmed, Saved!databases, Saved!history
<1>1. SavedTypeOK'
  <2>1. DataOK'
    BY SavedContents DEF SavedTypeOK, DataOK
  <2>2. ControlOK'
    BY DEF SavedTypeOK, ControlOK
  <2>3. CountersOK'
    BY Counters DEF SavedTypeOK
  <2> QED BY <2>1, <2>2, <2>3 DEF SavedTypeOK
<1>2. SavedCopyInv'
  BY SavedContents DEF SavedTypeOK, DataOK, ControlOK, SavedCopyInv
<1>3. SavedStepInv'
  BY DEF SavedTypeOK, DataOK, ControlOK, SavedStepInv
<1>4. ArchiveInv'
  BY DEF SavedTypeOK, DataOK, ControlOK, SavedStepInv, ArchiveInv
<1>5. ReplaceInv'
  BY DEF SavedTypeOK, DataOK, ControlOK, SavedStepInv, ReplaceInv
<1>6. RenameInv'
  BY DEF SavedTypeOK, DataOK, ControlOK, SavedStepInv, RenameInv
<1>7. SavedExitInv'
  BY DEF SavedTypeOK, DataOK, ControlOK, SavedStepInv, ReplaceInv, RenameInv, SavedExitInv
<1> QED
  BY <1>1, <1>2, <1>3, <1>4, <1>5, <1>6, <1>7

LEMMA LoadDataStep ==
  ASSUME DataAssumption, SavedInv, Saved!load_data
  PROVE  SavedInv'
<1> USE DEF SavedInv, Saved!load_data, Saved!Raise, Saved!Exit, Saved!Refuse, Saved!Step,
   Saved!Continue, Saved!CommandFails, Saved!Unharmed, Saved!AfterLoad, Saved!NoFile,
      Saved!history
<1>1. SavedTypeOK'
  <2>1. DataOK'
    BY SavedContents DEF SavedTypeOK, DataOK
  <2>2. ControlOK'
    BY DEF SavedTypeOK, ControlOK
  <2>3. CountersOK'
    BY Counters DEF SavedTypeOK
  <2> QED BY <2>1, <2>2, <2>3 DEF SavedTypeOK
<1>2. SavedCopyInv'
  BY SavedContents DEF SavedTypeOK, DataOK, ControlOK, SavedCopyInv
<1>3. SavedStepInv'
  BY DEF SavedTypeOK, DataOK, ControlOK, SavedStepInv
<1>4. ArchiveInv'
  BY DEF SavedTypeOK, DataOK, ControlOK, SavedStepInv, ArchiveInv
<1>5. ReplaceInv'
  BY DEF SavedTypeOK, DataOK, ControlOK, SavedStepInv, ReplaceInv
<1>6. RenameInv'
  BY DEF SavedTypeOK, DataOK, ControlOK, SavedStepInv, RenameInv
<1>7. SavedExitInv'
  BY DEF SavedTypeOK, DataOK, ControlOK, SavedStepInv, ReplaceInv, RenameInv, SavedExitInv
<1> QED
  BY <1>1, <1>2, <1>3, <1>4, <1>5, <1>6, <1>7

LEMMA RenameFromScratchStep ==
  ASSUME DataAssumption, SavedInv, Saved!rename_from_scratch
  PROVE  SavedInv'
<1> USE DEF SavedInv, Saved!rename_from_scratch, Saved!Succeed, Saved!Exit, Saved!Step,
   Saved!Continue, Saved!CommandFails, Saved!Unharmed, Saved!history
<1>1. SavedTypeOK'
  <2>1. DataOK'
    BY SavedContents DEF SavedTypeOK, DataOK
  <2>2. ControlOK'
    BY DEF SavedTypeOK, ControlOK
  <2>3. CountersOK'
    BY Counters DEF SavedTypeOK
  <2> QED BY <2>1, <2>2, <2>3 DEF SavedTypeOK
<1>2. SavedCopyInv'
  BY SavedContents DEF SavedTypeOK, DataOK, ControlOK, SavedCopyInv
<1>3. SavedStepInv'
  BY DEF SavedTypeOK, DataOK, ControlOK, SavedStepInv
<1>4. ArchiveInv'
  BY DEF SavedTypeOK, DataOK, ControlOK, SavedStepInv, ArchiveInv
<1>5. ReplaceInv'
  BY DEF SavedTypeOK, DataOK, ControlOK, SavedStepInv, ReplaceInv
<1>6. RenameInv'
  BY DEF SavedTypeOK, DataOK, ControlOK, SavedStepInv, RenameInv
<1>7. SavedExitInv'
  BY DEF SavedTypeOK, DataOK, ControlOK, SavedStepInv, ReplaceInv, RenameInv, SavedExitInv
<1> QED
  BY <1>1, <1>2, <1>3, <1>4, <1>5, <1>6, <1>7

LEMMA RenameIamStep ==
  ASSUME DataAssumption, SavedInv, Saved!rename_iam
  PROVE  SavedInv'
<1> USE DEF SavedInv, Saved!rename_iam, Saved!Step, Saved!Continue, Saved!CommandFails,
   Saved!Unharmed, Saved!history
<1>1. SavedTypeOK'
  <2>1. DataOK'
    BY SavedContents DEF SavedTypeOK, DataOK
  <2>2. ControlOK'
    BY DEF SavedTypeOK, ControlOK
  <2>3. CountersOK'
    BY Counters DEF SavedTypeOK
  <2> QED BY <2>1, <2>2, <2>3 DEF SavedTypeOK
<1>2. SavedCopyInv'
  BY SavedContents DEF SavedTypeOK, DataOK, ControlOK, SavedCopyInv
<1>3. SavedStepInv'
  BY DEF SavedTypeOK, DataOK, ControlOK, SavedStepInv
<1>4. ArchiveInv'
  BY DEF SavedTypeOK, DataOK, ControlOK, SavedStepInv, ArchiveInv
<1>5. ReplaceInv'
  BY DEF SavedTypeOK, DataOK, ControlOK, SavedStepInv, ReplaceInv
<1>6. RenameInv'
  BY DEF SavedTypeOK, DataOK, ControlOK, SavedStepInv, RenameInv
<1>7. SavedExitInv'
  BY DEF SavedTypeOK, DataOK, ControlOK, SavedStepInv, ReplaceInv, RenameInv, SavedExitInv
<1> QED
  BY <1>1, <1>2, <1>3, <1>4, <1>5, <1>6, <1>7

LEMMA RenameIamNewStep ==
  ASSUME DataAssumption, SavedInv, Saved!rename_iam_new
  PROVE  SavedInv'
<1> USE DEF SavedInv, Saved!rename_iam_new, Saved!Step, Saved!Continue, Saved!CommandFails,
   Saved!Unharmed, Saved!history
<1>1. SavedTypeOK'
  <2>1. DataOK'
    BY SavedContents DEF SavedTypeOK, DataOK
  <2>2. ControlOK'
    BY DEF SavedTypeOK, ControlOK
  <2>3. CountersOK'
    BY Counters DEF SavedTypeOK
  <2> QED BY <2>1, <2>2, <2>3 DEF SavedTypeOK
<1>2. SavedCopyInv'
  BY SavedContents DEF SavedTypeOK, DataOK, ControlOK, SavedCopyInv
<1>3. SavedStepInv'
  BY DEF SavedTypeOK, DataOK, ControlOK, SavedStepInv
<1>4. ArchiveInv'
  BY DEF SavedTypeOK, DataOK, ControlOK, SavedStepInv, ArchiveInv
<1>5. ReplaceInv'
  BY DEF SavedTypeOK, DataOK, ControlOK, SavedStepInv, ReplaceInv
<1>6. RenameInv'
  <2>1. CASE live' = fresh_database /\ saved_pc' = "drop iam_old"
    BY <2>1 DEF RenameInv
  <2>2. CASE Saved!CommandFails("rename iam_old") /\ UNCHANGED <<live, fresh_database>>
    <3>1. failures' > 0
      BY <2>2, FailedGrows DEF SavedTypeOK
    <3>2. saved_pc' = "rename iam_old" /\ UNCHANGED <<live, old_database, kept>>
      BY <2>2
    <3>3. RenameInv /\ saved_pc = "rename iam_new"
      OBVIOUS
    <3> QED BY <3>1, <3>2, <3>3 DEF RenameInv
  <2> QED BY <2>1, <2>2
<1>7. SavedExitInv'
  BY DEF SavedTypeOK, DataOK, ControlOK, SavedStepInv, ReplaceInv, RenameInv, SavedExitInv
<1> QED
  BY <1>1, <1>2, <1>3, <1>4, <1>5, <1>6, <1>7

LEMMA RenameIamOldStep ==
  ASSUME DataAssumption, SavedInv, Saved!rename_iam_old
  PROVE  SavedInv'
<1> USE DEF SavedInv, Saved!rename_iam_old, Saved!Step, Saved!Continue, Saved!CommandFails,
   Saved!Unharmed, Saved!history
<1>1. SavedTypeOK'
  <2>1. DataOK'
    BY SavedContents DEF SavedTypeOK, DataOK
  <2>2. ControlOK'
    BY DEF SavedTypeOK, ControlOK
  <2>3. CountersOK'
    BY Counters DEF SavedTypeOK
  <2> QED BY <2>1, <2>2, <2>3 DEF SavedTypeOK
<1>2. SavedCopyInv'
  BY SavedContents DEF SavedTypeOK, DataOK, ControlOK, SavedCopyInv
<1>3. SavedStepInv'
  BY DEF SavedTypeOK, DataOK, ControlOK, SavedStepInv
<1>4. ArchiveInv'
  BY DEF SavedTypeOK, DataOK, ControlOK, SavedStepInv, ArchiveInv
<1>5. ReplaceInv'
  BY DEF SavedTypeOK, DataOK, ControlOK, SavedStepInv, ReplaceInv
<1>6. RenameInv'
  <2>1. /\ saved_pc' = "drop iam_new" /\ UNCHANGED <<tool, verb, kept>>
        /\ RenameInv /\ saved_pc = "rename iam_old" /\ tool = "iam"
    OBVIOUS
  <2>2. CASE live' = old_database
    BY <2>1, <2>2 DEF RenameInv
  <2>3. CASE failures' = failures + 1 /\ UNCHANGED <<live, old_database>>
    <3>1. failures > 0 => failures' > 1
      BY <2>3, FailedGrows DEF SavedTypeOK
    <3> QED BY <2>1, <2>3, <3>1 DEF RenameInv
  <2> QED BY <2>2, <2>3
<1>7. SavedExitInv'
  BY DEF SavedTypeOK, DataOK, ControlOK, SavedStepInv, ReplaceInv, RenameInv, SavedExitInv
<1> QED
  BY <1>1, <1>2, <1>3, <1>4, <1>5, <1>6, <1>7

LEMMA DropIamNewStep ==
  ASSUME DataAssumption, SavedInv, Saved!drop_iam_new
  PROVE  SavedInv'
<1> USE DEF SavedInv, Saved!drop_iam_new, Saved!Refuse, Saved!Exit, Saved!Step, Saved!history
<1>1. SavedTypeOK'
  <2>1. DataOK'
    BY SavedContents DEF SavedTypeOK, DataOK
  <2>2. ControlOK'
    BY DEF SavedTypeOK, ControlOK
  <2>3. CountersOK'
    BY Counters DEF SavedTypeOK
  <2> QED BY <2>1, <2>2, <2>3 DEF SavedTypeOK
<1>2. SavedCopyInv'
  BY SavedContents DEF SavedTypeOK, DataOK, ControlOK, SavedCopyInv
<1>3. SavedStepInv'
  BY DEF SavedTypeOK, DataOK, ControlOK, SavedStepInv
<1>4. ArchiveInv'
  BY DEF SavedTypeOK, DataOK, ControlOK, SavedStepInv, ArchiveInv
<1>5. ReplaceInv'
  BY DEF SavedTypeOK, DataOK, ControlOK, SavedStepInv, ReplaceInv
<1>6. RenameInv'
  BY DEF SavedTypeOK, DataOK, ControlOK, SavedStepInv, RenameInv
<1>7. SavedExitInv'
  BY DEF SavedTypeOK, DataOK, ControlOK, SavedStepInv, ReplaceInv, RenameInv, SavedExitInv
<1> QED
  BY <1>1, <1>2, <1>3, <1>4, <1>5, <1>6, <1>7

LEMMA DropIamOldStep ==
  ASSUME DataAssumption, SavedInv, Saved!drop_iam_old
  PROVE  SavedInv'
<1> USE DEF SavedInv, Saved!drop_iam_old, Saved!Succeed, Saved!Exit, Saved!Step, Saved!history
<1>1. SavedTypeOK'
  <2>1. DataOK'
    BY SavedContents DEF SavedTypeOK, DataOK
  <2>2. ControlOK'
    BY DEF SavedTypeOK, ControlOK
  <2>3. CountersOK'
    BY Counters DEF SavedTypeOK
  <2> QED BY <2>1, <2>2, <2>3 DEF SavedTypeOK
<1>2. SavedCopyInv'
  BY SavedContents DEF SavedTypeOK, DataOK, ControlOK, SavedCopyInv
<1>3. SavedStepInv'
  BY DEF SavedTypeOK, DataOK, ControlOK, SavedStepInv
<1>4. ArchiveInv'
  BY DEF SavedTypeOK, DataOK, ControlOK, SavedStepInv, ArchiveInv
<1>5. ReplaceInv'
  BY DEF SavedTypeOK, DataOK, ControlOK, SavedStepInv, ReplaceInv
<1>6. RenameInv'
  BY DEF SavedTypeOK, DataOK, ControlOK, SavedStepInv, RenameInv
<1>7. SavedExitInv'
  BY DEF SavedTypeOK, DataOK, ControlOK, SavedStepInv, ReplaceInv, RenameInv, SavedExitInv
<1> QED
  BY <1>1, <1>2, <1>3, <1>4, <1>5, <1>6, <1>7

----------------------------------------------------------------------------
(* The inductive invariant holds in every reachable state. *)
LEMMA Invariance ==
  ASSUME DataAssumption
  PROVE  Saved!Spec => []SavedInv
<1>1. SavedInv /\ [Saved!Next]_(Saved!vars) => SavedInv'
  <2> SUFFICES ASSUME SavedInv, [Saved!Next]_(Saved!vars)
               PROVE  SavedInv'
    OBVIOUS
  <2>1. CASE UNCHANGED Saved!vars
    <3> USE <2>1 DEF Saved!vars, Saved!service, Saved!databases, Saved!history, SavedInv
    <3>1. SavedTypeOK'
      BY DEF SavedTypeOK, DataOK, ControlOK, CountersOK
    <3>2. ArchiveInv'
      BY ArchiveKept
    <3>3. SavedCopyInv' /\ SavedStepInv'
      BY DEF SavedCopyInv, SavedStepInv
    <3>4. ReplaceInv' /\ RenameInv' /\ SavedExitInv'
      BY DEF ReplaceInv, RenameInv, SavedExitInv, Saved!Copies
    <3> QED BY <3>1, <3>2, <3>3, <3>4
  <2>2. CASE \E v \in {"backup", "restore"}, d \in {"operator", "own"} : Saved!Begin(v, d)
    BY <2>2, BeginStep
  <2>3. CASE Saved!OtherPath \/ Saved!StartOrStop \/ Saved!Write \/ Saved!Kill
    BY <2>3, OtherPathStep, StartOrStopStep, WriteStep, KillStep
  <2>4. CASE \/ Saved!is_zookeeper_running \/ Saved!copy_dir \/ Saved!copy_dir_fails \/ Saved!Tar
             \/ Saved!rmtree \/ Saved!extractall \/ Saved!cleanup
    BY <2>4, IsZookeeperRunningStep, CopyDirStep, CopyDirFailsStep, TarStep, RmtreeStep,
       ExtractallStep, CleanupStep
  <2>5. CASE \/ Saved!snapshot_save \/ Saved!etcd_restore \/ Saved!snapshot_restore
             \/ Saved!write_file("nodes", "initial-nodes", "state")
             \/ Saved!write_file("state", "initial-state", "cleanup")
    BY <2>5, SnapshotSaveStep, EtcdRestoreStep, SnapshotRestoreStep, WriteNodesStep,
       WriteStateStep
  <2>6. CASE \/ Saved!dump_database \/ Saved!dump \/ Saved!lookup_database \/ Saved!load_data
             \/ Saved!rename_from_scratch \/ Saved!rename_iam \/ Saved!rename_iam_new
             \/ Saved!rename_iam_old \/ Saved!drop_iam_new \/ Saved!drop_iam_old
    BY <2>6, DumpDatabaseStep, DumpStep, LookupDatabaseStep, LoadDataStep,
       RenameFromScratchStep,
       RenameIamStep, RenameIamNewStep, RenameIamOldStep, DropIamNewStep, DropIamOldStep
  <2> QED
    BY <2>1, <2>2, <2>3, <2>4, <2>5, <2>6 DEF Saved!Next
<1> QED
  BY <1>1, SavedInitInv, PTL DEF Saved!Spec

(* A restore that reports success leaves the data of a backup that did,    *)
(* unless etcd was running or a copy of an earlier run was in the way;     *)
(* ZooKeeper's old data are kept until the new ones are in place, and      *)
(* those of the IAM are its users', or kept as iam_old, when a restore has *)
(* failed or was killed (dcos_zk_backup.py, dcos_etcdctl.py,               *)
(* iam-database-restore.py), whichever steps fail.                         *)
THEOREM RestoresAreTrue ==
  ASSUME DataAssumption
  PROVE  Saved!Spec => []Saved!RestoresDoWhatTheySay
<1>1. SavedInv => Saved!RestoresDoWhatTheySay
  <2> SUFFICES ASSUME SavedInv
               PROVE  Saved!RestoresDoWhatTheySay
    OBVIOUS
  <2>1. verb = "restore" /\ exit = "ok" =>
          /\ taken # Saved!Unknown /\ ~stale /\ ~(tool = "etcd" /\ serving) => live = taken
          /\ tool = "etcd" => state_files = {"initial-nodes", "initial-state"}
    BY DEF SavedInv, ArchiveInv, SavedExitInv
  <2>2. tool = "zk" /\ verb = "restore" /\ saved_pc \in {"rmtree", "extract"} =>
          kept \in Saved!ToSet(Saved!Copies)
    BY DEF SavedInv, ReplaceInv
  <2> QED BY <2>1, <2>2 DEF SavedInv, SavedExitInv, Saved!RestoresDoWhatTheySay
<1> QED
  BY <1>1, Invariance, PTL

-----------------------------------------------------------------------------
(* The calculations: GenCalc for any arguments given                       *)

CONSTANTS Given, SpartanResolvers, LongNames, ReservedIps
VARIABLES calc_config, calc_step, calc_invalid, calc_result
Calc == INSTANCE GenCalc WITH config <- calc_config, step <- calc_step,
                              invalid <- calc_invalid, result <- calc_result

LEMMA SameCount == \A S : Calc!Cardinality(S) = Cardinality(S)
  BY DEF Calc!Cardinality, Cardinality

\* An injective list has as many elements of a kind as places with one
LEMMA PlacesAndElements ==
  ASSUME NEW list, Calc!IsInjective(list), IsFiniteSet(DOMAIN list), NEW some
  PROVE  Cardinality({j \in DOMAIN list : list[j] \in some}) = Cardinality(Calc!Range(list) \cap some)
<1> DEFINE places == {j \in DOMAIN list : list[j] \in some}
           elements == Calc!Range(list) \cap some
           f == [j \in places |-> list[j]]
<1>1. IsFiniteSet(places)
  BY FS_Subset
<1>2. f \in Bijection(places, elements)
  BY DEF Bijection, Injection, Surjection, IsInjective, Calc!IsInjective, Calc!Range
<1>3. ExistsBijection(places, elements)
  BY <1>2 DEF ExistsBijection
<1> QED
  BY <1>1, <1>3, FS_Bijection

LEMMA SamePlaces ==
  ASSUME NEW list, NEW other, Calc!IsInjective(list), Calc!IsInjective(other),
         IsFiniteSet(DOMAIN list), DOMAIN other = DOMAIN list, Calc!Range(other) = Calc!Range(list),
         NEW i, NEW x
  PROVE  Calc!IsAt(other, i, x) <=> Calc!IsAt(list, i, x)
<1> DEFINE below == {y \in Calc!Range(list) : y < x}
           notAbove == {y \in Calc!Range(list) : y <= x}
<1>1. ASSUME NEW l \in {list, other}
      PROVE  /\ {j \in DOMAIN l : l[j] < x} = {j \in DOMAIN l : l[j] \in below}
             /\ {j \in DOMAIN l : l[j] <= x} = {j \in DOMAIN l : l[j] \in notAbove}
  BY DEF Calc!Range
<1>2. \A l \in {list, other} :
        /\ Cardinality({j \in DOMAIN l : l[j] < x}) = Cardinality(Calc!Range(list) \cap below)
        /\ Cardinality({j \in DOMAIN l : l[j] <= x}) = Cardinality(Calc!Range(list) \cap notAbove)
  <2> HIDE DEF below, notAbove
  <2> SUFFICES ASSUME NEW l \in {list, other}
               PROVE  /\ Cardinality({j \in DOMAIN l : l[j] < x}) = Cardinality(Calc!Range(list) \cap below)
                      /\ Cardinality({j \in DOMAIN l : l[j] <= x}) = Cardinality(Calc!Range(list) \cap notAbove)
    OBVIOUS
  <2>1. Calc!IsInjective(l) /\ IsFiniteSet(DOMAIN l) /\ Calc!Range(l) = Calc!Range(list)
    OBVIOUS
  <2>2. /\ Cardinality({j \in DOMAIN l : l[j] \in below}) = Cardinality(Calc!Range(l) \cap below)
        /\ Cardinality({j \in DOMAIN l : l[j] \in notAbove}) = Cardinality(Calc!Range(l) \cap notAbove)
    BY <2>1, PlacesAndElements
  <2> QED
    BY <1>1, <2>1, <2>2
<1> QED
  BY <1>2, SameCount DEF Calc!IsAt

\* A list without duplicates is as long as there are elements
LEMMA NoneTwice ==
  ASSUME NEW list, list \in Seq(Int), Calc!IsInjective(list)
  PROVE  Cardinality(Calc!Range(list)) = Len(list) /\ IsFiniteSet(Calc!Range(list))
<1> DEFINE all == Calc!Range(list)
           places == 1 .. Len(list)
<1>1. DOMAIN list = places /\ IsFiniteSet(places) /\ Cardinality(places) = Len(list) /\ Len(list) \in Nat
  BY FS_Interval
<1>2. list \in Surjection(places, all)
  BY <1>1 DEF Surjection, Calc!Range
<1>3. list \in Injection(places, all)
  BY <1>1, <1>2 DEF Injection, IsInjective, Calc!IsInjective, Surjection
<1> QED
  BY <1>1, <1>2, <1>3, FS_Surjection

\* However the list is written, the sorted one is the same
LEMMA OneSorted ==
  ASSUME NEW list, list \in Seq(Int), Calc!IsInjective(list),
         NEW p \in Calc!SetToSeqs(Calc!Range(list))
  PROVE  Calc!calculate_exhibitor_static_ensemble(p) = Calc!calculate_exhibitor_static_ensemble(list)
<1> DEFINE all == Calc!Range(list)
           places == 1 .. Len(list)
<1>1. DOMAIN list = places /\ IsFiniteSet(places) /\ Cardinality(places) = Len(list) /\ Len(list) \in Nat
  BY FS_Interval
<1>3. Cardinality(all) = Len(list) /\ IsFiniteSet(all)
  BY NoneTwice
<1>4. p \in [places -> all] /\ \A i, j \in places : i # j => p[i] # p[j]
  BY <1>3, SameCount DEF Calc!SetToSeqs
<1>5. p \in Injection(places, all)
  BY <1>4 DEF Injection, IsInjective
<1>6. p \in Surjection(places, all)
  BY <1>1, <1>3, <1>5, FS_Injection
<1>7. DOMAIN p = places /\ Calc!Range(p) = all /\ Calc!IsInjective(p)
  <2> HIDE DEF places, all
  <2>1. \A y \in all : \E i \in places : p[i] = y
    BY <1>6 DEF Surjection
  <2>2. Calc!Range(p) = all
    BY <1>4, <2>1 DEF Calc!Range
  <2> QED
    BY <1>4, <2>2 DEF Calc!IsInjective
<1>8. \A i, x : Calc!IsAt(p, i, x) <=> Calc!IsAt(list, i, x)
  BY <1>1, <1>7, SamePlaces
<1>9. \A i : (CHOOSE x \in Calc!Range(p) : Calc!IsAt(p, i, x)) = (CHOOSE x \in all : Calc!IsAt(list, i, x))
  BY <1>7, <1>8
<1> QED
  <2> DEFINE At(l, i) == CHOOSE x \in Calc!Range(l) : Calc!IsAt(l, i, x)
  <2>1. DOMAIN p = DOMAIN list
    BY <1>1, <1>7
  <2>2. \A i : At(p, i) = At(list, i)
    BY <1>9
  <2>3. [i \in DOMAIN p |-> At(p, i)] = [i \in DOMAIN list |-> At(list, i)]
    <3> HIDE DEF At
    <3> QED
      BY <2>1, <2>2
  <2> QED
    BY <2>3 DEF Calc!calculate_exhibitor_static_ensemble

\* What the validators of single arguments, and of several, leave
SinglesValid ==
    /\ Calc!validate_num_masters(Calc!num_masters)
    /\ Calc!validate_ip_list(calc_config.master_list)
    /\ Calc!validate_mesos_log_retention_mb(calc_config.mesos_log_retention_mb)
    /\ Calc!validate_dcos_overlay_network(calc_config.dcos_overlay_network)
    /\ Calc!validate_check_config(Calc!check_config)
    /\ Calc!validate_check_config(calc_config.custom_checks)
SeveralValid ==
    /\ Calc!validate_overlay_networks_not_overlap
    /\ Calc!validate_dcos_l4lb_enable_ipv6
    /\ Calc!validate_custom_checks(calc_config.custom_checks, Calc!check_config)

Calculated(n, mb) ==
    /\ calc_result.num_masters = n
    /\ calc_result.master_quorum = Calc!master_quorum(n)
    /\ calc_result.static_ensemble = Calc!calculate_exhibitor_static_ensemble(calc_config.master_list)
    /\ calc_result.retention_count = Calc!calculate_mesos_log_retention_count(mb)
    /\ calc_result.overlay_network = Calc!dcos_overlay_network_json
    /\ calc_result.checks
          = Calc!calculate_check_config_contents(Calc!check_config, calc_config.custom_checks)

CalcInv ==
    /\ calc_config \in Given
    /\ calc_step \in {"given", "single", "accepted", "rejected", "crashed", "calculated"}
    /\ calc_step = "single" => calc_invalid = Calc!FailedSingle
    /\ calc_step \in {"accepted", "calculated"} => SinglesValid /\ SeveralValid
    /\ calc_step = "calculated" =>
          \E n \in Calc!num_masters, mb \in calc_config.mesos_log_retention_mb : Calculated(n, mb)

LEMMA NoneFailed ==
  ASSUME Calc!FailedSingle = {}
  PROVE  SinglesValid
  BY DEF Calc!FailedSingle, SinglesValid

LEMMA NoneFailedTogether ==
  ASSUME Calc!FailedMulti = {}, calc_invalid = {}
  PROVE  SeveralValid
  BY DEF Calc!FailedMulti, SeveralValid

\* Merging checks of other names keeps those of both
Holds(f, g) == \A n \in DOMAIN f : n \in DOMAIN g /\ g[n] = f[n]
NodeOf(c) == IF c.node_checks = Calc!None
             THEN [checks |-> <<>>, prestart |-> <<<<>>>>, poststart |-> <<<<>>>>]
             ELSE c.node_checks
Order(list) == IF list = Calc!None THEN <<>> ELSE list[1]

LEMMA MergedHolds ==
  ASSUME NEW f, NEW g, DOMAIN f \cap DOMAIN g = {}
  PROVE  /\ Holds(f, Calc!merged_dict(f, g)) /\ Holds(g, Calc!merged_dict(f, g))
         /\ DOMAIN Calc!merged_dict(f, g) = DOMAIN f \cup DOMAIN g
  BY DEF Holds, Calc!merged_dict

LEMMA NodeFacts ==
  ASSUME NEW c, Calc!IsChecks(c), Calc!validate_check_config(c)
  PROVE  /\ Order(NodeOf(c).prestart) \in Seq(Calc!Range(Order(NodeOf(c).prestart)))
         /\ Order(NodeOf(c).poststart) \in Seq(Calc!Range(Order(NodeOf(c).poststart)))
         /\ DOMAIN NodeOf(c).checks = Calc!Range(Order(NodeOf(c).prestart))
                                       \cup Calc!Range(Order(NodeOf(c).poststart))
<1>1. CASE c.node_checks = Calc!None
  BY <1>1 DEF NodeOf, Order, Calc!Range, Calc!None
<1>2. CASE c.node_checks # Calc!None
  <2> DEFINE node == c.node_checks
  <2>1. /\ Calc!IsList(node.prestart) /\ Calc!IsList(node.poststart)
        /\ DOMAIN node.checks = Calc!ListOf(node.prestart) \cup Calc!ListOf(node.poststart)
    BY <1>2 DEF Calc!IsChecks, Calc!validate_check_config
  <2>2. ASSUME NEW l, Calc!IsList(l)
        PROVE  Order(l) \in Seq(Calc!Range(Order(l))) /\ Calc!ListOf(l) = Calc!Range(Order(l))
    BY <2>2 DEF Calc!IsList, Calc!ListOf, Order, Calc!Range, Calc!None
  <2>3. NodeOf(c) = node
    BY <1>2 DEF NodeOf
  <2> QED
    BY <2>1, <2>2, <2>3
<1> QED
  BY <1>1, <1>2

LEMMA ConcatRange ==
  ASSUME NEW s, NEW t, s \in Seq(Calc!Range(s)), t \in Seq(Calc!Range(t))
  PROVE  Calc!Range(s \o t) = Calc!Range(s) \cup Calc!Range(t)
<1> DEFINE e == Calc!Range(s) \cup Calc!Range(t)
<1>1. s \in Seq(e) /\ t \in Seq(e)
  <2>1. Calc!Range(s) \subseteq e /\ Calc!Range(t) \subseteq e
    OBVIOUS
  <2> HIDE DEF e
  <2> QED
    BY <2>1
<1> HIDE DEF e
<1>2. /\ Len(s \o t) = Len(s) + Len(t) /\ Len(s) \in Nat /\ Len(t) \in Nat
      /\ DOMAIN s = 1 .. Len(s) /\ DOMAIN t = 1 .. Len(t) /\ DOMAIN (s \o t) = 1 .. (Len(s) + Len(t))
      /\ \A i \in 1 .. Len(s) : (s \o t)[i] = s[i]
      /\ \A i \in 1 .. Len(t) : (s \o t)[Len(s) + i] = t[i]
  BY <1>1
<1>3. Calc!Range(s \o t) \subseteq Calc!Range(s) \cup Calc!Range(t)
  <2> SUFFICES ASSUME NEW i \in 1 .. (Len(s) + Len(t))
               PROVE  (s \o t)[i] \in Calc!Range(s) \cup Calc!Range(t)
    BY <1>2 DEF Calc!Range
  <2>1. CASE i <= Len(s)
    BY <1>2, <2>1 DEF Calc!Range
  <2>2. CASE ~(i <= Len(s))
    <3>1. i - Len(s) \in 1 .. Len(t) /\ i = Len(s) + (i - Len(s))
      BY <1>2, <2>2
    <3>2. (s \o t)[i] = t[i - Len(s)]
      BY <1>2, <3>1
    <3> QED
      BY <1>2, <3>1, <3>2 DEF Calc!Range
  <2> QED
    BY <2>1, <2>2
<1>4. Calc!Range(s) \cup Calc!Range(t) \subseteq Calc!Range(s \o t)
  <2>1. \A i \in 1 .. Len(s) : i \in 1 .. (Len(s) + Len(t))
    BY <1>2
  <2>2. \A i \in 1 .. Len(t) : Len(s) + i \in 1 .. (Len(s) + Len(t))
    BY <1>2
  <2> QED
    BY <1>2, <2>1, <2>2 DEF Calc!Range
<1> QED
  BY <1>3, <1>4

LEMMA ChecksStay ==
  ASSUME NEW a, NEW b, Calc!IsChecks(a), Calc!IsChecks(b),
         Calc!validate_check_config(a), Calc!validate_check_config(b), Calc!validate_custom_checks(a, b)
  PROVE  LET m == Calc!merged_check_config(a, b)
         IN  /\ Calc!validate_check_config(m)
             /\ \A c \in {a, b} : Holds(c.cluster_checks, m.cluster_checks)
                                  /\ Holds(NodeOf(c).checks, NodeOf(m).checks)
<1> DEFINE m == Calc!merged_check_config(a, b)
           checks == Calc!merged_dict(NodeOf(a).checks, NodeOf(b).checks)
           before == Order(NodeOf(a).prestart) \o Order(NodeOf(b).prestart)
           after == Order(NodeOf(a).poststart) \o Order(NodeOf(b).poststart)
           node == [checks |-> checks, prestart |-> <<before>>, poststart |-> <<after>>]
<1>1. m = [cluster_checks |-> Calc!merged_dict(a.cluster_checks, b.cluster_checks),
           node_checks |-> IF DOMAIN checks = {} THEN Calc!None ELSE node]
  BY DEF Calc!merged_check_config, NodeOf, Order
<1>2. /\ DOMAIN a.cluster_checks \cap DOMAIN b.cluster_checks = {}
      /\ DOMAIN NodeOf(a).checks \cap DOMAIN NodeOf(b).checks = {}
  BY DEF Calc!validate_custom_checks, NodeOf
<1> HIDE DEF m, node
<1>3. \A c \in {a, b} : Holds(c.cluster_checks, m.cluster_checks)
  BY <1>1, <1>2, MergedHolds
<1>4. \A c \in {a, b} : Holds(NodeOf(c).checks, checks)
  BY <1>2, MergedHolds
<1>5. DOMAIN checks = DOMAIN NodeOf(a).checks \cup DOMAIN NodeOf(b).checks
  BY <1>2, MergedHolds
<1>6. DOMAIN checks = Calc!Range(before) \cup Calc!Range(after)
  BY <1>5, NodeFacts, ConcatRange
<1> HIDE DEF checks, before, after
<1>7. node # Calc!None /\ node.checks = checks /\ node.prestart = <<before>> /\ node.poststart = <<after>>
  BY DEF node, Calc!None
<1>8. CASE DOMAIN checks = {}
  <2>1. m.node_checks = Calc!None
    BY <1>1, <1>8
  <2>2. \A c \in {a, b} : Holds(NodeOf(c).checks, NodeOf(m).checks)
    BY <1>4, <1>8 DEF Holds
  <2> QED
    BY <1>3, <2>1, <2>2 DEF Calc!validate_check_config, m
<1>9. CASE DOMAIN checks # {}
  <2>1. m.node_checks = node /\ NodeOf(m).checks = checks
    BY <1>1, <1>7, <1>9 DEF NodeOf
  <2>2. Calc!ListOf(<<before>>) = Calc!Range(before) /\ Calc!ListOf(<<after>>) = Calc!Range(after)
        /\ <<before>> # Calc!None
    BY DEF Calc!ListOf, Calc!None
  <2>3. Calc!validate_check_config(m)
    BY <1>6, <1>7, <2>1, <2>2 DEF Calc!validate_check_config
  <2> QED
    BY <1>3, <1>4, <2>1, <2>3 DEF m
<1> QED
  BY <1>8, <1>9

\* What the calculation of the overlays leaves as it was
LEMMA OverlayFacts ==
  ASSUME NEW dcos_net, NEW ipv6, Calc!IsNetwork(dcos_net), Calc!validate_dcos_overlay_network(dcos_net)
  PROVE  LET out == Calc!calculate_dcos_overlay_network_json(dcos_net, ipv6)
         IN  /\ DOMAIN out = DOMAIN dcos_net
             /\ \A key \in DOMAIN dcos_net : key # "overlays" => out[key] = dcos_net[key]
             /\ DOMAIN out.overlays = DOMAIN dcos_net.overlays /\ out.overlays # <<>>
             /\ \A i \in DOMAIN dcos_net.overlays :
                   out.overlays[i] = IF ipv6 = "false" /\ "subnet" \notin DOMAIN dcos_net.overlays[i]
                                     THEN Calc!merged_dict(dcos_net.overlays[i], [enabled |-> "false"])
                                     ELSE dcos_net.overlays[i]
<1> DEFINE out == Calc!calculate_dcos_overlay_network_json(dcos_net, ipv6)
           overlays == [i \in DOMAIN dcos_net.overlays |->
                          IF ipv6 = "false" /\ "subnet" \notin DOMAIN dcos_net.overlays[i]
                          THEN Calc!merged_dict(dcos_net.overlays[i], [enabled |-> "false"])
                          ELSE dcos_net.overlays[i]]
<1>1. "overlays" \in DOMAIN dcos_net /\ dcos_net.overlays # <<>> /\ dcos_net.overlays \in Seq(Calc!Range(dcos_net.overlays))
  BY DEF Calc!validate_dcos_overlay_network, Calc!IsNetwork
<1>2. out = [dcos_net EXCEPT !.overlays = overlays]
  BY DEF Calc!calculate_dcos_overlay_network_json
<1>3. DOMAIN overlays = DOMAIN dcos_net.overlays /\ DOMAIN dcos_net.overlays # {}
  BY <1>1
<1> HIDE DEF out, overlays
<1>4. /\ DOMAIN out = DOMAIN dcos_net /\ out.overlays = overlays
      /\ \A key \in DOMAIN dcos_net : key # "overlays" => out[key] = dcos_net[key]
  BY <1>1, <1>2 DEF Calc!IsNetwork
<1>5. overlays # <<>>
  BY <1>3
<1> QED
  BY <1>3, <1>4, <1>5 DEF out, overlays

\* Without IPv4 an overlay is only given the word that it is off
LEMMA SwitchedOff ==
  ASSUME NEW o
  PROVE  LET off == Calc!merged_dict(o, [enabled |-> "false"])
         IN  /\ DOMAIN off = DOMAIN o \cup {"enabled"} /\ off.enabled = "false"
             /\ \A key \in DOMAIN o : key # "enabled" => off[key] = o[key]
  BY DEF Calc!merged_dict

LEMMA NetworksStay ==
  ASSUME NEW dcos_net, NEW ipv6, Calc!IsNetwork(dcos_net), Calc!validate_dcos_overlay_network(dcos_net)
  PROVE  LET out == Calc!calculate_dcos_overlay_network_json(dcos_net, ipv6)
         IN  /\ Calc!validate_dcos_overlay_network(out)
             /\ \A i \in DOMAIN out.overlays :
                   /\ i \in DOMAIN dcos_net.overlays
                   /\ "subnet" \in DOMAIN out.overlays[i] =>
                         /\ "subnet" \in DOMAIN dcos_net.overlays[i]
                         /\ out.overlays[i].subnet = dcos_net.overlays[i].subnet
                   /\ (ipv6 = "false" /\ "subnet" \notin DOMAIN out.overlays[i]) =>
                         "enabled" \in DOMAIN out.overlays[i] /\ out.overlays[i].enabled = "false"
<1> DEFINE out == Calc!calculate_dcos_overlay_network_json(dcos_net, ipv6)
<1>1. /\ DOMAIN out = DOMAIN dcos_net
      /\ \A key \in DOMAIN dcos_net : key # "overlays" => out[key] = dcos_net[key]
      /\ DOMAIN out.overlays = DOMAIN dcos_net.overlays /\ out.overlays # <<>>
      /\ \A i \in DOMAIN dcos_net.overlays :
            out.overlays[i] = IF ipv6 = "false" /\ "subnet" \notin DOMAIN dcos_net.overlays[i]
                              THEN Calc!merged_dict(dcos_net.overlays[i], [enabled |-> "false"])
                              ELSE dcos_net.overlays[i]
  BY OverlayFacts
<1> HIDE DEF out
<1>2. ASSUME NEW i \in DOMAIN dcos_net.overlays
      PROVE  /\ DOMAIN dcos_net.overlays[i] \subseteq DOMAIN out.overlays[i]
             /\ DOMAIN out.overlays[i] \subseteq DOMAIN dcos_net.overlays[i] \cup {"enabled"}
             /\ \A key \in DOMAIN dcos_net.overlays[i] : key # "enabled" =>
                   out.overlays[i][key] = dcos_net.overlays[i][key]
             /\ "enabled" \in DOMAIN out.overlays[i] =>
                   \/ out.overlays[i].enabled = "false"
                   \/ /\ "enabled" \in DOMAIN dcos_net.overlays[i]
                      /\ out.overlays[i].enabled = dcos_net.overlays[i].enabled
             /\ (ipv6 = "false" /\ "subnet" \notin DOMAIN out.overlays[i]) =>
                   "enabled" \in DOMAIN out.overlays[i] /\ out.overlays[i].enabled = "false"
  <2> DEFINE o == dcos_net.overlays[i]
             u == out.overlays[i]
  <2>1. CASE ipv6 = "false" /\ "subnet" \notin DOMAIN o
    <3>1. u = Calc!merged_dict(o, [enabled |-> "false"])
      BY <1>1, <2>1
    <3> HIDE DEF o, u
    <3>2. /\ DOMAIN u = DOMAIN o \cup {"enabled"} /\ u.enabled = "false"
          /\ \A key \in DOMAIN o : key # "enabled" => u[key] = o[key]
      BY <3>1, SwitchedOff
    <3> QED
      BY <3>2 DEF o, u
  <2>2. CASE ~(ipv6 = "false" /\ "subnet" \notin DOMAIN o)
    <3>1. u = o
      BY <1>1, <2>2
    <3> HIDE DEF o, u
    <3>2. /\ DOMAIN o = DOMAIN u /\ \A key \in DOMAIN o : u[key] = o[key]
          /\ ~(ipv6 = "false" /\ "subnet" \notin DOMAIN u)
      BY <2>2, <3>1
    <3> QED
      BY <3>2 DEF o, u
  <2> QED
    BY <2>1, <2>2
<1>3. \A i \in DOMAIN dcos_net.overlays : Calc!validate_overlay(dcos_net.overlays[i]) => Calc!validate_overlay(out.overlays[i])
  <2> SUFFICES ASSUME NEW i \in DOMAIN dcos_net.overlays, Calc!validate_overlay(dcos_net.overlays[i])
               PROVE  Calc!validate_overlay(out.overlays[i])
    OBVIOUS
  <2> DEFINE o == dcos_net.overlays[i]
             u == out.overlays[i]
  <2>1. /\ DOMAIN o \subseteq DOMAIN u /\ DOMAIN u \subseteq DOMAIN o \cup {"enabled"}
        /\ \A key \in DOMAIN o : key # "enabled" => u[key] = o[key]
        /\ "enabled" \in DOMAIN u =>
              u.enabled = "false" \/ ("enabled" \in DOMAIN o /\ u.enabled = o.enabled)
        /\ Calc!validate_overlay(o)
    BY <1>2
  <2> HIDE DEF o, u
  <2>2. Calc!validate_overlay(u)
    BY <2>1 DEF Calc!validate_overlay
  <2> QED
    BY <2>2 DEF u
<1>4. Calc!validate_dcos_overlay_network(out)
  BY <1>1, <1>3 DEF Calc!validate_dcos_overlay_network
<1> QED
  BY <1>1, <1>2, <1>4 DEF out

LEMMA NetworksApart ==
  ASSUME Calc!GivenAssumption, calc_config \in Given, SinglesValid, SeveralValid,
         calc_result.overlay_network = Calc!dcos_overlay_network_json
  PROVE  Calc!NetworksAreApart
<1> DEFINE dcos_net == calc_config.dcos_overlay_network
           out == calc_result.overlay_network
           cidr == calc_config.calico_network_cidr
<1>1. Calc!IsNetwork(dcos_net) /\ Calc!validate_dcos_overlay_network(dcos_net) /\ Calc!IsSubnet(cidr)
  BY DEF Calc!GivenAssumption, SinglesValid
<1>2. out = Calc!calculate_dcos_overlay_network_json(dcos_net, calc_config.enable_ipv6)
  BY DEF Calc!dcos_overlay_network_json
<1>3. /\ Calc!validate_dcos_overlay_network(out)
      /\ \A i \in DOMAIN out.overlays :
            /\ i \in DOMAIN dcos_net.overlays
            /\ "subnet" \in DOMAIN out.overlays[i] =>
                  /\ "subnet" \in DOMAIN dcos_net.overlays[i]
                  /\ out.overlays[i].subnet = dcos_net.overlays[i].subnet
            /\ (calc_config.enable_ipv6 = "false" /\ "subnet" \notin DOMAIN out.overlays[i]) =>
                  "enabled" \in DOMAIN out.overlays[i] /\ out.overlays[i].enabled = "false"
  <2> HIDE DEF dcos_net, out
  <2> QED
    BY <1>1, <1>2, NetworksStay
<1>4. "overlays" \in DOMAIN dcos_net
  BY <1>1 DEF Calc!validate_dcos_overlay_network
<1>5. calc_config.enable_ipv6 = "false" => calc_config.dcos_l4lb_enable_ipv6 = "false"
  BY DEF SeveralValid, Calc!validate_dcos_l4lb_enable_ipv6
<1>6. ASSUME calc_config.calico_enabled = "true", calc_config.dcos_overlay_enable = "true",
             NEW i \in DOMAIN out.overlays, "subnet" \in DOMAIN out.overlays[i]
      PROVE  LET subnet == out.overlays[i].subnet
             IN  Calc!Range([a \in subnet.low .. subnet.high |-> a]) \cap (cidr.low .. cidr.high) = {}
  <2> DEFINE subnet == dcos_net.overlays[i].subnet
  <2>1. /\ i \in DOMAIN dcos_net.overlays /\ "subnet" \in DOMAIN dcos_net.overlays[i]
        /\ out.overlays[i].subnet = subnet
    BY <1>3, <1>6
  <2>2. ~Calc!Overlaps(subnet, cidr)
    BY <1>6, <2>1 DEF SeveralValid, Calc!validate_overlay_networks_not_overlap
  <2>3. Calc!IsSubnet(subnet)
    BY <1>1, <1>4, <2>1 DEF Calc!IsNetwork, Calc!Range
  <2>4. Calc!Range([a \in subnet.low .. subnet.high |-> a]) = subnet.low .. subnet.high
    BY DEF Calc!Range
  <2>5. (subnet.low .. subnet.high) \cap (cidr.low .. cidr.high) = {}
    <3> HIDE DEF subnet, cidr
    <3> QED
      BY <1>1, <2>2, <2>3 DEF Calc!IsSubnet, Calc!Overlaps
  <2> QED
    BY <2>1, <2>4, <2>5
<1> HIDE DEF dcos_net, out, cidr
<1>7. \A o \in Calc!Range(out.overlays) : \E i \in DOMAIN out.overlays : o = out.overlays[i]
  BY DEF Calc!Range
<1>8. calc_config.enable_ipv6 = "false" =>
        \A o \in Calc!Range(out.overlays) :
           ("enabled" \in DOMAIN o => o.enabled = "true") => "subnet" \in DOMAIN o
  BY <1>3, <1>7
<1>9. (calc_config.calico_enabled = "true" /\ calc_config.dcos_overlay_enable = "true") =>
        \A o \in Calc!Range(out.overlays) : "subnet" \in DOMAIN o =>
           Calc!Range([a \in o.subnet.low .. o.subnet.high |-> a]) \cap (cidr.low .. cidr.high) = {}
  BY <1>6, <1>7
<1> QED
  BY <1>3, <1>5, <1>8, <1>9 DEF Calc!NetworksAreApart, out, cidr

LEMMA ChecksKept ==
  ASSUME Calc!GivenAssumption, calc_config \in Given, SinglesValid, SeveralValid,
         calc_result.checks
           = Calc!calculate_check_config_contents(Calc!check_config, calc_config.custom_checks)
  PROVE  Calc!ChecksAreKept
<1> DEFINE a == calc_config.custom_checks
           b == Calc!check_config
           m == calc_result.checks
<1>1. Calc!IsChecks(a) /\ Calc!IsChecks(b)
  <2>1. ASSUME NEW time PROVE Calc!IsChecks(Calc!calculate_check_config(time))
    <3> DEFINE names == <<"components_master", "components_agent", "xz", "docker",
                          "cockroachdb_replication">>
                        \o (IF time = "true" THEN <<"clock_sync">> ELSE <<>>)
    <3>1. names \in Seq(Calc!Range(names))
      <4> DEFINE all == {"components_master", "components_agent", "xz", "docker",
                         "cockroachdb_replication", "clock_sync"}
      <4>1. names \in Seq(all) /\ DOMAIN names = 1 .. Len(names) /\ Len(names) \in Nat
        <5>1. <<"components_master", "components_agent", "xz", "docker",
                "cockroachdb_replication">> \in Seq(all)
          OBVIOUS
        <5>2. <<"clock_sync">> \in Seq(all) /\ <<>> \in Seq(all)
          OBVIOUS
        <5>3. names \in Seq(all)
          BY <5>1, <5>2, ConcatProperties
        <5> HIDE DEF names, all
        <5> QED
          BY <5>3, LenProperties
      <4> HIDE DEF names
      <4>2. names \in [1 .. Len(names) -> Calc!Range(names)]
        BY <4>1 DEF Calc!Range
      <4> QED
        BY <4>1, <4>2
    <3> HIDE DEF names
    <3>2. Calc!IsList(<<<<>>>>) /\ Calc!IsList(<<names>>)
      <4>1. \A list : list \in Seq(Calc!Range(list)) => Calc!IsList(<<list>>)
        BY DEF Calc!IsList
      <4>2. <<>> \in Seq(Calc!Range(<<>>))
        OBVIOUS
      <4> QED
        BY <3>1, <4>1, <4>2
    <3>3. /\ Calc!calculate_check_config(time).node_checks.prestart = <<<<>>>>
          /\ Calc!calculate_check_config(time).node_checks.poststart = <<names>>
      BY DEF Calc!calculate_check_config, names
    <3> QED
      BY <3>2, <3>3 DEF Calc!IsChecks
  <2>2. calc_config.check_config # Calc!None => Calc!IsChecks(calc_config.check_config)
    BY DEF Calc!GivenAssumption
  <2>3. Calc!IsChecks(a)
    BY DEF Calc!GivenAssumption
  <2> QED
    BY <2>1, <2>2, <2>3 DEF Calc!check_config
<1>2. m = Calc!merged_check_config(a, b)
  BY DEF Calc!calculate_check_config_contents
<1>3. /\ Calc!validate_check_config(a) /\ Calc!validate_check_config(b)
      /\ Calc!validate_custom_checks(a, b)
  BY DEF SinglesValid, SeveralValid
<1> HIDE DEF a, b, m
<1>4. /\ Calc!validate_check_config(m)
      /\ \A c \in {a, b} : Holds(c.cluster_checks, m.cluster_checks)
                           /\ Holds(NodeOf(c).checks, NodeOf(m).checks)
  BY <1>1, <1>2, <1>3, ChecksStay
<1>5. \A c : (IF c.node_checks = Calc!None THEN <<>> ELSE c.node_checks.checks) = NodeOf(c).checks
  BY DEF NodeOf
<1> DEFINE Node(c) == IF c.node_checks = Calc!None THEN <<>> ELSE c.node_checks.checks
<1>6. \A c \in {b, a} : Holds(Node(c), Node(m)) /\ Holds(c.cluster_checks, m.cluster_checks)
  <2> HIDE DEF Node
  <2>1. \A c : Node(c) = NodeOf(c).checks
    BY <1>5 DEF Node
  <2> QED
    BY <1>4, <2>1
<1> QED
  BY <1>4, <1>6 DEF Calc!ChecksAreKept, Holds, a, b, m

LEMMA AcceptedWorks ==
  ASSUME Calc!GivenAssumption, CalcInv
  PROVE  Calc!AcceptedConfigWorks
<1> SUFFICES ASSUME calc_step = "calculated"
             PROVE  Calc!OneEnsemble /\ Calc!ChecksAreKept /\ Calc!NetworksAreApart
  BY DEF Calc!AcceptedConfigWorks
<1>1. calc_config \in Given /\ SinglesValid /\ SeveralValid
  BY DEF CalcInv
<1>2. PICK n \in Calc!num_masters, mb \in calc_config.mesos_log_retention_mb :
        /\ calc_result.num_masters = n
        /\ calc_result.master_quorum = Calc!master_quorum(n)
        /\ calc_result.static_ensemble
              = Calc!calculate_exhibitor_static_ensemble(calc_config.master_list)
        /\ calc_result.retention_count = Calc!calculate_mesos_log_retention_count(mb)
        /\ calc_result.overlay_network = Calc!dcos_overlay_network_json
        /\ calc_result.checks
              = Calc!calculate_check_config_contents(Calc!check_config, calc_config.custom_checks)
  BY DEF CalcInv, Calculated
<1>3. calc_config.master_list \in Seq(Int) /\ Calc!IsInjective(calc_config.master_list)
  BY <1>1 DEF Calc!GivenAssumption, SinglesValid, Calc!validate_ip_list, Calc!check_duplicates
<1>4. \A p \in Calc!SetToSeqs(Calc!Range(calc_config.master_list)) :
        Calc!calculate_exhibitor_static_ensemble(p) = calc_result.static_ensemble
  BY <1>2, <1>3, OneSorted
<1>5. calc_config.master_discovery = "static" =>
        Calc!Cardinality(Calc!Range(calc_config.master_list)) = calc_result.num_masters
  BY <1>2, <1>3, NoneTwice, SameCount DEF Calc!num_masters, Calc!calc_num_masters
<1>6. Calc!OneEnsemble
  BY <1>4, <1>5 DEF Calc!OneEnsemble
<1> QED
  BY <1>1, <1>2, <1>6, ChecksKept, NetworksApart

LEMMA SameConfig ==
  ASSUME calc_config' = calc_config
  PROVE  /\ Calc!num_masters' = Calc!num_masters /\ Calc!check_config' = Calc!check_config
         /\ Calc!dcos_overlay_network_json' = Calc!dcos_overlay_network_json
         /\ SinglesValid' = SinglesValid /\ SeveralValid' = SeveralValid
         /\ Calc!FailedSingle' = Calc!FailedSingle
<1>1. Calc!num_masters' = Calc!num_masters /\ Calc!check_config' = Calc!check_config
  BY DEF Calc!num_masters, Calc!check_config
<1>2. Calc!dcos_overlay_network_json' = Calc!dcos_overlay_network_json
  BY DEF Calc!dcos_overlay_network_json
<1>3. SinglesValid' = SinglesValid
  BY <1>1 DEF SinglesValid
<1>4. SeveralValid' = SeveralValid
  BY <1>1
  DEF SeveralValid, Calc!validate_overlay_networks_not_overlap, Calc!validate_dcos_l4lb_enable_ipv6
<1>5. Calc!FailedSingle' = Calc!FailedSingle
  BY <1>1 DEF Calc!FailedSingle
<1> QED
  BY <1>1, <1>2, <1>3, <1>4, <1>5

\* For all arguments that are what their names say: whatever no validator
\* refuses gives a cluster that can work, although every validator sees only
\* the arguments it names.  One ensemble is described, with as many masters as
\* are counted, no check is lost, and no overlay shares an address with Calico's
\* network (overlays may with each other: nothing compares them)
\* (gen/calc.py:39-1132 and the lists of the entry).
THEOREM AcceptedConfigsWork ==
  ASSUME Calc!GivenAssumption
  PROVE  Calc!Spec => []Calc!AcceptedConfigWorks
<1>1. Calc!Init => CalcInv
  BY DEF Calc!Init, CalcInv
<1>2. ASSUME CalcInv, [Calc!Next]_(Calc!vars)
      PROVE  CalcInv'
  <2>1. CASE UNCHANGED Calc!vars
    <3>1. UNCHANGED <<calc_config, calc_step, calc_invalid, calc_result>>
      BY <2>1 DEF Calc!vars
    <3>2. \A n, mb : Calculated(n, mb)' <=> Calculated(n, mb)
      BY <3>1, SameConfig DEF Calculated
    <3> QED
      BY <1>2, <3>1, <3>2, SameConfig DEF CalcInv
  <2>2. CASE Calc!ValidateSingle
    <3>1. calc_config' = calc_config /\ calc_step' \in {"crashed", "single"}
          /\ (calc_step' = "single" => calc_invalid' = Calc!FailedSingle)
      BY <2>2 DEF Calc!ValidateSingle
    <3> QED
      BY <1>2, <3>1, SameConfig DEF CalcInv
  <2>3. CASE Calc!ValidateMulti
    <3>1. /\ calc_config' = calc_config /\ calc_step = "single" /\ calc_step' \in {"accepted", "rejected"}
          /\ calc_step' = "accepted" => calc_invalid = {} /\ Calc!FailedMulti = {}
      BY <2>3 DEF Calc!ValidateMulti
    <3>2. calc_step' = "accepted" => SinglesValid /\ SeveralValid
      BY <1>2, <3>1, NoneFailed, NoneFailedTogether DEF CalcInv
    <3> QED
      BY <1>2, <3>1, <3>2, SameConfig DEF CalcInv
  <2>4. CASE Calc!Calculate
    <3>1. calc_config' = calc_config /\ calc_step = "accepted" /\ calc_step' = "calculated"
      BY <2>4 DEF Calc!Calculate
    <3>2. PICK n \in Calc!num_masters, mb \in calc_config.mesos_log_retention_mb :
            /\ calc_result'.num_masters = n
            /\ calc_result'.master_quorum = Calc!master_quorum(n)
            /\ calc_result'.static_ensemble
                  = Calc!calculate_exhibitor_static_ensemble(calc_config.master_list)
            /\ calc_result'.retention_count = Calc!calculate_mesos_log_retention_count(mb)
            /\ calc_result'.overlay_network = Calc!dcos_overlay_network_json
            /\ calc_result'.checks
                  = Calc!calculate_check_config_contents(Calc!check_config, calc_config.custom_checks)
      BY <2>4 DEF Calc!Calculate
    <3>3. Calculated(n, mb)'
      BY <3>1, <3>2, SameConfig DEF Calculated
    <3>4. n \in Calc!num_masters' /\ mb \in calc_config'.mesos_log_retention_mb
      BY <3>1, SameConfig
    <3> QED
      BY <1>2, <3>1, <3>3, <3>4, SameConfig DEF CalcInv
  <2> QED
    BY <1>2, <2>1, <2>2, <2>3, <2>4 DEF Calc!Next
<1>3. CalcInv => Calc!AcceptedConfigWorks
  BY AcceptedWorks
<1> QED
  BY <1>1, <1>2, <1>3, PTL DEF Calc!Spec
=============================================================================
