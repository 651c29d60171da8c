------------------------------ MODULE MCTools -------------------------------
(* The tools: what makes packages, publishes them and keeps them on a node, *)
(* sets nodes up, starts services, saves and restores their data.  `which'  *)
(* says which module a behaviour is of; the variables of the others stay as *)
(* they are.                                                                *)
EXTENDS PkgRepository, Sequences, TLC

CONSTANTS
    c1, c2, p1, p2,
    Starts, MaxVersion, Remote,
    Builds, Providers, Preferred, InPlace, Channels, Workers, MaxJobs,
    Versions,
    Nodes, MasterSets, Users, MaxLost

VARIABLES
    which,
    tree, source, pc, job, error, todo, current, built, latest, cache, downloads,
    bootstraps, actives, complete, faults_left, interrupted,
    storage, queue, writing, jobs,
    tool, live, running, path, copies, fresh, old, files, step, verb, place, exit, failed,
    hits, kept, taken, stale,
    program, masters, at, lost, mode, znode, proposed, synced, got, id,
    lock, created_by, networks, seen, config, daemon, restart, disturbed,
    users_path, legacy, iam, uids, uid, removed, old_files, new_files, access,
    settings, address, root_cert, artifacts, readable, certificates, exhibitor_pc, commands,
    detected, exhibitor, troubles, moved, killed_in,
    mounted, free, resources, resources_cache, checkpoint, agent_pc, found, measured, cni,
    events, forgot, away, cut_moves, rebooted,
    net, answering, rules, link, networkd, unit, checked, up, resolv, busy, watch, net_events,
    missed, changed, cut_off, steady

buildVars == <<tree, source, pc, job, error, todo, current, built, latest, cache, downloads,
               bootstraps, actives, complete, faults_left, interrupted>>
releaseVars == <<storage, queue, writing, jobs>>
backupVars == <<tool, live, running, path, copies, fresh, old, files, step, verb, place, exit,
                failed, hits, kept, taken, stale>>
setupVars == <<program, masters, at, lost, mode, znode, proposed, synced, got, id,
               lock, created_by, networks, seen, config, daemon, restart, disturbed,
               users_path, legacy, iam, uids, uid, removed, old_files, new_files, access>>
exhibitorVars == <<settings, address, root_cert, artifacts, readable, certificates,
                   exhibitor_pc, commands, detected, exhibitor, troubles, moved, killed_in>>
agentVars == <<mounted, free, resources, resources_cache, checkpoint, agent_pc, found, measured,
               cni, events, forgot, away, cut_moves, rebooted>>
netVars == <<net, answering, rules, link, networkd, unit, checked, up, resolv, busy, watch,
             net_events, missed, changed, cut_off, steady>>
serviceVars == <<exhibitorVars, agentVars, netVars>>
toolVars == <<vars, buildVars, releaseVars, backupVars, setupVars>>

B == INSTANCE PkgBuild WITH faults <- faults_left
R == INSTANCE ReleaseStorage
Saved == INSTANCE Backups WITH tmp <- copies, pc <- step, faults <- hits
Node == INSTANCE NodeSetup
Exhibitor == INSTANCE ExhibitorStart
             WITH Addresses <- {"a", "b"}, Ensembles <- {{"a", "x"}}, MaxTroubles <- 2
Agent == INSTANCE AgentStart WITH Volumes <- {"v"}, Sizes <- 0 .. 2, MaxEvents <- 4
Net == INSTANCE DcosNet
       WITH Servers <- {"s1", "s2"}, Resolvers <- {"r1", "r2", "r3"}, OtherPorts <- {"r3"},
            MAX_SERVER_COUNT <- 1, MaxEvents <- 2

NoBuild ==
    /\ tree = <<>> /\ source = <<>> /\ pc = "" /\ job = "" /\ error = "" /\ todo = <<>>
    /\ current = <<>> /\ built = <<>> /\ latest = <<>> /\ cache = {} /\ downloads = <<>>
    /\ bootstraps = <<>> /\ actives = {} /\ complete = <<>> /\ faults_left = 0
    /\ interrupted = {}
NoRelease == storage = <<>> /\ queue = <<>> /\ writing = <<>> /\ jobs = 0

NoBackup ==
    /\ tool = "" /\ live = "" /\ running = FALSE /\ path = "" /\ copies = "" /\ fresh = ""
    /\ old = "" /\ files = {} /\ step = "" /\ verb = "" /\ place = "" /\ exit = ""
    /\ failed = 0 /\ hits = 0 /\ kept = "" /\ taken = "" /\ stale = FALSE
NoSetup ==
    /\ program = "" /\ masters = {} /\ at = "" /\ lost = 0 /\ mode = "" /\ znode = ""
    /\ proposed = 0 /\ synced = {} /\ got = "" /\ id = "" /\ lock = "" /\ created_by = ""
    /\ networks = 0 /\ seen = {} /\ config = "" /\ daemon = "" /\ restart = {}
    /\ disturbed = FALSE /\ users_path = FALSE /\ legacy = {} /\ iam = {} /\ uids = ""
    /\ uid = "" /\ removed = {} /\ old_files = "" /\ new_files = "" /\ access = ""
NoExhibitor ==
    /\ settings = "" /\ address = "" /\ root_cert = FALSE /\ artifacts = "" /\ readable = {}
    /\ certificates = "" /\ exhibitor_pc = "" /\ commands = <<>> /\ detected = ""
    /\ exhibitor = "" /\ troubles = 0 /\ moved = FALSE /\ killed_in = {}
NoAgent ==
    /\ mounted = {} /\ free = "" /\ resources = "" /\ resources_cache = "" /\ checkpoint = ""
    /\ agent_pc = "" /\ found = {} /\ measured = "" /\ cni = "" /\ events = 0
    /\ forgot = FALSE /\ away = FALSE /\ cut_moves = 0 /\ rebooted = FALSE
NoNet ==
    /\ net = "" /\ answering = {} /\ rules = 0 /\ link = FALSE /\ networkd = "" /\ unit = ""
    /\ checked = {} /\ up = {} /\ resolv = {} /\ busy = FALSE /\ watch = "" /\ net_events = 0
    /\ missed = FALSE /\ changed = FALSE /\ cut_off = FALSE /\ steady = {}
NoServices == NoExhibitor /\ NoAgent /\ NoNet

\* Which nodes are masters matters to bootstrap alone; telegraf's files are
\* moved on one node, the network is made on two
SmallSetup ==
    /\ program # "bootstrap" => masters = {"m1", "m2"}
    /\ program = "telegraf" =>
          \A n \in Nodes \ {"m1"} : old_files[n] = FALSE /\ new_files[n] = "missing"
    /\ program = "calico" => restart \subseteq {"m1"}
TwoMakeTheNetwork == program = "calico" => at'["a"] = "idle" /\ "a" \notin seen'

\* Without shared storage a master is alone; an address of the CA and the
\* kind of storage matter where they are used
SmallExhibitor ==
    /\ settings.size = 3 \/ settings.backend = "ZK"
    /\ settings.backend = "other" \/ ~settings.enabled => settings.url

MCInit ==
    \/ /\ Init /\ NoBackup /\ NoSetup /\ NoServices
       /\ \/ which = "repository" /\ NoBuild /\ NoRelease
          \/ which = "build" /\ B!Init /\ NoRelease
          \/ which = "release" /\ R!Init /\ NoBuild
    \/ /\ Init /\ NoBuild /\ NoRelease /\ NoServices
       /\ \/ which = "backup" /\ Saved!Init /\ NoSetup
          \/ which = "setup" /\ Node!Init /\ SmallSetup /\ NoBackup
    \/ /\ Init /\ NoBuild /\ NoRelease /\ NoBackup /\ NoSetup
       /\ \/ which = "exhibitor" /\ Exhibitor!Init /\ SmallExhibitor /\ NoAgent /\ NoNet
          \/ which = "agent" /\ Agent!Init /\ NoExhibitor /\ NoNet
          \/ which = "net" /\ Net!Init /\ NoExhibitor /\ NoAgent

MCNext ==
    /\ UNCHANGED which
    /\ \/ /\ which = "repository" /\ Next
          /\ UNCHANGED <<buildVars, releaseVars, backupVars, setupVars, serviceVars>>
       \/ /\ which = "build" /\ B!Next
          /\ UNCHANGED <<vars, releaseVars, backupVars, setupVars, serviceVars>>
       \/ /\ which = "release" /\ R!Next
          /\ UNCHANGED <<vars, buildVars, backupVars, setupVars, serviceVars>>
       \/ /\ which = "backup" /\ Saved!Next
          /\ UNCHANGED <<vars, buildVars, releaseVars, setupVars, serviceVars>>
       \/ /\ which = "setup" /\ Node!Next /\ TwoMakeTheNetwork
          /\ UNCHANGED <<vars, buildVars, releaseVars, backupVars, serviceVars>>
       \/ /\ which = "exhibitor" /\ Exhibitor!Next
          /\ UNCHANGED <<toolVars, agentVars, netVars>>
       \/ /\ which = "agent" /\ Agent!Next
          /\ UNCHANGED <<toolVars, exhibitorVars, netVars>>
       \/ /\ which = "net" /\ Net!Next
          /\ UNCHANGED <<toolVars, exhibitorVars, agentVars>>

MCSpec == MCInit /\ [][MCNext]_<<which, toolVars, serviceVars>>

TreeBuildsInOrder == which = "build" => B!TreeBuildsInOrder
CompleteIsCurrent == which = "build" => B!CompleteIsCurrent
WhatIsPublishedWorks == which = "release" => R!WhatIsPublishedWorks
RestoresDoWhatTheySay == which = "backup" => Saved!RestoresDoWhatTheySay
NodesAreSetUp ==
    /\ which = "setup" => Node!NodesAreSetUp
    /\ which = "exhibitor" => Exhibitor!ExhibitorIsSafe
    /\ which = "agent" => Agent!AgentIsAccepted
    /\ which = "net" => Net!NetIsSetUp

Symmetry == Permutations({c1, c2}) \cup Permutations({p1, p2})

-----------------------------------------------------------------------------
(* Trees                                                                   *)

Default(n) == <<n, 0>>
Two == {Default(1), Default(2), <<2, 1>>}
Unknown == Default(3)
Info(core, variants, excludes, bootstrap) ==
    [core |-> core, variants |-> variants, excludes |-> excludes, bootstrap |-> bootstrap]
Plain == Info({}, <<>>, {}, {})
Other == Info({1}, (2 :> 1), {}, {2})
Requirements == {f @@ (Unknown :> {}) : f \in [Two -> SUBSET (Two \cup {Unknown})]}

\* Every graph of two packages, one with a variant, and one that is not there
Graphs ==
    {[tree |-> [packages |-> Two, upstream |-> {}, requires |-> r, infos |-> i, file |-> {}],
      faults |-> 0] :
        r \in Requirements,
        i \in {<<Plain, Other>>, <<Info({}, <<>>, {2}, {})>>, <<Info({1}, <<>>, {}, {2})>>}}

\* A chain and a diamond, built again and again
Three == {Default(1), Default(2), Default(3)}
Chain == (Default(1) :> {Default(2)}) @@ (Default(2) :> {Default(3)}) @@ (Default(3) :> {})
Side == (Default(1) :> {Default(3)}) @@ (Default(2) :> {}) @@ (Default(3) :> {})
Again(requires, upstream, infos, faultsAllowed) ==
    [tree |-> [packages |-> Three \ upstream, upstream |-> upstream, requires |-> requires,
               infos |-> infos, file |-> {Default(2)}],
     faults |-> faultsAllowed]
Part == Info({1}, <<>>, {}, {3})

MCStarts ==
    Graphs
    \cup {Again(r, {}, <<i>>, 2) : r \in {Chain, Side}, i \in {Plain, Part}}
    \cup {Again(Chain, {Default(3)}, <<Plain>>, 2)}

-----------------------------------------------------------------------------
(* Releases: two commits that share a package                              *)

Build(commit, bootstrap, name, config_used) ==
    [commit |-> commit, bootstrap |-> bootstrap, packages |-> <<"p", name>>, config |-> config_used]
MCBuilds == {Build("c1", "b1", "q", "s1"), Build("c2", "b2", "r", "s2")}
MCProviders == <<"aws", "local">>
=============================================================================
