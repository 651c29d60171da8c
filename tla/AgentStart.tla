----------------------------- MODULE AgentStart -----------------------------
(***************************************************************************)
(* An agent starts (dcos-mesos-slave.service): make_disk_resources.py      *)
(* finds the mounted volumes once, and keeps their size, because Mesos     *)
(* refuses to start when the size of a volume that is used has changed;    *)
(* upgrade_cni.py moves CNI's data to /var/run.  systemd runs both again   *)
(* whenever one fails or the agent stops.                                  *)
(***************************************************************************)
EXTENDS Naturals, FiniteSets

CONSTANTS
    Volumes,        \* that can be mounted at /dcos/volume<n>
    Sizes,          \* the free space of one, less the tolerance: 0 is too little
    MaxEvents       \* bound: what the operator, the kernel and frameworks do

VARIABLES
    mounted, free,
    resources,      \* mesos-resources: space of volumes, or NoFile
    resources_cache,\* mesos-resources.cache, which the operator makes of it
    checkpoint,     \* the agent's: space of the volumes that are used
    agent_pc,
    found, measured,\* of make_disk_resources: mounts, and those it has measured
    cni,            \* CNI's data in /var/lib, in /var/run and inside the latter
    events,
    forgot,         \* history: mesos-resources was deleted, not renamed,
    away,           \*   a volume was not mounted while the program looked,
    cut_moves,      \*   the move of CNI's data was cut off so often,
    rebooted        \*   /var/run was emptied

vars == <<mounted, free, resources, resources_cache, checkpoint, agent_pc, found, measured,
          cni, events, forgot, away, cut_moves, rebooted>>
disks == <<mounted, free>>
files == <<resources, resources_cache, checkpoint>>
histories == <<events, forgot, away, cut_moves, rebooted>>

\* A file has at least the root volume
NoFile == <<>>
Work == "work_dir"
Nothing == <<>>
With(v, size, file) == [w \in DOMAIN file \cup {v} |-> IF w = v THEN size ELSE file[w]]

At(label) == agent_pc = label
Goto(label) == agent_pc' = label
Event == events < MaxEvents /\ events' = events + 1
Resting == {"stopped", "running"}

-----------------------------------------------------------------------------
(* make_disk_resources.py                                                  *)

find_mounts_matching ==
    /\ At("stopped")
    /\ IF resources # NoFile THEN Goto("move") /\ UNCHANGED found
       ELSE Goto("measure") /\ found' = mounted
    /\ measured' = Nothing
    /\ UNCHANGED <<disks, files, cni, histories>>

\* What is at the place of a volume that is away belongs to the root volume
get_disk_free(v) == IF v \in mounted THEN free[v] ELSE free[Work]

\* Mutant of net_free_space: the cache is not used
net_free_space_measured(v) == get_disk_free(v)

net_free_space(v) ==
    IF resources_cache # NoFile /\ v \in DOMAIN resources_cache
    THEN resources_cache[v] ELSE get_disk_free(v)

get_mounts_and_freespace ==
    /\ At("measure") /\ found # {}
    /\ \E v \in found :
          IF net_free_space(v) = 0 THEN Goto("stopped") /\ UNCHANGED <<found, measured>>
          ELSE /\ measured' = With(v, net_free_space(v), measured)
               /\ found' = found \ {v} /\ UNCHANGED agent_pc
    /\ UNCHANGED <<disks, files, cni, histories>>

\* The root volume is never cached; the file appears as a whole, by a rename
_handle_root_volume ==
    /\ At("measure") /\ found = {}
    /\ IF free[Work] = 0 THEN Goto("stopped") /\ UNCHANGED resources
       ELSE resources' = With(Work, free[Work], measured) /\ Goto("move")
    /\ UNCHANGED <<disks, resources_cache, checkpoint, found, measured, cni, histories>>

-----------------------------------------------------------------------------
(* upgrade_cni.py: shutil.move copies to another file system, and deletes  *)

\* What exists is not replaced: the copy goes inside it, but only once
Target == IF cni.new = "none" THEN "new" ELSE "nested"

move ==
    /\ At("move")
    /\ IF cni.old = "none" THEN Goto("recover") /\ UNCHANGED cni
       ELSE IF cni[Target] # "none" THEN Goto("stopped") /\ UNCHANGED cni
       ELSE Goto(Target) /\ cni' = [cni EXCEPT ![Target] = "partial"]
    /\ UNCHANGED <<disks, files, found, measured, histories>>

copytree(place) ==
    /\ At(place)
    /\ cni' = [cni EXCEPT ![place] = cni.old]
    /\ Goto("rmtree")
    /\ UNCHANGED <<disks, files, found, measured, histories>>

rmtree ==
    /\ At("rmtree")
    /\ IF cni.old = "whole" THEN cni' = [cni EXCEPT !.old = "partial"] /\ UNCHANGED agent_pc
       ELSE cni' = [cni EXCEPT !.old = "none"] /\ Goto("recover")
    /\ UNCHANGED <<disks, files, found, measured, histories>>

-----------------------------------------------------------------------------
(* mesos-agent                                                             *)

Accepts == \A v \in DOMAIN checkpoint :
              v \in DOMAIN resources /\ resources[v] = checkpoint[v]

recover ==
    /\ At("recover")
    /\ Goto(IF Accepts THEN "running" ELSE "refused")
    /\ UNCHANGED <<disks, files, found, measured, cni, histories>>

Use(v) ==
    /\ At("running") /\ v \in DOMAIN resources \ DOMAIN checkpoint
    /\ checkpoint' = With(v, resources[v], checkpoint)
    /\ UNCHANGED <<disks, resources, resources_cache, agent_pc, found, measured, cni, histories>>

\* A refused agent is started again and again
Refused ==
    /\ At("refused") /\ Goto("stopped")
    /\ UNCHANGED <<disks, files, found, measured, cni, histories>>

-----------------------------------------------------------------------------
CutMoves == IF agent_pc \in {"new", "nested", "rmtree"} THEN cut_moves + 1 ELSE cut_moves

Kill ==
    /\ ~At("stopped") /\ Event
    /\ Goto("stopped")
    /\ cut_moves' = CutMoves
    /\ UNCHANGED <<disks, files, found, measured, cni, forgot, away, rebooted>>

\* What is left of a move goes on
Reboot ==
    /\ Event /\ Goto("stopped")
    /\ cni' = [cni EXCEPT !.new = "none", !.nested = "none"]
    /\ rebooted' = TRUE /\ cut_moves' = CutMoves
    /\ UNCHANGED <<disks, files, found, measured, forgot, away>>

Mount(v) ==
    /\ v \notin mounted /\ Event
    /\ mounted' = mounted \cup {v}
    /\ UNCHANGED <<free, files, agent_pc, found, measured, cni, forgot, away, cut_moves, rebooted>>

Unmount(v) ==
    /\ v \in mounted /\ Event
    /\ mounted' = mounted \ {v}
    /\ away' = TRUE
    /\ UNCHANGED <<free, files, agent_pc, found, measured, cni, forgot, cut_moves, rebooted>>

SpaceChanges(v) ==
    /\ Event
    /\ \E s \in Sizes \ {free[v]} : free' = [free EXCEPT ![v] = s]
    /\ UNCHANGED <<mounted, files, agent_pc, found, measured, cni, forgot, away, cut_moves, rebooted>>

\* The operator wants new volumes to be found
DiscoverAgain ==
    /\ agent_pc \in Resting /\ resources # NoFile /\ Event
    /\ resources' = NoFile
    /\ \/ resources_cache' = resources /\ UNCHANGED forgot
       \/ forgot' = TRUE /\ UNCHANGED resources_cache
    /\ UNCHANGED <<disks, checkpoint, agent_pc, found, measured, cni, away, cut_moves, rebooted>>

Init ==
    /\ mounted \in SUBSET Volumes /\ free \in [Volumes \cup {Work} -> Sizes]
    /\ resources = NoFile /\ resources_cache = NoFile /\ checkpoint = Nothing
    /\ agent_pc = "stopped" /\ found = {} /\ measured = Nothing
    /\ cni \in [old : {"none", "whole"}, new : {"none"}, nested : {"none"}]
    /\ events = 0 /\ forgot = FALSE /\ away = FALSE /\ cut_moves = 0
    /\ rebooted = FALSE

Next ==
    \/ find_mounts_matching \/ get_mounts_and_freespace \/ _handle_root_volume
    \/ move \/ (\E place \in {"new", "nested"} : copytree(place)) \/ rmtree
    \/ recover \/ Refused \/ Kill \/ Reboot \/ DiscoverAgain
    \/ \E v \in Volumes : Use(v) \/ Mount(v) \/ Unmount(v)
    \/ \E v \in Volumes \cup {Work} : SpaceChanges(v)

Spec == Init /\ [][Next]_vars

-----------------------------------------------------------------------------
(* Properties                                                              *)

\* Mesos refuses to start only if the operator has deleted mesos-resources
\* instead of renaming it, or a volume was unmounted.  CNI's data are whole in
\* some place until a reboot; the agent runs only with them in /var/run, and
\* with all of them in their place, and the move can always be done, unless
\* it was cut off once, or twice.  (make_disk_resources.py:98-104,
\* upgrade_cni.py)
AgentIsAccepted ==
    LET Whole == "whole" \in {cni.old, cni.new, cni.nested}
        Gone == {cni.old, cni.new, cni.nested} = {"none"}
    IN  /\ agent_pc = "refused" => forgot \/ away
        /\ Whole \/ Gone \/ rebooted
        /\ agent_pc = "running" => cni.old = "none"
        /\ agent_pc = "running" /\ cut_moves = 0 => cni.nested = "none" /\ cni.new # "partial"
        /\ agent_pc = "move" /\ cni.old # "none" /\ cni[Target] # "none" => cut_moves > 1
=============================================================================
