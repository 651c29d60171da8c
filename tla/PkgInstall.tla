----------------------------- MODULE PkgInstall -----------------------------
(***************************************************************************)
(* The activation of a package set on a DC/OS node: class Install and      *)
(* class Systemd of src/pkgpanda/__init__.py, driven by activate_packages  *)
(* and setup of src/pkgpanda/actions.py.                                   *)
(*                                                                         *)
(* Install keeps, for every "active name" (bin, etc, ..., the unit         *)
(* directory dcos.target.wants, environment, active, ...), up to three     *)
(* entries in the file system: the live one, NAME.new and NAME.old.        *)
(* Activating a package set builds every NAME.new, then swaps: the live    *)
(* entries are moved to NAME.old and the new ones into place.  A file,     *)
(* install_progress, records the stage of a swap so that "pkgpanda setup"  *)
(* can take it up again after a crash.  Every system call that changes     *)
(* one of these entries is a step of its own, so that a process may be     *)
(* killed, or the host reboot, between any two of them.                    *)
(*                                                                         *)
(* One pkgpanda process runs at a time in this module.                     *)
(***************************************************************************)
EXTENDS Integers

CONSTANTS
    NumNames,   \* the active names are 1..NumNames, in get_active_names order
    Dirs,       \* those that are directories
    Wants,      \* the one that is the unit directory, dcos.target.wants
    Sets,       \* the package sets that may be activated
    Units,      \* names of systemd units
    UnitsOf,    \* the units a package set has in its dcos.target.wants
    FirstSet,   \* the set active in the extracted bootstrap tarball
    None, Partial, \* what a name holds when it holds no package set
    MaxFaults,  \* bound: kills, reboots and failing commands
    MaxRequests \* bound: activations an operator asks for

Names == 1..NumNames

ASSUME InstallAssumption ==
    /\ NumNames \in Nat \ {0}
    /\ Dirs \subseteq Names
    /\ NumNames \notin Dirs  \* the last one is active.buildinfo.full.json
    /\ Wants \in Dirs /\ Wants # 1  \* the first one is bin
    /\ UnitsOf \in [Sets -> SUBSET Units]
    /\ FirstSet \in Sets
    /\ None \notin Sets /\ Partial \notin Sets /\ None # Partial
    /\ MaxFaults \in Nat /\ MaxRequests \in Nat

VARIABLES
    active,     \* the entry at each name, at NAME.new and at NAME.old: None,
    new,        \*   a package set, or Partial (a directory that is not yet
    old,        \*   completely populated, or no longer)
    nested,     \* live directories that another one has been moved into
    unit,       \* the unit files in the base systemd directory,
    staged,     \*   and those waiting there as NAME.unit.new
    running,    \* the package set each running service was started from
    progress,   \* the "stage" in install_progress, "none": no such file
    pc, i, todo,\* the pkgpanda process: next step, loop position, units left
    mode,       \* what it runs: "activate" or "recover" (of setup)
    target,     \* the package set it activates
    faults, requests  \* counters for the bounds

tree == <<active, new, old, nested>>
systemd == <<unit, staged, running>>
process == <<pc, i, todo, mode, target>>
counters == <<faults, requests>>
vars == <<tree, systemd, progress, process, counters>>

Content == Sets \cup {None, Partial}
Installed == [Units -> Sets \cup {None}]

Steps == {"idle", "clean_new", "clean_old", "clean_staged", "mkdirs",
          "populate", "stage_units", "write_files", "check", "record_archive",
          "stop_all", "remove_units", "archive", "record_move", "move_new",
          "unlink_units", "move_units", "finish", "start_target"}

TypeOK ==
    /\ active \in [Names -> Content]
    /\ new \in [Names -> Content]
    /\ old \in [Names -> Content]
    /\ nested \subseteq Dirs
    /\ unit \in Installed /\ staged \in Installed /\ running \in Installed
    /\ progress \in {"none", "archive", "move_new"}
    /\ pc \in Steps
    /\ i \in Names
    /\ todo \subseteq Units
    /\ mode \in {"activate", "recover"}
    /\ target \in Sets
    /\ faults \in Nat /\ requests \in Nat

----------------------------------------------------------------------------
(* os.listdir of a unit directory; nothing when it does not exist. *)
UnitsIn(content) == IF content \in Sets THEN UnitsOf[content] ELSE {}

(* The units systemd finds: linked from the unit directory, and the file   *)
(* the link points to is there (os.path.isfile of the link).               *)
Startable == {u \in UnitsIn(active[Wants]) : unit[u] # None}

(* shutil.move cannot replace a directory: the source ends up inside it.   *)
Occupied(n, destination) == n \in Dirs /\ destination # None

AllNewExist == \A n \in Names : new[n] # None

Init ==
    \* the bootstrap tarball is built without systemd directories
    /\ active = [n \in Names |-> IF n = Wants THEN None ELSE FirstSet]
    /\ new = [n \in Names |-> None]
    /\ old = [n \in Names |-> None]
    /\ nested = {}
    /\ unit = [u \in Units |-> None]
    /\ staged = [u \in Units |-> None]
    /\ running = [u \in Units |-> None]
    /\ progress = "none"
    /\ pc = "idle" /\ i = 1 /\ todo = {} /\ mode = "activate"
    /\ target = FirstSet
    /\ faults = 0 /\ requests = 0

(* Go on with a loop over the names, or with the step after the loop. *)
Loop(step) ==
    /\ IF i < NumNames THEN i' = i + 1 /\ pc' = pc ELSE i' = 1 /\ pc' = step
    /\ UNCHANGED <<mode, target, todo>>

Goto(step) == pc' = step /\ UNCHANGED <<i, todo, mode, target>>

(* Go on to a loop over units. *)
GotoUnits(step, units) ==
    /\ pc' = step
    /\ todo' = units
    /\ UNCHANGED <<i, mode, target>>

(* One unit of such a loop. *)
TakeUnit(u) == u \in todo /\ todo' = todo \ {u} /\ UNCHANGED <<pc, i, mode, target>>

----------------------------------------------------------------------------
(* Install.activate: build NAME.new for every active name. *)

Activate(s) ==
    /\ pc = "idle"
    /\ requests < MaxRequests
    /\ requests' = requests + 1
    /\ pc' = "clean_new" /\ mode' = "activate" /\ target' = s
    /\ UNCHANGED <<tree, systemd, progress, i, todo, faults>>

(* Mutant of CleanNew: activate cleans up the .old entries only *)
CleanNewLeavesFirst ==
    /\ pc = "clean_new"
    /\ Loop("clean_old")
    /\ UNCHANGED <<tree, systemd, progress, counters>>

(* A directory goes by "rm -rf", member after member. *)
CleanNew ==
    /\ pc = "clean_new"
    /\ \/ /\ i \in Dirs /\ new[i] \in Sets
          /\ new' = [new EXCEPT ![i] = Partial]
          /\ UNCHANGED process
       \/ /\ new' = [new EXCEPT ![i] = None]
          /\ Loop("clean_old")
    /\ UNCHANGED <<active, old, nested, systemd, progress, counters>>

(* Mutant of CleanOld: activate cleans up the .new entries only *)
CleanOldForgotten ==
    /\ pc = "clean_old"
    /\ Loop("clean_staged")
    /\ UNCHANGED <<tree, systemd, progress, counters>>

CleanOld ==
    /\ pc = "clean_old"
    /\ \/ /\ i \in Dirs /\ old[i] \in Sets
          /\ old' = [old EXCEPT ![i] = Partial]
          /\ UNCHANGED process
       \/ /\ old' = [old EXCEPT ![i] = None]
          /\ Loop("clean_staged")
    /\ UNCHANGED <<active, new, nested, systemd, progress, counters>>

RemoveStagedUnitFiles ==
    /\ pc = "clean_staged"
    /\ \/ \E u \in Units :
            /\ staged[u] # None
            /\ staged' = [staged EXCEPT ![u] = None]
            /\ UNCHANGED process
       \/ /\ \A u \in Units : staged[u] = None
          /\ Goto("mkdirs")
          /\ UNCHANGED staged
    /\ UNCHANGED <<tree, unit, running, progress, counters>>

MakeDirs ==
    /\ pc = "mkdirs"
    /\ new' = IF i \in Dirs THEN [new EXCEPT ![i] = Partial] ELSE new
    /\ Loop("populate")
    /\ UNCHANGED <<active, old, nested, systemd, progress, counters>>

(* Link the files of every package; until the last one every directory is *)
(* incomplete.  Two packages with the same file are a ValidationError.    *)
Populate ==
    /\ pc = "populate"
    /\ \/ /\ new' = [n \in Names |-> IF n \in Dirs THEN target ELSE new[n]]
          /\ GotoUnits("stage_units", UnitsOf[target])
       \/ UNCHANGED new /\ Goto("idle")
    /\ UNCHANGED <<active, old, nested, systemd, progress, counters>>

(* Mutant of StageNewUnits: the units of roles are linked but not staged *)
StageNewUnitsSkipsOne ==
    /\ pc = "stage_units"
    /\ \/ \E u \in todo : TakeUnit(u) /\ UNCHANGED staged
       \/ todo = {} /\ Goto("write_files") /\ UNCHANGED staged
    /\ UNCHANGED <<tree, unit, running, progress, counters>>

StageNewUnits ==
    /\ pc = "stage_units"
    /\ \/ \E u \in todo : TakeUnit(u) /\ staged' = [staged EXCEPT ![u] = target]
       \/ todo = {} /\ Goto("write_files") /\ UNCHANGED staged
    /\ UNCHANGED <<tree, unit, running, progress, counters>>

WriteFiles ==
    /\ pc = "write_files"
    /\ new' = IF i \in Dirs THEN new ELSE [new EXCEPT ![i] = target]
    /\ Loop("check")
    /\ UNCHANGED <<active, old, nested, systemd, progress, counters>>

----------------------------------------------------------------------------
(* Install.recover_swap_active, called by "pkgpanda setup": by the boot     *)
(* unit, or by an operator ("How to recover", docs/package_concepts.md).    *)

RecoverSwapActive ==
    /\ pc = "idle"
    /\ progress # "none"
    /\ pc' = "check" /\ mode' = "recover"
    /\ UNCHANGED <<tree, systemd, progress, i, todo, target, counters>>

(* Install.swap_active *)

(* Mutant of CheckNew: the check also refuses a swap that has archived the live entries *)
CheckNewLive ==
    /\ pc = "check"
    /\ \/ /\ AllNewExist /\ \A n \in Names \ {Wants} : active[n] # None
          /\ Goto(IF mode = "recover" /\ progress = "move_new"
                  THEN "record_move" ELSE "record_archive")
       \/ /\ ~AllNewExist \/ \E n \in Names \ {Wants} : active[n] = None
          /\ Goto("idle")
    /\ UNCHANGED <<tree, systemd, progress, counters>>

(* The argument "archive" is false only when recovering from move_new. *)
CheckNew ==
    /\ pc = "check"
    /\ \/ /\ AllNewExist
          /\ Goto(IF mode = "recover" /\ progress = "move_new"
                  THEN "record_move" ELSE "record_archive")
       \/ ~AllNewExist /\ Goto("idle")   \* raises ValueError
    /\ UNCHANGED <<tree, systemd, progress, counters>>

(* Mutant of RecordArchive: the state is only recorded for the move stage *)
RecordArchiveLost ==
    /\ pc = "record_archive"
    /\ Goto("stop_all")
    /\ UNCHANGED <<tree, systemd, progress, counters>>

RecordArchive ==
    /\ pc = "record_archive"
    /\ progress' = "archive"
    /\ Goto("stop_all")
    /\ UNCHANGED <<tree, systemd, counters>>

(* Mutant of StopAll: unit files are only removed after the new unit directory is in place *)
StopAllWithoutRemove ==
    /\ pc = "stop_all"
    /\ running' = [u \in Units |-> IF u \in Startable THEN None ELSE running[u]]
    /\ GotoUnits("archive", {})
    /\ UNCHANGED <<tree, unit, staged, progress, counters>>

(* Mutant of StopAll: services are not stopped *)
StopAllSkipped ==
    /\ pc = "stop_all"
    /\ GotoUnits("remove_units", UnitsIn(active[Wants]))
    /\ UNCHANGED <<tree, systemd, progress, counters>>

(* systemctl stop of every unit that is a file. *)
StopAll ==
    /\ pc = "stop_all"
    /\ running' = [u \in Units |-> IF u \in Startable THEN None ELSE running[u]]
    /\ GotoUnits("remove_units", UnitsIn(active[Wants]))
    /\ UNCHANGED <<tree, unit, staged, progress, counters>>

(* systemctl fails for some of them: check_call raises. *)
StopAllFails ==
    /\ pc = "stop_all"
    /\ faults < MaxFaults
    /\ faults' = faults + 1
    /\ \E stopped \in SUBSET Startable :
         running' = [u \in Units |-> IF u \in stopped THEN None ELSE running[u]]
    /\ Goto("idle")
    /\ UNCHANGED <<tree, unit, staged, progress, requests>>

(* Systemd.remove_unit_files, in step "step"; on to "then". *)
RemoveUnitFiles(step, then, units) ==
    /\ pc = step
    /\ \/ \E u \in todo : TakeUnit(u) /\ unit' = [unit EXCEPT ![u] = None]
       \/ todo = {} /\ GotoUnits(then, units) /\ UNCHANGED unit
    /\ UNCHANGED <<tree, staged, running, progress, counters>>

Archive ==
    /\ pc = "archive"
    /\ IF active[i] # None
       THEN /\ old' = IF Occupied(i, old[i]) THEN old ELSE [old EXCEPT ![i] = active[i]]
            /\ active' = [active EXCEPT ![i] = None]
            /\ nested' = nested \ {i}
       ELSE UNCHANGED <<active, old, nested>>
    /\ Loop("record_move")
    /\ UNCHANGED <<new, systemd, progress, counters>>

RecordMove ==
    /\ pc = "record_move"
    /\ progress' = "move_new"
    /\ Goto("move_new")
    /\ UNCHANGED <<tree, systemd, counters>>

(* Mutant of MoveNew: the loop of move_new counts past the last name *)
MoveNewOverrun ==
    /\ pc = "move_new"
    /\ active' = [active EXCEPT ![i] = new[i]]
    /\ new' = [new EXCEPT ![i] = None]
    /\ i' = i + 1
    /\ IF i <= NumNames - 1 THEN UNCHANGED <<pc, todo>>
       ELSE pc' = "unlink_units" /\ todo' = UnitsIn(active'[Wants])
    /\ UNCHANGED <<old, nested, systemd, progress, mode, target, counters>>

MoveNew ==
    /\ pc = "move_new"
    /\ IF Occupied(i, active[i])
       THEN nested' = nested \cup {i} /\ UNCHANGED active
       ELSE active' = [active EXCEPT ![i] = new[i]] /\ UNCHANGED nested
    /\ new' = [new EXCEPT ![i] = None]
    /\ IF i < NumNames
       THEN i' = i + 1 /\ UNCHANGED <<pc, todo>>
       ELSE i' = 1 /\ pc' = "unlink_units" /\ todo' = UnitsIn(active'[Wants])
    /\ i \notin nested
    /\ UNCHANGED <<old, systemd, progress, mode, target, counters>>

(* The directory that was moved into the live one has the same name:       *)
(* shutil.move raises.                                                     *)
MoveNewFails ==
    /\ pc = "move_new"
    /\ i \in nested
    /\ pc' = "idle" /\ i' = 1
    /\ UNCHANGED <<tree, systemd, progress, todo, mode, target, counters>>

(* Systemd.activate_new_unit_files, after its remove_unit_files.  Where no *)
(* unit file is staged, for a unit or for a directory misplaced among the  *)
(* units, shutil.move raises.                                              *)
ActivateNewUnitFiles ==
    /\ pc = "move_units"
    /\ \/ \E u \in todo :
            /\ staged[u] # None
            /\ unit' = [unit EXCEPT ![u] = staged[u]]
            /\ staged' = [staged EXCEPT ![u] = None]
            /\ TakeUnit(u)
       \/ /\ Wants \in nested \/ \E u \in todo : staged[u] = None
          /\ pc' = "idle" /\ todo' = {}
          /\ UNCHANGED <<unit, staged, i, mode, target>>
       \/ /\ todo = {} /\ Wants \notin nested
          /\ Goto("finish")
          /\ UNCHANGED <<unit, staged>>
    /\ UNCHANGED <<tree, running, progress, counters>>

RemoveProgress ==
    /\ pc = "finish"
    /\ progress' = "none"
    /\ Goto(IF mode = "activate" THEN "start_target" ELSE "idle")
    /\ UNCHANGED <<tree, systemd, counters>>

----------------------------------------------------------------------------
(* actions._start_dcos_target, or nothing if called with --no-systemd. *)
StartDcosTarget ==
    /\ pc = "start_target"
    /\ \/ running' = [u \in Units |-> IF running[u] = None /\ u \in Startable
                                      THEN unit[u] ELSE running[u]]
       \/ UNCHANGED running
    /\ Goto("idle")
    /\ UNCHANGED <<tree, unit, staged, progress, counters>>

(* systemctl fails: check_call raises. *)
StartTargetFails ==
    /\ pc = "start_target"
    /\ faults < MaxFaults
    /\ faults' = faults + 1
    /\ \E begun \in SUBSET {u \in Startable : running[u] = None} :
         running' = [u \in Units |-> IF u \in begun THEN unit[u] ELSE running[u]]
    /\ Goto("idle")
    /\ UNCHANGED <<tree, unit, staged, progress, requests>>

(* The pkgpanda process is killed between two steps. *)
Kill ==
    /\ pc # "idle"
    /\ faults < MaxFaults
    /\ faults' = faults + 1
    /\ pc' = "idle" /\ i' = 1 /\ todo' = {}
    /\ UNCHANGED <<tree, systemd, progress, mode, target, requests>>

(* The host reboots; systemd has started some of the units it finds by the *)
(* time a pkgpanda process runs again.                                     *)
Reboot ==
    /\ faults < MaxFaults
    /\ faults' = faults + 1
    /\ pc' = "idle" /\ i' = 1 /\ todo' = {}
    /\ \E started \in SUBSET Startable :
         running' = [u \in Units |-> IF u \in started THEN unit[u] ELSE None]
    /\ UNCHANGED <<tree, unit, staged, progress, mode, target, requests>>

SwapStep ==
    \/ CheckNew \/ RecordArchive \/ StopAll
    \/ RemoveUnitFiles("remove_units", "archive", {})
    \/ Archive \/ RecordMove \/ MoveNew \/ MoveNewFails
    \/ RemoveUnitFiles("unlink_units", "move_units", UnitsIn(active[Wants]))
    \/ ActivateNewUnitFiles \/ RemoveProgress

BuildStep ==
    \/ CleanNew \/ CleanOld \/ RemoveStagedUnitFiles \/ MakeDirs \/ Populate
    \/ StageNewUnits \/ WriteFiles

Next ==
    \/ \E s \in Sets : Activate(s)
    \/ BuildStep \/ SwapStep \/ StartDcosTarget
    \/ RecoverSwapActive
    \/ StopAllFails \/ StartTargetFails \/ Kill \/ Reboot

Spec == Init /\ [][Next]_vars

(* A running process goes on, and after an interruption somebody runs       *)
(* "pkgpanda setup".  The boot unit alone does not guarantee this: it needs  *)
(* bin and environment, which an interrupted swap may have archived; then    *)
(* it is the operator who runs pkgpanda from its package directory.          *)
Fairness ==
    /\ WF_vars(BuildStep) /\ WF_vars(SwapStep) /\ WF_vars(StartDcosTarget)
    /\ WF_vars(RecoverSwapActive)
FairSpec == Spec /\ Fairness
----------------------------------------------------------------------------
(* What swap_active checks before it gives up the live entries is that every *)
(* NAME.new exists.  Then they are the entries of one package set, with its  *)
(* unit files staged, and complete, whatever was killed or activated before  *)
(* (the check of swap_active, the clean-up of activate), but for one case:   *)
(* an activation that was to throw the entries of an interrupted swap away   *)
(* is killed in the "rm -rf" of the first.  An activation's own check never  *)
(* meets it, and the check of a recovery does not before a second fault.     *)
CheckMeansComplete ==
    AllNewExist =>
        \E s \in Sets :
            /\ \A u \in UnitsOf[s] : staged[u] = s
            /\ \A n \in Names :
                 \/ new[n] = s
                 \/ n = 1 /\ new[n] = Partial /\ (pc = "check" => mode = "recover" /\ faults > 1)

(* No move of the swap finds its target occupied, where a directory would   *)
(* end up inside the old one: activate has removed NAME.old, and archiving  *)
(* has moved the live entry away, also after earlier attempts.              *)
MoveTargetsFree ==
    /\ pc = "archive" /\ active[i] # None => old[i] = None
    /\ pc = "move_new" /\ mode = "activate" => active[i] = None

(* The node has package set s and nothing else: every active name comes     *)
(* from it, and the unit files in the base systemd directory are those of   *)
(* its units (none, before the first activation).                           *)
OneSet(s) ==
    /\ \A n \in Names : active[n] = s \/ (n = Wants /\ active[n] = None)
    /\ nested = {}
    /\ \A u \in Units : unit[u] = IF u \in UnitsIn(active[Wants]) THEN s ELSE None

(* After at most one fault, the node has exactly one package set while      *)
(* install_progress does not exist (Install.activate: "swaps it into place  *)
(* as atomically as possible").                                             *)
ConsistentActive == faults <= 1 /\ progress = "none" => \E s \in Sets : OneSet(s)

(* An activation that runs to its end leaves exactly the package set asked  *)
(* for, whatever an earlier activation or recovery left behind.             *)
ActivationLeavesOneSet == pc = "start_target" => OneSet(target)

(* A service that runs was started from the unit file that is installed:    *)
(* no swap removes or replaces the file of a service it has not stopped,    *)
(* since stop_all only stops the units whose file it still finds (after at  *)
(* most one fault).                                                         *)
NoOrphanService == faults <= 1 => \A u \in Units : running[u] # None => running[u] = unit[u]

(* An activation that is not killed is not stopped by its own checks: its   *)
(* new entries all exist when swap_active looks, and no unit file is        *)
(* missing when activate_new_unit_files moves it.                           *)
SwapNeverRaises ==
    /\ pc = "check" /\ mode = "activate" => AllNewExist
    /\ pc = "move_units" /\ mode = "activate" => \A u \in todo : staged[u] # None

(* A swap that stopped in its archive stage with the new entries intact is  *)
(* carried on once setup is run, however often it is interrupted again,     *)
(* unless an operator throws the new entries away.                          *)
ArchiveStageLeft ==
    progress = "archive" /\ AllNewExist ~> progress # "archive" \/ ~AllNewExist

(* "Record the state (atomically) on the filesystem so that if there is a   *)
(* hard/fast fail at any point the activate swap can continue": a recovery  *)
(* is not refused by swap_active.                                            *)
RecoveryContinues == pc = "check" /\ mode = "recover" => AllNewExist
=============================================================================
