------------------------------ MODULE PkgSetup ------------------------------
(***************************************************************************)
(* The boot of a node.  Where there is no active directory                 *)
(* dcos-download.service extracts the bootstrap tarball; then              *)
(* dcos-setup.service runs "pkgpanda setup", which activates the packages  *)
(* the node is configured for, if the tarball's flag file is there, or     *)
(* carries on an interrupted swap (gen/dcos-services.yaml, setup of        *)
(* pkgpanda/actions.py).  PkgInstall has the steps of an activation.       *)
(***************************************************************************)
EXTENDS PkgInstall

CONSTANTS
    Bin, Environment, Active,   \* names: what the unit needs, and what the
                                \*   download looks for
    Configured                  \* the package set of the node's setup flags

VARIABLES
    host,       \* "boot", "extract", "start", "setup", "clear", "up" or "failed"
    bootstrap,  \* the flag file of the tarball is there
    packages,   \* the packages of the tarball are all there
    left,       \* what of the tarball is still to be extracted
    exposed     \* history: something was stopped where a boot cannot help

boot == <<host, bootstrap, packages, left, exposed>>

Flag == 0
Packages == NumNames + 1
Tarball == {Flag, Packages} \cup (Names \ {Wants})

Fresh ==
    /\ active = [n \in Names |-> None]
    /\ new = active /\ old = active /\ nested = {}
    /\ unit = [u \in Units |-> None]
    /\ staged = unit /\ running = unit
    /\ progress = "none"
    /\ pc = "idle" /\ i = 1 /\ todo = {} /\ mode = "activate" /\ target = FirstSet
    /\ faults = 0 /\ requests = 0
    /\ host = "boot"
    /\ bootstrap = FALSE /\ packages = FALSE /\ left = {} /\ exposed = FALSE

-----------------------------------------------------------------------------
(* dcos-download.service                                                   *)

Download ==
    /\ host = "boot"
    /\ IF active[Active] # None
       THEN host' = "start" /\ UNCHANGED left
       ELSE host' = "extract" /\ left' = Tarball
    /\ UNCHANGED <<vars, bootstrap, packages, exposed>>

\* curl gives up
DownloadFails ==
    /\ host = "boot" /\ active[Active] = None
    /\ faults < MaxFaults
    /\ faults' = faults + 1
    /\ host' = "failed"
    /\ UNCHANGED <<tree, systemd, progress, process, requests, bootstrap, packages, left, exposed>>

\* The members of the tarball are in the order of os.listdir.  Of a directory
\* that is there with other links, those of the tarball are replaced; it holds
\* what is needed, and the activation that follows archives it.
Extract ==
    /\ host = "extract"
    /\ \E member \in left :
         /\ bootstrap' = (bootstrap \/ member = Flag)
         /\ packages' = (packages \/ member = Packages)
         /\ \/ /\ left' = left \ {member}
               /\ active' = IF member \in Names THEN [active EXCEPT ![member] = FirstSet]
                            ELSE active
            \/ /\ member \in Dirs /\ active[member] = None
               /\ active' = [active EXCEPT ![member] = Partial]
               /\ UNCHANGED left
    /\ UNCHANGED <<new, old, nested, systemd, progress, process, counters, host, exposed>>

Extracted ==
    /\ host = "extract" /\ left = {}
    /\ host' = "start"
    /\ UNCHANGED <<vars, bootstrap, packages, left, exposed>>

-----------------------------------------------------------------------------
(* dcos-setup.service: its environment file and its program are there      *)

CanStart == active[Environment] # None /\ active[Bin] \in Sets /\ packages

\* The packages of the setup flags are added to those in active, or replace
\* them; an active directory that is incomplete may make it another set
Bootstrap ==
    /\ host' = "setup"
    /\ pc' = "clean_new" /\ mode' = "activate"
    /\ target' \in IF active[Active] = Partial THEN Sets ELSE {Configured}

Recover ==
    /\ host' = "setup"
    /\ pc' = "check" /\ mode' = "recover" /\ UNCHANGED target

NothingToDo == host' = "up" /\ UNCHANGED <<pc, mode, target>>

(* Mutant of StartSetup: an interrupted swap is carried on first *)
StartSetupRecoversFirst ==
    /\ host = "start" /\ CanStart
    /\ \/ progress # "none" /\ Recover
       \/ progress = "none" /\ bootstrap /\ Bootstrap
       \/ progress = "none" /\ ~bootstrap /\ NothingToDo
    /\ UNCHANGED <<tree, systemd, progress, i, todo, counters, bootstrap, packages, left, exposed>>

StartSetup ==
    /\ host = "start" /\ CanStart
    /\ \/ bootstrap /\ Bootstrap
       \/ ~bootstrap /\ progress # "none" /\ Recover
       \/ ~bootstrap /\ progress = "none" /\ NothingToDo
    /\ UNCHANGED <<tree, systemd, progress, i, todo, counters, bootstrap, packages, left, exposed>>

\* A package list or a package cannot be downloaded
BootstrapFails ==
    /\ host = "start" /\ CanStart /\ bootstrap
    /\ faults < MaxFaults
    /\ faults' = faults + 1
    /\ host' = "failed"
    /\ UNCHANGED <<tree, systemd, progress, process, requests, bootstrap, packages, left, exposed>>

\* Where the program is one of an incomplete directory, or of an incomplete
\* package, it may be able to see that there is nothing to do
CannotStart ==
    /\ host = "start" /\ ~CanStart
    /\ \/ host' = "failed"
       \/ /\ active[Environment] # None /\ active[Bin] # None
          /\ ~bootstrap /\ progress = "none"
          /\ host' = "up"
    /\ UNCHANGED <<vars, bootstrap, packages, left, exposed>>

\* pkgpanda goes on; setup ends with it, or with its exception.  The packages
\* a node is given have no file in common: else populate always fails.
Pkgpanda ==
    /\ BuildStep \/ SwapStep \/ StartDcosTarget \/ StopAllFails \/ StartTargetFails
    /\ ~(pc = "populate" /\ pc' = "idle")
    /\ host' = IF host = "setup" /\ pc' = "idle"
               THEN CASE pc = "start_target" /\ faults' = faults -> "clear"
                      [] pc = "finish" -> "up"
                      [] OTHER -> "failed"
               ELSE host
    /\ UNCHANGED <<bootstrap, packages, left, exposed>>

RemoveBootstrap ==
    /\ host = "clear"
    /\ bootstrap' = FALSE
    /\ host' = "up"
    /\ UNCHANGED <<vars, packages, left, exposed>>

-----------------------------------------------------------------------------
(* The operator activates other packages on a node that is up, and starts  *)
(* the units again where they failed                                       *)

Upgrade ==
    /\ host = "up"
    /\ \E s \in Sets : Activate(s)
    /\ UNCHANGED boot

StartAgain ==
    /\ host = "failed"
    /\ host' = "boot"
    /\ UNCHANGED <<vars, bootstrap, packages, left, exposed>>

\* While the tarball is extracted; from the first entry moved away until the
\* record of the swap is removed, but for the moment when they all are away;
\* while an activation throws away what an interrupted one was to go on with
Exposed ==
    \/ host = "extract"
    \/ pc \in {"archive", "move_new", "unlink_units", "move_units", "finish"}
    \/ /\ host = "up" /\ pc # "idle" /\ progress # "none"
       /\ ~AllNewExist \/ new[1] = Partial

PkgpandaKilled ==
    /\ Kill
    /\ host' = IF host = "setup" THEN "failed" ELSE host
    /\ exposed' = (exposed \/ Exposed)
    /\ UNCHANGED <<bootstrap, packages, left>>

HostStops ==
    /\ Reboot
    /\ host' = "boot" /\ left' = {}
    /\ exposed' = (exposed \/ Exposed)
    /\ UNCHANGED <<bootstrap, packages>>

-----------------------------------------------------------------------------
NextBoot ==
    \/ Download \/ DownloadFails \/ Extract \/ Extracted
    \/ StartSetup \/ BootstrapFails \/ CannotStart \/ Pkgpanda \/ RemoveBootstrap
    \/ Upgrade \/ StartAgain \/ PkgpandaKilled \/ HostStops

\* systemd goes on, a running process goes on, and a unit that failed is
\* started again: by the operator, or at the next boot
BootFairness ==
    /\ WF_<<vars, boot>>(Download) /\ WF_<<vars, boot>>(Extract)
    /\ WF_<<vars, boot>>(Extracted)
    /\ WF_<<vars, boot>>(StartSetup) /\ WF_<<vars, boot>>(CannotStart)
    /\ WF_<<vars, boot>>(Pkgpanda) /\ WF_<<vars, boot>>(RemoveBootstrap)
    /\ WF_<<vars, boot>>(StartAgain)

BootSpec == Fresh /\ [][NextBoot]_<<vars, boot>> /\ BootFairness

-----------------------------------------------------------------------------
(* The node has an active directory, so that nothing is extracted, and what *)
(* setup needs is not there or it is refused by swap_active every time.     *)
Stranded ==
    /\ active[Active] # None
    /\ \/ ~CanStart
       \/ ~bootstrap /\ progress # "none" /\ ~AllNewExist
       \/ ~bootstrap /\ progress = "none" /\ active[Wants] = None

(* A node that is up and swaps nothing has one package set, whole, and its  *)
(* units: the one it is configured for unless it was upgraded (setup        *)
(* activates, carries a swap on or does nothing, pkgpanda/actions.py).      *)
NodeIsWhole ==
    host = "up" /\ progress = "none" /\ ~exposed =>
        /\ active[Wants] # None
        /\ \E s \in Sets : OneSet(s) /\ (s = Configured \/ requests > 0)

(* And a node that boots does come up with one, wherever it was             *)
(* stopped, pkgpanda killed or a command failed before; unless one of       *)
(* these happened while the tarball was extracted or the live entries were  *)
(* being replaced ("pkgpanda setup" is what recovers a partial update,      *)
(* pkgpanda/actions.py; the units that run it look for active, bin and      *)
(* environment, which the swap moves one by one).                           *)
BootComesUp ==
    /\ []NodeIsWhole
    /\ host = "boot" ~>
         \/ /\ host = "up" /\ active[Wants] # None
            /\ \E s \in Sets : OneSet(s) /\ (s = Configured \/ requests > 0 \/ exposed)
         \/ exposed /\ Stranded
=============================================================================
