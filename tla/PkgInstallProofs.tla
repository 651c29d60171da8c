-------------------------- MODULE PkgInstallProofs --------------------------
(***************************************************************************)
(* What holds of PkgInstall for every list of active names, every choice   *)
(* of package sets and units, and any number of kills, reboots, failing    *)
(* commands and activations, in any order with recoveries.                 *)
(***************************************************************************)
EXTENDS PkgSetup, TLAPS

Staged(s) == \A u \in UnitsOf[s] : staged[u] = s
NoUnits == \A u \in Units : unit[u] = None

BuildSteps == {"clean_new", "clean_old", "clean_staged", "mkdirs",
               "populate", "stage_units", "write_files"}

(* Where the build of the new entries has got to. *)
BuildInv ==
    /\ pc \in BuildSteps \cup {"start_target"} => mode = "activate"
    /\ pc = "clean_new" => \A n \in Names : n < i => new[n] = None
    /\ pc \in {"clean_old", "clean_staged"} => \A n \in Names : new[n] = None
    /\ pc = "clean_old" => \A n \in Names : n < i => old[n] = None
    /\ pc \in BuildSteps \ {"clean_new", "clean_old"} => \A n \in Names : old[n] = None
    /\ pc \in {"mkdirs", "populate", "stage_units"} =>
         \A n \in Names \ Dirs : new[n] = None
    /\ pc \in {"stage_units", "write_files"} => \A n \in Dirs : new[n] = target
    /\ pc = "stage_units" => /\ todo \subseteq UnitsOf[target]
                             /\ \A u \in UnitsOf[target] \ todo : staged[u] = target
    /\ pc = "write_files" =>
         /\ Staged(target)
         /\ \A n \in Names \ Dirs : new[n] = IF n < i THEN target ELSE None

(* Where a swap has got to, be it of an activation or of a recovery. *)
SwapInv ==
    /\ pc = "check" /\ mode = "recover" => progress # "none"
    /\ pc = "record_archive" /\ mode = "recover" => progress = "archive"
    /\ pc \in {"stop_all", "remove_units", "archive"} => progress = "archive"
    /\ pc \in {"record_archive", "stop_all", "remove_units", "archive"} => AllNewExist
    /\ pc = "remove_units" => \A u \in Units : unit[u] # None => u \in todo
    /\ pc = "archive" => NoUnits /\ \A n \in Names : n < i => active[n] = None
    /\ pc = "move_new" => \A n \in Names : n < i => new[n] = None
    /\ pc \in {"move_new", "unlink_units", "move_units", "finish"} => progress = "move_new"
    /\ pc \in {"unlink_units", "move_units"} => new[NumNames] = None
    /\ pc = "move_units" => todo \subseteq UnitsIn(active[Wants])

(* What the swap of an activation knows beyond that. *)
ActivateInv ==
    mode = "activate" =>
    /\ pc \in {"check", "record_archive", "stop_all", "remove_units", "archive", "record_move"} =>
         Staged(target) /\ \A n \in Names : new[n] = target
    /\ pc \in {"check", "record_archive", "stop_all", "remove_units"} =>
         \A n \in Names : old[n] = None
    /\ pc = "record_move" => NoUnits /\ \A n \in Names : active[n] = None
    /\ pc = "move_new" =>
         /\ NoUnits /\ nested = {} /\ Staged(target)
         /\ \A n \in Names : IF n < i THEN active[n] = target
                                      ELSE active[n] = None /\ new[n] = target
    /\ pc \in {"unlink_units", "move_units"} =>
         nested = {} /\ \A n \in Names : active[n] = target
    /\ pc = "unlink_units" => NoUnits /\ Staged(target)
    /\ pc = "move_units" =>
         /\ \A u \in todo : staged[u] = target
         /\ \A u \in UnitsOf[target] \ todo : unit[u] = target
    /\ pc \in {"finish", "start_target"} => OneSet(target)

(* As long as a recovery may start from the archive stage, no name has been *)
(* both archived and left in place.                                         *)
Disjoint ==
    progress = "archive" /\ AllNewExist =>
        \A n \in Names : active[n] = None \/ old[n] = None

(* When every NAME.new exists they are of one set, the first one perhaps    *)
(* incomplete.                                                             *)
OfOneSet ==
    AllNewExist =>
        \E s \in Sets : /\ \A u \in UnitsOf[s] : staged[u] = s
                      /\ \A n \in Names : new[n] = s \/ (n = 1 /\ new[n] = Partial)

UnitsKnown == \A u \in Units : unit[u] # None => u \in UnitsIn(active[Wants])
NestedLive == \A n \in nested : active[n] # None

(* A loop over the names starts with the first one. *)
AtFirst ==
    pc \notin {"clean_new", "clean_old", "mkdirs", "write_files", "archive", "move_new"} => i = 1

Core ==
    /\ TypeOK /\ AtFirst
    /\ BuildInv /\ SwapInv /\ ActivateInv
    /\ OfOneSet /\ UnitsKnown /\ NestedLive

IInv == Core /\ Disjoint
----------------------------------------------------------------------------
LEMMA InitInv == Init => IInv
<1> SUFFICES ASSUME Init PROVE IInv
  OBVIOUS
<1> QED
  BY InstallAssumption DEF Init, IInv, Core, TypeOK, Content, Installed, Steps, Names,
     BuildInv, BuildSteps, AtFirst, SwapInv, ActivateInv, OfOneSet, AllNewExist,
     Disjoint, UnitsKnown, NestedLive, UnitsIn

LEMMA ActivateStep ==
  ASSUME Core, NEW s \in Sets, Activate(s)
  PROVE  Core' /\ (Disjoint => Disjoint')
<1> USE InstallAssumption DEF Core, Activate, Loop, Goto, GotoUnits, TakeUnit,
      tree, systemd, process, counters, Names
<1>1. TypeOK'
  BY DEF TypeOK, Content, Installed, Steps, UnitsIn, Startable, Occupied
<1>2. AtFirst'
  BY DEF TypeOK, AtFirst
<1>3. BuildInv'
  BY DEF TypeOK, AtFirst, BuildInv, BuildSteps, Staged
<1>4. SwapInv'
  BY DEF TypeOK, AtFirst, BuildInv, SwapInv, ActivateInv, OfOneSet, UnitsKnown, BuildSteps, AllNewExist, NoUnits, UnitsIn
<1>5. ActivateInv'
  BY DEF TypeOK, AtFirst, BuildInv, SwapInv, ActivateInv, UnitsKnown, NestedLive, BuildSteps, AllNewExist, Staged, NoUnits, OneSet, UnitsIn, Occupied
<1>6. OfOneSet'
  BY DEF TypeOK, BuildInv, SwapInv, OfOneSet, BuildSteps, AllNewExist, Staged
<1>7. Disjoint => Disjoint'
  BY DEF TypeOK, BuildInv, SwapInv, ActivateInv, Disjoint, BuildSteps, AllNewExist
<1>8. UnitsKnown'
  BY DEF TypeOK, SwapInv, ActivateInv, UnitsKnown, NoUnits, UnitsIn, Occupied
<1>9. NestedLive'
  BY DEF TypeOK, SwapInv, NestedLive, Occupied
<1> QED
  BY <1>1, <1>2, <1>3, <1>4, <1>5, <1>6, <1>7, <1>8, <1>9 DEF Core

LEMMA CleanNewStep ==
  ASSUME Core, CleanNew
  PROVE  Core' /\ (Disjoint => Disjoint')
<1> USE InstallAssumption DEF Core, CleanNew, Loop, Goto, GotoUnits, TakeUnit,
      tree, systemd, process, counters, Names
<1>1. TypeOK'
  BY DEF TypeOK, Content, Installed, Steps, UnitsIn, Startable, Occupied
<1>2. AtFirst'
  BY DEF TypeOK, AtFirst
<1>3. BuildInv'
  BY DEF TypeOK, AtFirst, BuildInv, BuildSteps, Staged
<1>4. SwapInv'
  BY DEF TypeOK, AtFirst, BuildInv, SwapInv, ActivateInv, OfOneSet, UnitsKnown, BuildSteps, AllNewExist, NoUnits, UnitsIn
<1>5. ActivateInv'
  BY DEF TypeOK, AtFirst, BuildInv, SwapInv, ActivateInv, UnitsKnown, NestedLive, BuildSteps, AllNewExist, Staged, NoUnits, OneSet, UnitsIn, Occupied
<1>6. OfOneSet'
  BY DEF TypeOK, BuildInv, SwapInv, OfOneSet, BuildSteps, AllNewExist, Staged
<1>7. Disjoint => Disjoint'
  BY DEF TypeOK, BuildInv, SwapInv, ActivateInv, Disjoint, BuildSteps, AllNewExist
<1>8. UnitsKnown'
  BY DEF TypeOK, SwapInv, ActivateInv, UnitsKnown, NoUnits, UnitsIn, Occupied
<1>9. NestedLive'
  BY DEF TypeOK, SwapInv, NestedLive, Occupied
<1> QED
  BY <1>1, <1>2, <1>3, <1>4, <1>5, <1>6, <1>7, <1>8, <1>9 DEF Core

LEMMA CleanOldStep ==
  ASSUME Core, CleanOld
  PROVE  Core' /\ (Disjoint => Disjoint')
<1> USE InstallAssumption DEF Core, CleanOld, Loop, Goto, GotoUnits, TakeUnit,
      tree, systemd, process, counters, Names
<1>1. TypeOK'
  BY DEF TypeOK, Content, Installed, Steps, UnitsIn, Startable, Occupied
<1>2. AtFirst'
  BY DEF TypeOK, AtFirst
<1>3. BuildInv'
  <2>1. /\ \A n \in Names : n < i => old[n] = None
        /\ \A n \in Names : new[n] = None
        /\ mode = "activate" /\ i \in Names /\ old \in [Names -> Content]
    BY DEF TypeOK, BuildInv, BuildSteps
  <2>2. CASE i < NumNames
    BY <2>1, <2>2 DEF BuildInv, BuildSteps
  <2>3. CASE ~(i < NumNames)
    <3>1. \A n \in Names : old'[n] = None
      BY <2>1, <2>3
    <3> QED
      BY <2>1, <2>3, <3>1 DEF BuildInv, BuildSteps
  <2> QED
    BY <2>2, <2>3
<1>4. SwapInv'
  BY DEF TypeOK, AtFirst, BuildInv, SwapInv, ActivateInv, OfOneSet, UnitsKnown, BuildSteps, AllNewExist, NoUnits, UnitsIn
<1>5. ActivateInv'
  BY DEF TypeOK, AtFirst, BuildInv, SwapInv, ActivateInv, UnitsKnown, NestedLive, BuildSteps, AllNewExist, Staged, NoUnits, OneSet, UnitsIn, Occupied
<1>6. OfOneSet'
  BY DEF TypeOK, BuildInv, SwapInv, OfOneSet, BuildSteps, AllNewExist, Staged
<1>7. Disjoint => Disjoint'
  BY DEF TypeOK, BuildInv, SwapInv, ActivateInv, Disjoint, BuildSteps, AllNewExist
<1>8. UnitsKnown'
  BY DEF TypeOK, SwapInv, ActivateInv, UnitsKnown, NoUnits, UnitsIn, Occupied
<1>9. NestedLive'
  BY DEF TypeOK, SwapInv, NestedLive, Occupied
<1> QED
  BY <1>1, <1>2, <1>3, <1>4, <1>5, <1>6, <1>7, <1>8, <1>9 DEF Core

LEMMA RemoveStagedUnitFilesStep ==
  ASSUME Core, RemoveStagedUnitFiles
  PROVE  Core' /\ (Disjoint => Disjoint')
<1> USE InstallAssumption DEF Core, RemoveStagedUnitFiles, Loop, Goto, GotoUnits, TakeUnit,
      tree, systemd, process, counters, Names
<1>1. TypeOK'
  BY DEF TypeOK, Content, Installed, Steps, UnitsIn, Startable, Occupied
<1>2. AtFirst'
  BY DEF TypeOK, AtFirst
<1>3. BuildInv'
  BY DEF TypeOK, AtFirst, BuildInv, BuildSteps, Staged
<1>4. SwapInv'
  BY DEF TypeOK, AtFirst, BuildInv, SwapInv, ActivateInv, OfOneSet, UnitsKnown, BuildSteps, AllNewExist, NoUnits, UnitsIn
<1>5. ActivateInv'
  BY DEF TypeOK, AtFirst, BuildInv, SwapInv, ActivateInv, UnitsKnown, NestedLive, BuildSteps, AllNewExist, Staged, NoUnits, OneSet, UnitsIn, Occupied
<1>6. OfOneSet'
  BY DEF TypeOK, BuildInv, SwapInv, OfOneSet, BuildSteps, AllNewExist, Staged
<1>7. Disjoint => Disjoint'
  BY DEF TypeOK, BuildInv, SwapInv, ActivateInv, Disjoint, BuildSteps, AllNewExist
<1>8. UnitsKnown'
  BY DEF TypeOK, SwapInv, ActivateInv, UnitsKnown, NoUnits, UnitsIn, Occupied
<1>9. NestedLive'
  BY DEF TypeOK, SwapInv, NestedLive, Occupied
<1> QED
  BY <1>1, <1>2, <1>3, <1>4, <1>5, <1>6, <1>7, <1>8, <1>9 DEF Core

LEMMA MakeDirsStep ==
  ASSUME Core, MakeDirs
  PROVE  Core' /\ (Disjoint => Disjoint')
<1> USE InstallAssumption DEF Core, MakeDirs, Loop, Goto, GotoUnits, TakeUnit,
      tree, systemd, process, counters, Names
<1>1. TypeOK'
  BY DEF TypeOK, Content, Installed, Steps, UnitsIn, Startable, Occupied
<1>2. AtFirst'
  BY DEF TypeOK, AtFirst
<1>3. BuildInv'
  BY DEF TypeOK, AtFirst, BuildInv, BuildSteps, Staged
<1>4. SwapInv'
  BY DEF TypeOK, AtFirst, BuildInv, SwapInv, ActivateInv, OfOneSet, UnitsKnown, BuildSteps, AllNewExist, NoUnits, UnitsIn
<1>5. ActivateInv'
  BY DEF TypeOK, AtFirst, BuildInv, SwapInv, ActivateInv, UnitsKnown, NestedLive, BuildSteps, AllNewExist, Staged, NoUnits, OneSet, UnitsIn, Occupied
<1>6. OfOneSet'
  BY DEF TypeOK, BuildInv, SwapInv, OfOneSet, BuildSteps, AllNewExist, Staged
<1>7. Disjoint => Disjoint'
  BY DEF TypeOK, BuildInv, SwapInv, ActivateInv, Disjoint, BuildSteps, AllNewExist
<1>8. UnitsKnown'
  BY DEF TypeOK, SwapInv, ActivateInv, UnitsKnown, NoUnits, UnitsIn, Occupied
<1>9. NestedLive'
  BY DEF TypeOK, SwapInv, NestedLive, Occupied
<1> QED
  BY <1>1, <1>2, <1>3, <1>4, <1>5, <1>6, <1>7, <1>8, <1>9 DEF Core

LEMMA PopulateStep ==
  ASSUME Core, Populate
  PROVE  Core' /\ (Disjoint => Disjoint')
<1> USE InstallAssumption DEF Core, Populate, Loop, Goto, GotoUnits, TakeUnit,
      tree, systemd, process, counters, Names
<1>1. TypeOK'
  BY DEF TypeOK, Content, Installed, Steps, UnitsIn, Startable, Occupied
<1>2. AtFirst'
  BY DEF TypeOK, AtFirst
<1>3. BuildInv'
  BY DEF TypeOK, AtFirst, BuildInv, BuildSteps, Staged
<1>4. SwapInv'
  BY DEF TypeOK, AtFirst, BuildInv, SwapInv, ActivateInv, OfOneSet, UnitsKnown, BuildSteps, AllNewExist, NoUnits, UnitsIn
<1>5. ActivateInv'
  BY DEF TypeOK, AtFirst, BuildInv, SwapInv, ActivateInv, UnitsKnown, NestedLive, BuildSteps, AllNewExist, Staged, NoUnits, OneSet, UnitsIn, Occupied
<1>6. OfOneSet'
  BY DEF TypeOK, BuildInv, SwapInv, OfOneSet, BuildSteps, AllNewExist, Staged
<1>7. Disjoint => Disjoint'
  BY DEF TypeOK, BuildInv, SwapInv, ActivateInv, Disjoint, BuildSteps, AllNewExist
<1>8. UnitsKnown'
  BY DEF TypeOK, SwapInv, ActivateInv, UnitsKnown, NoUnits, UnitsIn, Occupied
<1>9. NestedLive'
  BY DEF TypeOK, SwapInv, NestedLive, Occupied
<1> QED
  BY <1>1, <1>2, <1>3, <1>4, <1>5, <1>6, <1>7, <1>8, <1>9 DEF Core

LEMMA StageNewUnitsStep ==
  ASSUME Core, StageNewUnits
  PROVE  Core' /\ (Disjoint => Disjoint')
<1> USE InstallAssumption DEF Core, StageNewUnits, Loop, Goto, GotoUnits, TakeUnit,
      tree, systemd, process, counters, Names
<1>1. TypeOK'
  BY DEF TypeOK, Content, Installed, Steps, UnitsIn, Startable, Occupied
<1>2. AtFirst'
  BY DEF TypeOK, AtFirst
<1>3. BuildInv'
  <2>1. /\ mode = "activate" /\ UNCHANGED <<new, old, mode, target, i>>
        /\ \A n \in Names : old[n] = None
        /\ \A n \in Names \ Dirs : new[n] = None
        /\ \A n \in Dirs : new[n] = target
        /\ todo \subseteq UnitsOf[target]
        /\ \A u \in UnitsOf[target] \ todo : staged[u] = target
    BY DEF BuildInv, BuildSteps
  <2>2. CASE \E u \in todo : TakeUnit(u) /\ staged' = [staged EXCEPT ![u] = target]
    <3>1. pc' = "stage_units" /\ todo' \subseteq UnitsOf[target]
      BY <2>1, <2>2
    <3>2. \A u \in UnitsOf[target] \ todo' : staged'[u] = target
      BY <2>1, <2>2 DEF TypeOK, Installed
    <3> QED
      BY <2>1, <3>1, <3>2 DEF BuildInv, BuildSteps
  <2>3. CASE todo = {} /\ Goto("write_files") /\ UNCHANGED staged
    <3>1. i = 1
      BY DEF AtFirst
    <3> QED
      BY <2>1, <2>3, <3>1 DEF BuildInv, BuildSteps, Staged
  <2> QED
    BY <2>2, <2>3
<1>4. SwapInv'
  BY DEF TypeOK, AtFirst, BuildInv, SwapInv, ActivateInv, OfOneSet, UnitsKnown, BuildSteps, AllNewExist, NoUnits, UnitsIn
<1>5. ActivateInv'
  BY DEF TypeOK, AtFirst, BuildInv, SwapInv, ActivateInv, UnitsKnown, NestedLive, BuildSteps, AllNewExist, Staged, NoUnits, OneSet, UnitsIn, Occupied
<1>6. OfOneSet'
  BY DEF TypeOK, BuildInv, SwapInv, OfOneSet, BuildSteps, AllNewExist, Staged
<1>7. Disjoint => Disjoint'
  BY DEF TypeOK, BuildInv, SwapInv, ActivateInv, Disjoint, BuildSteps, AllNewExist
<1>8. UnitsKnown'
  BY DEF TypeOK, SwapInv, ActivateInv, UnitsKnown, NoUnits, UnitsIn, Occupied
<1>9. NestedLive'
  BY DEF TypeOK, SwapInv, NestedLive, Occupied
<1> QED
  BY <1>1, <1>2, <1>3, <1>4, <1>5, <1>6, <1>7, <1>8, <1>9 DEF Core

LEMMA WriteFilesStep ==
  ASSUME Core, WriteFiles
  PROVE  Core' /\ (Disjoint => Disjoint')
<1> USE InstallAssumption DEF Core, WriteFiles, Loop, Goto, GotoUnits, TakeUnit,
      tree, systemd, process, counters, Names
<1>1. TypeOK'
  BY DEF TypeOK, Content, Installed, Steps, UnitsIn, Startable, Occupied
<1>2. AtFirst'
  BY DEF TypeOK, AtFirst
<1>3. BuildInv'
  BY DEF TypeOK, AtFirst, BuildInv, BuildSteps, Staged
<1>4. SwapInv'
  BY DEF TypeOK, AtFirst, BuildInv, SwapInv, ActivateInv, OfOneSet, UnitsKnown, BuildSteps, AllNewExist, NoUnits, UnitsIn
<1>5. ActivateInv'
  BY DEF TypeOK, AtFirst, BuildInv, SwapInv, ActivateInv, UnitsKnown, NestedLive, BuildSteps, AllNewExist, Staged, NoUnits, OneSet, UnitsIn, Occupied
<1>6. OfOneSet'
  <2>1. /\ target \in Sets /\ i \in Names /\ new \in [Names -> Content] /\ Staged(target)
        /\ \A n \in Dirs : new[n] = target
        /\ \A n \in Names \ Dirs : new[n] = IF n < i THEN target ELSE None
    BY DEF TypeOK, BuildInv, BuildSteps
  <2>2. CASE i < NumNames
    BY <2>1, <2>2 DEF OfOneSet, AllNewExist
  <2>3. CASE ~(i < NumNames)
    <3>1. \A n \in Names : new'[n] = target
      BY <2>1, <2>3
    <3>2. \A u \in UnitsOf[target] : staged'[u] = target
      BY <2>1 DEF Staged
    <3>3. target \in Sets
      BY <2>1
    <3> SUFFICES \E s \in Sets : /\ \A u \in UnitsOf[s] : staged'[u] = s
                                 /\ \A n \in Names : new'[n] = s \/ (n = 1 /\ new'[n] = Partial)
      BY DEF OfOneSet
    <3> WITNESS target \in Sets
    <3> QED BY <3>1, <3>2
  <2> QED
    BY <2>2, <2>3
<1>7. Disjoint => Disjoint'
  BY DEF TypeOK, BuildInv, SwapInv, ActivateInv, Disjoint, BuildSteps, AllNewExist
<1>8. UnitsKnown'
  BY DEF TypeOK, SwapInv, ActivateInv, UnitsKnown, NoUnits, UnitsIn, Occupied
<1>9. NestedLive'
  BY DEF TypeOK, SwapInv, NestedLive, Occupied
<1> QED
  BY <1>1, <1>2, <1>3, <1>4, <1>5, <1>6, <1>7, <1>8, <1>9 DEF Core

LEMMA CheckNewStep ==
  ASSUME Core, CheckNew
  PROVE  Core' /\ (Disjoint => Disjoint')
<1> USE InstallAssumption DEF Core, CheckNew, Loop, Goto, GotoUnits, TakeUnit,
      tree, systemd, process, counters, Names
<1>1. TypeOK'
  BY DEF TypeOK, Content, Installed, Steps, UnitsIn, Startable, Occupied
<1>2. AtFirst'
  BY DEF TypeOK, AtFirst
<1>3. BuildInv'
  BY DEF TypeOK, AtFirst, BuildInv, BuildSteps, Staged
<1>4. SwapInv'
  BY DEF TypeOK, AtFirst, BuildInv, SwapInv, ActivateInv, OfOneSet, UnitsKnown, BuildSteps, AllNewExist, NoUnits, UnitsIn
<1>5. ActivateInv'
  BY DEF TypeOK, AtFirst, BuildInv, SwapInv, ActivateInv, UnitsKnown, NestedLive, BuildSteps, AllNewExist, Staged, NoUnits, OneSet, UnitsIn, Occupied
<1>6. OfOneSet'
  BY DEF TypeOK, BuildInv, SwapInv, OfOneSet, BuildSteps, AllNewExist, Staged
<1>7. Disjoint => Disjoint'
  BY DEF TypeOK, BuildInv, SwapInv, ActivateInv, Disjoint, BuildSteps, AllNewExist
<1>8. UnitsKnown'
  BY DEF TypeOK, SwapInv, ActivateInv, UnitsKnown, NoUnits, UnitsIn, Occupied
<1>9. NestedLive'
  BY DEF TypeOK, SwapInv, NestedLive, Occupied
<1> QED
  BY <1>1, <1>2, <1>3, <1>4, <1>5, <1>6, <1>7, <1>8, <1>9 DEF Core

LEMMA RecordArchiveStep ==
  ASSUME Core, RecordArchive
  PROVE  Core' /\ (Disjoint => Disjoint')
<1> USE InstallAssumption DEF Core, RecordArchive, Loop, Goto, GotoUnits, TakeUnit,
      tree, systemd, process, counters, Names
<1>1. TypeOK'
  BY DEF TypeOK, Content, Installed, Steps, UnitsIn, Startable, Occupied
<1>2. AtFirst'
  BY DEF TypeOK, AtFirst
<1>3. BuildInv'
  BY DEF TypeOK, AtFirst, BuildInv, BuildSteps, Staged
<1>4. SwapInv'
  BY DEF TypeOK, AtFirst, BuildInv, SwapInv, ActivateInv, OfOneSet, UnitsKnown, BuildSteps, AllNewExist, NoUnits, UnitsIn
<1>5. ActivateInv'
  BY DEF TypeOK, AtFirst, BuildInv, SwapInv, ActivateInv, UnitsKnown, NestedLive, BuildSteps, AllNewExist, Staged, NoUnits, OneSet, UnitsIn, Occupied
<1>6. OfOneSet'
  BY DEF TypeOK, BuildInv, SwapInv, OfOneSet, BuildSteps, AllNewExist, Staged
<1>7. Disjoint => Disjoint'
  BY DEF TypeOK, BuildInv, SwapInv, ActivateInv, Disjoint, BuildSteps, AllNewExist
<1>8. UnitsKnown'
  BY DEF TypeOK, SwapInv, ActivateInv, UnitsKnown, NoUnits, UnitsIn, Occupied
<1>9. NestedLive'
  BY DEF TypeOK, SwapInv, NestedLive, Occupied
<1> QED
  BY <1>1, <1>2, <1>3, <1>4, <1>5, <1>6, <1>7, <1>8, <1>9 DEF Core

LEMMA StopAllStep ==
  ASSUME Core, StopAll
  PROVE  Core' /\ (Disjoint => Disjoint')
<1> USE InstallAssumption DEF Core, StopAll, Loop, Goto, GotoUnits, TakeUnit,
      tree, systemd, process, counters, Names
<1>1. TypeOK'
  BY DEF TypeOK, Content, Installed, Steps, UnitsIn, Startable, Occupied
<1>2. AtFirst'
  BY DEF TypeOK, AtFirst
<1>3. BuildInv'
  BY DEF TypeOK, AtFirst, BuildInv, BuildSteps, Staged
<1>4. SwapInv'
  BY DEF TypeOK, AtFirst, BuildInv, SwapInv, ActivateInv, OfOneSet, UnitsKnown, BuildSteps, AllNewExist, NoUnits, UnitsIn
<1>5. ActivateInv'
  BY DEF TypeOK, AtFirst, BuildInv, SwapInv, ActivateInv, UnitsKnown, NestedLive, BuildSteps, AllNewExist, Staged, NoUnits, OneSet, UnitsIn, Occupied
<1>6. OfOneSet'
  BY DEF TypeOK, BuildInv, SwapInv, OfOneSet, BuildSteps, AllNewExist, Staged
<1>7. Disjoint => Disjoint'
  BY DEF TypeOK, BuildInv, SwapInv, ActivateInv, Disjoint, BuildSteps, AllNewExist
<1>8. UnitsKnown'
  BY DEF TypeOK, SwapInv, ActivateInv, UnitsKnown, NoUnits, UnitsIn, Occupied
<1>9. NestedLive'
  BY DEF TypeOK, SwapInv, NestedLive, Occupied
<1> QED
  BY <1>1, <1>2, <1>3, <1>4, <1>5, <1>6, <1>7, <1>8, <1>9 DEF Core

LEMMA RemoveUnitsStep ==
  ASSUME Core, RemoveUnitFiles("remove_units", "archive", {})
  PROVE  Core' /\ (Disjoint => Disjoint')
<1> USE InstallAssumption DEF Core, RemoveUnitFiles, Loop, Goto, GotoUnits, TakeUnit,
      tree, systemd, process, counters, Names
<1>1. TypeOK'
  BY DEF TypeOK, Content, Installed, Steps, UnitsIn, Startable, Occupied
<1>2. AtFirst'
  BY DEF TypeOK, AtFirst
<1>3. BuildInv'
  BY DEF TypeOK, AtFirst, BuildInv, BuildSteps, Staged
<1>4. SwapInv'
  <2>1. /\ \A u \in Units : unit[u] # None => u \in todo
        /\ progress = "archive" /\ AllNewExist /\ i = 1
    BY DEF SwapInv, AtFirst
  <2>2. AllNewExist'
    BY <2>1 DEF AllNewExist
  <2>3. CASE \E u \in todo : TakeUnit(u) /\ unit' = [unit EXCEPT ![u] = None]
    <3>1. \A u \in Units : unit'[u] # None => u \in todo'
      BY <2>1, <2>3 DEF TypeOK, Installed
    <3> QED
      BY <2>1, <2>2, <2>3, <3>1 DEF SwapInv
  <2>4. CASE todo = {} /\ GotoUnits("archive", {}) /\ UNCHANGED unit
    BY <2>1, <2>2, <2>4 DEF SwapInv, NoUnits
  <2> QED
    BY <2>3, <2>4
<1>5. ActivateInv'
  BY DEF TypeOK, AtFirst, BuildInv, SwapInv, ActivateInv, UnitsKnown, NestedLive, BuildSteps, AllNewExist, Staged, NoUnits, OneSet, UnitsIn, Occupied
<1>6. OfOneSet'
  BY DEF TypeOK, BuildInv, SwapInv, OfOneSet, BuildSteps, AllNewExist, Staged
<1>7. Disjoint => Disjoint'
  BY DEF TypeOK, BuildInv, SwapInv, ActivateInv, Disjoint, BuildSteps, AllNewExist
<1>8. UnitsKnown'
  <2>1. \A u \in Units : unit'[u] # None => unit[u] # None
    BY DEF TypeOK, Installed, SwapInv
  <2>2. UNCHANGED active
    OBVIOUS
  <2> QED
    BY <2>1, <2>2 DEF UnitsKnown, UnitsIn
<1>9. NestedLive'
  BY DEF TypeOK, SwapInv, NestedLive, Occupied
<1> QED
  BY <1>1, <1>2, <1>3, <1>4, <1>5, <1>6, <1>7, <1>8, <1>9 DEF Core

LEMMA ArchiveStep ==
  ASSUME Core, Archive
  PROVE  Core' /\ (Disjoint => Disjoint')
<1> USE InstallAssumption DEF Core, Archive, Loop, Goto, GotoUnits, TakeUnit,
      tree, systemd, process, counters, Names
<1>1. TypeOK'
  <2>1. active' \in [Names -> Content] /\ old' \in [Names -> Content] /\ nested' \subseteq Dirs
    BY DEF TypeOK, Content, Occupied
  <2>2. i' \in Names /\ pc' \in Steps
    BY DEF TypeOK, Steps
  <2> QED
    BY <2>1, <2>2 DEF TypeOK, Installed
<1>2. AtFirst'
  BY DEF TypeOK, AtFirst
<1>3. BuildInv'
  BY DEF TypeOK, AtFirst, BuildInv, BuildSteps, Staged
<1>4. SwapInv'
  BY DEF TypeOK, AtFirst, BuildInv, SwapInv, ActivateInv, OfOneSet, UnitsKnown, BuildSteps, AllNewExist, NoUnits, UnitsIn
<1>5. ActivateInv'
  BY DEF TypeOK, AtFirst, BuildInv, SwapInv, ActivateInv, UnitsKnown, NestedLive, BuildSteps, AllNewExist, Staged, NoUnits, OneSet, UnitsIn, Occupied
<1>6. OfOneSet'
  BY DEF TypeOK, BuildInv, SwapInv, OfOneSet, BuildSteps, AllNewExist, Staged
<1>7. Disjoint => Disjoint'
  BY DEF TypeOK, BuildInv, SwapInv, ActivateInv, Disjoint, BuildSteps, AllNewExist
<1>8. UnitsKnown'
  BY DEF TypeOK, SwapInv, ActivateInv, UnitsKnown, NoUnits, UnitsIn, Occupied
<1>9. NestedLive'
  BY DEF TypeOK, SwapInv, NestedLive, Occupied
<1> QED
  BY <1>1, <1>2, <1>3, <1>4, <1>5, <1>6, <1>7, <1>8, <1>9 DEF Core

LEMMA RecordMoveStep ==
  ASSUME Core, RecordMove
  PROVE  Core' /\ (Disjoint => Disjoint')
<1> USE InstallAssumption DEF Core, RecordMove, Loop, Goto, GotoUnits, TakeUnit,
      tree, systemd, process, counters, Names
<1>1. TypeOK'
  BY DEF TypeOK, Content, Installed, Steps, UnitsIn, Startable, Occupied
<1>2. AtFirst'
  BY DEF TypeOK, AtFirst
<1>3. BuildInv'
  BY DEF TypeOK, AtFirst, BuildInv, BuildSteps, Staged
<1>4. SwapInv'
  BY DEF TypeOK, AtFirst, BuildInv, SwapInv, ActivateInv, OfOneSet, UnitsKnown, BuildSteps, AllNewExist, NoUnits, UnitsIn
<1>5. ActivateInv'
  BY DEF TypeOK, AtFirst, BuildInv, SwapInv, ActivateInv, UnitsKnown, NestedLive, BuildSteps, AllNewExist, Staged, NoUnits, OneSet, UnitsIn, Occupied
<1>6. OfOneSet'
  BY DEF TypeOK, BuildInv, SwapInv, OfOneSet, BuildSteps, AllNewExist, Staged
<1>7. Disjoint => Disjoint'
  BY DEF TypeOK, BuildInv, SwapInv, ActivateInv, Disjoint, BuildSteps, AllNewExist
<1>8. UnitsKnown'
  BY DEF TypeOK, SwapInv, ActivateInv, UnitsKnown, NoUnits, UnitsIn, Occupied
<1>9. NestedLive'
  BY DEF TypeOK, SwapInv, NestedLive, Occupied
<1> QED
  BY <1>1, <1>2, <1>3, <1>4, <1>5, <1>6, <1>7, <1>8, <1>9 DEF Core

LEMMA MoveNewStep ==
  ASSUME Core, MoveNew
  PROVE  Core' /\ (Disjoint => Disjoint')
<1> USE InstallAssumption DEF Core, MoveNew, Loop, Goto, GotoUnits, TakeUnit,
      tree, systemd, process, counters, Names
<1>1. TypeOK'
  <2>1. active' \in [Names -> Content] /\ new' \in [Names -> Content] /\ nested' \subseteq Dirs
    BY DEF TypeOK, Content, Occupied
  <2>2. i' \in Names /\ pc' \in Steps
    BY DEF TypeOK, Steps
  <2>3. todo' \subseteq Units
    BY DEF TypeOK, UnitsIn
  <2> QED
    BY <2>1, <2>2, <2>3 DEF TypeOK, Installed
<1>2. AtFirst'
  BY DEF TypeOK, AtFirst
<1>3. BuildInv'
  BY DEF TypeOK, AtFirst, BuildInv, BuildSteps, Staged
<1>4. SwapInv'
  BY DEF TypeOK, AtFirst, BuildInv, SwapInv, ActivateInv, OfOneSet, UnitsKnown, BuildSteps, AllNewExist, NoUnits, UnitsIn
<1>5. ActivateInv'
  <2> SUFFICES ASSUME mode = "activate" PROVE ActivateInv'
    BY DEF ActivateInv
  <2>1. /\ NoUnits /\ nested = {} /\ Staged(target)
        /\ \A n \in Names : IF n < i THEN active[n] = target
                                     ELSE active[n] = None /\ new[n] = target
        /\ i \in Names
    BY DEF ActivateInv, TypeOK
  <2>2. /\ active' = [active EXCEPT ![i] = target]
        /\ nested' = {}
    BY <2>1 DEF Occupied
  <2>3. \A n \in Names : active'[n] = IF n <= i THEN target ELSE None
    BY <2>1, <2>2 DEF TypeOK
  <2>4. \A n \in Names : n > i => new'[n] = target
    BY <2>1 DEF TypeOK
  <2>5. NoUnits' /\ Staged(target)'
    BY <2>1 DEF NoUnits, Staged
  <2>6. CASE i < NumNames
    BY <2>1, <2>2, <2>3, <2>4, <2>5, <2>6 DEF ActivateInv
  <2>7. CASE ~(i < NumNames)
    BY <2>1, <2>2, <2>3, <2>5, <2>7 DEF ActivateInv
  <2> QED
    BY <2>6, <2>7
<1>6. OfOneSet'
  BY DEF TypeOK, BuildInv, SwapInv, OfOneSet, BuildSteps, AllNewExist, Staged
<1>7. Disjoint => Disjoint'
  BY DEF TypeOK, BuildInv, SwapInv, ActivateInv, Disjoint, BuildSteps, AllNewExist
<1>8. UnitsKnown'
  BY DEF TypeOK, SwapInv, ActivateInv, UnitsKnown, NoUnits, UnitsIn, Occupied
<1>9. NestedLive'
  <2>1. CASE Occupied(i, active[i])
    BY <2>1 DEF NestedLive, Occupied
  <2>2. CASE ~Occupied(i, active[i])
    <3>1. active' = [active EXCEPT ![i] = new[i]] /\ nested' = nested /\ i \notin nested
      BY <2>2
    <3>2. nested \subseteq Names
      BY DEF TypeOK
    <3> QED
      BY <3>1, <3>2 DEF NestedLive, TypeOK
  <2> QED
    BY <2>1, <2>2
<1> QED
  BY <1>1, <1>2, <1>3, <1>4, <1>5, <1>6, <1>7, <1>8, <1>9 DEF Core

LEMMA MoveNewFailsStep ==
  ASSUME Core, MoveNewFails
  PROVE  Core' /\ (Disjoint => Disjoint')
<1> USE InstallAssumption DEF Core, MoveNewFails, Loop, Goto, GotoUnits, TakeUnit,
      tree, systemd, process, counters, Names
<1>1. TypeOK'
  BY DEF TypeOK, Content, Installed, Steps, UnitsIn, Startable, Occupied
<1>2. AtFirst'
  BY DEF TypeOK, AtFirst
<1>3. BuildInv'
  BY DEF TypeOK, AtFirst, BuildInv, BuildSteps, Staged
<1>4. SwapInv'
  BY DEF TypeOK, AtFirst, BuildInv, SwapInv, ActivateInv, OfOneSet, UnitsKnown, BuildSteps, AllNewExist, NoUnits, UnitsIn
<1>5. ActivateInv'
  BY DEF TypeOK, AtFirst, BuildInv, SwapInv, ActivateInv, UnitsKnown, NestedLive, BuildSteps, AllNewExist, Staged, NoUnits, OneSet, UnitsIn, Occupied
<1>6. OfOneSet'
  BY DEF TypeOK, BuildInv, SwapInv, OfOneSet, BuildSteps, AllNewExist, Staged
<1>7. Disjoint => Disjoint'
  BY DEF TypeOK, BuildInv, SwapInv, ActivateInv, Disjoint, BuildSteps, AllNewExist
<1>8. UnitsKnown'
  BY DEF TypeOK, SwapInv, ActivateInv, UnitsKnown, NoUnits, UnitsIn, Occupied
<1>9. NestedLive'
  BY DEF TypeOK, SwapInv, NestedLive, Occupied
<1> QED
  BY <1>1, <1>2, <1>3, <1>4, <1>5, <1>6, <1>7, <1>8, <1>9 DEF Core

LEMMA UnlinkUnitsStep ==
  ASSUME Core, RemoveUnitFiles("unlink_units", "move_units", UnitsIn(active[Wants]))
  PROVE  Core' /\ (Disjoint => Disjoint')
<1> USE InstallAssumption DEF Core, RemoveUnitFiles, Loop, Goto, GotoUnits, TakeUnit,
      tree, systemd, process, counters, Names
<1>1. TypeOK'
  BY DEF TypeOK, Content, Installed, Steps, UnitsIn, Startable, Occupied
<1>2. AtFirst'
  BY DEF TypeOK, AtFirst
<1>3. BuildInv'
  BY DEF TypeOK, AtFirst, BuildInv, BuildSteps, Staged
<1>4. SwapInv'
  BY DEF TypeOK, AtFirst, BuildInv, SwapInv, ActivateInv, OfOneSet, UnitsKnown, BuildSteps, AllNewExist, NoUnits, UnitsIn
<1>5. ActivateInv'
  <2> SUFFICES ASSUME mode = "activate" PROVE ActivateInv'
    BY DEF ActivateInv
  <2>1. /\ NoUnits /\ nested = {} /\ Staged(target)
        /\ \A n \in Names : active[n] = target
        /\ target \in Sets
    BY DEF ActivateInv, TypeOK
  <2>2. UNCHANGED <<active, nested, staged, target, mode>>
    OBVIOUS
  <2>3. CASE \E u \in todo : TakeUnit(u) /\ unit' = [unit EXCEPT ![u] = None]
    <3>1. NoUnits' /\ Staged(target)'
      BY <2>1, <2>2, <2>3 DEF NoUnits, Staged, TypeOK, Installed
    <3> QED
      BY <2>1, <2>2, <2>3, <3>1 DEF ActivateInv
  <2>4. CASE /\ todo = {} /\ UNCHANGED unit
             /\ GotoUnits("move_units", UnitsIn(active[Wants]))
    <3>1. todo' = UnitsOf[target]
      BY <2>1, <2>4 DEF UnitsIn
    <3> QED
      BY <2>1, <2>2, <2>4, <3>1 DEF ActivateInv, Staged
  <2> QED
    BY <2>3, <2>4
<1>6. OfOneSet'
  BY DEF TypeOK, BuildInv, SwapInv, OfOneSet, BuildSteps, AllNewExist, Staged
<1>7. Disjoint => Disjoint'
  BY DEF TypeOK, BuildInv, SwapInv, ActivateInv, Disjoint, BuildSteps, AllNewExist
<1>8. UnitsKnown'
  <2>1. \A u \in Units : unit'[u] # None => unit[u] # None
    BY DEF TypeOK, Installed, SwapInv
  <2>2. UNCHANGED active
    OBVIOUS
  <2> QED
    BY <2>1, <2>2 DEF UnitsKnown, UnitsIn
<1>9. NestedLive'
  BY DEF TypeOK, SwapInv, NestedLive, Occupied
<1> QED
  BY <1>1, <1>2, <1>3, <1>4, <1>5, <1>6, <1>7, <1>8, <1>9 DEF Core

LEMMA ActivateNewUnitFilesStep ==
  ASSUME Core, ActivateNewUnitFiles
  PROVE  Core' /\ (Disjoint => Disjoint')
<1> USE InstallAssumption DEF Core, ActivateNewUnitFiles, Loop, Goto, GotoUnits, TakeUnit,
      tree, systemd, process, counters, Names
<1>1. TypeOK'
  BY DEF TypeOK, Content, Installed, Steps, UnitsIn, Startable, Occupied
<1>2. AtFirst'
  BY DEF TypeOK, AtFirst
<1>3. BuildInv'
  BY DEF TypeOK, AtFirst, BuildInv, BuildSteps, Staged
<1>4. SwapInv'
  BY DEF TypeOK, AtFirst, BuildInv, SwapInv, ActivateInv, OfOneSet, UnitsKnown, BuildSteps, AllNewExist, NoUnits, UnitsIn
<1>5. ActivateInv'
  <2> SUFFICES ASSUME mode = "activate" PROVE ActivateInv'
    BY DEF ActivateInv
  <2>1. /\ nested = {} /\ \A n \in Names : active[n] = target
        /\ \A u \in todo : staged[u] = target
        /\ \A u \in UnitsOf[target] \ todo : unit[u] = target
        /\ target \in Sets
    BY DEF ActivateInv, TypeOK
  <2>2. UNCHANGED <<active, nested, target, mode>>
    OBVIOUS
  <2>3. CASE \E u \in todo : /\ staged[u] # None
                             /\ unit' = [unit EXCEPT ![u] = staged[u]]
                             /\ staged' = [staged EXCEPT ![u] = None]
                             /\ TakeUnit(u)
    <3>1. PICK u \in todo : /\ unit' = [unit EXCEPT ![u] = target]
                            /\ staged' = [staged EXCEPT ![u] = None]
                            /\ TakeUnit(u)
      BY <2>1, <2>3
    <3>2. \A v \in todo' : staged'[v] = target
      BY <2>1, <3>1 DEF TypeOK, Installed
    <3>3. \A v \in UnitsOf[target] \ todo' : unit'[v] = target
      BY <2>1, <3>1 DEF TypeOK, Installed
    <3> QED
      BY <2>1, <2>2, <3>1, <3>2, <3>3 DEF ActivateInv
  <2>4. CASE pc' = "idle"
    BY <2>4 DEF ActivateInv
  <2>5. CASE todo = {} /\ Goto("finish") /\ UNCHANGED <<unit, staged>>
    <3>1. UnitsIn(active[Wants]) = UnitsOf[target]
      BY <2>1 DEF UnitsIn
    <3>2. \A u \in Units : unit[u] # None => u \in UnitsOf[target]
      BY <3>1 DEF UnitsKnown
    <3>3. OneSet(target)
      BY <2>1, <2>5, <3>1, <3>2 DEF OneSet
    <3>4. OneSet(target)'
      BY <2>2, <2>5, <3>3 DEF OneSet, UnitsIn
    <3> QED
      BY <2>2, <2>5, <3>4 DEF ActivateInv
  <2> QED
    BY <2>3, <2>4, <2>5
<1>6. OfOneSet'
  BY DEF TypeOK, BuildInv, SwapInv, OfOneSet, BuildSteps, AllNewExist, Staged
<1>7. Disjoint => Disjoint'
  BY DEF TypeOK, BuildInv, SwapInv, ActivateInv, Disjoint, BuildSteps, AllNewExist
<1>8. UnitsKnown'
  <2>1. \A u \in Units : unit'[u] # None => unit[u] # None \/ u \in todo
    BY DEF TypeOK, Installed
  <2>2. UNCHANGED active /\ todo \subseteq UnitsIn(active[Wants])
    BY DEF SwapInv
  <2> QED
    BY <2>1, <2>2 DEF UnitsKnown, UnitsIn
<1>9. NestedLive'
  BY DEF TypeOK, SwapInv, NestedLive, Occupied
<1> QED
  BY <1>1, <1>2, <1>3, <1>4, <1>5, <1>6, <1>7, <1>8, <1>9 DEF Core

LEMMA RemoveProgressStep ==
  ASSUME Core, RemoveProgress
  PROVE  Core' /\ (Disjoint => Disjoint')
<1> USE InstallAssumption DEF Core, RemoveProgress, Loop, Goto, GotoUnits, TakeUnit,
      tree, systemd, process, counters, Names
<1>1. TypeOK'
  BY DEF TypeOK, Content, Installed, Steps, UnitsIn, Startable, Occupied
<1>2. AtFirst'
  BY DEF TypeOK, AtFirst
<1>3. BuildInv'
  BY DEF TypeOK, AtFirst, BuildInv, BuildSteps, Staged
<1>4. SwapInv'
  BY DEF TypeOK, AtFirst, BuildInv, SwapInv, ActivateInv, OfOneSet, UnitsKnown, BuildSteps, AllNewExist, NoUnits, UnitsIn
<1>5. ActivateInv'
  BY DEF TypeOK, AtFirst, BuildInv, SwapInv, ActivateInv, UnitsKnown, NestedLive, BuildSteps, AllNewExist, Staged, NoUnits, OneSet, UnitsIn, Occupied
<1>6. OfOneSet'
  BY DEF TypeOK, BuildInv, SwapInv, OfOneSet, BuildSteps, AllNewExist, Staged
<1>7. Disjoint => Disjoint'
  BY DEF TypeOK, BuildInv, SwapInv, ActivateInv, Disjoint, BuildSteps, AllNewExist
<1>8. UnitsKnown'
  BY DEF TypeOK, SwapInv, ActivateInv, UnitsKnown, NoUnits, UnitsIn, Occupied
<1>9. NestedLive'
  BY DEF TypeOK, SwapInv, NestedLive, Occupied
<1> QED
  BY <1>1, <1>2, <1>3, <1>4, <1>5, <1>6, <1>7, <1>8, <1>9 DEF Core

LEMMA StartDcosTargetStep ==
  ASSUME Core, StartDcosTarget
  PROVE  Core' /\ (Disjoint => Disjoint')
<1> USE InstallAssumption DEF Core, StartDcosTarget, Loop, Goto, GotoUnits, TakeUnit,
      tree, systemd, process, counters, Names
<1>1. TypeOK'
  BY DEF TypeOK, Content, Installed, Steps, UnitsIn, Startable, Occupied
<1>2. AtFirst'
  BY DEF TypeOK, AtFirst
<1>3. BuildInv'
  BY DEF TypeOK, AtFirst, BuildInv, BuildSteps, Staged
<1>4. SwapInv'
  BY DEF TypeOK, AtFirst, BuildInv, SwapInv, ActivateInv, OfOneSet, UnitsKnown, BuildSteps, AllNewExist, NoUnits, UnitsIn
<1>5. ActivateInv'
  BY DEF TypeOK, AtFirst, BuildInv, SwapInv, ActivateInv, UnitsKnown, NestedLive, BuildSteps, AllNewExist, Staged, NoUnits, OneSet, UnitsIn, Occupied
<1>6. OfOneSet'
  BY DEF TypeOK, BuildInv, SwapInv, OfOneSet, BuildSteps, AllNewExist, Staged
<1>7. Disjoint => Disjoint'
  BY DEF TypeOK, BuildInv, SwapInv, ActivateInv, Disjoint, BuildSteps, AllNewExist
<1>8. UnitsKnown'
  BY DEF TypeOK, SwapInv, ActivateInv, UnitsKnown, NoUnits, UnitsIn, Occupied
<1>9. NestedLive'
  BY DEF TypeOK, SwapInv, NestedLive, Occupied
<1> QED
  BY <1>1, <1>2, <1>3, <1>4, <1>5, <1>6, <1>7, <1>8, <1>9 DEF Core

LEMMA RecoverSwapActiveStep ==
  ASSUME Core, RecoverSwapActive
  PROVE  Core' /\ (Disjoint => Disjoint')
<1> USE InstallAssumption DEF Core, RecoverSwapActive, Loop, Goto, GotoUnits, TakeUnit,
      tree, systemd, process, counters, Names
<1>1. TypeOK'
  BY DEF TypeOK, Content, Installed, Steps, UnitsIn, Startable, Occupied
<1>2. AtFirst'
  BY DEF TypeOK, AtFirst
<1>3. BuildInv'
  BY DEF TypeOK, AtFirst, BuildInv, BuildSteps, Staged
<1>4. SwapInv'
  BY DEF TypeOK, AtFirst, BuildInv, SwapInv, ActivateInv, OfOneSet, UnitsKnown, BuildSteps, AllNewExist, NoUnits, UnitsIn
<1>5. ActivateInv'
  BY DEF TypeOK, AtFirst, BuildInv, SwapInv, ActivateInv, UnitsKnown, NestedLive, BuildSteps, AllNewExist, Staged, NoUnits, OneSet, UnitsIn, Occupied
<1>6. OfOneSet'
  BY DEF TypeOK, BuildInv, SwapInv, OfOneSet, BuildSteps, AllNewExist, Staged
<1>7. Disjoint => Disjoint'
  BY DEF TypeOK, BuildInv, SwapInv, ActivateInv, Disjoint, BuildSteps, AllNewExist
<1>8. UnitsKnown'
  BY DEF TypeOK, SwapInv, ActivateInv, UnitsKnown, NoUnits, UnitsIn, Occupied
<1>9. NestedLive'
  BY DEF TypeOK, SwapInv, NestedLive, Occupied
<1> QED
  BY <1>1, <1>2, <1>3, <1>4, <1>5, <1>6, <1>7, <1>8, <1>9 DEF Core

LEMMA StopAllFailsStep ==
  ASSUME Core, StopAllFails
  PROVE  Core' /\ (Disjoint => Disjoint')
<1> USE InstallAssumption DEF Core, StopAllFails, Loop, Goto, GotoUnits, TakeUnit,
      tree, systemd, process, counters, Names
<1>1. TypeOK'
  BY DEF TypeOK, Content, Installed, Steps, UnitsIn, Startable, Occupied
<1>2. AtFirst'
  BY DEF TypeOK, AtFirst
<1>3. BuildInv'
  BY DEF TypeOK, AtFirst, BuildInv, BuildSteps, Staged
<1>4. SwapInv'
  BY DEF TypeOK, AtFirst, BuildInv, SwapInv, ActivateInv, OfOneSet, UnitsKnown, BuildSteps, AllNewExist, NoUnits, UnitsIn
<1>5. ActivateInv'
  BY DEF TypeOK, AtFirst, BuildInv, SwapInv, ActivateInv, UnitsKnown, NestedLive, BuildSteps, AllNewExist, Staged, NoUnits, OneSet, UnitsIn, Occupied
<1>6. OfOneSet'
  BY DEF TypeOK, BuildInv, SwapInv, OfOneSet, BuildSteps, AllNewExist, Staged
<1>7. Disjoint => Disjoint'
  BY DEF TypeOK, BuildInv, SwapInv, ActivateInv, Disjoint, BuildSteps, AllNewExist
<1>8. UnitsKnown'
  BY DEF TypeOK, SwapInv, ActivateInv, UnitsKnown, NoUnits, UnitsIn, Occupied
<1>9. NestedLive'
  BY DEF TypeOK, SwapInv, NestedLive, Occupied
<1> QED
  BY <1>1, <1>2, <1>3, <1>4, <1>5, <1>6, <1>7, <1>8, <1>9 DEF Core

LEMMA StartTargetFailsStep ==
  ASSUME Core, StartTargetFails
  PROVE  Core' /\ (Disjoint => Disjoint')
<1> USE InstallAssumption DEF Core, StartTargetFails, Loop, Goto, GotoUnits, TakeUnit,
      tree, systemd, process, counters, Names
<1>1. TypeOK'
  BY DEF TypeOK, Content, Installed, Steps, UnitsIn, Startable, Occupied
<1>2. AtFirst'
  BY DEF TypeOK, AtFirst
<1>3. BuildInv'
  BY DEF TypeOK, AtFirst, BuildInv, BuildSteps, Staged
<1>4. SwapInv'
  BY DEF TypeOK, AtFirst, BuildInv, SwapInv, ActivateInv, OfOneSet, UnitsKnown, BuildSteps, AllNewExist, NoUnits, UnitsIn
<1>5. ActivateInv'
  BY DEF TypeOK, AtFirst, BuildInv, SwapInv, ActivateInv, UnitsKnown, NestedLive, BuildSteps, AllNewExist, Staged, NoUnits, OneSet, UnitsIn, Occupied
<1>6. OfOneSet'
  BY DEF TypeOK, BuildInv, SwapInv, OfOneSet, BuildSteps, AllNewExist, Staged
<1>7. Disjoint => Disjoint'
  BY DEF TypeOK, BuildInv, SwapInv, ActivateInv, Disjoint, BuildSteps, AllNewExist
<1>8. UnitsKnown'
  BY DEF TypeOK, SwapInv, ActivateInv, UnitsKnown, NoUnits, UnitsIn, Occupied
<1>9. NestedLive'
  BY DEF TypeOK, SwapInv, NestedLive, Occupied
<1> QED
  BY <1>1, <1>2, <1>3, <1>4, <1>5, <1>6, <1>7, <1>8, <1>9 DEF Core

LEMMA KillStep ==
  ASSUME Core, Kill
  PROVE  Core' /\ (Disjoint => Disjoint')
<1> USE InstallAssumption DEF Core, Kill, Loop, Goto, GotoUnits, TakeUnit,
      tree, systemd, process, counters, Names
<1>1. TypeOK'
  BY DEF TypeOK, Content, Installed, Steps, UnitsIn, Startable, Occupied
<1>2. AtFirst'
  BY DEF TypeOK, AtFirst
<1>3. BuildInv'
  BY DEF TypeOK, AtFirst, BuildInv, BuildSteps, Staged
<1>4. SwapInv'
  BY DEF TypeOK, AtFirst, BuildInv, SwapInv, ActivateInv, OfOneSet, UnitsKnown, BuildSteps, AllNewExist, NoUnits, UnitsIn
<1>5. ActivateInv'
  BY DEF TypeOK, AtFirst, BuildInv, SwapInv, ActivateInv, UnitsKnown, NestedLive, BuildSteps, AllNewExist, Staged, NoUnits, OneSet, UnitsIn, Occupied
<1>6. OfOneSet'
  BY DEF TypeOK, BuildInv, SwapInv, OfOneSet, BuildSteps, AllNewExist, Staged
<1>7. Disjoint => Disjoint'
  BY DEF TypeOK, BuildInv, SwapInv, ActivateInv, Disjoint, BuildSteps, AllNewExist
<1>8. UnitsKnown'
  BY DEF TypeOK, SwapInv, ActivateInv, UnitsKnown, NoUnits, UnitsIn, Occupied
<1>9. NestedLive'
  BY DEF TypeOK, SwapInv, NestedLive, Occupied
<1> QED
  BY <1>1, <1>2, <1>3, <1>4, <1>5, <1>6, <1>7, <1>8, <1>9 DEF Core

LEMMA RebootStep ==
  ASSUME Core, Reboot
  PROVE  Core' /\ (Disjoint => Disjoint')
<1> USE InstallAssumption DEF Core, Reboot, Loop, Goto, GotoUnits, TakeUnit,
      tree, systemd, process, counters, Names
<1>1. TypeOK'
  BY DEF TypeOK, Content, Installed, Steps, UnitsIn, Startable, Occupied
<1>2. AtFirst'
  BY DEF TypeOK, AtFirst
<1>3. BuildInv'
  BY DEF TypeOK, AtFirst, BuildInv, BuildSteps, Staged
<1>4. SwapInv'
  BY DEF TypeOK, AtFirst, BuildInv, SwapInv, ActivateInv, OfOneSet, UnitsKnown, BuildSteps, AllNewExist, NoUnits, UnitsIn
<1>5. ActivateInv'
  BY DEF TypeOK, AtFirst, BuildInv, SwapInv, ActivateInv, UnitsKnown, NestedLive, BuildSteps, AllNewExist, Staged, NoUnits, OneSet, UnitsIn, Occupied
<1>6. OfOneSet'
  BY DEF TypeOK, BuildInv, SwapInv, OfOneSet, BuildSteps, AllNewExist, Staged
<1>7. Disjoint => Disjoint'
  BY DEF TypeOK, BuildInv, SwapInv, ActivateInv, Disjoint, BuildSteps, AllNewExist
<1>8. UnitsKnown'
  BY DEF TypeOK, SwapInv, ActivateInv, UnitsKnown, NoUnits, UnitsIn, Occupied
<1>9. NestedLive'
  BY DEF TypeOK, SwapInv, NestedLive, Occupied
<1> QED
  BY <1>1, <1>2, <1>3, <1>4, <1>5, <1>6, <1>7, <1>8, <1>9 DEF Core

----------------------------------------------------------------------------
LEMMA StutterStep ==
  ASSUME Core, UNCHANGED vars
  PROVE  Core' /\ (Disjoint => Disjoint')
<1> QED
  BY DEF Core, vars, tree, systemd, process, counters, TypeOK, AtFirst, BuildInv,
     SwapInv, ActivateInv, OfOneSet, Disjoint, UnitsKnown, NestedLive,
     AllNewExist, Staged, NoUnits, OneSet, UnitsIn

(* What a step of pkgpanda, of its operator or of the host keeps up.       *)
LEMMA StepInv ==
  ASSUME Core, Next \/ UNCHANGED vars
  PROVE  Core' /\ (Disjoint => Disjoint')
<1>1. CASE \E s \in Sets : Activate(s)
  BY <1>1, ActivateStep
<1>2. CASE BuildStep
  BY <1>2, CleanNewStep, CleanOldStep, RemoveStagedUnitFilesStep, MakeDirsStep,
     PopulateStep, StageNewUnitsStep, WriteFilesStep DEF BuildStep
<1>3. CASE SwapStep
  BY <1>3, CheckNewStep, RecordArchiveStep, StopAllStep, RemoveUnitsStep, ArchiveStep,
     RecordMoveStep, MoveNewStep, MoveNewFailsStep, UnlinkUnitsStep,
     ActivateNewUnitFilesStep, RemoveProgressStep DEF SwapStep
<1>4. CASE StartDcosTarget
  BY <1>4, StartDcosTargetStep
<1>5. CASE RecoverSwapActive
  BY <1>5, RecoverSwapActiveStep
<1>6. CASE StopAllFails \/ StartTargetFails \/ Kill \/ Reboot
  BY <1>6, StopAllFailsStep, StartTargetFailsStep, KillStep, RebootStep
<1>7. CASE UNCHANGED vars
  BY <1>7, StutterStep
<1> QED
  BY <1>1, <1>2, <1>3, <1>4, <1>5, <1>6, <1>7 DEF Next

(* The inductive invariant holds in every reachable state. *)
THEOREM Invariance == Spec => []IInv
<1>1. IInv /\ [Next]_vars => IInv'
  BY StepInv DEF IInv
<1> QED
  BY <1>1, InitInv, PTL DEF Spec

(* Every variable keeps to its type, for every choice of the constants. *)
THEOREM TypeCorrect == Spec => []TypeOK
<1>1. IInv => TypeOK
  BY DEF IInv, Core
<1> QED
  BY <1>1, Invariance, PTL

(* No archiving, and no move of an activation, lands in a live directory. *)
THEOREM TargetsAreFree == Spec => []MoveTargetsFree
<1>1. IInv => MoveTargetsFree
  <2> SUFFICES ASSUME IInv PROVE MoveTargetsFree
    OBVIOUS
  <2>1. pc = "archive" /\ active[i] # None => old[i] = None
    BY DEF IInv, Core, SwapInv, Disjoint, TypeOK
  <2>2. pc = "move_new" /\ mode = "activate" => active[i] = None
    BY InstallAssumption DEF IInv, Core, ActivateInv, TypeOK, Names
  <2> QED
    BY <2>1, <2>2 DEF MoveTargetsFree
<1> QED
  BY <1>1, Invariance, PTL

(* An activation that is not killed is never refused and misses no file. *)
THEOREM ActivationsGoThrough == Spec => []SwapNeverRaises
<1>1. IInv => SwapNeverRaises
  BY InstallAssumption DEF IInv, Core, ActivateInv, SwapNeverRaises, AllNewExist, TypeOK
<1> QED
  BY <1>1, Invariance, PTL

(* A finished activation leaves the package set asked for, whole and alone. *)
THEOREM ActivationsAreWhole == Spec => []ActivationLeavesOneSet
<1>1. IInv => ActivationLeavesOneSet
  BY DEF IInv, Core, BuildInv, ActivateInv, ActivationLeavesOneSet
<1> QED
  BY <1>1, Invariance, PTL
----------------------------------------------------------------------------
(* After one fault at most *)

NoneRunning == \A u \in Units : running[u] = None

(* Everything live has been archived. *)
Cleared ==
    /\ NoUnits /\ NoneRunning
    /\ nested = {} /\ \A n \in Names : active[n] = None

(* install_progress is there from the swap on, and only a fault leaves it. *)
ProgressInv ==
    /\ faults = 0 =>
         /\ mode = "activate"
         /\ pc \in {"idle", "check", "record_archive"} \cup BuildSteps => progress = "none"
    /\ pc = "start_target" => progress = "none"
    /\ pc = "record_move" => progress # "none"
    /\ progress = "none" => \E s \in Sets : OneSet(s)

(* What a recovery finds in the move stage is as the archive stage left it, *)
(* or it is refused.                                                        *)
RecoverInv ==
    /\ /\ pc = "idle" \/ (pc = "check" /\ mode = "recover")
       /\ progress = "move_new" /\ AllNewExist
       => Cleared
    /\ pc = "record_move" => AllNewExist /\ Cleared
    /\ pc \in {"unlink_units", "move_units", "finish"} => new[NumNames] = None

(* While a swap is recorded, every new entry is whole if they all exist, but *)
(* for an activation that is throwing them away.                            *)
NewWhole == progress # "none" /\ AllNewExist /\ pc # "clean_new" => new[1] # Partial

(* Whoever moves, an activation or a recovery, moves one package set in.   *)
Moving(s) ==
    /\ pc = "move_new" =>
         /\ NoUnits /\ nested = {} /\ Staged(s)
         /\ \A n \in Names : IF n < i THEN active[n] = s ELSE active[n] = None /\ new[n] = s
    /\ pc \in {"unlink_units", "move_units"} => nested = {} /\ \A n \in Names : active[n] = s
    /\ pc = "unlink_units" => NoUnits /\ Staged(s)
    /\ pc = "move_units" =>
         /\ \A u \in todo : staged[u] = s
         /\ \A u \in UnitsOf[s] \ todo : unit[u] = s
    /\ pc = "finish" => OneSet(s) /\ active[Wants] # None

MoveInv ==
    pc \in {"move_new", "unlink_units", "move_units", "finish"} => \E s \in Sets : Moving(s)

(* Between the stop of the services and the end of the swap none runs. *)
ServiceInv ==
    /\ \A u \in Units : running[u] # None => running[u] = unit[u]
    /\ pc \in {"remove_units", "archive", "record_move", "move_new", "unlink_units",
               "move_units", "finish"} => NoneRunning

OneFaultInv == faults <= 1 => ProgressInv /\ RecoverInv /\ NewWhole /\ MoveInv /\ ServiceInv

LEMMA InitOneFault == Init => OneFaultInv
<1> SUFFICES ASSUME Init PROVE OneFaultInv
  OBVIOUS
<1> USE InstallAssumption DEF Init
<1>1. OneSet(FirstSet)
  BY DEF OneSet, UnitsIn
<1>2. ProgressInv /\ ServiceInv
  BY <1>1 DEF ProgressInv, ServiceInv
<1>3. RecoverInv /\ NewWhole /\ MoveInv
  BY DEF RecoverInv, NewWhole, MoveInv
<1> QED
  BY <1>2, <1>3 DEF OneFaultInv

(* The set that is moved in stays the same from the first entry on, when    *)
(* the live ones have all been archived.                                    *)
LEMMA MoveBegins ==
  ASSUME Core, RecordMove, AllNewExist, new[1] # Partial, NoUnits, nested = {}, \A n \in Names : active[n] = None
  PROVE  \E s \in Sets : Moving(s)'
<1>1. /\ UNCHANGED <<active, new, nested, unit, staged, i>>
      /\ pc' = "move_new" /\ i = 1
  BY DEF RecordMove, tree, systemd, Goto, Core, AtFirst
<1>2. PICK s \in Sets : (\A n \in Names : new[n] = s) /\ Staged(s)
  BY DEF Core, OfOneSet, Staged
<1>3. Moving(s)'
  BY <1>1, <1>2 DEF Moving, NoUnits, Staged, Names
<1> QED
  BY <1>3

LEMMA WholeStays ==
  ASSUME NewWhole, UNCHANGED new, pc # "clean_new", progress' # "none" => progress # "none"
  PROVE  NewWhole'
  BY DEF NewWhole, AllNewExist

(* What is built is whole before its last file is written; what is removed  *)
(* is not all there once its first entry is.                               *)
LEMMA BuildIsWhole ==
  ASSUME Core, NewWhole, BuildStep
  PROVE  NewWhole'
<1>1. /\ UNCHANGED progress /\ i \in Names /\ new \in [Names -> Content] /\ target \in Sets
      /\ 1 \in Names /\ NumNames \in Names \ Dirs
  BY InstallAssumption DEF BuildStep, CleanNew, CleanOld, RemoveStagedUnitFiles, MakeDirs, Populate,
     StageNewUnits, WriteFiles, Core, TypeOK, Names
<1>2. CASE CleanNew
  BY <1>1, <1>2 DEF CleanNew, NewWhole, AllNewExist, process
<1>3. CASE CleanOld \/ RemoveStagedUnitFiles \/ StageNewUnits
  BY <1>3, WholeStays DEF CleanOld, RemoveStagedUnitFiles, StageNewUnits, tree
<1>4. CASE MakeDirs \/ Populate
  <2>1. new[NumNames] = None
    BY <1>1, <1>4 DEF MakeDirs, Populate, Core, BuildInv
  <2>2. new'[NumNames] = None
    BY <1>1, <1>4, <2>1 DEF MakeDirs, Populate
  <2> QED BY <1>1, <2>2 DEF NewWhole, AllNewExist
<1>5. CASE WriteFiles
  <2>1. \A n \in Dirs : new[n] = target
    BY <1>5 DEF WriteFiles, Core, BuildInv
  <2>2. \A n \in Names \ Dirs : new[n] # Partial
    BY <1>5, InstallAssumption DEF WriteFiles, Core, BuildInv, BuildSteps, TypeOK
  <2>3. \A n \in Names : new'[n] # Partial
    BY <1>1, <1>5, <2>1, <2>2, InstallAssumption DEF WriteFiles
  <2> QED BY <1>1, <2>3 DEF NewWhole
<1> QED
  BY <1>2, <1>3, <1>4, <1>5 DEF BuildStep

LEMMA RecordIsWhole ==
  ASSUME Core, NewWhole, RecordArchive
  PROVE  NewWhole'
<1>1. UNCHANGED new /\ pc = "record_archive"
  BY DEF RecordArchive, tree
<1>2. CASE mode = "recover"
  BY <1>1, <1>2, WholeStays DEF Core, SwapInv
<1>3. CASE mode = "activate"
  <2>1. new[1] = target /\ target \in Sets
    BY <1>1, <1>3, InstallAssumption DEF Core, ActivateInv, Names, TypeOK
  <2> QED BY <1>1, <2>1, InstallAssumption DEF NewWhole
<1> QED
  BY <1>2, <1>3 DEF Core, TypeOK

LEMMA MoveGoesOn ==
  ASSUME Core, MoveNew, NEW s \in Sets, Moving(s)
  PROVE  /\ Moving(s)' /\ nested' = {}
         /\ active' = [active EXCEPT ![i] = s] /\ new' = [new EXCEPT ![i] = None]
         /\ pc' = "unlink_units" => i = NumNames
<1>1. UNCHANGED <<unit, staged>> /\ pc = "move_new" /\ pc' \in {"move_new", "unlink_units"}
  BY DEF MoveNew, systemd
<1>2. i \in Names /\ active \in [Names -> Content] /\ new \in [Names -> Content]
  BY DEF Core, TypeOK
<1>4. active[i] = None /\ new[i] = s /\ nested = {}
  BY <1>1, <1>2, InstallAssumption DEF Moving, Names
<1>5. /\ active' = [active EXCEPT ![i] = s] /\ nested' = {} /\ new' = [new EXCEPT ![i] = None]
      /\ \/ pc' = "move_new" /\ i' = i + 1
         \/ pc' = "unlink_units" /\ i = NumNames
  BY <1>1, <1>2, <1>4, InstallAssumption DEF MoveNew, Occupied, Names
<1>3. Moving(s)'
  BY <1>1, <1>2, <1>4, <1>5, InstallAssumption DEF Moving, NoUnits, Staged, Names
<1> QED
  BY <1>3, <1>5

LEMMA UnlinkGoesOn ==
  ASSUME Core, RemoveUnitFiles("unlink_units", "move_units", UnitsIn(active[Wants])),
         NEW s \in Sets, Moving(s)
  PROVE  Moving(s)'
<1>1. /\ UNCHANGED <<active, nested, staged>>
      /\ pc = "unlink_units" /\ pc' \in {"unlink_units", "move_units"}
  BY DEF RemoveUnitFiles, tree, TakeUnit, GotoUnits
<1>2. active[Wants] = s /\ UnitsIn(active[Wants]) = UnitsOf[s]
  BY <1>1, InstallAssumption DEF Moving, UnitsIn
<1>3. pc' = "move_units" => todo' = UnitsOf[s]
  BY <1>1, <1>2 DEF RemoveUnitFiles, TakeUnit, GotoUnits
<1>4. \A u \in Units : unit'[u] = None
  BY <1>1 DEF RemoveUnitFiles, Moving, NoUnits, Core, TypeOK, Installed
<1> QED
  BY <1>1, <1>3, <1>4 DEF Moving, NoUnits, Staged

LEMMA UnitsGoOn ==
  ASSUME Core, ActivateNewUnitFiles, NEW s \in Sets, Moving(s)
  PROVE  Moving(s)' /\ pc' \in {"move_units", "finish"}
<1>1. UNCHANGED <<active, nested>> /\ pc = "move_units"
  BY DEF ActivateNewUnitFiles, tree
<1>2. /\ nested = {} /\ \A n \in Names : active[n] = s
      /\ \A u \in todo : staged[u] = s
      /\ \A u \in UnitsOf[s] \ todo : unit[u] = s
      /\ s # None /\ UnitsIn(active[Wants]) = UnitsOf[s] /\ UnitsOf[s] \subseteq Units
  BY <1>1, InstallAssumption DEF Moving, UnitsIn
<1>3. \/ /\ pc' = "move_units"
         /\ \E u \in todo : /\ unit' = [unit EXCEPT ![u] = s]
                            /\ staged' = [staged EXCEPT ![u] = None]
                            /\ todo' = todo \ {u}
      \/ pc' = "finish" /\ todo = {} /\ UNCHANGED unit
  BY <1>1, <1>2 DEF ActivateNewUnitFiles, TakeUnit, Goto
<1>4. CASE pc' = "move_units"
  BY <1>1, <1>2, <1>3, <1>4 DEF Moving, Core, TypeOK, Installed
<1>5. CASE pc' = "finish"
  <2>1. OneSet(s)'
    BY <1>1, <1>2, <1>3, <1>5 DEF OneSet, UnitsIn, Core, UnitsKnown
  <2> QED BY <1>1, <1>2, <1>5, <2>1, InstallAssumption DEF Moving
<1> QED
  BY <1>3, <1>4, <1>5

(* A service that runs has a unit file, so that stop_all finds it. *)
LEMMA AllStop ==
  ASSUME Core, ServiceInv, StopAll
  PROVE  NoneRunning'
<1>1. running' = [u \in Units |-> IF u \in Startable THEN None ELSE running[u]]
  BY DEF StopAll
<1> QED
  BY <1>1 DEF NoneRunning, ServiceInv, Startable, Core, UnitsKnown

(* What is live, and what runs, is not touched by the build. *)
LEMMA BuildFault ==
  ASSUME Core, OneFaultInv, BuildStep \/ \E s \in Sets : Activate(s), faults <= 1
  PROVE  OneFaultInv'
<1>1. /\ UNCHANGED <<active, nested, unit, running, progress, faults>>
      /\ mode' = "activate"
      /\ pc' \in {"check", "idle"} \cup BuildSteps
      /\ pc \in {"idle"} \cup BuildSteps
      /\ pc' = "idle" => pc = "populate" /\ new' = new
  BY DEF BuildStep, Activate, CleanNew, CleanOld, RemoveStagedUnitFiles, MakeDirs, Populate,
     StageNewUnits, WriteFiles, Loop, Goto, GotoUnits, TakeUnit, BuildSteps, Core, BuildInv,
     tree, systemd, process, counters
<1>2. ProgressInv /\ ServiceInv
  BY DEF OneFaultInv
<1>3. ProgressInv'
  BY <1>1, <1>2 DEF ProgressInv, BuildSteps, OneSet, UnitsIn
<1>4. RecoverInv'
  <2>1. pc = "populate" => new[NumNames] = None /\ NumNames \in Names
    BY InstallAssumption DEF Core, BuildInv, Names
  <2> QED BY <1>1, <2>1 DEF RecoverInv, AllNewExist, BuildSteps
<1>5. MoveInv'
  BY <1>1 DEF MoveInv, BuildSteps
<1>6. ServiceInv'
  BY <1>1, <1>2 DEF ServiceInv, BuildSteps
<1>7. NewWhole'
  <2>1. NewWhole
    BY DEF OneFaultInv
  <2>2. CASE BuildStep
    BY <2>1, <2>2, BuildIsWhole
  <2>3. CASE \E s \in Sets : Activate(s)
    BY <2>1, <2>3, WholeStays DEF Activate, tree
  <2> QED BY <2>2, <2>3
<1> QED
  BY <1>3, <1>4, <1>5, <1>6, <1>7 DEF OneFaultInv

LEMMA RecoverFault ==
  ASSUME Core, OneFaultInv, RecoverSwapActive, faults <= 1
  PROVE  OneFaultInv'
<1>1. /\ UNCHANGED <<active, new, nested, unit, running, progress, faults>>
      /\ mode' = "recover" /\ pc' = "check" /\ pc = "idle" /\ progress # "none"
  BY DEF RecoverSwapActive, tree, systemd, counters
<1>2. ProgressInv /\ RecoverInv /\ ServiceInv
  BY DEF OneFaultInv
<1>3. ProgressInv'
  BY <1>1, <1>2 DEF ProgressInv
<1>4. RecoverInv' /\ MoveInv' /\ ServiceInv'
  BY <1>1, <1>2 DEF RecoverInv, MoveInv, ServiceInv, AllNewExist, Cleared, NoUnits, NoneRunning
<1>5. NewWhole'
  BY WholeStays DEF OneFaultInv, RecoverSwapActive, tree
<1> QED
  BY <1>5, <1>3, <1>4 DEF OneFaultInv

LEMMA CheckFault ==
  ASSUME Core, OneFaultInv, CheckNew, faults <= 1
  PROVE  OneFaultInv'
<1>1. /\ UNCHANGED <<active, new, nested, unit, running, progress, mode, faults>> /\ pc = "check"
      /\ \/ AllNewExist /\ pc' = IF mode = "recover" /\ progress = "move_new"
                                 THEN "record_move" ELSE "record_archive"
         \/ ~AllNewExist /\ pc' = "idle"
  BY DEF CheckNew, tree, systemd, counters, Goto
<1>2. ProgressInv /\ RecoverInv /\ ServiceInv
  BY DEF OneFaultInv
<1>3. ProgressInv'
  BY <1>1, <1>2 DEF ProgressInv, OneSet, UnitsIn
<1>4. RecoverInv' /\ MoveInv' /\ ServiceInv'
  BY <1>1, <1>2 DEF RecoverInv, MoveInv, ServiceInv, AllNewExist, Cleared, NoUnits, NoneRunning
<1>5. NewWhole'
  BY WholeStays DEF OneFaultInv, CheckNew, tree
<1> QED
  BY <1>5, <1>3, <1>4 DEF OneFaultInv

LEMMA RecordArchiveFault ==
  ASSUME Core, OneFaultInv, RecordArchive, faults <= 1
  PROVE  OneFaultInv'
<1>1. UNCHANGED <<unit, running, mode, faults>> /\ progress' = "archive" /\ pc' = "stop_all"
  BY DEF RecordArchive, systemd, counters, Goto
<1>2. ProgressInv /\ ServiceInv
  BY DEF OneFaultInv
<1>3. ProgressInv' /\ RecoverInv' /\ MoveInv' /\ ServiceInv'
  BY <1>1, <1>2 DEF ProgressInv, RecoverInv, MoveInv, ServiceInv, BuildSteps
<1>4. NewWhole'
  BY RecordIsWhole DEF OneFaultInv
<1> QED
  BY <1>3, <1>4 DEF OneFaultInv

LEMMA StopAllFault ==
  ASSUME Core, OneFaultInv, StopAll, faults <= 1
  PROVE  OneFaultInv'
<1>1. /\ UNCHANGED <<unit, progress, mode, faults>> /\ pc' = "remove_units" /\ progress = "archive"
  BY DEF StopAll, counters, GotoUnits, Core, SwapInv
<1>2. ProgressInv /\ ServiceInv
  BY DEF OneFaultInv
<1>3. \A u \in Units : running'[u] = None
  BY <1>2, AllStop DEF NoneRunning
<1>4. ProgressInv' /\ RecoverInv' /\ MoveInv' /\ ServiceInv'
  BY <1>1, <1>2, <1>3 DEF ProgressInv, RecoverInv, MoveInv, ServiceInv, NoneRunning, BuildSteps
<1>5. NewWhole'
  BY WholeStays DEF OneFaultInv, StopAll, tree
<1> QED
  BY <1>5, <1>4 DEF OneFaultInv

LEMMA RemoveUnitsFault ==
  ASSUME Core, OneFaultInv, RemoveUnitFiles("remove_units", "archive", {}), faults <= 1
  PROVE  OneFaultInv'
<1>1. /\ UNCHANGED <<running, progress, mode, faults>> /\ pc = "remove_units"
      /\ pc' \in {"remove_units", "archive"} /\ progress = "archive"
  BY DEF RemoveUnitFiles, counters, TakeUnit, GotoUnits, Core, SwapInv
<1>2. ProgressInv /\ ServiceInv
  BY DEF OneFaultInv
<1>3. ProgressInv' /\ RecoverInv' /\ MoveInv' /\ ServiceInv'
  BY <1>1, <1>2 DEF ProgressInv, RecoverInv, MoveInv, ServiceInv, NoneRunning, BuildSteps
<1>4. NewWhole'
  BY WholeStays DEF OneFaultInv, RemoveUnitFiles, tree
<1> QED
  BY <1>4, <1>3 DEF OneFaultInv

(* When the last name has been archived, nothing is live. *)
LEMMA ArchiveFault ==
  ASSUME Core, OneFaultInv, Archive, faults <= 1
  PROVE  OneFaultInv'
<1>1. /\ UNCHANGED <<new, unit, running, progress, mode, faults>> /\ pc = "archive"
      /\ pc' \in {"archive", "record_move"} /\ progress = "archive"
      /\ pc' = "record_move" => i = NumNames
  BY InstallAssumption DEF Archive, systemd, counters, Loop, Core, SwapInv, TypeOK, Names
<1>2. ProgressInv /\ ServiceInv /\ NoUnits /\ NoneRunning /\ AllNewExist
  BY <1>1 DEF OneFaultInv, ServiceInv, Core, SwapInv
<1>3. ProgressInv' /\ MoveInv' /\ ServiceInv'
  BY <1>1, <1>2 DEF ProgressInv, MoveInv, ServiceInv, NoneRunning, BuildSteps
<1>4. RecoverInv'
  <2> SUFFICES ASSUME pc' = "record_move"
               PROVE  AllNewExist' /\ Cleared'
    BY <1>1 DEF RecoverInv
  <2>1. \A n \in Names : active'[n] = None
    BY <1>1, InstallAssumption DEF Archive, Core, SwapInv, TypeOK, Names
  <2>2. \A n \in nested' : active'[n] # None
    BY ArchiveStep DEF Core, NestedLive
  <2>3. nested' \subseteq Names
    BY InstallAssumption DEF Archive, Core, TypeOK
  <2> QED BY <1>1, <1>2, <2>1, <2>2, <2>3 DEF AllNewExist, Cleared, NoUnits, NoneRunning
<1>5. NewWhole'
  BY WholeStays DEF OneFaultInv, Archive
<1> QED
  BY <1>5, <1>3, <1>4 DEF OneFaultInv

LEMMA RecordMoveFault ==
  ASSUME Core, OneFaultInv, RecordMove, faults <= 1
  PROVE  OneFaultInv'
<1>1. /\ UNCHANGED <<unit, running, mode, faults>>
      /\ pc = "record_move" /\ pc' = "move_new" /\ progress' = "move_new"
  BY DEF RecordMove, systemd, counters, Goto
<1>2. ProgressInv /\ ServiceInv /\ AllNewExist /\ Cleared
  BY <1>1 DEF OneFaultInv, RecoverInv
<1>3. ProgressInv' /\ RecoverInv' /\ ServiceInv'
  BY <1>1, <1>2 DEF ProgressInv, RecoverInv, ServiceInv, Cleared, NoneRunning, BuildSteps
<1>4. MoveInv'
  BY <1>2, <1>1, MoveBegins DEF Cleared, MoveInv, OneFaultInv, NewWhole, ProgressInv
<1>5. NewWhole'
  BY WholeStays DEF OneFaultInv, ProgressInv, RecordMove, tree
<1> QED
  BY <1>5, <1>3, <1>4 DEF OneFaultInv

LEMMA MoveNewFault ==
  ASSUME Core, OneFaultInv, MoveNew, faults <= 1
  PROVE  OneFaultInv'
<1>1. /\ UNCHANGED <<unit, running, progress, mode, faults>> /\ pc = "move_new"
      /\ pc' \in {"move_new", "unlink_units"} /\ progress = "move_new"
  BY DEF MoveNew, systemd, counters, Core, SwapInv
<1>2. ProgressInv /\ ServiceInv
  BY DEF OneFaultInv
<1>3. PICK s \in Sets : Moving(s)
  BY <1>1 DEF OneFaultInv, MoveInv
<1>4. /\ Moving(s)' /\ new' = [new EXCEPT ![i] = None] /\ i \in Names
      /\ pc' = "unlink_units" => i = NumNames
  BY <1>3, MoveGoesOn DEF Core, TypeOK
<1>5. ProgressInv' /\ ServiceInv'
  BY <1>1, <1>2 DEF ProgressInv, ServiceInv, NoneRunning, BuildSteps
<1>6. RecoverInv'
  BY <1>1, <1>4 DEF RecoverInv, Core, TypeOK
<1>7. NewWhole'
  BY <1>4 DEF NewWhole, AllNewExist, Core, TypeOK
<1> QED
  BY <1>4, <1>5, <1>6, <1>7 DEF OneFaultInv, MoveInv

LEMMA MoveNewFailsFault ==
  ASSUME Core, OneFaultInv, MoveNewFails, faults <= 1
  PROVE  OneFaultInv'
  BY DEF MoveNewFails, OneFaultInv, MoveInv, Moving

LEMMA UnlinkUnitsFault ==
  ASSUME Core, OneFaultInv, faults <= 1,
         RemoveUnitFiles("unlink_units", "move_units", UnitsIn(active[Wants]))
  PROVE  OneFaultInv'
<1>1. /\ UNCHANGED <<active, new, nested, running, progress, mode, faults>>
      /\ pc = "unlink_units" /\ pc' \in {"unlink_units", "move_units"} /\ progress = "move_new"
  BY DEF RemoveUnitFiles, tree, counters, TakeUnit, GotoUnits, Core, SwapInv
<1>2. ProgressInv /\ RecoverInv /\ ServiceInv
  BY DEF OneFaultInv
<1>3. ProgressInv' /\ RecoverInv' /\ ServiceInv'
  BY <1>1, <1>2 DEF ProgressInv, RecoverInv, ServiceInv, NoneRunning, BuildSteps
<1>4. MoveInv'
  BY <1>1, UnlinkGoesOn DEF OneFaultInv, MoveInv
<1>5. NewWhole'
  BY WholeStays DEF OneFaultInv, RemoveUnitFiles, tree
<1> QED
  BY <1>5, <1>3, <1>4 DEF OneFaultInv

LEMMA ActivateUnitsFault ==
  ASSUME Core, OneFaultInv, ActivateNewUnitFiles, faults <= 1
  PROVE  OneFaultInv'
<1>1. /\ UNCHANGED <<active, new, nested, running, progress, mode, faults>>
      /\ pc = "move_units" /\ progress = "move_new"
  BY DEF ActivateNewUnitFiles, tree, counters, TakeUnit, Goto, Core, SwapInv
<1>2. ProgressInv /\ RecoverInv /\ ServiceInv
  BY DEF OneFaultInv
<1>3. MoveInv' /\ pc' \in {"move_units", "finish"}
  BY <1>1, UnitsGoOn DEF OneFaultInv, MoveInv
<1>4. ProgressInv' /\ RecoverInv' /\ ServiceInv'
  BY <1>1, <1>2, <1>3 DEF ProgressInv, RecoverInv, ServiceInv, NoneRunning, BuildSteps
<1>5. NewWhole'
  BY WholeStays DEF OneFaultInv, ActivateNewUnitFiles, tree
<1> QED
  BY <1>5, <1>3, <1>4 DEF OneFaultInv

LEMMA RemoveProgressFault ==
  ASSUME Core, OneFaultInv, RemoveProgress, faults <= 1
  PROVE  OneFaultInv'
<1>1. /\ UNCHANGED <<active, nested, unit, running, mode, faults>> /\ pc = "finish"
      /\ progress' = "none" /\ pc' \in {"start_target", "idle"}
  BY DEF RemoveProgress, tree, systemd, counters, Goto
<1>2. ProgressInv /\ ServiceInv /\ \E s \in Sets : OneSet(s)
  BY <1>1 DEF OneFaultInv, MoveInv, Moving
<1>3. ProgressInv' /\ RecoverInv' /\ MoveInv' /\ ServiceInv'
  BY <1>1, <1>2 DEF ProgressInv, RecoverInv, MoveInv, ServiceInv, OneSet, UnitsIn, BuildSteps
<1>4. NewWhole'
  BY WholeStays DEF OneFaultInv, RemoveProgress, tree
<1> QED
  BY <1>4, <1>3 DEF OneFaultInv

LEMMA StartTargetFault ==
  ASSUME Core, OneFaultInv, StartDcosTarget, faults <= 1
  PROVE  OneFaultInv'
<1>1. /\ UNCHANGED <<active, nested, unit, progress, mode, faults>> /\ pc = "start_target"
      /\ pc' = "idle"
      /\ \A u \in Units : running'[u] \in {running[u], unit[u]}
  BY DEF StartDcosTarget, tree, counters, Goto, Core, TypeOK, Installed
<1>2. ProgressInv /\ ServiceInv
  BY DEF OneFaultInv
<1>3. ProgressInv' /\ RecoverInv' /\ MoveInv' /\ ServiceInv'
  BY <1>1, <1>2 DEF ProgressInv, RecoverInv, MoveInv, ServiceInv, OneSet, UnitsIn, BuildSteps
<1>4. NewWhole'
  BY WholeStays DEF OneFaultInv, StartDcosTarget, tree
<1> QED
  BY <1>4, <1>3 DEF OneFaultInv

(* The first fault. *)
LEMMA FirstFault ==
  ASSUME Core, OneFaultInv, StopAllFails \/ StartTargetFails \/ Kill \/ Reboot, faults' <= 1
  PROVE  OneFaultInv'
<1>1. /\ UNCHANGED <<active, new, nested, unit, progress, mode>> /\ faults = 0 /\ faults' = 1
      /\ pc' = "idle"
  BY DEF StopAllFails, StartTargetFails, Kill, Reboot, tree, systemd, counters, Goto, Core, TypeOK
<1>2. ProgressInv /\ RecoverInv /\ MoveInv /\ ServiceInv
  BY <1>1 DEF OneFaultInv
<1>3. /\ \A u \in Units : running'[u] \in {running[u], unit[u], None}
      /\ ~ Reboot /\ pc # "start_target" => \A u \in Units : running'[u] \in {running[u], None}
  BY DEF StopAllFails, StartTargetFails, Kill, Reboot, systemd, Core, TypeOK, Installed
<1>4. ProgressInv' /\ MoveInv' /\ ServiceInv'
  BY <1>1, <1>2, <1>3 DEF ProgressInv, MoveInv, ServiceInv, OneSet, UnitsIn
<1>5. RecoverInv'
  <2> SUFFICES ASSUME progress = "move_new", AllNewExist
               PROVE  Cleared'
    BY <1>1 DEF RecoverInv, AllNewExist
  <2>1. pc \in {"record_move", "move_new"}
    <3>1. pc \in {"record_move", "move_new", "unlink_units", "move_units", "finish"}
      BY <1>1, <1>2 DEF ProgressInv, BuildSteps, Core, TypeOK, Steps, SwapInv
    <3>2. pc \notin {"unlink_units", "move_units", "finish"}
      BY <1>2, InstallAssumption DEF RecoverInv, AllNewExist, Names
    <3> QED BY <3>1, <3>2
  <2>2. NoUnits /\ NoneRunning /\ nested = {} /\ \A n \in Names : active[n] = None
    <3>1. CASE pc = "record_move"
      BY <1>2, <3>1 DEF RecoverInv, Cleared
    <3>2. CASE pc = "move_new"
      <4>1. PICK s \in Sets : Moving(s)
        BY <1>2, <3>2 DEF MoveInv
      <4>2. i = 1
        BY <3>2, InstallAssumption DEF Core, SwapInv, AllNewExist, TypeOK, Names
      <4>3. NoneRunning
        BY <1>2, <3>2 DEF ServiceInv
      <4> QED BY <3>2, <4>1, <4>2, <4>3 DEF Moving, Names
    <3> QED BY <2>1, <3>1, <3>2
  <2> QED BY <1>1, <1>3, <2>2 DEF Cleared, NoUnits, NoneRunning
<1>6. NewWhole'
  <2>1. NewWhole
    BY <1>1 DEF OneFaultInv
  <2>2. pc = "clean_new" => progress = "none"
    BY <1>1, <1>2 DEF ProgressInv, BuildSteps
  <2> QED BY <1>1, <2>1, <2>2 DEF NewWhole, AllNewExist
<1> QED
  BY <1>4, <1>5, <1>6 DEF OneFaultInv

LEMMA OneFaultInvariance == Spec => []OneFaultInv
<1>1. IInv /\ OneFaultInv /\ [Next]_vars => OneFaultInv'
  <2> SUFFICES ASSUME Core, OneFaultInv, [Next]_vars, faults' <= 1
               PROVE  OneFaultInv'
    BY DEF OneFaultInv, IInv
  <2>1. CASE UNCHANGED vars
    BY <2>1 DEF vars, tree, systemd, process, counters, OneFaultInv, ProgressInv, RecoverInv, NewWhole,
       MoveInv, Moving, ServiceInv, Cleared, NoUnits, NoneRunning, AllNewExist, Staged,
       OneSet, UnitsIn
  <2>2. CASE StopAllFails \/ StartTargetFails \/ Kill \/ Reboot
    BY <2>2, FirstFault
  <2>3. CASE (\E s \in Sets : Activate(s)) \/ BuildStep
    <3>1. faults' = faults
      BY <2>3 DEF BuildStep, Activate, CleanNew, CleanOld, RemoveStagedUnitFiles, MakeDirs,
         Populate, StageNewUnits, WriteFiles, counters
    <3> QED BY <2>3, <3>1, BuildFault
  <2>4. CASE SwapStep
    <3>1. faults' = faults
      BY <2>4 DEF SwapStep, CheckNew, RecordArchive, StopAll, RemoveUnitFiles, Archive,
         RecordMove, MoveNew, MoveNewFails, ActivateNewUnitFiles, RemoveProgress, counters
    <3> QED
      BY <2>4, <3>1, CheckFault, RecordArchiveFault, StopAllFault, RemoveUnitsFault,
         ArchiveFault, RecordMoveFault, MoveNewFault, MoveNewFailsFault, UnlinkUnitsFault,
         ActivateUnitsFault, RemoveProgressFault DEF SwapStep
  <2>5. CASE StartDcosTarget \/ RecoverSwapActive
    <3>1. faults' = faults
      BY <2>5 DEF StartDcosTarget, RecoverSwapActive, counters
    <3> QED BY <2>5, <3>1, StartTargetFault, RecoverFault
  <2> QED
    BY <2>1, <2>2, <2>3, <2>4, <2>5 DEF Next
<1> QED
  BY <1>1, InitOneFault, Invariance, PTL DEF Spec

(* What the existence check of swap_active accepts is one complete set of   *)
(* new entries, however many activations were cut short before it, but for  *)
(* a recovery's after two faults, whose first entry may be incomplete.      *)
THEOREM NewSetIsComplete == Spec => []CheckMeansComplete
<1>1. IInv /\ OneFaultInv => CheckMeansComplete
  <2> SUFFICES ASSUME Core, OneFaultInv, AllNewExist PROVE CheckMeansComplete
    BY DEF IInv, CheckMeansComplete
  <2>1. PICK s \in Sets : /\ \A u \in UnitsOf[s] : staged[u] = s
                         /\ \A n \in Names : new[n] = s \/ (n = 1 /\ new[n] = Partial)
    BY DEF Core, OfOneSet
  <2>2. pc = "check" /\ new[1] = Partial => mode = "recover" /\ faults > 1
    BY InstallAssumption DEF Core, TypeOK, ActivateInv, Names, SwapInv, OneFaultInv, NewWhole
  <2> QED
    BY <2>1, <2>2 DEF CheckMeansComplete
<1> QED
  BY <1>1, Invariance, OneFaultInvariance, PTL

(* After at most one fault the node has one package set whenever            *)
(* install_progress does not exist, also when a recovery has finished the   *)
(* swap (swap_active, recover_swap_active).                                 *)
THEOREM OneSetIsActive == Spec => []ConsistentActive
<1>1. OneFaultInv => ConsistentActive
  BY DEF OneFaultInv, ProgressInv, ConsistentActive
<1> QED
  BY <1>1, OneFaultInvariance, PTL

(* Nor has a service been left running whose unit file is another one      *)
(* (Systemd.stop_all, Systemd.remove_unit_files).                           *)
THEOREM ServicesAreOfTheirUnits == Spec => []NoOrphanService
<1>1. OneFaultInv => NoOrphanService
  BY DEF OneFaultInv, ServiceInv, NoOrphanService
<1> QED
  BY <1>1, OneFaultInvariance, PTL
----------------------------------------------------------------------------
(* The boot: what the download unit, the setup unit and their operator keep *)
(* up, as long as nothing was stopped where a boot cannot help.            *)

(* What the theorems below suppose of the constants of PkgSetup: the name   *)
(* the download looks for is one the tarball brings, and the node is        *)
(* configured for a package set there is.                                   *)
SetupAssumption == Active \in Names \ {Wants} /\ Configured \in Sets

(* Which unit runs, and what may run beside it. *)
HostInv ==
    /\ host \in {"boot", "extract", "start", "setup", "clear", "up", "failed"}
    /\ host \notin {"setup", "up"} => pc = "idle"
    /\ left \subseteq Tarball
    /\ host = "extract" => bootstrap \/ Flag \in left
    /\ host = "up" => ~bootstrap /\ (pc # "idle" => requests > 0)
    /\ host = "setup" => (bootstrap <=> mode = "activate")

Whole ==
    /\ active[Wants] # None
    /\ \E s \in Sets : OneSet(s) /\ (s = Configured \/ requests > 0)

(* No unit is to extract the tarball, or to activate its packages. *)
Settled ==
    /\ ~bootstrap /\ host # "extract"
    /\ host \in {"boot", "failed"} => active[Active] # None

(* A swap that has begun to move entries in goes on to its end. *)
LiveInv ==
    /\ nested = {}
    /\ progress = "move_new" => pc \in {"move_new", "unlink_units", "move_units", "finish"}
    /\ pc = "record_move" =>
         progress # "none" /\ AllNewExist /\ NoUnits /\ \A n \in Names : active[n] = None
    /\ MoveInv /\ ServiceInv

SetupInv ==
    /\ active[Active] = Partial => host = "extract" /\ Active \in left
    /\ host = "setup" /\ mode = "activate" => target = Configured
    /\ requests = 0 /\ progress # "none" => bootstrap
    /\ pc = "start_target" \/ host = "clear" => progress = "none" /\ Whole
    /\ Settled /\ progress = "none" => Whole
    /\ Disjoint \/ (pc \in {"idle", "clean_new"} /\ (bootstrap \/ host = "extract"))
    /\ NewWhole \/ (pc = "idle" /\ bootstrap)

BootInv == ~exposed => LiveInv /\ SetupInv

LEMMA InitBoot == SetupAssumption /\ Fresh => Core /\ HostInv /\ BootInv
<1> SUFFICES ASSUME SetupAssumption, Fresh PROVE Core /\ HostInv /\ BootInv
  OBVIOUS
<1> USE InstallAssumption DEF Fresh, SetupAssumption
<1>1. Core
  BY DEF Core, TypeOK, Content, Installed, Steps, Names, BuildInv, BuildSteps, AtFirst,
     SwapInv, ActivateInv, OfOneSet, AllNewExist, UnitsKnown, NestedLive, UnitsIn
<1>2. HostInv
  BY DEF HostInv, Tarball
<1>3. LiveInv
  BY DEF LiveInv, MoveInv, ServiceInv
<1>4. SetupInv
  BY DEF SetupInv, Settled, Disjoint, NewWhole
<1> QED
  BY <1>1, <1>2, <1>3, <1>4 DEF BootInv

(* The units that only look, or only count. *)
LEMMA QuietStep ==
  ASSUME Core, UNCHANGED <<tree, systemd, progress, process>>, faults' \in Nat, requests' \in Nat
  PROVE  Core' /\ (Disjoint => Disjoint')
<1> QED
  BY DEF Core, tree, systemd, process, TypeOK, AtFirst, BuildInv,
     SwapInv, ActivateInv, OfOneSet, Disjoint, UnitsKnown, NestedLive,
     AllNewExist, Staged, NoUnits, OneSet, UnitsIn

(* setup begins an activation. *)
LEMMA BootstrapStep ==
  ASSUME Core, pc = "idle", pc' = "clean_new", mode' = "activate", target' \in Sets,
         UNCHANGED <<tree, systemd, progress, i, todo, counters>>
  PROVE  Core' /\ (Disjoint => Disjoint')
<1> USE InstallAssumption DEF Core, tree, systemd, counters, Names
<1>1. TypeOK' /\ AtFirst'
  BY DEF TypeOK, Steps, AtFirst
<1>2. BuildInv'
  BY DEF TypeOK, AtFirst, BuildInv, BuildSteps
<1>3. SwapInv' /\ ActivateInv'
  BY DEF SwapInv, ActivateInv
<1>4. OfOneSet' /\ UnitsKnown' /\ NestedLive' /\ (Disjoint => Disjoint')
  BY DEF OfOneSet, UnitsKnown, NestedLive, Disjoint, AllNewExist, UnitsIn
<1> QED
  BY <1>1, <1>2, <1>3, <1>4

(* The tarball brings no unit directory. *)
LEMMA ExtractStep ==
  ASSUME Core, HostInv, Extract
  PROVE  Core'
<1> USE InstallAssumption
<1>1. UNCHANGED <<new, old, nested, systemd, progress, process, counters>> /\ pc = "idle"
  BY DEF Extract, HostInv
<1>2. /\ active' \in [Names -> Content]
      /\ active'[Wants] = active[Wants]
      /\ \A n \in Names : active'[n] = None => active[n] = None
  <2>1. PICK member \in left :
           \/ active' = active
           \/ member \in Names /\ active' = [active EXCEPT ![member] = FirstSet]
           \/ member \in Names /\ active' = [active EXCEPT ![member] = Partial]
    BY DEF Extract
  <2>2. member # Wants
    BY DEF HostInv, Tarball, Flag, Packages, Names
  <2> QED
    BY <2>1, <2>2 DEF Core, TypeOK, Content
<1> USE <1>1, <1>2 DEF Core, systemd, process, counters
<1>3. TypeOK' /\ AtFirst'
  BY DEF TypeOK, AtFirst
<1>4. BuildInv' /\ SwapInv' /\ ActivateInv'
  BY DEF BuildInv, BuildSteps, SwapInv, ActivateInv
<1>5. OfOneSet' /\ UnitsKnown' /\ NestedLive'
  BY DEF OfOneSet, UnitsKnown, NestedLive, AllNewExist, UnitsIn, TypeOK
<1> QED
  BY <1>3, <1>4, <1>5

(* What a step of pkgpanda leaves alone, and where it may end. *)
LEMMA PkgpandaEnds ==
  ASSUME Core, Pkgpanda
  PROVE  /\ pc # "idle" /\ UNCHANGED <<mode, target, requests, bootstrap, left, exposed>>
         /\ pc' = "idle" =>
              pc \in {"check", "stop_all", "move_new", "move_units", "finish", "start_target"}
         /\ pc = "finish" /\ pc' = "idle" => mode = "recover"
         /\ host' = IF host = "setup" /\ pc' = "idle"
                    THEN CASE pc = "start_target" /\ faults' = faults -> "clear"
                           [] pc = "finish" -> "up"
                           [] OTHER -> "failed"
                    ELSE host
<1> USE DEF Loop, Goto, GotoUnits, TakeUnit, tree, systemd, process, counters
<1>1. CASE BuildStep
  BY <1>1 DEF Pkgpanda, BuildStep, CleanNew, CleanOld, RemoveStagedUnitFiles, MakeDirs,
     Populate, StageNewUnits, WriteFiles
<1>2. CASE SwapStep
  BY <1>2 DEF Pkgpanda, SwapStep, CheckNew, RecordArchive, StopAll, RemoveUnitFiles, Archive,
     RecordMove, MoveNew, MoveNewFails, ActivateNewUnitFiles, RemoveProgress, Core, TypeOK
<1>3. CASE StartDcosTarget \/ StopAllFails \/ StartTargetFails
  BY <1>3 DEF Pkgpanda, StartDcosTarget, StopAllFails, StartTargetFails
<1> QED
  BY <1>1, <1>2, <1>3 DEF Pkgpanda

(* Every step of the boot keeps up what pkgpanda relies on. *)
LEMMA CoreBoot ==
  ASSUME SetupAssumption, Core, HostInv, NextBoot \/ UNCHANGED <<vars, boot>>
  PROVE  Core' /\ (Disjoint /\ ~Extract => Disjoint')
<1>1. CASE Download \/ DownloadFails \/ Extracted \/ BootstrapFails \/ CannotStart
           \/ RemoveBootstrap \/ StartAgain \/ UNCHANGED <<vars, boot>>
  <2>1. /\ UNCHANGED <<tree, systemd, progress, process>>
        /\ requests' = requests /\ faults' \in {faults, faults + 1}
    BY <1>1 DEF Download, DownloadFails, Extracted, BootstrapFails, CannotStart, RemoveBootstrap,
       StartAgain, vars, counters
  <2> QED
    BY <2>1, QuietStep DEF Core, TypeOK
<1>2. CASE Extract
  BY <1>2, ExtractStep
<1>3. CASE StartSetup
  <2>1. /\ pc = "idle" /\ UNCHANGED <<tree, systemd, progress, i, todo, counters>>
        /\ \/ Bootstrap
           \/ progress # "none" /\ Recover
           \/ NothingToDo
    BY <1>3 DEF StartSetup, HostInv
  <2>2. CASE Bootstrap
    BY <2>1, <2>2, BootstrapStep DEF Bootstrap, SetupAssumption
  <2>3. CASE progress # "none" /\ Recover
    BY <2>1, <2>3, RecoverSwapActiveStep DEF Recover, RecoverSwapActive
  <2>4. CASE NothingToDo
    BY <2>1, <2>4, QuietStep DEF NothingToDo, process, counters, Core, TypeOK
  <2> QED
    BY <2>1, <2>2, <2>3, <2>4
<1>4. CASE Pkgpanda \/ Upgrade \/ PkgpandaKilled \/ HostStops
  BY <1>4, StepInv DEF Pkgpanda, Upgrade, PkgpandaKilled, HostStops, Next
<1> QED
  BY <1>1, <1>2, <1>3, <1>4 DEF NextBoot

LEMMA HostBoot ==
  ASSUME SetupAssumption, Core, HostInv, NextBoot \/ UNCHANGED <<vars, boot>>
  PROVE  HostInv'
<1> USE DEF HostInv
<1>1. CASE Download \/ DownloadFails \/ Extracted \/ BootstrapFails \/ CannotStart
           \/ RemoveBootstrap \/ StartAgain \/ UNCHANGED <<vars, boot>>
  BY <1>1 DEF Download, DownloadFails, Extracted, BootstrapFails, CannotStart, RemoveBootstrap,
     StartAgain, vars, boot, process, counters, Tarball
<1>2. CASE Extract
  BY <1>2 DEF Extract, process, counters
<1>3. CASE StartSetup
  BY <1>3 DEF StartSetup, Bootstrap, Recover, NothingToDo, counters
<1>4. CASE Pkgpanda
  BY <1>4, PkgpandaEnds DEF Core, TypeOK
<1>5. CASE Upgrade
  BY <1>5 DEF Upgrade, Activate, boot, Core, TypeOK
<1>6. CASE PkgpandaKilled \/ HostStops
  BY <1>6 DEF PkgpandaKilled, HostStops, Kill, Reboot
<1> QED
  BY <1>1, <1>2, <1>3, <1>4, <1>5, <1>6 DEF NextBoot

(* Where neither the live entries nor what runs has changed, and pkgpanda   *)
(* is at no step of a swap.                                                *)
LEMMA QuietLive ==
  ASSUME LiveInv, UNCHANGED <<nested, unit, running, progress>>,
         pc' \in {"idle", "check"} \cup BuildSteps,
         pc \notin {"move_new", "unlink_units", "move_units", "finish"}
  PROVE  LiveInv'
  BY DEF LiveInv, MoveInv, ServiceInv, BuildSteps

(* The units of the boot, but for the extraction and the setup. *)
LEMMA UnitsBoot ==
  ASSUME SetupAssumption, Core, HostInv, LiveInv, SetupInv,
         \/ Download \/ DownloadFails \/ Extracted \/ BootstrapFails \/ CannotStart
         \/ RemoveBootstrap \/ StartAgain \/ UNCHANGED <<vars, boot>>
  PROVE  LiveInv' /\ SetupInv'
<1>1. UNCHANGED <<tree, systemd, progress, process, requests>>
  BY DEF Download, DownloadFails, Extracted, BootstrapFails, CannotStart, RemoveBootstrap,
     StartAgain, vars, counters
<1>2. LiveInv'
  BY <1>1 DEF LiveInv, MoveInv, ServiceInv, tree, systemd, process, Moving, NoUnits, NoneRunning,
     Staged, OneSet, UnitsIn, AllNewExist
<1>3. /\ Whole' <=> Whole
      /\ Disjoint' <=> Disjoint
      /\ NewWhole => NewWhole'
  BY <1>1 DEF Whole, Disjoint, NewWhole, tree, systemd, process, OneSet, UnitsIn, AllNewExist
<1>9. UNCHANGED <<active, progress, pc, mode, target, requests>>
  BY <1>1 DEF tree, process
<1> USE <1>2, <1>3, <1>9 DEF SetupInv
<1>4. CASE Download \/ DownloadFails \/ Extracted
  <2>1. host \in {"boot", "extract"} /\ pc = "idle" /\ UNCHANGED bootstrap
    BY <1>4 DEF Download, DownloadFails, Extracted, HostInv
  <2>2. \/ host = "boot" /\ host' = "start" /\ active[Active] # None
        \/ host = "boot" /\ host' = "extract" /\ left' = Tarball
        \/ host = "boot" /\ host' = "failed" /\ active[Active] = None
        \/ host = "extract" /\ host' = "start" /\ left = {} /\ bootstrap
    BY <1>4 DEF Download, DownloadFails, Extracted, HostInv
  <2> QED
    BY <2>1, <2>2 DEF Settled
<1>5. CASE BootstrapFails \/ CannotStart
  <2>1. /\ host = "start" /\ pc = "idle" /\ UNCHANGED bootstrap
        /\ \/ host' = "failed" /\ active[Active] # None
           \/ host' = "up"
           \/ host' = "failed" /\ (bootstrap \/ progress # "none" \/ Whole)
    BY <1>5 DEF BootstrapFails, CannotStart, HostInv, Settled
  <2> QED
    BY <2>1 DEF Settled, Whole, OneSet, SetupAssumption
<1>6. CASE RemoveBootstrap
  BY <1>6 DEF RemoveBootstrap, HostInv, Disjoint, NewWhole
<1>7. CASE StartAgain
  BY <1>7 DEF StartAgain, Settled, HostInv
<1>8. CASE UNCHANGED <<vars, boot>>
  BY <1>8 DEF boot, Settled
<1> QED
  BY <1>4, <1>5, <1>6, <1>7, <1>8

LEMMA ExtractBoot ==
  ASSUME SetupAssumption, Core, HostInv, LiveInv, SetupInv, Extract
  PROVE  LiveInv' /\ SetupInv'
<1>1. /\ UNCHANGED <<nested, systemd, progress, process, requests, host>> /\ host = "extract"
      /\ pc = "idle" /\ (bootstrap => bootstrap')
  BY DEF Extract, HostInv, counters
<1>2. LiveInv'
  BY <1>1, QuietLive DEF systemd, process
<1>3. active'[Active] = Partial => Active \in left'
  <2>1. PICK member \in left :
           \/ left' = left \ {member}
              /\ active' = IF member \in Names THEN [active EXCEPT ![member] = FirstSet] ELSE active
           \/ left' = left /\ active' = [active EXCEPT ![member] = Partial]
    BY DEF Extract
  <2> QED
    BY <2>1, InstallAssumption DEF SetupInv, SetupAssumption, Core, TypeOK
<1>5. NewWhole => NewWhole'
  BY <1>1 DEF NewWhole, AllNewExist, process, Extract
<1>4. SetupInv'
  BY <1>1, <1>3, <1>5 DEF SetupInv, Settled, process
<1> QED
  BY <1>2, <1>4

LEMMA StartSetupBoot ==
  ASSUME SetupAssumption, Core, HostInv, LiveInv, SetupInv, StartSetup
  PROVE  LiveInv' /\ SetupInv'
<1>1. /\ UNCHANGED <<tree, systemd, progress, requests, bootstrap>> /\ host = "start" /\ pc = "idle"
      /\ pc' \in {"clean_new", "check", "idle"}
      /\ \/ bootstrap /\ Bootstrap
         \/ ~bootstrap /\ progress # "none" /\ Recover
         \/ ~bootstrap /\ progress = "none" /\ NothingToDo
  BY DEF StartSetup, Bootstrap, Recover, NothingToDo, HostInv, counters
<1>2. LiveInv'
  BY <1>1, QuietLive DEF systemd, tree, BuildSteps
<1>3. /\ Whole' <=> Whole
      /\ Disjoint' <=> Disjoint
      /\ pc # "clean_new" => (NewWhole => NewWhole')
  BY <1>1 DEF Whole, Disjoint, NewWhole, tree, systemd, OneSet, UnitsIn, AllNewExist
<1>4. SetupInv'
  BY <1>1, <1>3 DEF SetupInv, NewWhole, Settled, Bootstrap, Recover, NothingToDo, tree
<1> QED
  BY <1>2, <1>4

(* An upgrade keeps the node whole, with what is then of its set. *)
LEMMA UpgradeBoot ==
  ASSUME SetupAssumption, Core, HostInv, LiveInv, SetupInv, Upgrade
  PROVE  LiveInv' /\ SetupInv'
<1>1. /\ UNCHANGED <<tree, systemd, progress, boot>> /\ host = "up" /\ pc = "idle"
      /\ pc' = "clean_new" /\ requests' > 0
  BY DEF Upgrade, Activate, Core, TypeOK
<1>2. LiveInv'
  BY <1>1, QuietLive DEF systemd, tree, BuildSteps
<1>3. /\ Whole => Whole'
      /\ Disjoint' <=> Disjoint
      /\ pc # "clean_new" => (NewWhole => NewWhole')
  BY <1>1 DEF Whole, Disjoint, NewWhole, tree, systemd, OneSet, UnitsIn, AllNewExist
<1>4. SetupInv'
  BY <1>1, <1>3 DEF SetupInv, NewWhole, Settled, HostInv, tree, boot
<1> QED
  BY <1>2, <1>4

(* Killed, or stopped, where a boot can help. *)
LEMMA StopBoot ==
  ASSUME SetupAssumption, Core, HostInv, LiveInv, SetupInv, ~Exposed,
         PkgpandaKilled \/ HostStops
  PROVE  LiveInv' /\ SetupInv'
<1>1. /\ UNCHANGED <<tree, unit, staged, progress, mode, target, requests, bootstrap>>
      /\ pc' = "idle"
      /\ \/ pc # "idle" /\ host' = IF host = "setup" THEN "failed" ELSE host
         \/ host' = "boot"
  BY DEF PkgpandaKilled, HostStops, Kill, Reboot, systemd, tree
<1>2. host # "extract" /\ pc \notin {"move_new", "unlink_units", "move_units", "finish"}
  BY DEF Exposed
<1>3. LiveInv'
  <2>1. \A u \in Units : running'[u] \in {running[u], unit[u], None}
    BY DEF PkgpandaKilled, HostStops, Kill, Reboot, systemd, Core, TypeOK, Installed
  <2>2. ServiceInv'
    BY <1>1, <2>1 DEF LiveInv, ServiceInv
  <2> QED
    BY <1>1, <1>2, <2>2 DEF LiveInv, MoveInv, tree
<1>4. /\ Whole' <=> Whole
      /\ Disjoint' <=> Disjoint
      /\ pc # "clean_new" => (NewWhole => NewWhole')
  BY <1>1 DEF Whole, Disjoint, NewWhole, tree, OneSet, UnitsIn, AllNewExist
<1>6. ASSUME pc = "clean_new" PROVE NewWhole' \/ (pc' = "idle" /\ bootstrap')
  <2>1. mode = "activate" /\ host \in {"setup", "up"}
    BY <1>6 DEF Core, BuildInv, BuildSteps, HostInv
  <2>2. host = "up" => NewWhole'
    BY <1>1, <1>6 DEF Exposed, NewWhole, tree
  <2> QED
    BY <1>1, <2>1, <2>2 DEF HostInv
<1>7. ASSUME pc # "clean_new" PROVE NewWhole' \/ (pc' = "idle" /\ bootstrap')
  BY <1>1, <1>4, <1>7 DEF SetupInv
<1>8. NewWhole' \/ (pc' = "idle" /\ bootstrap')
  BY <1>6, <1>7
<1>5. SetupInv'
  BY <1>1, <1>2, <1>4, <1>8 DEF SetupInv, Settled, HostInv, tree
<1> QED
  BY <1>3, <1>5

(* What pkgpanda itself does to the new entries of a recorded swap. *)
LEMMA WholeBoot ==
  ASSUME Core, LiveInv, NewWhole, Pkgpanda
  PROVE  NewWhole'
<1>1. CASE BuildStep
  BY <1>1, BuildIsWhole
<1>2. CASE RecordArchive
  BY <1>2, RecordIsWhole
<1>3. CASE MoveNew
  BY <1>3 DEF MoveNew, NewWhole, AllNewExist, Core, TypeOK
<1>4. CASE RecordMove
  BY <1>4, WholeStays DEF RecordMove, tree, LiveInv
<1>5. CASE CheckNew \/ StopAll \/ Archive \/ MoveNewFails \/ ActivateNewUnitFiles \/ RemoveProgress
  BY <1>5, WholeStays DEF CheckNew, StopAll, Archive, MoveNewFails, ActivateNewUnitFiles,
     RemoveProgress, tree
<1>6. CASE \/ RemoveUnitFiles("remove_units", "archive", {})
           \/ RemoveUnitFiles("unlink_units", "move_units", UnitsIn(active[Wants]))
  BY <1>6, WholeStays DEF RemoveUnitFiles, tree
<1>7. CASE StartDcosTarget \/ StopAllFails \/ StartTargetFails
  BY <1>7, WholeStays DEF StartDcosTarget, StopAllFails, StartTargetFails, tree
<1> QED
  BY <1>1, <1>2, <1>3, <1>4, <1>5, <1>6, <1>7 DEF Pkgpanda, SwapStep

(* A step of pkgpanda that goes on, of an activation or a recovery that     *)
(* has not finished: setup stays where it is.                              *)
LEMMA GoesOn ==
  ASSUME SetupAssumption, Core, HostInv, LiveInv, SetupInv, Pkgpanda,
         pc \notin {"clean_new", "start_target"}, pc' \notin {"idle", "start_target"},
         active'[Active] \in {active[Active], None} \cup Sets,
         progress' # "none" /\ progress = "none" => bootstrap \/ requests > 0,
         progress' = "none" => progress = "none" /\ UNCHANGED <<active, nested, unit>>
  PROVE  SetupInv'
<1>1. /\ UNCHANGED <<mode, target, requests, bootstrap, left, host>> /\ pc # "idle"
      /\ requests \in Nat /\ host # "clear"
  BY PkgpandaEnds DEF Core, TypeOK, HostInv
<1>2. progress' = "none" => (Whole' <=> Whole)
  BY <1>1 DEF Whole, OneSet, UnitsIn
<1>3. Disjoint'
  BY <1>1, CoreBoot DEF SetupInv, NextBoot, Extract, HostInv
<1>4. active'[Active] = Partial => active[Active] = Partial
  BY InstallAssumption
<1>5. NewWhole'
  BY <1>1, WholeBoot DEF SetupInv
<1> QED
  BY <1>1, <1>2, <1>3, <1>4, <1>5 DEF SetupInv, Settled

(* The build of the new entries leaves the live ones alone.  Where the      *)
(* tarball was extracted over an interrupted swap, what is left of that is  *)
(* thrown away first.                                                      *)
LEMMA BuildBoot ==
  ASSUME SetupAssumption, Core, HostInv, LiveInv, SetupInv, Pkgpanda, BuildStep
  PROVE  LiveInv' /\ SetupInv'
<1>1. /\ UNCHANGED <<active, nested, unit, running, progress>>
      /\ pc' \in {"idle", "check"} \cup BuildSteps /\ pc \in BuildSteps
      /\ pc' = "idle" => pc = "populate"
  BY DEF BuildStep, CleanNew, CleanOld, RemoveStagedUnitFiles, MakeDirs, Populate,
     StageNewUnits, WriteFiles, Loop, Goto, GotoUnits, TakeUnit, BuildSteps, tree, systemd, process
<1>2. pc' # "idle"
  BY <1>1 DEF Pkgpanda
<1>3. LiveInv'
  BY <1>1, QuietLive DEF BuildSteps
<1>4. CASE pc # "clean_new"
  BY <1>1, <1>2, <1>3, <1>4, GoesOn DEF BuildSteps
<1>5. CASE pc = "clean_new"
  <2>1. /\ i \in Names /\ new \in [Names -> Content] /\ UNCHANGED <<active, old, progress>>
        /\ \/ new[i] # None /\ new' = [new EXCEPT ![i] = Partial] /\ pc' = "clean_new"
           \/ new' = [new EXCEPT ![i] = None]
    BY <1>5, InstallAssumption DEF BuildStep, CleanNew, CleanOld, RemoveStagedUnitFiles, MakeDirs,
       Populate, StageNewUnits, WriteFiles, process, Core, TypeOK
  <2>2. Disjoint' \/ (pc' = "clean_new" /\ (Disjoint => Disjoint'))
    BY <2>1 DEF Disjoint, AllNewExist
  <2>3. /\ UNCHANGED <<mode, target, requests, bootstrap, left, host>> /\ host # "clear"
    BY <1>2, <1>5, PkgpandaEnds DEF HostInv
  <2>4. Whole' <=> Whole
    BY <1>1, <2>3 DEF Whole, OneSet, UnitsIn
  <2>5. NewWhole'
    BY <1>5, WholeBoot DEF SetupInv
  <2> QED
    BY <1>1, <1>3, <1>5, <2>2, <2>3, <2>4, <2>5 DEF SetupInv, Settled, BuildSteps
<1> QED
  BY <1>4, <1>5

(* Only a recovery is refused, and stays in its archive stage. *)
LEMMA CheckBoot ==
  ASSUME SetupAssumption, Core, HostInv, LiveInv, SetupInv, Pkgpanda, CheckNew
  PROVE  LiveInv' /\ SetupInv'
<1>1. /\ UNCHANGED <<active, nested, unit, running, progress>> /\ pc = "check"
      /\ \/ pc' = "record_archive"
         \/ mode = "recover" /\ progress = "move_new"
         \/ ~AllNewExist /\ pc' = "idle"
  BY DEF CheckNew, tree, systemd, Goto
<1>2. progress # "move_new" /\ (mode = "recover" => progress # "none")
  BY <1>1 DEF LiveInv, Core, SwapInv
<1>3. LiveInv'
  BY <1>1, <1>2 DEF LiveInv, MoveInv, ServiceInv
<1>4. CASE pc' = "record_archive"
  BY <1>1, <1>3, <1>4, GoesOn
<1>5. CASE pc' = "idle"
  <2>1. mode = "recover"
    BY <1>1, <1>2, <1>5, InstallAssumption DEF Core, ActivateInv, AllNewExist, TypeOK
  <2>2. /\ UNCHANGED <<mode, target, requests, bootstrap, left>>
        /\ host' = (IF host = "setup" THEN "failed" ELSE host) /\ host # "clear"
    BY <1>1, <1>5, PkgpandaEnds DEF HostInv
  <2>3. Disjoint'
    BY <1>1, CoreBoot DEF SetupInv, NextBoot, Extract, HostInv
  <2>4. NewWhole'
    BY <1>1, WholeBoot DEF SetupInv
  <2> QED
    BY <1>1, <1>2, <1>3, <1>5, <2>1, <2>2, <2>3, <2>4 DEF SetupInv, HostInv
<1> QED
  BY <1>1, <1>2, <1>4, <1>5

(* Who activates has the flag file, or was asked to. *)
LEMMA ActivatedFor ==
  ASSUME HostInv, mode = "activate", pc # "idle"
  PROVE  bootstrap \/ requests > 0
  BY DEF HostInv

LEMMA RecordArchiveBoot ==
  ASSUME SetupAssumption, Core, HostInv, LiveInv, SetupInv, Pkgpanda, RecordArchive
  PROVE  LiveInv' /\ SetupInv'
<1>1. /\ UNCHANGED <<active, nested, unit, running>> /\ progress' = "archive"
      /\ pc = "record_archive" /\ pc' = "stop_all"
  BY DEF RecordArchive, tree, systemd, Goto
<1>2. LiveInv'
  BY <1>1 DEF LiveInv, MoveInv, ServiceInv
<1>3. progress = "none" => bootstrap \/ requests > 0
  BY <1>1, ActivatedFor DEF Core, SwapInv, TypeOK
<1> QED
  BY <1>1, <1>2, <1>3, GoesOn

LEMMA StopAllBoot ==
  ASSUME SetupAssumption, Core, HostInv, LiveInv, SetupInv, Pkgpanda, StopAll
  PROVE  LiveInv' /\ SetupInv'
<1>1. /\ UNCHANGED <<active, nested, unit, progress>> /\ progress = "archive"
      /\ pc = "stop_all" /\ pc' = "remove_units"
  BY DEF StopAll, tree, GotoUnits, Core, SwapInv
<1>2. NoneRunning'
  BY AllStop DEF LiveInv
<1>3. LiveInv'
  BY <1>1, <1>2 DEF LiveInv, MoveInv, ServiceInv, NoneRunning
<1> QED
  BY <1>1, <1>3, GoesOn

LEMMA StopAllFailsBoot ==
  ASSUME SetupAssumption, Core, HostInv, LiveInv, SetupInv, Pkgpanda, StopAllFails
  PROVE  LiveInv' /\ SetupInv'
<1>1. /\ UNCHANGED <<active, nested, unit, progress>> /\ progress = "archive"
      /\ pc = "stop_all" /\ pc' = "idle"
      /\ \A u \in Units : running'[u] \in {running[u], None}
  BY DEF StopAllFails, tree, Goto, Core, SwapInv, TypeOK, Installed
<1>2. LiveInv'
  BY <1>1 DEF LiveInv, MoveInv, ServiceInv
<1>3. /\ UNCHANGED <<mode, target, requests, bootstrap, left>>
      /\ host' = (IF host = "setup" THEN "failed" ELSE host) /\ host # "clear"
  BY <1>1, PkgpandaEnds DEF HostInv
<1>4. Disjoint'
  BY <1>1, CoreBoot DEF SetupInv, NextBoot, Extract, HostInv
<1>5. NewWhole'
  BY <1>1, WholeBoot DEF SetupInv
<1> QED
  BY <1>1, <1>2, <1>3, <1>4, <1>5 DEF SetupInv, HostInv

LEMMA RemoveUnitsBoot ==
  ASSUME SetupAssumption, Core, HostInv, LiveInv, SetupInv, Pkgpanda,
         RemoveUnitFiles("remove_units", "archive", {})
  PROVE  LiveInv' /\ SetupInv'
<1>1. /\ UNCHANGED <<active, nested, running, progress>> /\ progress = "archive"
      /\ pc = "remove_units" /\ pc' \in {"remove_units", "archive"}
  BY DEF RemoveUnitFiles, tree, TakeUnit, GotoUnits, Core, SwapInv
<1>2. LiveInv'
  BY <1>1 DEF LiveInv, MoveInv, ServiceInv, NoneRunning
<1> QED
  BY <1>1, <1>2, GoesOn

LEMMA ArchiveBoot ==
  ASSUME SetupAssumption, Core, HostInv, LiveInv, SetupInv, Pkgpanda, Archive
  PROVE  LiveInv' /\ SetupInv'
<1>1. /\ UNCHANGED <<new, unit, running, progress>> /\ progress = "archive"
      /\ pc = "archive" /\ pc' \in {"archive", "record_move"} /\ AllNewExist /\ NoUnits
      /\ pc' = "record_move" => i = NumNames
  BY InstallAssumption DEF Archive, systemd, Loop, Core, SwapInv, TypeOK, Names
<1>2. nested' = {}
  BY DEF Archive, LiveInv
<1>3. /\ \A n \in Names : active'[n] \in {active[n], None}
      /\ pc' = "record_move" => \A n \in Names : active'[n] = None
  BY <1>1, InstallAssumption DEF Archive, Core, SwapInv, TypeOK, Names
<1>4. LiveInv'
  BY <1>1, <1>2, <1>3 DEF LiveInv, MoveInv, ServiceInv, NoneRunning, AllNewExist, NoUnits
<1> QED
  BY <1>1, <1>3, <1>4, GoesOn DEF SetupAssumption

LEMMA RecordMoveBoot ==
  ASSUME SetupAssumption, Core, HostInv, LiveInv, SetupInv, Pkgpanda, RecordMove
  PROVE  LiveInv' /\ SetupInv'
<1>1. /\ UNCHANGED <<active, nested, unit, running>> /\ progress' = "move_new"
      /\ pc = "record_move" /\ pc' = "move_new" /\ progress # "none"
  BY DEF RecordMove, tree, systemd, Goto, LiveInv
<1>2. \E s \in Sets : Moving(s)'
  BY <1>1, MoveBegins DEF LiveInv, SetupInv, NewWhole
<1>3. LiveInv'
  BY <1>1, <1>2 DEF LiveInv, MoveInv, ServiceInv, NoneRunning
<1> QED
  BY <1>1, <1>3, GoesOn

LEMMA MoveNewBoot ==
  ASSUME SetupAssumption, Core, HostInv, LiveInv, SetupInv, Pkgpanda, MoveNew
  PROVE  LiveInv' /\ SetupInv'
<1>1. /\ UNCHANGED <<unit, running, progress>> /\ progress = "move_new"
      /\ pc = "move_new" /\ pc' \in {"move_new", "unlink_units"}
  BY DEF MoveNew, systemd, Core, SwapInv
<1>2. PICK s \in Sets : Moving(s)
  BY <1>1 DEF LiveInv, MoveInv
<1>3. Moving(s)' /\ nested' = {} /\ active' = [active EXCEPT ![i] = s]
  BY <1>2, MoveGoesOn
<1>4. LiveInv'
  BY <1>1, <1>3 DEF LiveInv, MoveInv, ServiceInv, NoneRunning
<1>5. active'[Active] \in {active[Active], None} \cup Sets
  BY <1>3 DEF Core, TypeOK, SetupAssumption
<1> QED
  BY <1>1, <1>4, <1>5, GoesOn

LEMMA MoveUnitsBoot ==
  ASSUME SetupAssumption, Core, HostInv, LiveInv, SetupInv, Pkgpanda,
         \/ RemoveUnitFiles("unlink_units", "move_units", UnitsIn(active[Wants]))
         \/ ActivateNewUnitFiles
  PROVE  LiveInv' /\ SetupInv'
<1>1. /\ UNCHANGED <<active, nested, running, progress>> /\ progress = "move_new"
      /\ pc \in {"unlink_units", "move_units"}
  BY DEF RemoveUnitFiles, ActivateNewUnitFiles, tree, Core, SwapInv
<1>2. PICK s \in Sets : Moving(s)
  BY <1>1 DEF LiveInv, MoveInv
<1>3. Moving(s)' /\ pc' \in {"unlink_units", "move_units", "finish"}
  BY <1>2, UnlinkGoesOn, UnitsGoOn DEF RemoveUnitFiles, TakeUnit, GotoUnits
<1>4. LiveInv'
  BY <1>1, <1>3 DEF LiveInv, MoveInv, ServiceInv, NoneRunning
<1> QED
  BY <1>1, <1>3, <1>4, GoesOn

(* What is moved in is of the target of an activation; a recovery without   *)
(* one that was asked for is of no boot.                                   *)
LEMMA RemoveProgressBoot ==
  ASSUME SetupAssumption, Core, HostInv, LiveInv, SetupInv, Pkgpanda, RemoveProgress
  PROVE  LiveInv' /\ SetupInv'
<1>1. /\ UNCHANGED <<active, nested, unit, running>> /\ progress = "move_new"
      /\ progress' = "none" /\ pc = "finish"
      /\ pc' = IF mode = "activate" THEN "start_target" ELSE "idle"
  BY DEF RemoveProgress, tree, systemd, Goto, Core, SwapInv
<1>2. LiveInv'
  BY <1>1 DEF LiveInv, MoveInv, ServiceInv
<1>3. /\ UNCHANGED <<mode, target, requests, bootstrap, left>>
      /\ host \in {"setup", "up"} /\ host' \in {host, "up"}
      /\ mode \in {"activate", "recover"} /\ requests \in Nat
  BY <1>1, PkgpandaEnds DEF HostInv, Core, TypeOK
<1>4. PICK s \in Sets : OneSet(s) /\ active[Wants] # None
  BY <1>1 DEF LiveInv, MoveInv, Moving
<1>5. Whole'
  <2>1. \E t \in Sets : OneSet(t) /\ (t = Configured \/ requests > 0)
    <3>1. CASE mode = "activate"
      BY <1>1, <1>3, <3>1 DEF Core, ActivateInv, SetupInv, HostInv, TypeOK
    <3>2. CASE mode = "recover"
      BY <1>1, <1>3, <1>4, <3>2 DEF SetupInv, HostInv
    <3> QED BY <1>3, <3>1, <3>2
  <2> QED
    BY <1>1, <1>3, <1>4, <2>1 DEF Whole, OneSet, UnitsIn
<1>6. SetupInv'
  BY <1>1, <1>3, <1>5 DEF SetupInv, Disjoint, NewWhole
<1> QED
  BY <1>2, <1>6

LEMMA StartTargetBoot ==
  ASSUME SetupAssumption, Core, HostInv, LiveInv, SetupInv, Pkgpanda,
         StartDcosTarget \/ StartTargetFails
  PROVE  LiveInv' /\ SetupInv'
<1>1. /\ UNCHANGED <<active, nested, unit, progress>>
      /\ pc = "start_target" /\ pc' = "idle"
      /\ \A u \in Units : running'[u] \in {running[u], unit[u]}
  BY DEF StartDcosTarget, StartTargetFails, tree, Goto, Core, TypeOK, Installed
<1>2. LiveInv'
  BY <1>1 DEF LiveInv, MoveInv, ServiceInv
<1>3. /\ UNCHANGED <<mode, target, requests, bootstrap, left>>
      /\ host \in {"setup", "up"} /\ (host = "up" => host' = "up")
      /\ host = "setup" => host' \in {"clear", "failed"} /\ bootstrap
  BY <1>1, PkgpandaEnds DEF HostInv, Core, BuildInv
<1>4. progress = "none" /\ Whole
  BY <1>1 DEF SetupInv
<1>5. Whole'
  BY <1>1, <1>3, <1>4 DEF Whole, OneSet, UnitsIn
<1> QED
  BY <1>1, <1>2, <1>3, <1>4, <1>5 DEF SetupInv, Settled, Disjoint, NewWhole

LEMMA PkgpandaBoot ==
  ASSUME SetupAssumption, Core, HostInv, LiveInv, SetupInv, Pkgpanda
  PROVE  LiveInv' /\ SetupInv'
<1>1. CASE BuildStep
  BY <1>1, BuildBoot
<1>2. CASE SwapStep
  <2>1. CASE MoveNewFails
    BY <2>1 DEF MoveNewFails, LiveInv
  <2> QED
    BY <1>2, <2>1, CheckBoot, RecordArchiveBoot, StopAllBoot, RemoveUnitsBoot, ArchiveBoot,
       RecordMoveBoot, MoveNewBoot, MoveUnitsBoot, RemoveProgressBoot DEF SwapStep
<1>3. CASE StartDcosTarget \/ StopAllFails \/ StartTargetFails
  BY <1>3, StartTargetBoot, StopAllFailsBoot
<1> QED
  BY <1>1, <1>2, <1>3 DEF Pkgpanda

(* What was exposed stays so. *)
LEMMA ExposedStays ==
  ASSUME NextBoot \/ UNCHANGED <<vars, boot>>, ~exposed'
  PROVE  /\ ~exposed
         /\ PkgpandaKilled \/ HostStops => ~Exposed
<1>1. CASE PkgpandaKilled \/ HostStops
  BY <1>1 DEF PkgpandaKilled, HostStops
<1>2. CASE ~(PkgpandaKilled \/ HostStops)
  BY <1>2 DEF NextBoot, Download, DownloadFails, Extract, Extracted, StartSetup, BootstrapFails,
     CannotStart, Pkgpanda, RemoveBootstrap, Upgrade, StartAgain, boot
<1> QED
  BY <1>1, <1>2

LEMMA BootStep ==
  ASSUME SetupAssumption, Core, HostInv, BootInv, NextBoot \/ UNCHANGED <<vars, boot>>
  PROVE  BootInv'
<1> SUFFICES ASSUME ~exposed' PROVE LiveInv' /\ SetupInv'
  BY DEF BootInv
<1>1. LiveInv /\ SetupInv
  BY ExposedStays DEF BootInv
<1>2. CASE PkgpandaKilled \/ HostStops
  BY <1>1, <1>2, ExposedStays, StopBoot
<1> QED
  BY <1>1, <1>2, UnitsBoot, ExtractBoot, StartSetupBoot, PkgpandaBoot, UpgradeBoot DEF NextBoot

LEMMA BootInvariance == ASSUME SetupAssumption PROVE BootSpec => [](Core /\ HostInv /\ BootInv)
<1>1. Core /\ HostInv /\ BootInv /\ [NextBoot]_<<vars, boot>>
      => Core' /\ HostInv' /\ BootInv'
  BY CoreBoot, HostBoot, BootStep
<1>2. Fresh => Core /\ HostInv /\ BootInv
  BY InitBoot
<1> QED
  BY <1>1, <1>2, PTL DEF BootSpec

(* Whatever the boot units, the download and the operator do, and wherever  *)
(* they are stopped, pkgpanda raises nothing it could have known, and an    *)
(* activation that ends, the one of setup and an upgrade alike, leaves one  *)
(* package set.  What swap_active takes for complete is, of an activation   *)
(* always, and of a recovery as long as nothing was stopped where a boot    *)
(* cannot help.                                                            *)
THEOREM BootsActivateWholeSets ==
  ASSUME SetupAssumption
  PROVE  BootSpec =>
           [](/\ TypeOK /\ SwapNeverRaises /\ ActivationLeavesOneSet
              /\ pc = "check" /\ AllNewExist /\ (mode = "activate" \/ ~exposed) =>
                   \E s \in Sets : Staged(s) /\ \A n \in Names : new[n] = s)
<1>1. Core => TypeOK /\ SwapNeverRaises /\ ActivationLeavesOneSet
  BY InstallAssumption DEF Core, BuildInv, ActivateInv, SwapNeverRaises, ActivationLeavesOneSet,
     AllNewExist, TypeOK
<1>2. ASSUME Core, BootInv, pc = "check", AllNewExist, mode = "activate" \/ ~exposed
      PROVE  \E s \in Sets : Staged(s) /\ \A n \in Names : new[n] = s
  <2>1. CASE mode = "activate"
    BY <1>2, <2>1 DEF Core, ActivateInv, TypeOK
  <2>2. CASE mode = "recover"
    <3>1. NewWhole /\ progress # "none"
      BY <1>2, <2>2 DEF BootInv, SetupInv, Core, SwapInv
    <3>2. new[1] # Partial
      BY <1>2, <3>1 DEF NewWhole
    <3> QED
      BY <1>2, <3>2 DEF Core, OfOneSet, Staged
  <2> QED
    BY <1>2, <2>1, <2>2 DEF Core, TypeOK
<1> QED
  BY <1>1, <1>2, BootInvariance, PTL

(* A node that is up and swaps nothing has one package set and its units,   *)
(* the one it was configured for or was given since, however often it was   *)
(* stopped or its boot failed; unless it was stopped while the tarball was  *)
(* extracted or the live entries were away.                                *)
THEOREM UpMeansWhole == ASSUME SetupAssumption PROVE BootSpec => []NodeIsWhole
<1>1. HostInv /\ BootInv => NodeIsWhole
  BY DEF HostInv, BootInv, SetupInv, Settled, Whole, NodeIsWhole
<1> QED
  BY <1>1, BootInvariance, PTL

(* Of such a node no move lands in a directory that is still there, of a    *)
(* recovery either, and no service runs whose unit file is another one.    *)
THEOREM SwapsOfBootsAreClean ==
  ASSUME SetupAssumption
  PROVE  BootSpec =>
           [](~exposed => /\ MoveTargetsFree /\ nested = {}
                          /\ \A u \in Units : running[u] # None => running[u] = unit[u])
<1>1. Core /\ BootInv /\ ~exposed => MoveTargetsFree
  <2> SUFFICES ASSUME Core, LiveInv, SetupInv PROVE MoveTargetsFree
    BY DEF BootInv
  <2>1. pc = "archive" /\ active[i] # None => old[i] = None
    BY DEF SetupInv, Core, SwapInv, Disjoint, TypeOK
  <2>2. pc = "move_new" /\ mode = "activate" => active[i] = None
    BY InstallAssumption DEF Core, ActivateInv, TypeOK, Names
  <2> QED
    BY <2>1, <2>2 DEF MoveTargetsFree
<1>2. BootInv /\ ~exposed =>
        nested = {} /\ \A u \in Units : running[u] # None => running[u] = unit[u]
  BY DEF BootInv, LiveInv, ServiceInv
<1> QED
  BY <1>1, <1>2, BootInvariance, PTL
=============================================================================
