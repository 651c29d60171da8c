------------------------ MODULE PkgRepositoryProofs -------------------------
(***************************************************************************)
(* What holds of PkgRepository for any packages, files and clients, and    *)
(* any number of operations and faults; at the end, of ReleaseStorage for  *)
(* any builds, storage providers and channels, and any number of releases  *)
(* that fail anywhere.                                                     *)
(***************************************************************************)
EXTENDS PkgRepository, SequenceTheorems, TLAPS

CONSTANTS Builds, Providers, Preferred, InPlace, Channels, Workers, MaxJobs

VARIABLES storage, queue, writing, jobs

Release == INSTANCE ReleaseStorage

Directories == {None} \cup SUBSET Files

Doings == [op : {"none", "add", "remove", "activate"},
           pc : {"idle"} \cup Steps.add \cup Steps.remove \cup Steps.activate,
           ids : SUBSET Ids, at : {"tmp", "package", "gone"}, todo : SUBSET Files]

TypeOK ==
    /\ packages \in [Ids -> Directories] /\ tmp \in [Ids -> Directories]
    /\ nested \subseteq Ids /\ active \subseteq Ids
    /\ raced \subseteq Ids /\ cut \subseteq Ids
    /\ client \in [Clients -> Doings]
    /\ ops \in Nat /\ faults \in Nat

(* What each operation is about, and where it can be. *)
OpOK(c) ==
    /\ client[c].op = "none" => client[c] = Idle
    /\ client[c].op \in {"add", "remove"} => \E i \in Ids : client[c].ids = {i}
    /\ client[c].op = "add" => client[c].pc \in Steps.add
    /\ client[c].op = "remove" => client[c].pc \in Steps.remove
    /\ client[c].op = "activate" => client[c].pc \in Steps.activate /\ client[c].at = "gone"

OpInv == \A c \in Clients : OpOK(c)

(* A directory that is open, or has another one inside, is somewhere. *)
Placed(i) ==
    /\ \A c \in Clients : client[c].ids = {i} =>
          /\ client[c].at = "tmp" => tmp[i] # None
          /\ client[c].at = "package" => packages[i] # None
    /\ i \in nested => packages[i] # None

PlaceInv == \A i \in Ids : Placed(i)

(* Operations that clash have been noticed. *)
RaceInv ==
    \A c, d \in Clients : c # d /\ Clash(client[c].op, client[d].op) =>
        client[c].ids \cap client[d].ids \subseteq raced

(* Alone with its package, an add knows what it finds and has done. *)
AddAlone(c, i) ==
    /\ client[c].pc \notin {"check", "added"} => packages[i] = None
    /\ client[c].pc \in {"clean", "undo"} =>
          client[c].at = IF tmp[i] = None THEN "gone" ELSE "tmp"
    /\ client[c].pc \in {"mkdir", "failed"} => tmp[i] = None
    /\ client[c].pc = "extract" => client[c].at = "tmp" /\ tmp[i] = Files \ client[c].todo
    /\ client[c].pc = "added" => packages[i] = Files

AddInv ==
    \A c \in Clients, i \in Ids \ Damaged :
        client[c].op = "add" /\ client[c].ids = {i} => AddAlone(c, i)

(* What is removed alone is not active. *)
RemoveInv ==
    \A c \in Clients, i \in Ids \ Damaged : client[c].pc = "remove" /\ client[c].ids = {i} =>
        i \notin active /\ client[c].at = "package"

(* What has been loaded, and is about to be linked to, is there. *)
LinkInv ==
    \A c \in Clients : client[c].pc = "link" =>
        \A i \in client[c].ids \ Damaged : packages[i] = Files

IInv ==
    /\ TypeOK /\ OpInv /\ PlaceInv /\ RaceInv
    /\ AddInv /\ RemoveInv /\ LinkInv
    /\ PresentIsComplete /\ ActiveIsPresent
----------------------------------------------------------------------------
(* What client c does to package i leaves the rest alone: the other        *)
(* packages, and of the other clients all but the place of a directory.    *)
Frame(c, i) ==
    /\ \A j \in Ids \ {i} : /\ packages'[j] = packages[j]
                            /\ j \in nested' <=> j \in nested
                            /\ tmp'[j] = tmp[j]
    /\ \A d \in Clients \ {c} :
          /\ client[d].ids # {i} => client'[d] = client[d]
          /\ client'[d].op = client[d].op /\ client'[d].pc = client[d].pc
          /\ client'[d].ids = client[d].ids
          /\ client[d].at = "gone" => client'[d].at = "gone"
    /\ active' = active /\ raced' = raced /\ cut' = cut

LEMMA IdOf ==
  ASSUME NEW c \in Clients, NEW i \in Ids, client[c].ids = {i}
  PROVE  Id(c) = i
  BY DEF Id

LEMMA InitInv == Init => IInv
  BY DEF Init, IInv, TypeOK, Doings, Steps, Directories, Idle, OpInv, OpOK, PlaceInv, Placed, RaceInv, Clash, AddInv,
     RemoveInv, LinkInv, PresentIsComplete, ActiveIsPresent, RepositoryAssumption

(* What a step of an add has to show: the rest follows from its frame. *)
LEMMA AddStep ==
  ASSUME IInv, TypeOK',
         NEW c \in Clients, NEW i \in Ids, client[c].op = "add", client[c].ids = {i},
         Frame(c, i), Placed(i)',
         \/ client'[c] = Idle
         \/ client'[c].op = "add" /\ client'[c].ids = {i} /\ client'[c].pc \in Steps.add,
         i \notin Damaged =>
            /\ client'[c] # Idle => AddAlone(c, i)'
            /\ packages[i] = Files => packages'[i] = Files
            /\ packages'[i] # None => packages'[i] = Files /\ i \notin nested'
  PROVE  IInv'
<1> USE DEF IInv
<1>1. OpInv'
  BY DEF OpInv, OpOK, Frame, Idle, Steps
<1>2. PlaceInv'
  BY DEF PlaceInv, Placed, Frame, Idle
<1>3. RaceInv'
  BY DEF RaceInv, Frame, Idle, Clash
<1>4. Damaged' = Damaged
  BY DEF Damaged, Frame
<1>5. ASSUME NEW d \in Clients \ {c}, client[d].op \in {"add", "remove"}, i \in client[d].ids,
             i \notin Damaged
      PROVE  FALSE
  BY <1>5 DEF RaceInv, Clash, Damaged
<1>6. AddInv'
  <2> SUFFICES ASSUME NEW d \in Clients, NEW j \in Ids, j \notin Damaged,
                      client'[d].op = "add", client'[d].ids = {j}
               PROVE  AddAlone(d, j)'
    BY <1>4 DEF AddInv
  <2>1. CASE d = c
    BY <2>1 DEF Idle
  <2>2. CASE d # c
    BY <2>2, <1>5 DEF Frame, AddInv, AddAlone
  <2> QED BY <2>1, <2>2
<1>7. RemoveInv'
  <2> SUFFICES ASSUME NEW d \in Clients, NEW j \in Ids, j \notin Damaged,
                      client'[d].pc = "remove", client'[d].ids = {j}
               PROVE  j \notin active' /\ client'[d].at = "package"
    BY <1>4 DEF RemoveInv
  <2>1. d # c
    BY DEF Idle, Steps
  <2>2. client[d].op = "remove" /\ client[d].pc = "remove" /\ client[d].ids = {j}
    BY <2>1 DEF Frame, OpInv, OpOK, Steps, TypeOK, Doings, Idle
  <2>3. j # i
    BY <2>1, <2>2, <1>5
  <2> QED BY <2>1, <2>2, <2>3 DEF Frame, RemoveInv
<1>8. LinkInv'
  <2> SUFFICES ASSUME NEW d \in Clients, client'[d].pc = "link", NEW j \in client'[d].ids \ Damaged
               PROVE  packages'[j] = Files
    BY <1>4 DEF LinkInv
  <2>1. d # c
    BY DEF Idle, Steps
  <2>2. client[d].pc = "link" /\ client[d].ids = client'[d].ids /\ j \in Ids
    BY <2>1 DEF Frame, TypeOK, Doings
  <2> QED BY <2>2 DEF Frame, LinkInv
<1>9. PresentIsComplete'
  BY <1>4 DEF PresentIsComplete, Frame, Removing, At, OpInv, OpOK, Steps
<1>10. ActiveIsPresent'
  BY <1>4 DEF ActiveIsPresent, Frame, TypeOK, Doings
<1> QED
  BY <1>1, <1>2, <1>3, <1>6, <1>7, <1>8, <1>9, <1>10

LEMMA Adding ==
  ASSUME IInv, NEW c \in Clients, client[c].pc \in Steps.add
  PROVE  \E i \in Ids : client[c].op = "add" /\ client[c].ids = {i} /\ Id(c) = i
  BY IdOf DEF IInv, OpInv, OpOK, TypeOK, Doings, Steps, Idle

(* Nobody removes a package that is added and not damaged. *)
LEMMA AddingAlone ==
  ASSUME IInv, NEW c \in Clients, NEW i \in Ids \ Damaged, client[c].op = "add", client[c].ids = {i}
  PROVE  /\ AddAlone(c, i)
         /\ packages[i] # None => packages[i] = Files /\ i \notin nested
<1>1. ~ Removing(i)
  BY DEF IInv, Removing, At, OpInv, OpOK, TypeOK, Doings, Steps, Idle, RaceInv, Clash, Damaged
<1> QED
  BY <1>1 DEF IInv, AddInv, PresentIsComplete

LEMMA AddCheckStep ==
  ASSUME IInv, NEW c \in Clients, AddCheck(c)
  PROVE  IInv'
<1> USE RepositoryAssumption DEF AddCheck, At, dirs, Return
<1>1. PICK i \in Ids : client[c].op = "add" /\ client[c].ids = {i} /\ Id(c) = i
  BY Adding DEF Steps
<1>2. TypeOK'
  BY <1>1 DEF IInv, TypeOK, Doings, Directories, Steps, Idle, TmpPlace
<1>3. Frame(c, i)
  BY <1>1 DEF IInv, TypeOK, Doings, Frame
<1>4. Placed(i)'
  BY <1>1 DEF IInv, TypeOK, Doings, PlaceInv, Placed, Idle, TmpPlace
<1>5. \/ client'[c] = Idle
      \/ client'[c].op = "add" /\ client'[c].ids = {i} /\ client'[c].pc \in Steps.add
  BY <1>1 DEF IInv, TypeOK, Doings, Steps
<1>6. i \notin Damaged =>
         /\ client'[c] # Idle => AddAlone(c, i)'
         /\ packages[i] = Files => packages'[i] = Files
         /\ packages'[i] # None => packages'[i] = Files /\ i \notin nested'
  BY <1>1, AddingAlone DEF IInv, TypeOK, Doings, AddAlone, TmpPlace
<1> QED
  BY <1>1, <1>2, <1>3, <1>4, <1>5, <1>6, AddStep

LEMMA MakeDirStep ==
  ASSUME IInv, NEW c \in Clients, MakeDir(c)
  PROVE  IInv'
<1> USE RepositoryAssumption DEF MakeDir, At, dirs
<1>1. PICK i \in Ids : client[c].op = "add" /\ client[c].ids = {i} /\ Id(c) = i
  BY Adding DEF Steps
<1>2. TypeOK'
  <2>1. tmp' \in [Ids -> Directories]
    BY <1>1 DEF IInv, TypeOK, Doings, Directories
  <2>2. [client[c] EXCEPT !.pc = "extract", !.at = "tmp", !.todo = Files] \in Doings
    BY ZenonT(60) DEF IInv, TypeOK, Doings, Steps
  <2>3. client' = [client EXCEPT ![c] = [client[c] EXCEPT !.pc = "extract", !.at = "tmp", !.todo = Files]]
    OBVIOUS
  <2> QED BY <2>1, <2>2, <2>3 DEF IInv, TypeOK, Doings
<1>3. Frame(c, i)
  BY <1>1 DEF IInv, TypeOK, Doings, Frame
<1>4. Placed(i)'
  BY <1>1 DEF IInv, TypeOK, Doings, PlaceInv, Placed
<1>5. \/ client'[c] = Idle
      \/ client'[c].op = "add" /\ client'[c].ids = {i} /\ client'[c].pc \in Steps.add
  BY <1>1 DEF IInv, TypeOK, Doings, Steps
<1>6. i \notin Damaged =>
         /\ client'[c] # Idle => AddAlone(c, i)'
         /\ packages[i] = Files => packages'[i] = Files
         /\ packages'[i] # None => packages'[i] = Files /\ i \notin nested'
  BY <1>1, AddingAlone DEF IInv, TypeOK, Doings, AddAlone
<1> QED
  BY <1>1, <1>2, <1>3, <1>4, <1>5, <1>6, AddStep


(* Deleting a file of the open directory. *)
LEMMA DeleteFileOf ==
  ASSUME IInv, NEW c \in Clients, NEW i \in Ids, client[c].ids = {i}, Id(c) = i,
         DeleteFile(c), UNCHANGED <<active, raced, cut, ops, faults>>
  PROVE  /\ TypeOK' /\ Frame(c, i) /\ Placed(i)' /\ client' = client /\ nested' = nested
         /\ client[c].at = "tmp"     => packages' = packages /\ tmp'[i] # None
         /\ client[c].at = "package" => tmp' = tmp /\ packages'[i] # None
         /\ client[c].at \in {"tmp", "package"} /\ client[c].pc # "idle"
<1> USE RepositoryAssumption DEF IInv
<1>1. PICK f : /\ f \in Opened(c)
               /\ IF client[c].at = "tmp"
                  THEN tmp' = [tmp EXCEPT ![i] = @ \ {f}] /\ UNCHANGED packages
                  ELSE packages' = [packages EXCEPT ![i] = @ \ {f}] /\ UNCHANGED tmp
               /\ UNCHANGED <<nested, client>>
  BY DEF DeleteFile
<1>2. client[c].at \in {"tmp", "package"} /\ client[c].pc # "idle"
  BY <1>1 DEF Opened, OpInv, OpOK, TypeOK, Doings, Steps, Idle
<1>3. CASE client[c].at = "tmp"
  <2>1. tmp[i] \in SUBSET Files /\ tmp[i] # None
    BY <1>3 DEF PlaceInv, Placed, TypeOK, Directories
  <2>2. tmp' = [tmp EXCEPT ![i] = tmp[i] \ {f}] /\ packages' = packages /\ tmp'[i] # None
    BY <1>1, <1>3, <2>1 DEF TypeOK
  <2>3. TypeOK'
    BY <1>1, <2>1, <2>2 DEF TypeOK, Directories
  <2>4. Frame(c, i) /\ Placed(i)'
    BY <1>1, <2>2 DEF TypeOK, Frame, PlaceInv, Placed
  <2> QED BY <1>1, <1>2, <1>3, <2>2, <2>3, <2>4
<1>4. CASE client[c].at = "package"
  <2>1. packages[i] \in SUBSET Files /\ packages[i] # None
    BY <1>4 DEF PlaceInv, Placed, TypeOK, Directories
  <2>2. packages' = [packages EXCEPT ![i] = packages[i] \ {f}] /\ tmp' = tmp /\ packages'[i] # None
    BY <1>1, <1>4, <2>1 DEF TypeOK
  <2>3. TypeOK'
    BY <1>1, <2>1, <2>2 DEF TypeOK, Directories
  <2>4. Frame(c, i) /\ Placed(i)'
    BY <1>1, <2>2 DEF TypeOK, Frame, PlaceInv, Placed
  <2> QED BY <1>1, <1>2, <1>4, <2>2, <2>3, <2>4
<1> QED BY <1>2, <1>3, <1>4

(* Deleting the directory {id}_tmp once it is empty. *)
LEMMA DeleteTmpOf ==
  ASSUME IInv, NEW c \in Clients, NEW i \in Ids, client[c].ids = {i}, Id(c) = i,
         NEW next \in Steps.add, DeleteTmp(c, next), UNCHANGED <<active, raced, cut, ops, faults>>
  PROVE  /\ TypeOK' /\ Frame(c, i) /\ Placed(i)' /\ packages' = packages /\ nested' = nested
         /\ tmp'[i] = IF tmp[i] = {} THEN None ELSE tmp[i]
         /\ client'[c] = [client[c] EXCEPT !.pc = next, !.at = "gone"]
<1> USE RepositoryAssumption DEF IInv
<1>1. packages' = packages /\ nested' = nested
  BY DEF DeleteTmp
<1>2. [client[c] EXCEPT !.pc = next, !.at = "gone"] \in Doings
  BY DEF TypeOK, Doings
<1>3. CASE tmp[i] = {}
  <2>1. tmp' = [tmp EXCEPT ![i] = None]
    BY <1>3 DEF DeleteTmp
  <2>2. client' = [Moved(i, "tmp", "gone") EXCEPT ![c].pc = next, ![c].at = "gone"]
    BY <1>3 DEF DeleteTmp
  <2>3. \A d \in Clients : Moved(i, "tmp", "gone")[d] \in Doings
    BY ZenonT(60) DEF TypeOK, Doings, Moved
  <2>4. client'[c] = [client[c] EXCEPT !.pc = next, !.at = "gone"]
    BY <2>2 DEF TypeOK, Doings, Moved
  <2>5. \A d \in Clients \ {c} : client'[d] = Moved(i, "tmp", "gone")[d]
    BY <2>2 DEF Moved
  <2>6. client' \in [Clients -> Doings]
    BY <1>2, <2>2, <2>3, <2>4, <2>5 DEF Moved
  <2>7. TypeOK'
    BY <1>1, <2>1, <2>6 DEF TypeOK, Directories
  <2>8. Frame(c, i)
    BY <1>1, <2>1, <2>5 DEF TypeOK, Doings, Frame, Moved
  <2>9. Placed(i)'
    <3> SUFFICES ASSUME NEW d \in Clients, client'[d].ids = {i}
                 PROVE  client'[d].at # "tmp" /\ (client'[d].at = "package" => packages[i] # None)
      BY <1>1 DEF PlaceInv, Placed
    <3>1. CASE d = c
      BY <2>4, <3>1 DEF TypeOK, Doings
    <3>2. CASE d # c
      <4>1. client'[d] = IF client[d].ids = {i} /\ client[d].at = "tmp"
                         THEN [client[d] EXCEPT !.at = "gone"] ELSE client[d]
        BY <2>5, <3>2 DEF Moved
      <4>2. client[d].ids = {i} /\ client'[d].at # "tmp"
        BY <4>1 DEF TypeOK, Doings
      <4> QED BY <4>1, <4>2 DEF PlaceInv, Placed
    <3> QED BY <3>1, <3>2
  <2> QED BY <1>1, <1>3, <2>1, <2>4, <2>7, <2>8, <2>9 DEF TypeOK
<1>4. CASE tmp[i] # {}
  <2>1. tmp' = tmp /\ client' = [client EXCEPT ![c] = [client[c] EXCEPT !.pc = next, !.at = "gone"]]
    BY <1>4 DEF DeleteTmp
  <2>2. TypeOK'
    BY <1>1, <1>2, <2>1 DEF TypeOK
  <2>3. Frame(c, i)
    BY <1>1, <2>1 DEF TypeOK, Frame
  <2>4. Placed(i)'
    BY <1>1, <2>1 DEF TypeOK, Doings, PlaceInv, Placed
  <2> QED BY <1>1, <1>4, <2>1, <2>2, <2>3, <2>4 DEF TypeOK
<1> QED BY <1>3, <1>4

LEMMA CleanStep ==
  ASSUME IInv, NEW c \in Clients, Clean(c)
  PROVE  IInv'
<1> USE RepositoryAssumption DEF Clean, At
<1>1. PICK i \in Ids : client[c].op = "add" /\ client[c].ids = {i} /\ Id(c) = i
  BY Adding DEF Steps
<1>2. CASE DeleteFile(c)
  <2>1. /\ TypeOK' /\ Frame(c, i) /\ Placed(i)' /\ client' = client /\ nested' = nested
        /\ client[c].at = "tmp" => packages' = packages /\ tmp'[i] # None
    BY <1>1, <1>2, DeleteFileOf
  <2>2. i \notin Damaged =>
          /\ AddAlone(c, i)' /\ packages' = packages
          /\ packages[i] # None => packages[i] = Files /\ i \notin nested
    BY <1>1, <1>2, <2>1, AddingAlone, DeleteFileOf DEF AddAlone
  <2>3. client'[c] # Idle /\ client'[c].pc \in Steps.add
    BY <1>1, <2>1 DEF Idle, Steps
  <2> QED BY <1>1, <2>1, <2>2, <2>3, AddStep
<1>3. CASE DeleteTmp(c, "mkdir")
  <2>1. /\ TypeOK' /\ Frame(c, i) /\ Placed(i)' /\ packages' = packages /\ nested' = nested
        /\ tmp'[i] = IF tmp[i] = {} THEN None ELSE tmp[i]
        /\ client'[c] = [client[c] EXCEPT !.pc = "mkdir", !.at = "gone"]
    BY <1>1, <1>3, DeleteTmpOf DEF Steps
  <2>2. client'[c].pc = "mkdir" /\ client'[c].op = "add" /\ client'[c].ids = {i}
    BY <1>1, <2>1 DEF IInv, TypeOK, Doings
  <2>3. ASSUME i \notin Damaged
        PROVE  AddAlone(c, i)'
    <3>1. AddAlone(c, i) /\ packages[i] = None
      BY <1>1, <2>3, AddingAlone DEF AddAlone
    <3>2. tmp[i] \in {None, {}}
      BY <1>1, <1>3, <3>1 DEF DeleteTmp, Opened, AddAlone, IInv, TypeOK, Directories
    <3> QED BY <2>1, <2>2, <3>1, <3>2 DEF AddAlone
  <2>4. i \notin Damaged => (packages[i] # None => packages[i] = Files /\ i \notin nested)
    BY <1>1, AddingAlone
  <2> QED BY <1>1, <2>1, <2>2, <2>3, <2>4, AddStep DEF Steps
<1> QED BY <1>2, <1>3

LEMMA UndoStep ==
  ASSUME IInv, NEW c \in Clients, Undo(c)
  PROVE  IInv'
<1> USE RepositoryAssumption DEF Undo, At
<1>1. PICK i \in Ids : client[c].op = "add" /\ client[c].ids = {i} /\ Id(c) = i
  BY Adding DEF Steps
<1>2. CASE DeleteFile(c)
  <2>1. /\ TypeOK' /\ Frame(c, i) /\ Placed(i)' /\ client' = client /\ nested' = nested
        /\ client[c].at = "tmp" => packages' = packages /\ tmp'[i] # None
    BY <1>1, <1>2, DeleteFileOf
  <2>2. i \notin Damaged =>
          /\ AddAlone(c, i)' /\ packages' = packages
          /\ packages[i] # None => packages[i] = Files /\ i \notin nested
    BY <1>1, <1>2, <2>1, AddingAlone, DeleteFileOf DEF AddAlone
  <2>3. client'[c] # Idle /\ client'[c].pc \in Steps.add
    BY <1>1, <2>1 DEF Idle, Steps
  <2> QED BY <1>1, <2>1, <2>2, <2>3, AddStep
<1>3. CASE DeleteTmp(c, "failed")
  <2>1. /\ TypeOK' /\ Frame(c, i) /\ Placed(i)' /\ packages' = packages /\ nested' = nested
        /\ tmp'[i] = IF tmp[i] = {} THEN None ELSE tmp[i]
        /\ client'[c] = [client[c] EXCEPT !.pc = "failed", !.at = "gone"]
    BY <1>1, <1>3, DeleteTmpOf DEF Steps
  <2>2. client'[c].pc = "failed" /\ client'[c].op = "add" /\ client'[c].ids = {i}
    BY <1>1, <2>1 DEF IInv, TypeOK, Doings
  <2>3. ASSUME i \notin Damaged
        PROVE  AddAlone(c, i)'
    <3>1. AddAlone(c, i) /\ packages[i] = None
      BY <1>1, <2>3, AddingAlone DEF AddAlone
    <3>2. tmp[i] \in {None, {}}
      BY <1>1, <1>3, <3>1 DEF DeleteTmp, Opened, AddAlone, IInv, TypeOK, Directories
    <3> QED BY <2>1, <2>2, <3>1, <3>2 DEF AddAlone
  <2>4. i \notin Damaged => (packages[i] # None => packages[i] = Files /\ i \notin nested)
    BY <1>1, AddingAlone
  <2> QED BY <1>1, <2>1, <2>2, <2>3, <2>4, AddStep DEF Steps
<1> QED BY <1>2, <1>3

LEMMA CleanFailsStep ==
  ASSUME IInv, NEW c \in Clients, CleanFails(c)
  PROVE  IInv'
<1> USE RepositoryAssumption DEF CleanFails, At, dirs, Goto
<1>1. PICK i \in Ids : client[c].op = "add" /\ client[c].ids = {i} /\ Id(c) = i
  BY Adding DEF Steps
<1>2. TypeOK'
  BY <1>1 DEF IInv, TypeOK, Doings, Directories, Steps
<1>3. Frame(c, i)
  BY <1>1 DEF IInv, TypeOK, Doings, Frame
<1>4. Placed(i)'
  BY <1>1 DEF IInv, TypeOK, Doings, PlaceInv, Placed
<1>5. \/ client'[c] = Idle
      \/ client'[c].op = "add" /\ client'[c].ids = {i} /\ client'[c].pc \in Steps.add
  BY <1>1 DEF IInv, TypeOK, Doings, Steps
<1>6. i \notin Damaged =>
         /\ client'[c] # Idle => AddAlone(c, i)'
         /\ packages[i] = Files => packages'[i] = Files
         /\ packages'[i] # None => packages'[i] = Files /\ i \notin nested'
  <2>1. PICK d \in Clients \ {c} : client[d].op = "add" /\ client[d].ids = {i}
    BY <1>1 DEF IInv, OpInv, OpOK, TypeOK, Doings, Steps, Idle
  <2>2. i \in Damaged
    BY <1>1, <2>1 DEF IInv, RaceInv, Clash, Damaged
  <2> QED BY <2>2
<1> QED
  BY <1>1, <1>2, <1>3, <1>4, <1>5, <1>6, AddStep

LEMMA DownloadFailsStep ==
  ASSUME IInv, NEW c \in Clients, DownloadFails(c)
  PROVE  IInv'
<1> USE RepositoryAssumption DEF DownloadFails, At, dirs, Goto, Fault
<1>1. PICK i \in Ids : client[c].op = "add" /\ client[c].ids = {i} /\ Id(c) = i
  BY Adding DEF Steps
<1>2. TypeOK'
  BY <1>1 DEF IInv, TypeOK, Doings, Directories, Steps
<1>3. Frame(c, i)
  BY <1>1 DEF IInv, TypeOK, Doings, Frame
<1>4. Placed(i)'
  BY <1>1 DEF IInv, TypeOK, Doings, PlaceInv, Placed
<1>5. \/ client'[c] = Idle
      \/ client'[c].op = "add" /\ client'[c].ids = {i} /\ client'[c].pc \in Steps.add
  BY <1>1 DEF IInv, TypeOK, Doings, Steps
<1>6. i \notin Damaged =>
         /\ client'[c] # Idle => AddAlone(c, i)'
         /\ packages[i] = Files => packages'[i] = Files
         /\ packages'[i] # None => packages'[i] = Files /\ i \notin nested'
  BY <1>1, AddingAlone DEF IInv, TypeOK, Doings, AddAlone
<1> QED
  BY <1>1, <1>2, <1>3, <1>4, <1>5, <1>6, AddStep

LEMMA AddReturnsStep ==
  ASSUME IInv, NEW c \in Clients, AddReturns(c)
  PROVE  IInv'
<1> USE RepositoryAssumption DEF AddReturns, At, dirs, Return
<1>1. PICK i \in Ids : client[c].op = "add" /\ client[c].ids = {i} /\ Id(c) = i
  BY Adding DEF Steps
<1>2. TypeOK'
  BY <1>1 DEF IInv, TypeOK, Doings, Directories, Steps, Idle
<1>3. Frame(c, i)
  BY <1>1 DEF IInv, TypeOK, Doings, Frame
<1>4. Placed(i)'
  BY <1>1 DEF IInv, TypeOK, Doings, PlaceInv, Placed, Idle
<1>5. \/ client'[c] = Idle
      \/ client'[c].op = "add" /\ client'[c].ids = {i} /\ client'[c].pc \in Steps.add
  BY <1>1 DEF IInv, TypeOK, Doings, Steps
<1>6. i \notin Damaged =>
         /\ client'[c] # Idle => AddAlone(c, i)'
         /\ packages[i] = Files => packages'[i] = Files
         /\ packages'[i] # None => packages'[i] = Files /\ i \notin nested'
  BY <1>1, AddingAlone DEF IInv, TypeOK, Doings, AddAlone
<1> QED
  BY <1>1, <1>2, <1>3, <1>4, <1>5, <1>6, AddStep


LEMMA ExtractStep ==
  ASSUME IInv, NEW c \in Clients, Extract(c)
  PROVE  IInv'
<1> USE RepositoryAssumption
<1>1. PICK i \in Ids : client[c].op = "add" /\ client[c].ids = {i} /\ Id(c) = i
  BY Adding DEF Steps, Extract, At
<1>2. PICK f \in client[c].todo :
          /\ client' = [client EXCEPT ![c].todo = @ \ {f}]
          /\ IF client[c].at = "tmp"
             THEN tmp' = [tmp EXCEPT ![i] = @ \cup {f}] /\ UNCHANGED packages
             ELSE packages' = [packages EXCEPT ![i] = @ \cup {f}] /\ UNCHANGED tmp
  BY <1>1 DEF Extract
<1>3. client[c].pc = "extract" /\ UNCHANGED <<nested, active, raced, cut, ops, faults>>
  BY DEF Extract, At
<1>4. /\ client'[c] = [client[c] EXCEPT !.todo = @ \ {f}] /\ client' \in [Clients -> Doings]
      /\ \A d \in Clients \ {c} : client'[d] = client[d]
  BY <1>2 DEF IInv, TypeOK, Doings
<1>5. client'[c].op = "add" /\ client'[c].ids = {i} /\ client'[c].pc \in Steps.add
  BY <1>1, <1>3, <1>4 DEF IInv, TypeOK, Doings, Steps
<1>6. \A d \in Clients : client'[d].at = client[d].at /\ client'[d].ids = client[d].ids
  BY <1>4 DEF IInv, TypeOK, Doings
<1>7. f \in Files /\ client[c].at \in {"tmp", "package"}
  BY <1>2 DEF IInv, TypeOK, Doings, Extract
<1>8. CASE client[c].at = "tmp"
  <2>1. tmp[i] \in SUBSET Files /\ tmp' = [tmp EXCEPT ![i] = tmp[i] \cup {f}] /\ packages' = packages
    BY <1>1, <1>2, <1>8 DEF IInv, PlaceInv, Placed, TypeOK, Directories
  <2>2. TypeOK'
    BY <1>3, <1>4, <1>7, <2>1 DEF IInv, TypeOK, Directories
  <2>3. Frame(c, i)
    BY <1>3, <1>4, <2>1 DEF IInv, TypeOK, Frame
  <2>4. tmp'[i] = tmp[i] \cup {f} /\ tmp'[i] # None
    BY <1>7, <2>1 DEF IInv, TypeOK
  <2>5. Placed(i)'
    BY <1>3, <1>6, <2>1, <2>4 DEF IInv, PlaceInv, Placed
  <2>6. ASSUME i \notin Damaged
        PROVE  /\ AddAlone(c, i)'
               /\ packages[i] # None => packages[i] = Files /\ i \notin nested
    <3>1. /\ AddAlone(c, i)
          /\ packages[i] # None => packages[i] = Files /\ i \notin nested
      BY <1>1, <2>6, AddingAlone
    <3>2. tmp[i] = Files \ client[c].todo /\ client'[c].todo = client[c].todo \ {f}
      BY <1>3, <1>4, <3>1 DEF AddAlone, IInv, TypeOK, Doings
    <3>3. tmp'[i] = Files \ client'[c].todo
      BY <1>2, <1>7, <2>4, <3>2
    <3>4. client'[c].pc = "extract"
      BY <1>3, <1>4 DEF IInv, TypeOK, Doings
    <3> QED BY <1>3, <1>6, <1>8, <2>1, <3>1, <3>3, <3>4 DEF AddAlone
  <2> QED BY <1>1, <1>3, <1>5, <2>1, <2>2, <2>3, <2>5, <2>6, AddStep
<1>9. CASE client[c].at = "package"
  <2>1. packages[i] \in SUBSET Files /\ packages' = [packages EXCEPT ![i] = packages[i] \cup {f}] /\ tmp' = tmp
    BY <1>1, <1>2, <1>9 DEF IInv, PlaceInv, Placed, TypeOK, Directories
  <2>2. TypeOK'
    BY <1>3, <1>4, <1>7, <2>1 DEF IInv, TypeOK, Directories
  <2>3. Frame(c, i)
    BY <1>3, <1>4, <2>1 DEF IInv, TypeOK, Frame
  <2>4. packages'[i] = packages[i] \cup {f} /\ packages'[i] # None
    BY <1>7, <2>1 DEF IInv, TypeOK
  <2>5. Placed(i)'
    BY <1>3, <1>6, <2>1, <2>4 DEF IInv, PlaceInv, Placed
  <2>6. i \in Damaged
    BY <1>1, <1>3, <1>9, AddingAlone DEF AddAlone
  <2> QED BY <1>1, <1>5, <2>2, <2>3, <2>5, <2>6, AddStep
<1> QED BY <1>7, <1>8, <1>9


LEMMA ExtractFailsStep ==
  ASSUME IInv, NEW c \in Clients, ExtractFails(c)
  PROVE  IInv'
<1> USE RepositoryAssumption DEF ExtractFails, At, dirs, TmpPlace, Fault
<1>1. PICK i \in Ids : client[c].op = "add" /\ client[c].ids = {i} /\ Id(c) = i
  BY Adding DEF Steps
<1>2. TypeOK'
  <2> DEFINE failed == [client[c] EXCEPT !.pc = "undo", !.at = TmpPlace(c), !.todo = {}]
  <2>1. failed \in Doings
    <3>1. client[c] \in Doings /\ "undo" \in Steps.add
      BY DEF IInv, TypeOK, Steps
    <3>2. TmpPlace(c) \in {"tmp", "gone"}
      OBVIOUS
    <3> HIDE DEF ExtractFails, At, dirs, TmpPlace, Fault
    <3> QED BY <1>1, <3>1, <3>2 DEF Doings
  <2>2. client' = [client EXCEPT ![c] = failed]
    OBVIOUS
  <2>3. UNCHANGED <<packages, tmp, nested, active, raced, cut, ops>> /\ faults' \in Nat
    BY DEF IInv, TypeOK
  <2> HIDE DEF failed, ExtractFails, At, dirs, TmpPlace, Fault
  <2> QED BY <2>1, <2>2, <2>3 DEF IInv, TypeOK
<1>3. Frame(c, i)
  BY <1>1 DEF IInv, TypeOK, Doings, Frame
<1>4. Placed(i)'
  BY <1>1 DEF IInv, TypeOK, Doings, PlaceInv, Placed
<1>5. \/ client'[c] = Idle
      \/ client'[c].op = "add" /\ client'[c].ids = {i} /\ client'[c].pc \in Steps.add
  BY <1>1 DEF IInv, TypeOK, Doings, Steps
<1>6. i \notin Damaged =>
         /\ client'[c] # Idle => AddAlone(c, i)'
         /\ packages[i] = Files => packages'[i] = Files
         /\ packages'[i] # None => packages'[i] = Files /\ i \notin nested'
  BY <1>1, AddingAlone DEF IInv, TypeOK, Doings, AddAlone
<1> QED
  BY <1>1, <1>2, <1>3, <1>4, <1>5, <1>6, AddStep

LEMMA MoveStep ==
  ASSUME IInv, NEW c \in Clients, Move(c)
  PROVE  IInv'
<1> USE RepositoryAssumption
<1>1. PICK i \in Ids : client[c].op = "add" /\ client[c].ids = {i} /\ Id(c) = i
  BY Adding DEF Steps, Move, At
<1>2. /\ client[c].pc = "extract" /\ client[c].todo = {}
      /\ UNCHANGED <<active, raced, cut, ops, faults>>
  BY DEF Move, At
<1>3. ASSUME i \notin Damaged
      PROVE  tmp[i] = Files /\ packages[i] = None
  BY ZenonT(60), <1>1, <1>2, <1>3, AddingAlone DEF AddAlone
<1>4. ASSUME NEW to \in {"package", "gone"},
             client' = [Moved(i, "tmp", to) EXCEPT ![c].pc = "added", ![c].at = "gone"]
      PROVE  /\ client' \in [Clients -> Doings]
             /\ client'[c] = [client[c] EXCEPT !.pc = "added", !.at = "gone"]
             /\ \A d \in Clients \ {c} :
                  /\ client[d].ids # {i} => client'[d] = client[d]
                  /\ client'[d].op = client[d].op /\ client'[d].pc = client[d].pc
                  /\ client'[d].ids = client[d].ids
                  /\ client[d].at = "gone" => client'[d].at = "gone"
                  /\ client[d].ids = {i} => client'[d].at # "tmp"
  <2> DEFINE old == Moved(i, "tmp", to)
  <2>1. \A d \in Clients : old[d] = IF client[d].ids = {i} /\ client[d].at = "tmp"
                                    THEN [client[d] EXCEPT !.at = to] ELSE client[d]
    BY DEF Moved
  <2>2. /\ old = [d \in Clients |-> old[d]]
        /\ client' = [old EXCEPT ![c].pc = "added", ![c].at = "gone"]
    BY <1>4 DEF Moved
  <2> HIDE DEF old
  <2>3. \A d \in Clients : old[d] \in Doings
    <3> TAKE d \in Clients
    <3>1. client[d] \in Doings /\ [client[d] EXCEPT !.at = to] \in Doings
      BY DEF IInv, TypeOK, Doings
    <3> QED BY <2>1, <3>1
  <2>4. [client[c] EXCEPT !.pc = "added", !.at = "gone"] \in Doings
    <3>1. client[c] \in Doings /\ "added" \in Steps.add
      BY DEF IInv, TypeOK, Steps
    <3> QED BY <3>1 DEF Doings
  <2>5. client'[c] = [client[c] EXCEPT !.pc = "added", !.at = "gone"]
    BY <2>1, <2>2 DEF IInv, TypeOK, Doings
  <2>6. \A d \in Clients \ {c} : client'[d] = old[d]
    BY <2>2
  <2>7. client' \in [Clients -> Doings]
    BY <2>2, <2>3, <2>4, <2>5, <2>6
  <2>8. ASSUME NEW d \in Clients \ {c}
        PROVE  /\ client[d].ids # {i} => client'[d] = client[d]
               /\ client'[d].op = client[d].op /\ client'[d].pc = client[d].pc
               /\ client'[d].ids = client[d].ids
               /\ client[d].at = "gone" => client'[d].at = "gone"
               /\ client[d].ids = {i} => client'[d].at # "tmp"
    <3>1. client'[d] = IF client[d].ids = {i} /\ client[d].at = "tmp"
                       THEN [client[d] EXCEPT !.at = to] ELSE client[d]
      BY <2>1, <2>6
    <3>2. client[d] \in Doings
      BY DEF IInv, TypeOK
    <3> QED BY <3>1, <3>2 DEF Doings
  <2> QED BY <2>5, <2>7, <2>8
<1> USE <1>1
<1>5. CASE /\ tmp[i] # None /\ packages[i] = None
           /\ packages' = [packages EXCEPT ![i] = tmp[i]]
           /\ tmp' = [tmp EXCEPT ![i] = None]
           /\ client' = [Moved(i, "tmp", "package") EXCEPT ![c].pc = "added", ![c].at = "gone"]
           /\ UNCHANGED nested
  <2>1. /\ client' \in [Clients -> Doings]
        /\ client'[c] = [client[c] EXCEPT !.pc = "added", !.at = "gone"]
        /\ \A d \in Clients \ {c} :
             /\ client[d].ids # {i} => client'[d] = client[d]
             /\ client'[d].op = client[d].op /\ client'[d].pc = client[d].pc
             /\ client'[d].ids = client[d].ids
             /\ client[d].at = "gone" => client'[d].at = "gone"
             /\ client[d].ids = {i} => client'[d].at # "tmp"
    BY <1>4, <1>5
  <2>2. TypeOK'
    BY <1>2, <1>5, <2>1 DEF IInv, TypeOK, Directories
  <2>3. packages'[i] = tmp[i] /\ packages'[i] # None /\ tmp'[i] = None
    BY <1>5 DEF IInv, TypeOK
  <2>4. Frame(c, i)
    BY <1>2, <1>5, <2>1 DEF IInv, TypeOK, Frame
  <2>5. Placed(i)'
    <3> SUFFICES ASSUME NEW d \in Clients, client'[d].ids = {i}
                 PROVE  client'[d].at # "tmp"
      BY <2>3 DEF PlaceInv, Placed
    <3>1. CASE d = c
      BY <2>1, <3>1 DEF IInv, TypeOK, Doings
    <3>2. CASE d # c
      BY <2>1, <3>2 DEF IInv, TypeOK, Doings
    <3> QED BY <3>1, <3>2
  <2>6. client'[c].op = "add" /\ client'[c].ids = {i} /\ client'[c].pc = "added"
    BY <2>1 DEF IInv, TypeOK, Doings
  <2>7. i \notin Damaged => packages'[i] = Files /\ i \notin nested'
    BY <1>3, <1>5, <2>3 DEF IInv, PlaceInv, Placed
  <2>8. i \notin Damaged => AddAlone(c, i)'
    BY <2>6, <2>7 DEF AddAlone
  <2> QED BY <2>2, <2>4, <2>5, <2>6, <2>7, <2>8, AddStep DEF Steps
<1>6. CASE /\ tmp[i] # None /\ packages[i] # None /\ i \notin nested
           /\ nested' = nested \cup {i}
           /\ tmp' = [tmp EXCEPT ![i] = None]
           /\ client' = [Moved(i, "tmp", "gone") EXCEPT ![c].pc = "added", ![c].at = "gone"]
           /\ UNCHANGED packages
  <2>1. /\ client' \in [Clients -> Doings]
        /\ client'[c] = [client[c] EXCEPT !.pc = "added", !.at = "gone"]
        /\ \A d \in Clients \ {c} :
             /\ client[d].ids # {i} => client'[d] = client[d]
             /\ client'[d].op = client[d].op /\ client'[d].pc = client[d].pc
             /\ client'[d].ids = client[d].ids
             /\ client[d].at = "gone" => client'[d].at = "gone"
             /\ client[d].ids = {i} => client'[d].at # "tmp"
    BY <1>4, <1>6
  <2>2. TypeOK'
    BY <1>2, <1>6, <2>1 DEF IInv, TypeOK, Directories
  <2>3. i \in Damaged
    BY <1>3, <1>6
  <2>4. Frame(c, i)
    BY <1>2, <1>6, <2>1 DEF IInv, TypeOK, Frame
  <2>5. Placed(i)'
    <3> SUFFICES ASSUME NEW d \in Clients, client'[d].ids = {i}
                 PROVE  client'[d].at # "tmp"
      BY <1>6 DEF PlaceInv, Placed
    <3>1. CASE d = c
      BY <2>1, <3>1 DEF IInv, TypeOK, Doings
    <3>2. CASE d # c
      BY <2>1, <3>2 DEF IInv, TypeOK, Doings
    <3> QED BY <3>1, <3>2
  <2>6. client'[c].op = "add" /\ client'[c].ids = {i} /\ client'[c].pc = "added"
    BY <2>1 DEF IInv, TypeOK, Doings
  <2> QED BY <2>2, <2>3, <2>4, <2>5, <2>6, AddStep DEF Steps
<1>7. CASE /\ client' = [client EXCEPT ![c].pc = "failed", ![c].at = "gone"]
           /\ tmp[i] = None \/ (packages[i] # None /\ i \in nested)
           /\ UNCHANGED dirs
  <2>1. [client[c] EXCEPT !.pc = "failed", !.at = "gone"] \in Doings
    BY ZenonT(60) DEF IInv, TypeOK, Doings, Steps
  <2>2. client' = [client EXCEPT ![c] = [client[c] EXCEPT !.pc = "failed", !.at = "gone"]]
    BY <1>7
  <2>3. TypeOK'
    BY <1>2, <1>7, <2>1, <2>2 DEF IInv, TypeOK, dirs
  <2>4. Frame(c, i)
    BY <1>2, <1>7, <2>2 DEF IInv, TypeOK, Frame, dirs
  <2>5. Placed(i)'
    BY <1>7, <2>2 DEF IInv, TypeOK, Doings, PlaceInv, Placed, dirs
  <2>6. client'[c].op = "add" /\ client'[c].ids = {i} /\ client'[c].pc = "failed"
    BY <2>2 DEF IInv, TypeOK, Doings
  <2>7. i \in Damaged
    BY <1>3, <1>7, RepositoryAssumption
  <2> QED BY <2>3, <2>4, <2>5, <2>6, <2>7, AddStep DEF Steps
<1> QED BY <1>2, <1>5, <1>6, <1>7 DEF Move

----------------------------------------------------------------------------
(* What a step of a removal has to show. *)
LEMMA RemoveStepOf ==
  ASSUME IInv, TypeOK',
         NEW c \in Clients, NEW i \in Ids, client[c].op = "remove", client[c].ids = {i},
         Frame(c, i), Placed(i)',
         \/ client'[c] = Idle
         \/ client'[c].op = "remove" /\ client'[c].ids = {i} /\ client'[c].pc \in Steps.remove,
         i \notin Damaged =>
            /\ client'[c].pc = "remove" => i \notin active /\ client'[c].at = "package"
            /\ i \in active => packages'[i] = Files
            /\ packages'[i] # None /\ client'[c].pc # "remove" =>
                  packages'[i] = Files /\ i \notin nested'
  PROVE  IInv'
<1> USE DEF IInv
<1>1. OpInv'
  BY DEF OpInv, OpOK, Frame, Idle, Steps
<1>2. PlaceInv'
  BY DEF PlaceInv, Placed, Frame, Idle
<1>3. RaceInv'
  BY DEF RaceInv, Frame, Idle, Clash
<1>4. Damaged' = Damaged
  BY DEF Damaged, Frame
<1>5. ASSUME NEW d \in Clients \ {c}, i \in client[d].ids, i \notin Damaged
      PROVE  FALSE
  BY <1>5 DEF RaceInv, Clash, Damaged
<1>6. AddInv'
  <2> SUFFICES ASSUME NEW d \in Clients, NEW j \in Ids, j \notin Damaged,
                      client'[d].op = "add", client'[d].ids = {j}
               PROVE  AddAlone(d, j)'
    BY <1>4 DEF AddInv
  <2>1. d # c
    BY DEF Idle
  <2> QED BY <2>1, <1>5 DEF Frame, AddInv, AddAlone
<1>7. RemoveInv'
  <2> SUFFICES ASSUME NEW d \in Clients, NEW j \in Ids, j \notin Damaged,
                      client'[d].pc = "remove", client'[d].ids = {j}
               PROVE  j \notin active' /\ client'[d].at = "package"
    BY <1>4 DEF RemoveInv
  <2>1. CASE d = c
    BY <2>1 DEF Frame, Idle
  <2>2. CASE d # c
    BY <2>2, <1>5 DEF Frame, RemoveInv
  <2> QED BY <2>1, <2>2
<1>8. LinkInv'
  <2> SUFFICES ASSUME NEW d \in Clients, client'[d].pc = "link", NEW j \in client'[d].ids \ Damaged
               PROVE  packages'[j] = Files
    BY <1>4 DEF LinkInv
  <2>1. d # c
    BY DEF Idle, Steps
  <2>2. client[d].pc = "link" /\ client[d].ids = client'[d].ids /\ j \in Ids \ {i}
    BY <2>1, <1>5 DEF Frame, TypeOK, Doings
  <2> QED BY <2>2 DEF Frame, LinkInv
<1>9. PresentIsComplete'
  <2> SUFFICES ASSUME NEW j \in Ids, j \notin Damaged, packages'[j] # None, ~ Removing(j)'
               PROVE  packages'[j] = Files /\ j \notin nested'
    BY <1>4 DEF PresentIsComplete
  <2>1. CASE j = i
    BY <2>1 DEF Removing, At, Idle
  <2>2. CASE j # i
    <3>1. ~ Removing(j)
      BY <2>2 DEF Removing, At, Frame
    <3> QED BY <2>2, <3>1 DEF PresentIsComplete, Frame
  <2> QED BY <2>1, <2>2
<1>10. ActiveIsPresent'
  BY <1>4 DEF ActiveIsPresent, Frame, TypeOK
<1> QED
  BY <1>1, <1>2, <1>3, <1>6, <1>7, <1>8, <1>9, <1>10

(* Nobody does anything else with a package that is removed and not        *)
(* damaged.                                                                *)
LEMMA Removal ==
  ASSUME IInv, NEW c \in Clients, client[c].pc \in Steps.remove
  PROVE  \E i \in Ids :
            /\ client[c].op = "remove" /\ client[c].ids = {i} /\ Id(c) = i
            /\ i \notin Damaged /\ client[c].pc # "remove" => ~ Removing(i)
  BY IdOf DEF IInv, OpInv, OpOK, TypeOK, Doings, Steps, Idle, Removing, At, RaceInv, Clash, Damaged

LEMMA CheckActiveStep ==
  ASSUME IInv, NEW c \in Clients, CheckActive(c)
  PROVE  IInv'
<1> USE DEF CheckActive, At, Return, dirs
<1>1. PICK i \in Ids : /\ client[c].op = "remove" /\ client[c].ids = {i} /\ Id(c) = i
                       /\ i \notin Damaged /\ client[c].pc # "remove" => ~ Removing(i)
  BY Removal DEF Steps
<1>2. TypeOK'
  BY <1>1 DEF IInv, TypeOK, Doings, Directories, Steps, Idle
<1>3. Frame(c, i)
  BY <1>1 DEF IInv, TypeOK, Doings, Frame
<1>4. Placed(i)'
  BY <1>1 DEF IInv, TypeOK, Doings, PlaceInv, Placed, Idle
<1>5. \/ client'[c] = Idle
      \/ /\ client'[c] = [client[c] EXCEPT !.pc = "remove", !.at = "package"]
         /\ i \notin active
  BY <1>1 DEF IInv, TypeOK, Doings
<1>6. i \notin Damaged =>
         /\ i \in active => packages'[i] = Files
         /\ packages'[i] # None /\ client'[c].pc # "remove" =>
               packages'[i] = Files /\ i \notin nested'
  BY <1>1 DEF IInv, PresentIsComplete, ActiveIsPresent
<1> QED
  BY <1>1, <1>2, <1>3, <1>4, <1>5, <1>6, RemoveStepOf DEF IInv, TypeOK, Doings, Steps, Idle

LEMMA RemoveStep ==
  ASSUME IInv, NEW c \in Clients, Remove(c)
  PROVE  IInv'
<1>1. PICK i \in Ids : client[c].op = "remove" /\ client[c].ids = {i} /\ Id(c) = i
  BY Removal DEF Steps, Remove, At
<1>2. client[c].pc = "remove" /\ DeleteFile(c) /\ UNCHANGED <<active, raced, cut, ops, faults>>
  BY DEF Remove, At
<1>3. TypeOK' /\ Frame(c, i) /\ Placed(i)' /\ client' = client
  BY <1>1, <1>2, DeleteFileOf
<1>4. i \notin Damaged => i \notin active /\ client[c].at = "package"
  BY <1>1, <1>2 DEF IInv, RemoveInv
<1> QED
  BY <1>1, <1>2, <1>3, <1>4, RemoveStepOf DEF Steps

LEMMA RemoveReturnsStep ==
  ASSUME IInv, NEW c \in Clients, RemoveReturns(c)
  PROVE  IInv'
<1> USE RepositoryAssumption
<1>1. PICK i \in Ids : client[c].op = "remove" /\ client[c].ids = {i} /\ Id(c) = i
  BY Removal DEF Steps, RemoveReturns, At
<1>2. client[c].pc = "remove" /\ Opened(c) = {} /\ UNCHANGED <<tmp, active, raced, cut, ops, faults>>
  BY DEF RemoveReturns, At
<1>3. ASSUME i \notin Damaged
      PROVE  i \notin active /\ packages[i] = {}
  <2>1. i \notin active /\ client[c].at = "package"
    BY <1>1, <1>2, <1>3 DEF IInv, RemoveInv
  <2>2. packages[i] \in SUBSET Files
    BY <1>1, <2>1 DEF IInv, PlaceInv, Placed, TypeOK, Directories
  <2> QED BY <1>1, <1>2, <2>1, <2>2 DEF Opened
<1>4. Idle \in Doings
  BY DEF Idle, Doings, Steps
<1>5. CASE packages[i] = {}
  <2> DEFINE old == Moved(i, "package", "gone")
  <2>1. /\ packages' = [packages EXCEPT ![i] = None]
        /\ nested' = nested \ {i}
        /\ client' = [old EXCEPT ![c] = Idle]
    BY <1>1, <1>5 DEF RemoveReturns
  <2>2. \A d \in Clients : old[d] = IF client[d].ids = {i} /\ client[d].at = "package"
                                    THEN [client[d] EXCEPT !.at = "gone"] ELSE client[d]
    BY DEF Moved
  <2>3. old = [d \in Clients |-> old[d]]
    BY DEF Moved
  <2> HIDE DEF old
  <2>4. \A d \in Clients : old[d] \in Doings
    <3> TAKE d \in Clients
    <3>1. client[d] \in Doings /\ [client[d] EXCEPT !.at = "gone"] \in Doings
      BY DEF IInv, TypeOK, Doings
    <3> QED BY <2>2, <3>1
  <2>5. client'[c] = Idle /\ \A d \in Clients \ {c} : client'[d] = old[d]
    BY <2>1, <2>3
  <2>6. client' \in [Clients -> Doings]
    BY <1>4, <2>1, <2>3, <2>4, <2>5
  <2>7. TypeOK'
    BY <1>2, <2>1, <2>6 DEF IInv, TypeOK, Directories
  <2>8. packages'[i] = None /\ i \notin nested'
    BY <2>1 DEF IInv, TypeOK
  <2>9. ASSUME NEW d \in Clients \ {c}
        PROVE  /\ client[d].ids # {i} => client'[d] = client[d]
               /\ client'[d].op = client[d].op /\ client'[d].pc = client[d].pc
               /\ client'[d].ids = client[d].ids
               /\ client[d].at = "gone" => client'[d].at = "gone"
               /\ client[d].ids = {i} => client'[d].at # "package"
               /\ client'[d].at = "tmp" => client[d].at = "tmp"
    <3>1. client'[d] = IF client[d].ids = {i} /\ client[d].at = "package"
                       THEN [client[d] EXCEPT !.at = "gone"] ELSE client[d]
      BY <2>2, <2>5
    <3>2. client[d] \in Doings
      BY DEF IInv, TypeOK
    <3> QED BY <3>1, <3>2 DEF Doings
  <2>10. Frame(c, i)
    BY <1>2, <2>1, <2>9 DEF IInv, TypeOK, Frame
  <2>11. Placed(i)'
    <3> SUFFICES ASSUME NEW d \in Clients, client'[d].ids = {i}
                 PROVE  client'[d].at # "package" /\ (client'[d].at = "tmp" => tmp[i] # None)
      BY <1>2, <2>8 DEF Placed
    <3>1. d # c
      BY <2>5 DEF Idle
    <3> QED BY <2>9, <3>1 DEF IInv, PlaceInv, Placed
  <2>12. i \notin Damaged => i \notin active
    BY <1>3
  <2> QED BY <1>1, <2>5, <2>7, <2>8, <2>10, <2>11, <2>12, RemoveStepOf DEF Idle
<1>6. CASE packages[i] # {}
  <2>1. /\ client' = [client EXCEPT ![c] = Idle]
        /\ packages' = packages /\ nested' = nested
    BY <1>1, <1>6 DEF RemoveReturns, Return
  <2>2. TypeOK'
    BY <1>2, <1>4, <2>1 DEF IInv, TypeOK
  <2>3. Frame(c, i)
    BY <1>2, <2>1 DEF IInv, TypeOK, Frame
  <2>4. Placed(i)'
    BY <1>2, <2>1 DEF IInv, TypeOK, PlaceInv, Placed, Idle
  <2>5. client'[c] = Idle
    BY <2>1 DEF IInv, TypeOK
  <2>6. i \in Damaged
    BY <1>3, <1>6
  <2> QED BY <1>1, <2>2, <2>3, <2>4, <2>5, <2>6, RemoveStepOf
<1> QED BY <1>5, <1>6
----------------------------------------------------------------------------
(* An operation is begun: whatever clashes with it is noticed. *)
LEMMA BeginStep ==
  ASSUME IInv, NEW c \in Clients, NEW op \in {"add", "remove", "activate"},
         NEW pc \in {"check", "checkActive", "load"}, NEW ids \in SUBSET Ids, Begin(c, op, pc, ids),
         \/ op = "add" /\ pc = "check" /\ \E i \in Ids : ids = {i}
         \/ op = "remove" /\ pc = "checkActive" /\ \E i \in Ids : ids = {i}
         \/ op = "activate" /\ pc = "load"
  PROVE  IInv'
<1> USE RepositoryAssumption DEF IInv
<1> DEFINE doing == [Idle EXCEPT !.op = op, !.pc = pc, !.ids = ids]
<1>1. /\ doing.op = op /\ doing.pc = pc /\ doing.ids = ids /\ doing.at = "gone" /\ doing \in Doings
  BY DEF Idle, Doings, Steps
<1> HIDE DEF doing
<1>2. client' = [client EXCEPT ![c] = doing]
  BY DEF Begin, doing
<1>3. client'[c] = doing /\ \A d \in Clients \ {c} : client'[d] = client[d]
  BY <1>2 DEF TypeOK
<1>4. /\ UNCHANGED <<packages, tmp, nested, active, cut, faults>> /\ ops' = ops + 1
      /\ raced' = raced \cup (ids \cap UNION {client[d].ids : d \in {d \in Clients : Clash(op, client[d].op)}})
  BY DEF Begin, dirs
<1>5. Damaged \subseteq Damaged'
  BY <1>4 DEF Damaged
<1>6. TypeOK'
  BY <1>1, <1>2, <1>4 DEF TypeOK
<1>7. OpInv'
  <2> SUFFICES ASSUME NEW d \in Clients
               PROVE  OpOK(d)'
    BY DEF OpInv
  <2>1. CASE d = c
    BY <1>1, <1>3, <2>1 DEF OpOK, Steps
  <2>2. CASE d # c
    BY <1>3, <2>2 DEF OpInv, OpOK
  <2> QED BY <2>1, <2>2
<1>8. PlaceInv'
  <2> SUFFICES ASSUME NEW i \in Ids, NEW d \in Clients, client'[d].ids = {i}
               PROVE  /\ client'[d].at = "tmp" => tmp[i] # None
                      /\ client'[d].at = "package" => packages[i] # None
    BY <1>4 DEF PlaceInv, Placed
  <2>1. CASE d = c
    BY <1>1, <1>3, <2>1
  <2>2. CASE d # c
    BY <1>3, <2>2 DEF PlaceInv, Placed
  <2> QED BY <2>1, <2>2
<1>9. RaceInv'
  <2> SUFFICES ASSUME NEW d \in Clients, NEW e \in Clients, d # e, Clash(client'[d].op, client'[e].op)
               PROVE  client'[d].ids \cap client'[e].ids \subseteq raced'
    BY DEF RaceInv
  <2>1. ASSUME NEW f \in Clients \ {c}, Clash(op, client[f].op)
        PROVE  ids \cap client[f].ids \subseteq raced'
    BY <1>4, <2>1
  <2>2. CASE d = c
    BY <1>1, <1>3, <2>1, <2>2
  <2>3. CASE e = c
    <3>1. Clash(op, client[d].op)
      BY <1>1, <1>3, <2>3 DEF Clash
    <3> QED BY <1>1, <1>3, <2>1, <2>3, <3>1
  <2>4. CASE d # c /\ e # c
    BY <1>3, <1>4, <2>4 DEF RaceInv
  <2> QED BY <2>2, <2>3, <2>4
<1>10. AddInv'
  <2> SUFFICES ASSUME NEW d \in Clients, NEW i \in Ids, i \notin Damaged,
                      client'[d].op = "add", client'[d].ids = {i}
               PROVE  AddAlone(d, i)'
    BY <1>5 DEF AddInv
  <2>1. CASE d = c
    BY <1>1, <1>3, <2>1 DEF AddAlone
  <2>2. CASE d # c
    BY <1>3, <1>4, <2>2 DEF AddInv, AddAlone
  <2> QED BY <2>1, <2>2
<1>11. RemoveInv'
  <2> SUFFICES ASSUME NEW d \in Clients, NEW i \in Ids, i \notin Damaged,
                      client'[d].pc = "remove", client'[d].ids = {i}
               PROVE  i \notin active /\ client'[d].at = "package"
    BY <1>4, <1>5 DEF RemoveInv
  <2>1. d # c
    BY <1>1, <1>3
  <2> QED BY <1>3, <2>1 DEF RemoveInv
<1>12. LinkInv'
  BY <1>1, <1>3, <1>4, <1>5 DEF LinkInv
<1>13. PresentIsComplete'
  <2>1. \A i \in Ids : Removing(i) => Removing(i)'
    BY <1>3 DEF Removing, At, Begin
  <2> QED BY <1>4, <1>5, <2>1 DEF PresentIsComplete
<1>14. ActiveIsPresent'
  BY <1>4, <1>5 DEF ActiveIsPresent
<1> QED
  BY <1>6, <1>7, <1>8, <1>9, <1>10, <1>11, <1>12, <1>13, <1>14

LEMMA LoadStep ==
  ASSUME IInv, NEW c \in Clients, Load(c)
  PROVE  IInv'
<1> USE RepositoryAssumption DEF IInv
<1>1. client[c].op = "activate" /\ client[c].pc = "load" /\ client[c].at = "gone"
  BY DEF Load, At, OpInv, OpOK, TypeOK, Doings, Steps, Idle
<1>2. UNCHANGED <<packages, tmp, nested, active, raced, cut, ops, faults>>
  BY DEF Load, dirs
<1>3. /\ client' = [client EXCEPT ![c].pc = "link"]
      /\ \A i \in client[c].ids : packages[i] # None /\ PkgInfo \in packages[i]
      \/ client' = [client EXCEPT ![c] = Idle]
  BY DEF Load, Goto, Return
<1>4. /\ \A d \in Clients \ {c} : client'[d] = client[d]
      /\ \/ client'[c] = Idle
         \/ /\ client'[c] = [client[c] EXCEPT !.pc = "link"]
            /\ \A i \in client[c].ids : packages[i] # None
  BY <1>3 DEF TypeOK
<1>5. [client[c] EXCEPT !.pc = "link"] \in Doings /\ Idle \in Doings
  BY DEF TypeOK, Doings, Steps, Idle
<1>6. /\ client'[c].at = "gone" /\ client'[c].op \in {"none", "activate"}
      /\ client'[c].pc \in {"idle", "link"} /\ client'[c].ids \in {{}, client[c].ids}
  BY <1>1, <1>4 DEF TypeOK, Doings, Idle
<1>7. TypeOK'
  BY <1>2, <1>3, <1>5 DEF TypeOK
<1>8. OpInv'
  <2> SUFFICES ASSUME NEW d \in Clients
               PROVE  OpOK(d)'
    BY DEF OpInv
  <2>1. CASE d = c
    BY <1>1, <1>4, <2>1 DEF TypeOK, Doings, OpOK, Steps, Idle
  <2>2. CASE d # c
    BY <1>4, <2>2 DEF OpInv, OpOK
  <2> QED BY <2>1, <2>2
<1>9. PlaceInv'
  BY <1>2, <1>4, <1>6 DEF PlaceInv, Placed
<1>10. RaceInv'
  BY <1>1, <1>2, <1>4, <1>6 DEF RaceInv, Clash
<1>11. AddInv'
  BY <1>2, <1>4, <1>6 DEF AddInv, AddAlone, Damaged
<1>12. RemoveInv'
  BY <1>2, <1>4, <1>6 DEF RemoveInv, Damaged
<1>13. \A i \in Ids : Removing(i)' <=> Removing(i)
  BY <1>1, <1>4, <1>6 DEF Removing, At
<1>14. LinkInv'
  <2> SUFFICES ASSUME NEW d \in Clients, client'[d].pc = "link", NEW i \in client'[d].ids \ Damaged
               PROVE  packages[i] = Files
    BY <1>2 DEF LinkInv, Damaged
  <2>1. CASE d # c
    BY <1>4, <2>1 DEF LinkInv
  <2>2. CASE d = c
    <3>1. i \in client[c].ids /\ i \in Ids /\ packages[i] # None
      BY <1>4, <1>6, <2>2 DEF Idle, TypeOK, Doings
    <3>2. ~ Removing(i)
      BY <1>1, <3>1 DEF Removing, At, OpInv, OpOK, TypeOK, Doings, Steps, Idle, RaceInv, Clash, Damaged
    <3> QED BY <3>1, <3>2 DEF PresentIsComplete
  <2> QED BY <2>1, <2>2
<1>15. PresentIsComplete' /\ ActiveIsPresent'
  BY <1>2, <1>13 DEF PresentIsComplete, ActiveIsPresent, Damaged
<1> QED
  BY <1>7, <1>8, <1>9, <1>10, <1>11, <1>12, <1>14, <1>15

(* An operation ends, or is killed, and leaves the directories as they     *)
(* are; the packages are those that a link has been made to.               *)
LEMMA LeaveStep ==
  ASSUME IInv, NEW c \in Clients, Return(c), UNCHANGED <<dirs, raced, ops>>, faults' \in Nat,
         active' = active \/ (client[c].pc = "link" /\ active' = client[c].ids),
         cut' = cut \cup (IF client[c].pc = "remove" THEN client[c].ids ELSE {})
  PROVE  IInv'
<1> USE RepositoryAssumption DEF IInv
<1>1. /\ client'[c] = Idle /\ \A d \in Clients \ {c} : client'[d] = client[d]
      /\ UNCHANGED <<packages, tmp, nested, raced, ops>>
  BY DEF Return, TypeOK, dirs
<1>2. Idle.op = "none" /\ Idle.pc = "idle" /\ Idle.ids = {} /\ Idle.at = "gone" /\ Idle \in Doings
  BY DEF Idle, Doings, Steps
<1>3. Damaged \subseteq Damaged'
  BY <1>1 DEF Damaged
<1>4. TypeOK'
  BY <1>1, <1>2 DEF Return, TypeOK, Doings
<1>5. OpInv'
  BY <1>1, <1>2 DEF OpInv, OpOK
<1>6. PlaceInv'
  BY <1>1, <1>2 DEF PlaceInv, Placed
<1>7. RaceInv'
  BY <1>1, <1>2 DEF RaceInv, Clash
<1>8. AddInv'
  BY <1>1, <1>2, <1>3 DEF AddInv, AddAlone
<1>9. RemoveInv'
  <2> SUFFICES ASSUME NEW d \in Clients, NEW i \in Ids, i \notin Damaged,
                      client'[d].pc = "remove", client'[d].ids = {i}
               PROVE  i \notin active' /\ client'[d].at = "package"
    BY <1>3 DEF RemoveInv
  <2>1. d # c /\ client[d].pc = "remove" /\ client[d].ids = {i}
    BY <1>1, <1>2
  <2>2. i \notin active /\ client[d].at = "package"
    BY <2>1 DEF RemoveInv
  <2>3. client[d].op = "remove"
    BY <2>1 DEF OpInv, OpOK, TypeOK, Doings, Steps, Idle
  <2>4. i \notin client[c].ids
    BY <2>1, <2>3 DEF RaceInv, Clash, Damaged
  <2> QED BY <1>1, <2>1, <2>2, <2>4
<1>10. LinkInv'
  BY <1>1, <1>2, <1>3 DEF LinkInv
<1>11. PresentIsComplete'
  <2>1. \A i \in Ids \ Damaged' : Removing(i) => Removing(i)'
    BY <1>1, <1>3 DEF Removing, At, Damaged
  <2> QED BY <1>1, <1>3, <2>1 DEF PresentIsComplete
<1>12. ActiveIsPresent'
  BY <1>1, <1>3 DEF ActiveIsPresent, LinkInv
<1> QED
  BY <1>4, <1>5, <1>6, <1>7, <1>8, <1>9, <1>10, <1>11, <1>12
----------------------------------------------------------------------------
LEMMA NextInv == IInv /\ [Next]_vars => IInv'
<1> SUFFICES ASSUME IInv, [Next]_vars
             PROVE  IInv'
  OBVIOUS
<1>1. CASE UNCHANGED vars
  <2> USE <1>1 DEF vars, dirs, IInv
  <2>1. TypeOK' /\ OpInv' /\ PlaceInv'
    BY DEF TypeOK, OpInv, OpOK, PlaceInv, Placed
  <2>2. RaceInv' /\ AddInv'
    BY DEF RaceInv, AddInv, AddAlone, Damaged
  <2>3. RemoveInv' /\ LinkInv'
    BY DEF RemoveInv, LinkInv, Damaged
  <2>4. PresentIsComplete' /\ ActiveIsPresent'
    BY DEF PresentIsComplete, ActiveIsPresent, Damaged, Removing, At
  <2> QED BY <2>1, <2>2, <2>3, <2>4
<1>2. ASSUME NEW c \in Clients, Add(c)
      PROVE  IInv'
  <2>1. CASE AddBegin(c)
    BY <2>1, BeginStep DEF AddBegin
  <2> QED
    BY <1>2, <2>1, AddCheckStep, CleanStep, CleanFailsStep, MakeDirStep, DownloadFailsStep,
       ExtractStep, ExtractFailsStep, UndoStep, MoveStep, AddReturnsStep DEF Add
<1>3. ASSUME NEW c \in Clients, RemoveBegin(c)
      PROVE  IInv'
  BY <1>3, BeginStep DEF RemoveBegin
<1>4. ASSUME NEW c \in Clients, ActivateBegin(c)
      PROVE  IInv'
  BY <1>4, BeginStep DEF ActivateBegin
<1>5. ASSUME NEW c \in Clients, Link(c)
      PROVE  IInv'
  <2>1. client[c].pc # "remove" /\ faults \in Nat
    BY <1>5 DEF Link, At, IInv, TypeOK
  <2> QED BY <1>5, <2>1, LeaveStep DEF Link, At
<1>6. ASSUME NEW c \in Clients, Kill(c)
      PROVE  IInv'
  <2>1. faults' \in Nat
    BY <1>6 DEF Kill, Fault, IInv, TypeOK
  <2> QED BY <1>6, <2>1, LeaveStep DEF Kill, At
<1>7. ASSUME NEW c \in Clients, CheckActive(c) \/ Remove(c) \/ RemoveReturns(c) \/ Load(c)
      PROVE  IInv'
  BY <1>7, CheckActiveStep, RemoveStep, RemoveReturnsStep, LoadStep
<1> QED
  BY <1>1, <1>2, <1>3, <1>4, <1>5, <1>6, <1>7 DEF Next

(* Whatever fails or is killed, a package that is there and was not worked *)
(* on by two clashing operations has all its files and no directory moved  *)
(* into it, except while it is removed (Repository.add).                   *)
THEOREM PresentPackagesAreComplete == Spec => []PresentIsComplete
<1>1. Spec => []IInv
  BY InitInv, NextInv, PTL DEF Spec
<1>2. IInv => PresentIsComplete
  BY DEF IInv
<1> QED
  BY <1>1, <1>2, PTL

(* Packages that the active directory links to are there with all their    *)
(* files, whatever is added, removed or activated meanwhile                *)
(* (activate_packages, remove_package).                                    *)
THEOREM ActivePackagesArePresent == Spec => []ActiveIsPresent
<1>1. Spec => []IInv
  BY InitInv, NextInv, PTL DEF Spec
<1>2. IInv => ActiveIsPresent
  BY DEF IInv
<1> QED
  BY <1>1, <1>2, PTL

(* The answer of an add is true: the package is there with all its files,  *)
(* or neither it nor a directory {id}_tmp is (Repository.add).             *)
THEOREM AnAddIsAllOrNothing == Spec => []AddIsAllOrNothing
<1>1. Spec => []IInv
  BY InitInv, NextInv, PTL DEF Spec
<1>2. IInv => AddIsAllOrNothing
  BY IdOf DEF IInv, OpInv, OpOK, AddInv, AddAlone, AddIsAllOrNothing, At
<1> QED
  BY <1>1, <1>2, PTL

-----------------------------------------------------------------------------
(* ReleaseStorage.  A commit is built once; what a build consists of is a  *)
(* sequence, and the preferred provider is one of them.                    *)
ReleaseAssumption ==
    /\ \A a, b \in Builds : a.commit = b.commit => a = b
    /\ \A build \in Builds : build.packages \in Seq(Release!ToSet(build.packages))
    /\ Providers \in Seq(Release!ToSet(Providers)) /\ Preferred \in Release!ToSet(Providers)

Metas == [build : Builds, repository : {Release!Testing, Release!Stable},
          channel : Channels \cup {Release!NoChannel}]

(* What users see of release m leads to something, in every provider of s. *)
Served(s, m) ==
    \A p \in Release!ToSet(Providers) : \A need \in Release!Needs(m) : need \in DOMAIN s[p]

(* The release that the path of one of its artifacts is for. *)
Is(m, path) == m.repository = path[1] /\ m.channel = path[2] /\ m.build.commit = path[3]

(* What is at a path is of the release the path is for, or served already. *)
Fits(s, provider, path, value) ==
    /\ provider \notin InPlace => value.whole
    /\ Len(path) \in {3, 4} => value.content[2] \in Metas
    /\ Len(path) = 4 => Is(value.content[2], path) \/ Served(s, value.content[2])
    /\ Len(path) = 3 => Served(s, value.content[2])

StorageInv ==
    /\ DOMAIN storage = Release!ToSet(Providers)
    /\ \A p \in Release!ToSet(Providers) : \A path \in DOMAIN storage[p] :
         Fits(storage, p, path, storage[p][path])

(* The commands of a release: the artifacts, uploaded or copied from one    *)
(* that is served, with all that it needs; then what is copied from them.   *)
CommandsOf(release, m) ==
    LET stage1 == release.commands.stage1
        stage2 == release.commands.stage2
    IN  /\ \E n \in Nat : DOMAIN stage1 = 1 .. n
        /\ \A k \in DOMAIN stage1 : \E artifact, from :
             stage1[k] = Release!Stage1Command(artifact, m, from)
             /\ (artifact.copy => from \in Metas /\ Served(storage, from))
        /\ \A need \in Release!Needs(m) : \E k \in DOMAIN stage1 : stage1[k].destination = need
        /\ \A k \in DOMAIN stage2 : \E artifact : stage2[k] = Release!Stage2Command(artifact, m)

(* What a release has stored so far: it has been at command k of stage 1,   *)
(* for provider i.                                                         *)
Behind(release, i, k) ==
    \/ release.stage = 2
    \/ i < release.provider
    \/ i = release.provider /\ k < release.command

Stored(release) ==
    \A i \in DOMAIN Providers, k \in DOMAIN release.commands.stage1 :
        Behind(release, i, k) => Release!exists(Providers[i], release.commands.stage1[k].destination)

Going(release) ==
    /\ release \in [commands : {release.commands}, stage : {1, 2}, provider : DOMAIN Providers,
                    command : Nat]
    /\ Stored(release)
    /\ \E m \in Metas : CommandsOf(release, m)

QueueInv ==
    /\ queue = [w \in Workers |-> queue[w]]
    /\ \A w \in Workers : queue[w] # Release!Nil => Going(queue[w])

ReleaseInv == StorageInv /\ QueueInv

(* Nothing that was stored goes away. *)
Grows == \A p \in Release!ToSet(Providers) : DOMAIN storage[p] \subseteq DOMAIN storage'[p]

LEMMA ServedStays ==
  ASSUME Grows, NEW m, Served(storage, m)
  PROVE  Served(storage', m)
  BY DEF Served, Grows

LEMMA GoingStays ==
  ASSUME Grows, NEW r, Going(r)
  PROVE  Going(r)'
<1>1. Stored(r)'
  BY DEF Going, Stored, Behind, Grows, Release!exists, Release!ToSet
<1>2. PICK m \in Metas : CommandsOf(r, m)
  BY DEF Going
<1>3. \A k \in DOMAIN r.commands.stage1 : \E artifact, from :
        /\ r.commands.stage1[k] = Release!Stage1Command(artifact, m, from)
        /\ (artifact.copy => from \in Metas /\ Served(storage', from))
  BY <1>2, ServedStays DEF CommandsOf
<1>4. CommandsOf(r, m)'
  BY <1>2, <1>3 DEF CommandsOf, Release!Needs, Release!Stage2Command
<1> QED
  BY <1>1, <1>4 DEF Going

(* A command that has been carried out, or skipped, is behind the release. *)
LEMMA NextGoing ==
  ASSUME NEW r, Going(r), Release!AtCommand(r), ReleaseAssumption, Grows,
         r.stage = 1 => r.commands.stage1[r.command].destination \in DOMAIN storage'[Providers[r.provider]],
         NEW next, next = Release!NextCommand(r), next # Release!Nil
  PROVE  Going(next)'
<1>0. Going(r)'
  BY GoingStays
<1>1. /\ r \in [commands : {r.commands}, stage : {1, 2}, provider : DOMAIN Providers, command : Nat]
      /\ r.command \in DOMAIN Release!Commands(r)
      /\ Stored(r)'
  BY <1>0 DEF Going, Release!AtCommand
<1>2. PICK m \in Metas : CommandsOf(r, m)'
  BY <1>0 DEF Going
<1>3. PICK n \in Nat : DOMAIN r.commands.stage1 = 1 .. n
  BY <1>2 DEF CommandsOf
<1>4. DOMAIN Providers = 1 .. Len(Providers) /\ Len(Providers) \in Nat
  BY LenProperties DEF ReleaseAssumption
<1>5. ASSUME NEW s, s.commands = r.commands, next = s,
             s \in [commands : {r.commands}, stage : {1, 2}, provider : DOMAIN Providers, command : Nat],
             \A i \in DOMAIN Providers, k \in DOMAIN r.commands.stage1 :
                Behind(s, i, k) => \/ Behind(r, i, k)
                                   \/ i = r.provider /\ k = r.command /\ r.stage = 1
      PROVE  Going(next)'
  <2>1. Stored(s)'
    BY <1>1, <1>5 DEF Stored, Release!exists
  <2>2. CommandsOf(s, m)'
    BY <1>2, <1>5 DEF CommandsOf
  <2> QED
    BY <1>5, <2>1, <2>2 DEF Going
<1>6. CASE r.command + 1 \in DOMAIN Release!Commands(r)
  <2> DEFINE s == [r EXCEPT !.command = @ + 1]
  <2>1. next = s
    BY <1>6 DEF Release!NextCommand
  <2>2. /\ s \in [commands : {r.commands}, stage : {1, 2}, provider : DOMAIN Providers, command : Nat]
        /\ s.commands = r.commands /\ s.stage = r.stage /\ s.provider = r.provider
        /\ s.command = r.command + 1
    BY <1>1
  <2> HIDE DEF s
  <2> QED
    BY <1>1, <1>3, <1>5, <2>1, <2>2 DEF Behind
<1>7. CASE r.command + 1 \notin DOMAIN Release!Commands(r) /\ r.provider + 1 \in DOMAIN Providers
  <2> DEFINE s == [r EXCEPT !.provider = @ + 1, !.command = 1]
  <2>1. next = s
    BY <1>7 DEF Release!NextCommand, Release!NextStage
  <2>2. /\ s \in [commands : {r.commands}, stage : {1, 2}, provider : DOMAIN Providers, command : Nat]
        /\ s.commands = r.commands /\ s.stage = r.stage /\ s.provider = r.provider + 1
        /\ s.command = 1
    BY <1>1, <1>7
  <2> HIDE DEF s
  <2>3. r.stage = 1 => \A k \in DOMAIN r.commands.stage1 : k <= r.command
    BY <1>1, <1>3, <1>7 DEF Release!Commands
  <2> QED
    BY <1>1, <1>3, <1>4, <1>5, <2>1, <2>2, <2>3 DEF Behind
<1>8. CASE r.command + 1 \notin DOMAIN Release!Commands(r) /\ r.provider + 1 \notin DOMAIN Providers
  <2> DEFINE s == [r EXCEPT !.stage = 2, !.provider = 1, !.command = 1]
  <2>1. next = s /\ r.stage = 1
    BY <1>1, <1>8 DEF Release!NextCommand, Release!NextStage
  <2>5. 1 \in DOMAIN Providers
    BY <1>1, <1>4
  <2>2. /\ s \in [commands : {r.commands}, stage : {1, 2}, provider : DOMAIN Providers, command : Nat]
        /\ s.commands = r.commands /\ s.stage = 2
    BY <1>1, <2>5
  <2> HIDE DEF s
  <2>3. \A k \in DOMAIN r.commands.stage1 : k <= r.command
    BY <1>1, <1>3, <1>8, <2>1 DEF Release!Commands
  <2>4. \A i \in DOMAIN Providers : i <= r.provider
    BY <1>1, <1>4, <1>8
  <2> QED
    BY <1>1, <1>3, <1>4, <1>5, <2>1, <2>2, <2>3, <2>4 DEF Behind
<1> QED
  BY <1>6, <1>7, <1>8

LEMMA StoreGrows ==
  ASSUME StorageInv, NEW p \in Release!ToSet(Providers), NEW path, NEW value, Release!Store(p, path, value)
  PROVE  /\ Grows /\ path \in DOMAIN storage'[p]
         /\ Fits(storage, p, path, value) => StorageInv'
<1>1. /\ DOMAIN storage = Release!ToSet(Providers)
      /\ storage' = [storage EXCEPT ![p] =
                       [q \in DOMAIN storage[p] \cup {path} |->
                          IF q = path THEN value ELSE storage[p][q]]]
  BY DEF StorageInv, Release!Store
<1>2. /\ DOMAIN storage' = Release!ToSet(Providers)
      /\ \A o \in Release!ToSet(Providers) : o # p => storage'[o] = storage[o]
      /\ storage'[p] = [q \in DOMAIN storage[p] \cup {path} |->
                          IF q = path THEN value ELSE storage[p][q]]
  BY <1>1
<1>3. Grows
  BY <1>2 DEF Grows
<1>4. \A o, q, v : Fits(storage, o, q, v) => Fits(storage', o, q, v)
  BY <1>3, ServedStays DEF Fits
<1>5. ASSUME Fits(storage, p, path, value) PROVE StorageInv'
  <2>1. \A o \in Release!ToSet(Providers) : \A q \in DOMAIN storage[o] : Fits(storage, o, q, storage[o][q])
    BY DEF StorageInv
  <2>2. \A o \in Release!ToSet(Providers) : \A q \in DOMAIN storage'[o] : Fits(storage', o, q, storage'[o][q])
    BY <1>2, <1>4, <1>5, <2>1
  <2> QED
    BY <1>2, <2>2 DEF StorageInv
<1> QED
  BY <1>2, <1>3, <1>5

(* The release of a commit path is the one it is asked for. *)
LEMMA OfCommit ==
  ASSUME ReleaseAssumption, NEW m \in Metas, NEW o \in Metas, NEW name, Is(o, Release!CommitPath(m, name))
  PROVE  o = m
<1>1. o.repository = m.repository /\ o.channel = m.channel /\ o.build.commit = m.build.commit
  BY DEF Is, Release!CommitPath
<1> QED
  BY <1>1 DEF Metas, ReleaseAssumption

(* Whatever command a release is at, it puts there what fits. *)
LEMMA ValueFits ==
  ASSUME ReleaseAssumption, StorageInv, NEW r, Going(r), Release!AtCommand(r),
         NEW p, p = Providers[r.provider],
         NEW c, c = Release!Commands(r)[r.command],
         c.source = Release!Nil \/ Release!exists(p, c.source)
  PROVE  p \in Release!ToSet(Providers) /\ Fits(storage, p, c.destination, Release!Value(p, c))
<1>1. PICK m \in Metas : CommandsOf(r, m)
  BY DEF Going
<1>2. p \in Release!ToSet(Providers) /\ r.stage \in {1, 2}
  BY DEF Going, Release!ToSet
<1>3. CASE r.stage = 1
  <2>1. PICK artifact, from :
           c = Release!Stage1Command(artifact, m, from)
             /\ (artifact.copy => from \in Metas /\ Served(storage, from))
    BY <1>1, <1>3 DEF CommandsOf, Release!Commands, Release!AtCommand
  <2>2. CASE artifact.reproducible # Release!Nil
    <3>1. c.destination = Release!ReproduciblePath(m, artifact.reproducible) /\ Len(c.destination) = 2
      BY <2>1, <2>2 DEF Release!Stage1Command, Release!Command, Release!ReproduciblePath
    <3>2. p \notin InPlace => Release!Value(p, c).whole
      BY <1>2 DEF Release!Value, Release!exists, StorageInv, Fits
    <3> QED
      BY <1>2, <3>1, <3>2 DEF Fits
  <2>3. CASE artifact.reproducible = Release!Nil /\ ~artifact.copy
    <3>1. /\ c.destination = Release!CommitPath(m, artifact.channel) /\ Len(c.destination) = 4
          /\ Release!Value(p, c) = [content |-> <<artifact.channel, m>>, whole |-> TRUE]
      BY <2>1, <2>3 DEF Release!Stage1Command, Release!Command, Release!CommitPath, Release!Value
    <3> QED
      BY <1>2, <3>1 DEF Fits, Is, Release!CommitPath
  <2>4. CASE artifact.reproducible = Release!Nil /\ artifact.copy
    <3>1. /\ c.destination = Release!CommitPath(m, artifact.channel) /\ Len(c.destination) = 4
          /\ c.source = Release!CommitPath(from, artifact.channel) /\ Len(c.source) = 4 /\ c.source # Release!Nil
      BY <2>1, <2>4 DEF Release!Stage1Command, Release!Command, Release!CommitPath, Release!Nil
    <3>2. Release!Value(p, c) = storage[p][c.source] /\ Fits(storage, p, c.source, storage[p][c.source])
      BY <1>2, <3>1 DEF Release!Value, Release!exists, StorageInv
    <3>3. Served(storage, storage[p][c.source].content[2])
      BY <2>1, <2>4, <3>1, <3>2, OfCommit DEF Fits
    <3> QED
      BY <1>2, <3>1, <3>2, <3>3 DEF Fits
  <2> QED
    BY <2>2, <2>3, <2>4
<1>4. CASE r.stage = 2
  <2>1. PICK artifact : c = Release!Stage2Command(artifact, m)
    BY <1>1, <1>4 DEF CommandsOf, Release!Commands, Release!AtCommand
  <2>2. /\ c.destination = Release!ChannelPath(m, artifact.channel) /\ Len(c.destination) = 3
        /\ c.source = Release!CommitPath(m, artifact.channel) /\ Len(c.source) = 4 /\ c.source # Release!Nil
    BY <2>1 DEF Release!Stage2Command, Release!Command, Release!CommitPath, Release!ChannelPath, Release!Nil
  <2>3. Release!Value(p, c) = storage[p][c.source] /\ Fits(storage, p, c.source, storage[p][c.source])
    BY <1>2, <2>2 DEF Release!Value, Release!exists, StorageInv
  <2>4. Served(storage, m)
    <3>1. \A i \in DOMAIN Providers, need \in Release!Needs(m) : need \in DOMAIN storage[Providers[i]]
      BY <1>1, <1>4 DEF Going, Stored, Behind, CommandsOf, Release!exists
    <3> QED
      BY <3>1 DEF Served, Release!ToSet
  <2>5. Served(storage, storage[p][c.source].content[2])
    BY <2>2, <2>3, <2>4, OfCommit DEF Fits
  <2> QED
    BY <1>2, <2>2, <2>3, <2>5 DEF Fits
<1> QED
  BY <1>2, <1>3, <1>4
(* What a build consists of. *)
LEMMA ArtifactsOfBuild ==
  ASSUME ReleaseAssumption, NEW build \in Builds
  PROVE  \E S : /\ Release!make_stable_artifacts(build) \in Seq(S)
                /\ Release!make_channel_artifacts(build) \in Seq(S)
                /\ \A a \in S : a = [reproducible |-> a.reproducible, channel |-> a.channel, copy |-> FALSE]
<1> DEFINE fixed == {<<"bootstrap", build.bootstrap>>, <<"active", build.bootstrap>>,
                     <<"package", build.config>>}
           named == {"bootstrap.latest", "complete.latest.json", "version", "template"}
           S == {Release!Reproducible(name) : name \in fixed}
                \cup {Release!Reproducible(<<"package", p>>) : p \in Release!ToSet(build.packages)}
                \cup {Release!Channel(name) : name \in named}
           listed == [i \in DOMAIN build.packages |-> Release!Reproducible(<<"package", build.packages[i]>>)]
<1>1. \A a \in S : a = [reproducible |-> a.reproducible, channel |-> a.channel, copy |-> FALSE]
  <2>1. \A name : LET a == Release!Reproducible(name)
                  IN  a = [reproducible |-> a.reproducible, channel |-> a.channel, copy |-> FALSE]
    BY DEF Release!Reproducible
  <2>2. \A name : LET a == Release!Channel(name)
                  IN  a = [reproducible |-> a.reproducible, channel |-> a.channel, copy |-> FALSE]
    BY DEF Release!Channel
  <2> QED
    BY <2>1, <2>2
<1>2. Release!make_bootstrap_artifacts(build) \in Seq(S) /\ Release!make_channel_artifacts(build) \in Seq(S)
  <2>1. \A name \in fixed : Release!Reproducible(name) \in S
    OBVIOUS
  <2>2. \A name \in named : Release!Channel(name) \in S
    OBVIOUS
  <2> HIDE DEF S
  <2> QED
    BY <2>1, <2>2 DEF Release!make_bootstrap_artifacts, Release!make_channel_artifacts
<1>3. listed \in Seq(S)
  <2>1. build.packages \in Seq(Release!ToSet(build.packages))
    BY DEF ReleaseAssumption
  <2>2. DOMAIN build.packages = 1 .. Len(build.packages) /\ Len(build.packages) \in Nat
    BY <2>1, LenProperties
  <2>3. \A i \in DOMAIN build.packages : listed[i] \in S
    BY DEF Release!ToSet
  <2> HIDE DEF S
  <2>4. listed \in [1 .. Len(build.packages) -> S]
    BY <2>2, <2>3
  <2> QED
    BY <2>2, <2>4, SeqDef
<1>4. Release!make_stable_artifacts(build) \in Seq(S)
  <2> HIDE DEF S, listed
  <2>1. Release!make_bootstrap_artifacts(build) \o listed \in Seq(S)
    BY <1>2, <1>3, ConcatProperties
  <2> QED
    BY <2>1 DEF Release!make_stable_artifacts, listed
<1> HIDE DEF S
<1> QED
  BY <1>1, <1>2, <1>4

(* A release begins with all its commands before it. *)
LEMMA NewGoing ==
  ASSUME ReleaseAssumption, NEW m \in Metas, NEW S, NEW core \in Seq(S), NEW from,
         Release!make_channel_artifacts(m.build) \in Seq(S),
         Len(core) = Len(Release!make_stable_artifacts(m.build)),
         \A i \in 1 .. Len(core) : /\ core[i].reproducible = Release!make_stable_artifacts(m.build)[i].reproducible
                                   /\ core[i].channel = Release!make_stable_artifacts(m.build)[i].channel,
         \A a \in S : a.copy => from \in Metas /\ Served(storage, from)
  PROVE  Going(Release!apply_storage_commands(
             Release!make_commands(core, Release!make_channel_artifacts(m.build), m, from)))
<1> DEFINE stable == Release!make_stable_artifacts(m.build)
           channel == Release!make_channel_artifacts(m.build)
           last == Release!Channel("metadata.json")
           artifacts == core \o channel \o <<last>>
           commands == Release!make_commands(core, channel, m, from)
           r == Release!apply_storage_commands(commands)
<1>1. PICK T : stable \in Seq(T) /\ channel \in Seq(T)
  BY ArtifactsOfBuild DEF Metas
<1> DEFINE all == stable \o channel
<1>2. /\ Len(core \o channel) = Len(core) + Len(channel)
      /\ \A i \in 1 .. (Len(core) + Len(channel)) :
            (core \o channel)[i] = IF i <= Len(core) THEN core[i] ELSE channel[i - Len(core)]
      /\ core \o channel \in Seq(S)
      /\ Len(core) \in Nat /\ Len(channel) \in Nat
  BY ConcatProperties, LenProperties
<1>3. /\ DOMAIN artifacts = 1 .. Len(core) + Len(channel) + 1
      /\ \A i \in 1 .. (Len(core) + Len(channel)) : artifacts[i] = (core \o channel)[i]
      /\ artifacts[Len(core) + Len(channel) + 1] = last
  <2> DEFINE U == S \cup {last}
  <2>1. core \o channel \in Seq(U)
    <3>1. core \in Seq(U) /\ channel \in Seq(U)
      BY ElementOfSeq, SeqDef
    <3> HIDE DEF U, channel, last
    <3> QED
      BY <3>1, ConcatProperties
  <2>2. <<last>> \in Seq(U) /\ Len(<<last>>) = 1 /\ <<last>>[1] = last
    OBVIOUS
  <2> HIDE DEF U, channel, last
  <2>3. /\ artifacts \in Seq(U) /\ Len(artifacts) = Len(core \o channel) + 1
        /\ \A i \in 1 .. (Len(core \o channel) + 1) :
              artifacts[i] = IF i <= Len(core \o channel) THEN (core \o channel)[i]
                             ELSE <<last>>[i - Len(core \o channel)]
    BY <2>1, <2>2, ConcatProperties
  <2>4. DOMAIN artifacts = 1 .. Len(artifacts)
    BY <2>3, LenProperties
  <2> DEFINE n == Len(core) + Len(channel)
  <2>5. n \in Nat /\ Len(core \o channel) = n
    BY <1>2
  <2>6. /\ DOMAIN artifacts = 1 .. n + 1
        /\ \A i \in 1 .. n + 1 : artifacts[i] = IF i <= n THEN (core \o channel)[i] ELSE <<last>>[i - n]
    BY <2>3, <2>4, <2>5
  <2> HIDE DEF artifacts, n
  <2>7. \A i \in 1 .. n : artifacts[i] = (core \o channel)[i]
    BY <2>5, <2>6
  <2>8. artifacts[n + 1] = last
    BY <2>2, <2>5, <2>6
  <2> QED
    BY <2>6, <2>7, <2>8 DEF n
<1>4. /\ DOMAIN all = 1 .. Len(core) + Len(channel)
      /\ \A i \in DOMAIN all : /\ all[i].reproducible = artifacts[i].reproducible
                               /\ all[i].channel = artifacts[i].channel
  <2> HIDE DEF artifacts, channel
  <2>1. /\ Len(all) = Len(core) + Len(channel) /\ all \in Seq(T)
        /\ \A i \in 1 .. (Len(core) + Len(channel)) :
              all[i] = IF i <= Len(core) THEN stable[i] ELSE channel[i - Len(core)]
    BY <1>1, ConcatProperties
  <2> QED
    BY <1>2, <1>3, <2>1, LenProperties
<1>5. /\ commands.stage1 = [i \in DOMAIN artifacts |-> Release!Stage1Command(artifacts[i], m, from)]
      /\ \A k \in DOMAIN commands.stage2 : \E artifact : commands.stage2[k] = Release!Stage2Command(artifact, m)
  BY DEF Release!make_commands
<1>6. \A i \in DOMAIN artifacts : artifacts[i].copy => from \in Metas /\ Served(storage, from)
  <2>1. ~last.copy
    BY DEF Release!Channel
  <2>2. \A i \in 1 .. (Len(core) + Len(channel)) : (core \o channel)[i] \in S
    BY <1>2, ElementOfSeq
  <2> HIDE DEF artifacts, last, channel
  <2> SUFFICES ASSUME NEW i \in DOMAIN artifacts, artifacts[i].copy
               PROVE  from \in Metas /\ Served(storage, from)
    OBVIOUS
  <2>3. CASE i \in 1 .. (Len(core) + Len(channel))
    BY <1>3, <2>2, <2>3
  <2>4. CASE i = Len(core) + Len(channel) + 1
    BY <1>3, <2>1, <2>4
  <2> QED
    BY <1>2, <1>3, <2>3, <2>4
<1>7. \A need \in Release!Needs(m) : \E k \in DOMAIN commands.stage1 : commands.stage1[k].destination = need
  <2> SUFFICES ASSUME NEW need \in Release!Needs(m)
               PROVE  \E k \in DOMAIN commands.stage1 : commands.stage1[k].destination = need
    OBVIOUS
  <2>1. PICK k \in DOMAIN all :
          need = IF all[k].reproducible # Release!Nil THEN Release!ReproduciblePath(m, all[k].reproducible)
                 ELSE Release!CommitPath(m, all[k].channel)
    BY DEF Release!Needs, Release!ToSet
  <2> HIDE DEF all, artifacts, commands
  <2>2. k \in DOMAIN artifacts
    BY <1>2, <1>3, <1>4
  <2>3. Release!Stage1Command(artifacts[k], m, from).destination = need
    BY <1>4, <2>1 DEF Release!Stage1Command, Release!Command
  <2> QED
    BY <1>5, <2>2, <2>3
<1> HIDE DEF artifacts, commands
<1>8. CommandsOf(r, m)
  <2>1. r.commands = commands
    BY DEF Release!apply_storage_commands
  <2>2. DOMAIN commands.stage1 = 1 .. Len(core) + Len(channel) + 1 /\ Len(core) + Len(channel) + 1 \in Nat
    BY <1>2, <1>3, <1>5
  <2>3. \A k \in DOMAIN commands.stage1 : \E artifact, f :
          /\ commands.stage1[k] = Release!Stage1Command(artifact, m, f)
          /\ (artifact.copy => f \in Metas /\ Served(storage, f))
    <3> TAKE k \in DOMAIN commands.stage1
    <3>1. commands.stage1[k] = Release!Stage1Command(artifacts[k], m, from) /\ k \in DOMAIN artifacts
      BY <1>5
    <3> QED
      BY <1>6, <3>1
  <2>4. \A k \in DOMAIN commands.stage2 : \E artifact : commands.stage2[k] = Release!Stage2Command(artifact, m)
    BY <1>5
  <2>5. \E n \in Nat : DOMAIN commands.stage1 = 1 .. n
    BY <2>2
  <2> HIDE DEF r
  <2> QED
    BY <1>7, <2>1, <2>3, <2>4, <2>5 DEF CommandsOf
<1>9. 1 \in DOMAIN Providers
  BY LenProperties DEF ReleaseAssumption, Release!ToSet
<1>10. Stored(r)
  BY <1>2, <1>3, <1>5, LenProperties DEF Stored, Behind, Release!apply_storage_commands, ReleaseAssumption
<1> QED
  <2>1. r \in [commands : {r.commands}, stage : {1, 2}, provider : DOMAIN Providers, command : Nat]
    BY <1>9 DEF Release!apply_storage_commands
  <2> QED
    BY <1>8, <1>10, <2>1 DEF Going, commands, artifacts

(* The step begins a release. *)
LEMMA BeginKeeps ==
  ASSUME ReleaseInv, NEW w \in Workers, NEW commands, Release!Begin(w, commands),
         Going(Release!apply_storage_commands(commands))
  PROVE  ReleaseInv'
<1> DEFINE r == Release!apply_storage_commands(commands)
<1>1. storage' = storage /\ queue' = [queue EXCEPT ![w] = r]
  BY DEF Release!Begin
<1> HIDE DEF r
<1>2. StorageInv'
  BY <1>1 DEF ReleaseInv, StorageInv, Fits, Served
<1>3. Grows
  BY <1>1 DEF Grows
<1>4. queue' = [v \in Workers |-> IF v = w THEN r ELSE queue[v]]
  BY <1>1 DEF ReleaseInv, QueueInv
<1>5. (queue = [v \in Workers |-> queue[v]])'
  BY <1>4
<1>6. ASSUME NEW v \in Workers, (queue[v] # Release!Nil)'
      PROVE  Going(queue[v])'
  <2>1. PICK x : x = queue'[v]
    OBVIOUS
  <2>2. Going(x)
    BY <1>4, <1>6, <2>1 DEF ReleaseInv, QueueInv, r
  <2>3. Going(x)'
    BY <1>3, <2>2, GoingStays
  <2> QED
    BY <2>1, <2>3
<1> QED
  BY <1>2, <1>5, <1>6 DEF ReleaseInv, QueueInv

LEMMA CreateKeeps ==
  ASSUME ReleaseAssumption, ReleaseInv, NEW w \in Workers, NEW build \in Builds, NEW channel \in Channels,
         Release!create(w, build, channel)
  PROVE  ReleaseInv'
<1> DEFINE m == Release!Metadata(build, Release!Testing, channel)
           core == Release!make_stable_artifacts(build)
<1>1. m \in Metas /\ m.build = build
  BY DEF Metas, Release!Metadata
<1>2. PICK S : /\ core \in Seq(S) /\ Release!make_channel_artifacts(build) \in Seq(S)
               /\ \A a \in S : a = [reproducible |-> a.reproducible, channel |-> a.channel, copy |-> FALSE]
  BY ArtifactsOfBuild
<1>3. \A a \in S : a.copy => FALSE
  BY <1>2
<1>4. Release!Begin(w, Release!make_commands(core, Release!make_channel_artifacts(m.build), m, m))
  BY <1>1 DEF Release!create
<1> HIDE DEF m
<1>5. Going(Release!apply_storage_commands(
             Release!make_commands(core, Release!make_channel_artifacts(m.build), m, m)))
  BY <1>1, <1>2, <1>3, NewGoing
<1> QED
  BY <1>4, <1>5, BeginKeeps

(* What is promoted is of the last release of a channel, so it is served. *)
LEMMA PromoteKeeps ==
  ASSUME ReleaseAssumption, ReleaseInv, NEW w \in Workers, NEW channel \in Channels, Release!promote(w, channel)
  PROVE  ReleaseInv'
<1> DEFINE path == <<Release!Testing, channel, <<"metadata.json">>>>
           from == storage[Preferred][path].content[2]
           m == Release!Metadata(from.build, Release!Stable, Release!NoChannel)
           core == Release!make_stable_artifacts(from.build)
           copies == [i \in DOMAIN core |-> [core[i] EXCEPT !.copy = TRUE]]
<1>1. /\ Release!exists(Preferred, path)
      /\ Release!Begin(w, Release!make_commands(copies, Release!make_channel_artifacts(from.build), m, from))
  BY DEF Release!promote
<1>2. from \in Metas /\ Served(storage, from)
  <2>1. Len(path) = 3
    OBVIOUS
  <2> HIDE DEF path
  <2> QED
    BY <1>1, <2>1 DEF ReleaseInv, StorageInv, Fits, Release!exists, ReleaseAssumption
<1> HIDE DEF from
<1>3. m \in Metas /\ m.build = from.build /\ from.build \in Builds
  BY <1>2 DEF Metas, Release!Metadata
<1>4. PICK S : /\ core \in Seq(S) /\ Release!make_channel_artifacts(from.build) \in Seq(S)
               /\ \A a \in S : a = [reproducible |-> a.reproducible, channel |-> a.channel, copy |-> FALSE]
  BY <1>3, ArtifactsOfBuild
<1> HIDE DEF core
<1>5. /\ DOMAIN core = 1 .. Len(core) /\ Len(core) \in Nat
      /\ \A i \in 1 .. Len(core) : core[i] \in S
  BY <1>4, LenProperties, ElementOfSeq
<1> DEFINE T == S \cup {[a EXCEPT !.copy = TRUE] : a \in S}
<1>6. copies \in Seq(T) /\ Release!make_channel_artifacts(from.build) \in Seq(T) /\ Len(copies) = Len(core)
  <2>1. copies \in [1 .. Len(core) -> T]
    BY <1>5
  <2>2. \A s \in Seq(S) : s \in Seq(T)
    <3> TAKE s \in Seq(S)
    <3>1. s \in [1 .. Len(s) -> S] /\ Len(s) \in Nat
      BY LenProperties
    <3>2. s \in [1 .. Len(s) -> T]
      BY <3>1
    <3> HIDE DEF T
    <3> QED
      BY <3>1, <3>2, SeqDef
  <2> HIDE DEF T, copies
  <2>3. copies \in Seq(T)
    BY <1>5, <2>1, SeqDef
  <2>4. DOMAIN copies = 1 .. Len(core) /\ DOMAIN copies = 1 .. Len(copies) /\ Len(copies) \in Nat
    BY <2>1, <2>3, LenProperties
  <2>5. Len(copies) = Len(core)
    BY <1>5, <2>4
  <2> QED
    BY <1>4, <2>2, <2>3, <2>5
<1>7. \A i \in 1 .. Len(copies) : /\ copies[i].reproducible = core[i].reproducible
                                  /\ copies[i].channel = core[i].channel
  <2> SUFFICES ASSUME NEW i \in 1 .. Len(copies)
               PROVE  copies[i].reproducible = core[i].reproducible /\ copies[i].channel = core[i].channel
    OBVIOUS
  <2>1. copies[i] = [core[i] EXCEPT !.copy = TRUE] /\ core[i] \in S
    BY <1>5, <1>6
  <2>2. core[i] = [reproducible |-> core[i].reproducible, channel |-> core[i].channel, copy |-> FALSE]
    BY <1>4, <2>1
  <2> HIDE DEF copies
  <2> QED
    BY <2>1, <2>2
<1> HIDE DEF T, copies, m
<1>8. Going(Release!apply_storage_commands(
             Release!make_commands(copies, Release!make_channel_artifacts(m.build), m, from)))
  BY <1>2, <1>3, <1>6, <1>7, NewGoing DEF core
<1> QED
  BY <1>1, <1>3, <1>8, BeginKeeps DEF m, copies, core, from, path

(* A release gives way to what follows, or stops. *)
LEMMA QueueStays ==
  ASSUME QueueInv, Grows, NEW w \in Workers, NEW r,
         queue' = [queue EXCEPT ![w] = r] \/ queue' = queue,
         queue' # queue => (r # Release!Nil => Going(r)')
  PROVE  QueueInv'
<1>1. (queue = [v \in Workers |-> queue[v]])'
  BY DEF QueueInv
<1>2. ASSUME NEW v \in Workers, (queue[v] # Release!Nil)'
      PROVE  Going(queue[v])'
  <2>1. PICK x : x = queue'[v]
    OBVIOUS
  <2>2. CASE x = queue[v]
    <3>1. Going(x)
      BY <1>2, <2>1, <2>2 DEF QueueInv
    <3>2. Going(x)'
      BY <3>1, GoingStays
    <3> QED
      BY <2>1, <3>2
  <2>3. CASE x # queue[v]
    <3>1. x = r /\ queue' # queue
      BY <2>1, <2>3 DEF QueueInv
    <3>2. Going(x)'
      BY <1>2, <2>1, <3>1
    <3> QED
      BY <2>1, <3>2
  <2> QED
    BY <2>2, <2>3
<1> QED
  BY <1>1, <1>2 DEF QueueInv

LEMMA SkipKeeps ==
  ASSUME ReleaseAssumption, ReleaseInv, NEW w \in Workers, Release!Skip(w)
  PROVE  ReleaseInv'
<1> DEFINE r == queue[w]
<1>1. /\ Release!AtCommand(r) /\ Release!exists(Providers[r.provider], Release!Commands(r)[r.command].destination)
      /\ queue' = [queue EXCEPT ![w] = Release!NextCommand(r)] /\ storage' = storage
  BY DEF Release!Skip
<1>2. Going(r) /\ r # Release!Nil
  BY <1>1 DEF ReleaseInv, QueueInv, Release!AtCommand
<1>4. Grows
  BY <1>1 DEF Grows
<1>5. PICK x : x = Release!NextCommand(r)
  OBVIOUS
<1>6. x # Release!Nil => Going(x)'
  BY <1>1, <1>2, <1>4, <1>5, NextGoing DEF Release!Commands, Release!exists
<1>7. QueueInv'
  BY <1>1, <1>4, <1>5, <1>6, QueueStays DEF ReleaseInv
<1>8. StorageInv'
  BY <1>1 DEF ReleaseInv, StorageInv, Fits, Served
<1> QED
  BY <1>7, <1>8 DEF ReleaseInv

LEMMA FailKeeps ==
  ASSUME ReleaseInv, NEW w \in Workers, Release!Fail(w)
  PROVE  ReleaseInv'
<1>1. queue' = [queue EXCEPT ![w] = Release!Nil] /\ storage' = storage
  BY DEF Release!Fail
<1>2. Grows
  BY <1>1 DEF Grows
<1>3. PICK x : x = Release!Nil
  OBVIOUS
<1>4. QueueInv'
  BY <1>1, <1>2, <1>3, QueueStays DEF ReleaseInv
<1>5. StorageInv'
  BY <1>1 DEF ReleaseInv, StorageInv, Fits, Served
<1> QED
  BY <1>4, <1>5 DEF ReleaseInv

(* Half of a file has the content, and is written in place only. *)
LEMMA ApplyKeeps ==
  ASSUME ReleaseAssumption, ReleaseInv, NEW w \in Workers, Release!Apply(w)
  PROVE  ReleaseInv'
<1> DEFINE r == queue[w]
           p == Providers[r.provider]
           c == Release!Commands(r)[r.command]
           half == p \in InPlace /\ ~writing[w]
           value == Release!Value(p, c)
           stored == IF half THEN [value EXCEPT !.whole = FALSE] ELSE value
<1>1. /\ Release!AtCommand(r)
      /\ c.source = Release!Nil \/ Release!exists(p, c.source)
      /\ Release!Store(p, c.destination, stored)
      /\ queue' = IF half THEN queue ELSE [queue EXCEPT ![w] = Release!NextCommand(r)]
  BY DEF Release!Apply
<1>2. Going(r) /\ r # Release!Nil
  BY <1>1 DEF ReleaseInv, QueueInv, Release!AtCommand
<1> HIDE DEF r
<1>3. p \in Release!ToSet(Providers) /\ Fits(storage, p, c.destination, value)
  BY <1>1, <1>2, ValueFits DEF ReleaseInv
<1>4. Fits(storage, p, c.destination, stored)
  <2> HIDE DEF value, c, p
  <2>1. CASE half
    <3>1. [value EXCEPT !.whole = FALSE].content = value.content
      OBVIOUS
    <3> QED
      BY <1>3, <2>1, <3>1 DEF Fits
  <2>2. CASE ~half
    BY <1>3, <2>2
  <2> QED
    BY <2>1, <2>2
<1> HIDE DEF stored
<1>5. Grows /\ c.destination \in DOMAIN storage'[p] /\ StorageInv'
  BY <1>1, <1>3, <1>4, StoreGrows DEF ReleaseInv
<1>6. PICK x : x = Release!NextCommand(r)
  OBVIOUS
<1>7. x # Release!Nil => Going(x)'
  BY <1>1, <1>2, <1>5, <1>6, NextGoing DEF Release!Commands
<1>8. queue' = [queue EXCEPT ![w] = x] \/ queue' = queue
  BY <1>1, <1>6
<1>9. QueueInv'
  BY <1>5, <1>7, <1>8, QueueStays DEF ReleaseInv
<1> QED
  BY <1>5, <1>9 DEF ReleaseInv

LEMMA ReleaseInvStart ==
  Release!Init => ReleaseInv
BY DEF Release!Init, ReleaseInv, StorageInv, QueueInv

LEMMA ReleaseInvStep ==
  ASSUME ReleaseAssumption
  PROVE  ReleaseInv /\ [Release!Next]_(Release!vars) => ReleaseInv'
<1> SUFFICES ASSUME ReleaseInv, [Release!Next]_(Release!vars) PROVE ReleaseInv'
  OBVIOUS
<1>1. CASE UNCHANGED Release!vars
  <2>1. storage' = storage /\ queue' = queue /\ Grows
    BY <1>1 DEF Release!vars, Grows
  <2>2. StorageInv'
    BY <2>1 DEF ReleaseInv, StorageInv, Fits, Served
  <2>3. QueueInv'
    BY <2>1, QueueStays DEF ReleaseInv, QueueInv, Going, Stored, CommandsOf, Release!exists, Served
  <2> QED
    BY <2>2, <2>3 DEF ReleaseInv
<1>2. ASSUME NEW w \in Workers, NEW build \in Builds, NEW channel \in Channels, Release!create(w, build, channel)
      PROVE  ReleaseInv'
  BY <1>2, CreateKeeps
<1>3. ASSUME NEW w \in Workers, NEW channel \in Channels, Release!promote(w, channel)
      PROVE  ReleaseInv'
  BY <1>3, PromoteKeeps
<1>4. ASSUME NEW w \in Workers, Release!Skip(w) \/ Release!Apply(w) \/ Release!Fail(w)
      PROVE  ReleaseInv'
  BY <1>4, SkipKeeps, ApplyKeeps, FailKeeps
<1> QED
  BY <1>1, <1>2, <1>3, <1>4 DEF Release!Next

(* What the property says, of one state. *)
LEMMA ReleaseInvIsEnough ==
  ReleaseInv => Release!WhatIsPublishedWorks
<1> SUFFICES ASSUME ReleaseInv, NEW i \in DOMAIN Providers, NEW j \in DOMAIN Providers,
                    NEW path \in DOMAIN storage[Providers[i]], Len(path) = 3,
                    NEW need \in Release!Needs(storage[Providers[i]][path].content[2])
             PROVE  /\ Release!exists(Providers[j], need)
                    /\ Providers[j] \notin InPlace => storage[Providers[j]][need].whole
  BY DEF Release!WhatIsPublishedWorks
<1>1. Providers[i] \in Release!ToSet(Providers) /\ Providers[j] \in Release!ToSet(Providers)
  BY DEF Release!ToSet
<1>2. Served(storage, storage[Providers[i]][path].content[2])
  BY <1>1 DEF ReleaseInv, StorageInv, Fits
<1>3. need \in DOMAIN storage[Providers[j]]
  BY <1>1, <1>2 DEF Served
<1> QED
  BY <1>1, <1>3 DEF ReleaseInv, StorageInv, Fits, Release!exists

THEOREM PublishedWorks ==
  ASSUME ReleaseAssumption
  PROVE  Release!Spec => []Release!WhatIsPublishedWorks
<1>1. ReleaseInv /\ [Release!Next]_(Release!vars) => ReleaseInv'
  BY ReleaseInvStep
<1> QED
  BY <1>1, ReleaseInvStart, ReleaseInvIsEnough, PTL DEF Release!Spec
=============================================================================
