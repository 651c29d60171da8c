--------------------------- MODULE PkgRepository ---------------------------
(***************************************************************************)
(* The package repository of a node (src/pkgpanda): Repository.add and     *)
(* .remove of __init__.py and the operations of actions.py that use them,  *)
(* run by the threads of the HTTP server and by command lines with no lock *)
(* between them.                                                           *)
(*                                                                         *)
(* A directory is the set of its files, or None.  It is deleted one file   *)
(* after the other.  A program that is writing to a directory, or deleting *)
(* it, goes on with that directory when it is renamed.  Writing a file     *)
(* again does not change it.                                               *)
(***************************************************************************)
EXTENDS Integers, FiniteSets

CONSTANTS
    Ids,      \* package ids
    Files,    \* the files of a package
    PkgInfo,  \* its pkginfo.json
    Clients,  \* threads of the server, command lines
    None,
    MaxOps,   \* bound: operations that are begun
    MaxFaults \* bound: fetches that fail, programs that are killed

ASSUME RepositoryAssumption ==
    /\ PkgInfo \in Files /\ IsFiniteSet(Files)
    /\ \A dir \in SUBSET Files : dir # None
    /\ MaxOps \in Nat /\ MaxFaults \in Nat

VARIABLES
    packages, \* the directory of each package
    tmp,      \* the directory {id}_tmp of each package
    nested,   \* packages that have a directory {id}_tmp inside
    active,   \* packages the active directory links to
    client,   \* what each client does
    raced,    \* packages on which two operations that clash have overlapped
    cut,      \* packages whose removal was killed
    ops, faults

dirs == <<packages, tmp, nested>>
vars == <<dirs, active, client, raced, cut, ops, faults>>

(* A client: the packages it is busy with, the place of the directory it   *)
(* has open and the files it has yet to extract.                           *)
Steps == [add      |-> {"check", "clean", "mkdir", "extract", "undo", "added", "failed"},
          remove   |-> {"checkActive", "remove"},
          activate |-> {"load", "link"}]

Idle == [op |-> "none", pc |-> "idle", ids |-> {}, at |-> "gone", todo |-> {}]

Init ==
    /\ packages = [i \in Ids |-> None] /\ tmp = [i \in Ids |-> None]
    /\ nested = {} /\ active = {} /\ raced = {} /\ cut = {}
    /\ client = [c \in Clients |-> Idle]
    /\ ops = 0 /\ faults = 0

At(c, pc) == client[c].pc = pc
Id(c) == CHOOSE i \in Ids : client[c].ids = {i}
Goto(c, pc) == client' = [client EXCEPT ![c].pc = pc]
Return(c) == client' = [client EXCEPT ![c] = Idle]
Fault == faults < MaxFaults /\ faults' = faults + 1

Clash(op1, op2) == "remove" \in {op1, op2} \/ (op1 = "add" /\ op2 = "add")

Begin(c, op, pc, ids) ==
    /\ At(c, "idle") /\ ops < MaxOps
    /\ client' = [client EXCEPT ![c] = [Idle EXCEPT !.op = op, !.pc = pc, !.ids = ids]]
    /\ raced' = raced \cup (ids \cap UNION {client[d].ids : d \in {d \in Clients : Clash(op, client[d].op)}})
    /\ ops' = ops + 1
    /\ UNCHANGED <<dirs, active, cut, faults>>

(* Those who have a directory of package i open find it at another place.  *)
Moved(i, from, to) ==
    [c \in Clients |-> IF client[c].ids = {i} /\ client[c].at = from
                       THEN [client[c] EXCEPT !.at = to] ELSE client[c]]

----------------------------------------------------------------------------
(* Deleting a directory: a file of the one that has been opened ...        *)
Opened(c) ==
    {f \in Files : \/ client[c].at = "tmp" /\ f \in tmp[Id(c)]
                   \/ client[c].at = "package" /\ f \in packages[Id(c)]}

DeleteFile(c) ==
    \E f \in Opened(c) :
        /\ IF client[c].at = "tmp"
           THEN tmp' = [tmp EXCEPT ![Id(c)] = @ \ {f}] /\ UNCHANGED packages
           ELSE packages' = [packages EXCEPT ![Id(c)] = @ \ {f}] /\ UNCHANGED tmp
        /\ UNCHANGED <<nested, client>>

(* ... and, when there are no more, the empty directory of that name.      *)
DeleteTmp(c, next) ==
    /\ Opened(c) = {}
    /\ IF tmp[Id(c)] = {}
       THEN /\ tmp' = [tmp EXCEPT ![Id(c)] = None]
            /\ client' = [Moved(Id(c), "tmp", "gone") EXCEPT ![c].pc = next, ![c].at = "gone"]
       ELSE client' = [client EXCEPT ![c].pc = next, ![c].at = "gone"] /\ UNCHANGED tmp
    /\ UNCHANGED <<packages, nested>>

TmpPlace(c) == IF tmp[Id(c)] = None THEN "gone" ELSE "tmp"

----------------------------------------------------------------------------
(* Repository.add *)
AddBegin(c) == \E i \in Ids : Begin(c, "add", "check", {i})

(* Packages that are there are not fetched again. *)
AddCheck(c) ==
    /\ At(c, "check")
    /\ IF packages[Id(c)] # None THEN Return(c)
       ELSE client' = [client EXCEPT ![c].pc = "clean", ![c].at = TmpPlace(c)]
    /\ UNCHANGED <<dirs, active, raced, cut, ops, faults>>

Clean(c) ==
    /\ At(c, "clean")
    /\ DeleteFile(c) \/ DeleteTmp(c, "mkdir")
    /\ UNCHANGED <<active, raced, cut, ops, faults>>

(* "rm" fails when a file is written to the directory meanwhile. *)
CleanFails(c) ==
    /\ At(c, "clean") /\ client[c].at # "gone"
    /\ \E d \in Clients \ {c} : At(d, "extract") /\ client[d].ids = client[c].ids
    /\ Goto(c, "failed")
    /\ UNCHANGED <<dirs, active, raced, cut, ops, faults>>

(* Mutant of MakeDir: the package is extracted where it belongs. *)
MakeDir_InPlace(c) ==
    /\ At(c, "mkdir")
    /\ packages' = [packages EXCEPT ![Id(c)] = IF @ = None THEN {} ELSE @]
    /\ client' = [client EXCEPT ![c].pc = "extract", ![c].at = "package", ![c].todo = Files]
    /\ UNCHANGED <<tmp, nested, active, raced, cut, ops, faults>>

(* The package has been downloaded and is extracted ... *)
MakeDir(c) ==
    /\ At(c, "mkdir")
    /\ tmp' = [tmp EXCEPT ![Id(c)] = IF @ = None THEN {} ELSE @]
    /\ client' = [client EXCEPT ![c].pc = "extract", ![c].at = "tmp", ![c].todo = Files]
    /\ UNCHANGED <<packages, nested, active, raced, cut, ops, faults>>

DownloadFails(c) ==
    /\ At(c, "mkdir")
    /\ Fault
    /\ Goto(c, "failed")
    /\ UNCHANGED <<dirs, active, raced, cut, ops>>

Extract(c) ==
    /\ At(c, "extract") /\ client[c].at # "gone"
    /\ \E f \in client[c].todo :
         /\ client' = [client EXCEPT ![c].todo = @ \ {f}]
         /\ IF client[c].at = "tmp"
            THEN tmp' = [tmp EXCEPT ![Id(c)] = @ \cup {f}] /\ UNCHANGED packages
            ELSE packages' = [packages EXCEPT ![Id(c)] = @ \cup {f}] /\ UNCHANGED tmp
    /\ UNCHANGED <<nested, active, raced, cut, ops, faults>>

(* Mutant of ExtractFails: what was extracted is left. *)
ExtractFails_Leaves(c) ==
    /\ At(c, "extract")
    /\ (client[c].at = "gone" /\ client[c].todo # {} /\ UNCHANGED faults) \/ Fault
    /\ client' = [client EXCEPT ![c].pc = "failed", ![c].at = "gone", ![c].todo = {}]
    /\ UNCHANGED <<dirs, active, raced, cut, ops>>

(* ... and what has been extracted is deleted if that fails. *)
ExtractFails(c) ==
    /\ At(c, "extract")
    /\ (client[c].at = "gone" /\ client[c].todo # {} /\ UNCHANGED faults) \/ Fault
    /\ client' = [client EXCEPT ![c].pc = "undo", ![c].at = TmpPlace(c), ![c].todo = {}]
    /\ UNCHANGED <<dirs, active, raced, cut, ops>>

Undo(c) ==
    /\ At(c, "undo")
    /\ DeleteFile(c) \/ DeleteTmp(c, "failed")
    /\ UNCHANGED <<active, raced, cut, ops, faults>>

(* shutil.move puts a directory inside one that exists, but only once. *)
Move(c) ==
    LET i == Id(c) IN
    /\ At(c, "extract") /\ client[c].todo = {}
    /\ \/ /\ tmp[i] # None /\ packages[i] = None
          /\ packages' = [packages EXCEPT ![i] = tmp[i]]
          /\ tmp' = [tmp EXCEPT ![i] = None]
          /\ client' = [Moved(i, "tmp", "package") EXCEPT ![c].pc = "added", ![c].at = "gone"]
          /\ UNCHANGED nested
       \/ /\ tmp[i] # None /\ packages[i] # None /\ i \notin nested
          /\ nested' = nested \cup {i}
          /\ tmp' = [tmp EXCEPT ![i] = None]
          /\ client' = [Moved(i, "tmp", "gone") EXCEPT ![c].pc = "added", ![c].at = "gone"]
          /\ UNCHANGED packages
       \/ /\ tmp[i] = None \/ (packages[i] # None /\ i \in nested)
          /\ client' = [client EXCEPT ![c].pc = "failed", ![c].at = "gone"]
          /\ UNCHANGED dirs
    /\ UNCHANGED <<active, raced, cut, ops, faults>>

(* The answer is given. *)
AddReturns(c) ==
    /\ At(c, "added") \/ At(c, "failed")
    /\ Return(c)
    /\ UNCHANGED <<dirs, active, raced, cut, ops, faults>>

----------------------------------------------------------------------------
(* remove_package *)
RemoveBegin(c) == \E i \in Ids : Begin(c, "remove", "checkActive", {i})

(* Mutant of CheckActive: active packages are removed. *)
CheckActive_Any(c) ==
    /\ At(c, "checkActive")
    /\ IF packages[Id(c)] = None THEN Return(c)
       ELSE client' = [client EXCEPT ![c].pc = "remove", ![c].at = "package"]
    /\ UNCHANGED <<dirs, active, raced, cut, ops, faults>>

CheckActive(c) ==
    /\ At(c, "checkActive")
    /\ IF Id(c) \in active \/ packages[Id(c)] = None THEN Return(c)
       ELSE client' = [client EXCEPT ![c].pc = "remove", ![c].at = "package"]
    /\ UNCHANGED <<dirs, active, raced, cut, ops, faults>>

Remove(c) ==
    /\ At(c, "remove")
    /\ DeleteFile(c)
    /\ UNCHANGED <<active, raced, cut, ops, faults>>

RemoveReturns(c) ==
    LET i == Id(c) IN
    /\ At(c, "remove") /\ Opened(c) = {}
    /\ IF packages[i] = {}
       THEN /\ packages' = [packages EXCEPT ![i] = None]
            /\ nested' = nested \ {i}
            /\ client' = [Moved(i, "package", "gone") EXCEPT ![c] = Idle]
       ELSE Return(c) /\ UNCHANGED <<packages, nested>>
    /\ UNCHANGED <<tmp, active, raced, cut, ops, faults>>

----------------------------------------------------------------------------
(* activate_packages: every package is loaded, then all of them are linked *)
(* to (PkgInstall has the steps of that).                                  *)
ActivateBegin(c) == \E ids \in SUBSET Ids : Begin(c, "activate", "load", ids)

Load(c) ==
    /\ At(c, "load")
    /\ IF \A i \in client[c].ids : packages[i] # None /\ PkgInfo \in packages[i]
       THEN Goto(c, "link") ELSE Return(c)
    /\ UNCHANGED <<dirs, active, raced, cut, ops, faults>>

Link(c) ==
    /\ At(c, "link")
    /\ active' = client[c].ids
    /\ Return(c)
    /\ UNCHANGED <<dirs, raced, cut, ops, faults>>

----------------------------------------------------------------------------
Kill(c) ==
    /\ ~At(c, "idle")
    /\ Fault
    /\ Return(c)
    /\ cut' = IF At(c, "remove") THEN cut \cup client[c].ids ELSE cut
    /\ UNCHANGED <<dirs, active, raced, ops>>

Add(c) == \/ AddBegin(c) \/ AddCheck(c) \/ Clean(c) \/ CleanFails(c)
          \/ MakeDir(c) \/ DownloadFails(c) \/ Extract(c) \/ ExtractFails(c) \/ Undo(c)
          \/ Move(c) \/ AddReturns(c)

Next == \E c \in Clients :
            \/ Add(c)
            \/ RemoveBegin(c) \/ CheckActive(c) \/ Remove(c) \/ RemoveReturns(c)
            \/ ActivateBegin(c) \/ Load(c) \/ Link(c)
            \/ Kill(c)

Spec == Init /\ [][Next]_vars
----------------------------------------------------------------------------
Damaged == raced \cup cut

Removing(i) == \E c \in Clients : At(c, "remove") /\ client[c].ids = {i}

(* The purpose of {id}_tmp ("preventing partially-extracted things from    *)
(* becoming an issue", __init__.py:477): whatever fails or is killed, and  *)
(* whatever happens to other packages, a package that is there has all its *)
(* files and no {id}_tmp moved into it, except while it is removed.        *)
PresentIsComplete ==
    \A i \in Ids \ Damaged : packages[i] # None /\ ~Removing(i) =>
        packages[i] = Files /\ i \notin nested

(* "Errors if any packages in package_ids are activated in install"        *)
(* (actions.py:139): what is active is there, with all its files, also     *)
(* while other packages come and go.                                       *)
ActiveIsPresent == \A i \in active \ Damaged : packages[i] = Files

(* An answer is true: after add has succeeded the package is there, and    *)
(* after it has failed nothing is, as the next one needs it.               *)
AddIsAllOrNothing ==
    \A c \in Clients : client[c].op = "add" /\ Id(c) \notin Damaged =>
        /\ At(c, "added")  => packages[Id(c)] = Files
        /\ At(c, "failed") => packages[Id(c)] = None /\ tmp[Id(c)] = None

=============================================================================
