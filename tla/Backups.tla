------------------------------ MODULE Backups ------------------------------
(***************************************************************************)
(* The tools with which an operator saves what a master keeps and puts it  *)
(* back: dcos-zk (dcos_zk_backup.py) for ZooKeeper, dcos-etcdctl           *)
(* (dcos_etcdctl.py) for etcd and iam-database-backup.py and -restore.py   *)
(* for the database of the IAM.                                            *)
(*                                                                         *)
(* A behaviour is about one of the three.  Each step of a tool, a copy, an *)
(* archive, a command to the database, can fail half way, and the tool can *)
(* be killed there.  The backup path names one file, a record of its       *)
(* content and of whether it is whole.                                     *)
(***************************************************************************)
EXTENDS Naturals, Sequences, SequencesExt

CONSTANTS
    Versions,   \* of the data
    MaxFaults   \* bound: steps that fail and tools that are killed

VARIABLES
    tool,       \* "zk", "etcd" or "iam"
    live,       \* the data in place: a version, Empty, Partial or Missing
    running,    \* the service
    path,       \* the file at the backup path
    tmp,        \* copies in zookeeper/ of the temporary directory of the
                \*   operator and of that of the tool; a later copy lands
                \*   inside the first
    fresh, old, \* iam: the databases iam_new and iam_old of this run
    files,      \* etcd: initial-nodes and initial-state, whether restore wrote them
    pc, verb,
    place,      \* the temporary directory in use
    exit,       \* how the last run of the tool ended, if nothing happened since
    failed,     \* commands of this run that failed
    faults,
    kept,       \* history: the data of the service, as it was before this run
                \*   or written since
    taken,      \* history: the data that the backup path was said to have
    stale       \* history: it was made beside an earlier copy

service == <<live, running, files>>
databases == <<fresh, old>>
history == <<kept, taken, stale>>
vars == <<tool, service, path, tmp, databases, pc, verb, place, exit, failed, faults, history>>

Missing == "missing"
Partial == "partial"
Empty == "empty"
Unknown == "unknown"
NoCopy == <<>>
NoFile == [content |-> Missing, whole |-> FALSE]
Whole(content) == [content |-> content, whole |-> TRUE]
Cut == [content |-> Partial, whole |-> FALSE]

-----------------------------------------------------------------------------
(* How steps end                                                           *)

Goto(label) == pc' = label /\ UNCHANGED <<exit, failed, faults>>

\* The tool's own temporary directory goes with it
Exit(how) ==
    /\ pc' = "idle" /\ exit' = how
    /\ tmp' = [tmp EXCEPT !.own = NoCopy]

Fault == faults < MaxFaults /\ faults' = faults + 1
Raise == Fault /\ failed' = failed + 1 /\ \E how \in {"failed", "killed"} : Exit(how)
Refuse == Exit("failed") /\ UNCHANGED <<failed, faults>>
Succeed == Exit("ok") /\ UNCHANGED <<failed, faults>>

Copies == tmp[place]
Step(t, label) == tool = t /\ pc = label /\ UNCHANGED <<tool, running, verb, place>>

-----------------------------------------------------------------------------
(* The operator and the services                                           *)

\* The arguments are checked first, except by the tools of the IAM
Begin(v, directory) ==
    /\ pc = "idle"
    /\ directory = "own" \/ tool = "zk"
    /\ tool = "iam" \/ (v = "backup") = (path = NoFile)
    /\ verb' = v /\ place' = directory /\ pc' = "start" /\ exit' = "none" /\ failed' = 0
    /\ kept' = live
    /\ UNCHANGED <<tool, service, path, tmp, databases, faults, taken, stale>>

OtherPath ==
    /\ pc = "idle" /\ path # NoFile
    /\ path' = NoFile /\ taken' = Unknown /\ stale' = FALSE
    /\ exit' = "none"
    /\ UNCHANGED <<tool, service, tmp, databases, pc, verb, place, failed, faults, kept>>

\* Exhibitor makes the directory of ZooKeeper again
StartOrStop ==
    /\ pc = "idle" /\ tool # "iam"
    /\ running' = ~running
    /\ live' = IF live = Missing /\ tool = "zk" THEN Empty ELSE live
    /\ exit' = "none"
    /\ UNCHANGED <<tool, files, path, tmp, databases, pc, verb, place, failed, faults, history>>

\* Not between the last rename and the drop of what it replaced: the restore
\* does not look at it then.  What an etcd writes that has not been stopped may
\* land in what is being restored.
Write ==
    /\ live \in Versions /\ pc # "drop iam_old"
    /\ running \/ tool = "iam"
    /\ \E v \in Versions \ {live} : live' = v /\ kept' = v
    /\ exit' = "none"
    /\ UNCHANGED <<tool, running, files, path, tmp, databases, pc, verb, place, failed, faults,
                   taken, stale>>

-----------------------------------------------------------------------------
(* dcos_zk_backup.py                                                       *)

is_zookeeper_running ==
    /\ Step("zk", "start")
    /\ IF running THEN Refuse ELSE Goto("copy") /\ UNCHANGED tmp
    /\ UNCHANGED <<live, files, path, databases, history>>

\* cp puts the copy inside a directory that is there
Copied(content) ==
    [tmp EXCEPT ![place] = IF @ = NoCopy THEN <<content>> ELSE <<Head(@), content>>]

copy_dir ==
    /\ Step("zk", "copy") /\ live # Missing
    /\ tmp' = Copied(live)
    /\ stale' = IF verb = "backup" THEN Copies # NoCopy ELSE stale
    /\ Goto(IF verb = "backup" THEN "tar" ELSE "rmtree")
    /\ UNCHANGED <<live, files, path, databases, kept, taken>>

copy_dir_fails ==
    /\ Step("zk", "copy")
    /\ \/ live = Missing /\ Refuse
       \/ /\ Fault /\ failed' = failed + 1 /\ pc' = "idle"
          /\ exit' \in {"failed", "killed"}
          /\ tmp' = [Copied(Partial) EXCEPT !.own = NoCopy]
    /\ UNCHANGED <<live, files, path, databases, history>>

\* The archive is of the first copy, with what is inside it
Tar ==
    /\ pc = "tar" /\ UNCHANGED <<tool, running, verb, place>>
    /\ \/ path' = Whole(Head(Copies)) /\ Goto("cleanup") /\ UNCHANGED tmp
       \/ path' = Cut /\ Raise
    /\ UNCHANGED <<live, files, databases, history>>

rmtree ==
    /\ pc = "rmtree" /\ UNCHANGED <<tool, running, verb, place>>
    /\ \/ live' = Missing /\ Goto("extract") /\ UNCHANGED tmp
       \/ live' \in {live, Partial} /\ Raise
    /\ UNCHANGED <<files, path, databases, history>>

extractall ==
    /\ Step("zk", "extract")
    /\ \/ /\ path.whole
          /\ live' = path.content
          /\ Goto("cleanup") /\ UNCHANGED tmp
       \/ ~path.whole /\ live' = Partial /\ Refuse
       \/ live' \in {Missing, Partial} /\ Raise
    /\ UNCHANGED <<files, path, databases, history>>

\* Errors are ignored
cleanup ==
    /\ pc = "cleanup" /\ UNCHANGED <<tool, running, verb, place>>
    /\ pc' = "idle" /\ exit' = "ok"
    /\ \/ tmp' = [tmp EXCEPT ![place] = NoCopy] /\ UNCHANGED <<failed, faults>>
       \/ Fault /\ failed' = failed + 1 /\ tmp' = [tmp EXCEPT !.own = NoCopy]
    /\ taken' = IF verb = "backup" THEN Last(Copies) ELSE taken
    /\ UNCHANGED <<live, files, path, databases, kept, stale>>

-----------------------------------------------------------------------------
(* dcos_etcdctl.py                                                         *)

snapshot_save ==
    /\ Step("etcd", "start") /\ verb = "backup"
    /\ \/ /\ running /\ live \in Versions
          /\ tmp' = [tmp EXCEPT !.own = <<live>>]
          /\ Goto("tar")
       \/ ~running /\ Refuse
       \/ Raise
    /\ UNCHANGED <<live, files, path, databases, history>>

etcd_restore ==
    /\ Step("etcd", "start") /\ verb = "restore"
    /\ Goto("rmtree")
    /\ UNCHANGED <<tmp, live, files, path, databases, history>>

\* The archive, the list of masters and the snapshot
snapshot_restore ==
    /\ Step("etcd", "extract")
    /\ \/ /\ path.whole
          /\ live' = path.content
          /\ Goto("nodes") /\ UNCHANGED tmp
       \/ ~path.whole /\ Refuse /\ UNCHANGED live
       \/ live' \in {Missing, Partial} /\ Raise
    /\ UNCHANGED <<files, path, databases, history>>

write_file(label, file, next) ==
    /\ Step("etcd", label)
    /\ \/ files' = files \cup {file} /\ Goto(next) /\ UNCHANGED tmp
       \/ Raise /\ UNCHANGED files
    /\ UNCHANGED <<live, path, databases, history>>

-----------------------------------------------------------------------------
(* iam-database-backup.py and iam-database-restore.py                      *)

dump_database ==
    /\ Step("iam", "start") /\ verb = "backup"
    /\ path' = Cut /\ taken' = Unknown
    /\ Goto("dump")
    /\ UNCHANGED <<tmp, live, files, databases, kept, stale>>

dump ==
    /\ Step("iam", "dump")
    /\ \/ live # Missing /\ path' = Whole(live) /\ taken' = live /\ Succeed
       \/ live = Missing /\ Refuse /\ UNCHANGED <<path, taken>>
       \/ Raise /\ UNCHANGED <<path, taken>>
    /\ UNCHANGED <<live, files, databases, kept, stale>>

\* A lookup that fails is taken for a database that is not there.
Continue(label) == pc' = label /\ UNCHANGED <<exit, tmp>>
CommandFails(label) == Fault /\ failed' = failed + 1 /\ Continue(label)
Unharmed == UNCHANGED <<failed, faults>>

lookup_database ==
    /\ Step("iam", "start") /\ verb = "restore"
    /\ \/ Continue(IF live = Missing THEN "create from scratch" ELSE "create") /\ Unharmed
       \/ live # Missing /\ CommandFails("create from scratch")
    /\ UNCHANGED <<live, files, path, databases, history>>

AfterLoad == [c \in {"create", "create from scratch"} |->
                IF c = "create" THEN "rename iam" ELSE "rename"]

\* A file that is not there raises past the handler; one that was cut may
\* load without an error
load_data ==
    /\ pc \in DOMAIN AfterLoad /\ Step("iam", pc)
    /\ old' = Missing
    /\ \/ path # NoFile /\ fresh' = path.content /\ Continue(AfterLoad[pc]) /\ Unharmed
       \/ path = NoFile /\ fresh' = Empty /\ Refuse
       \/ path # NoFile /\ fresh' = Partial /\ CommandFails("drop iam_new")
       \/ fresh' = Missing /\ Raise
    /\ UNCHANGED <<live, files, path, history>>

rename_from_scratch ==
    /\ Step("iam", "rename")
    /\ \/ /\ live = Missing
          /\ live' = fresh /\ fresh' = Missing
          /\ Succeed
       \/ live # Missing /\ Continue("drop iam_new") /\ Unharmed /\ UNCHANGED <<live, fresh>>
       \/ CommandFails("drop iam_new") /\ UNCHANGED <<live, fresh>>
    /\ UNCHANGED <<files, path, old, history>>

rename_iam ==
    /\ Step("iam", "rename iam")
    /\ \/ old' = live /\ live' = Missing /\ Continue("rename iam_new") /\ Unharmed
       \/ CommandFails("drop iam_new") /\ UNCHANGED <<live, old>>
    /\ UNCHANGED <<files, path, fresh, history>>

\* Mutant of rename_iam_new: the rename of iam is not undone
RenameWithoutRollback ==
    /\ Step("iam", "rename iam_new")
    /\ \/ live' = fresh /\ fresh' = Missing /\ Continue("drop iam_old") /\ Unharmed
       \/ CommandFails("drop iam_new") /\ UNCHANGED <<live, fresh>>
    /\ UNCHANGED <<files, path, old, history>>

rename_iam_new ==
    /\ Step("iam", "rename iam_new")
    /\ \/ live' = fresh /\ fresh' = Missing /\ Continue("drop iam_old") /\ Unharmed
       \/ CommandFails("rename iam_old") /\ UNCHANGED <<live, fresh>>
    /\ UNCHANGED <<files, path, old, history>>

rename_iam_old ==
    /\ Step("iam", "rename iam_old")
    /\ \/ live' = old /\ old' = Missing /\ Continue("drop iam_new") /\ Unharmed
       \/ CommandFails("drop iam_new") /\ UNCHANGED <<live, old>>
    /\ UNCHANGED <<files, path, fresh, history>>

\* Whether it can be dropped or not, the restore has failed
drop_iam_new ==
    /\ Step("iam", "drop iam_new")
    /\ fresh' \in {fresh, Missing}
    /\ Refuse
    /\ UNCHANGED <<live, files, path, old, history>>

\* Whether it can be dropped or not, the restore has succeeded
drop_iam_old ==
    /\ Step("iam", "drop iam_old")
    /\ old' \in {old, Missing}
    /\ Succeed
    /\ UNCHANGED <<live, files, path, fresh, history>>

-----------------------------------------------------------------------------
Kill ==
    /\ pc # "idle" /\ Fault
    /\ Exit("killed")
    /\ UNCHANGED <<tool, service, path, databases, verb, place, failed, history>>

Init ==
    /\ tool \in {"zk", "etcd", "iam"} /\ live \in Versions /\ running = TRUE
    /\ path = NoFile /\ tmp = [operator |-> NoCopy, own |-> NoCopy]
    /\ fresh = Missing /\ old = Missing /\ files = {}
    /\ pc = "idle" /\ verb = "backup" /\ place = "own" /\ exit = "none" /\ failed = 0 /\ faults = 0
    /\ kept = live /\ taken = Unknown /\ stale = FALSE

Next ==
    \/ \E v \in {"backup", "restore"}, d \in {"operator", "own"} : Begin(v, d)
    \/ OtherPath \/ StartOrStop \/ Write \/ Kill
    \/ is_zookeeper_running \/ copy_dir \/ copy_dir_fails \/ Tar \/ rmtree \/ extractall
    \/ cleanup
    \/ snapshot_save \/ etcd_restore \/ snapshot_restore
    \/ write_file("nodes", "initial-nodes", "state")
    \/ write_file("state", "initial-state", "cleanup")
    \/ dump_database \/ dump \/ lookup_database \/ load_data \/ rename_from_scratch
    \/ rename_iam \/ rename_iam_new \/ rename_iam_old \/ drop_iam_new \/ drop_iam_old

Spec == Init /\ [][Next]_vars

-----------------------------------------------------------------------------
(* Properties                                                              *)

\* A restore that reports success from a file whose backup reported success
\* leaves the data that were in place when it was made, unless that was made
\* beside a copy an earlier run had left in the operator's directory, or etcd
\* was running, which restore, unlike that of dcos-zk, does not ask.  While
\* ZooKeeper's data are not in place, a copy of them is there as long as the
\* tool runs.  A restore of the IAM's database that fails leaves it as its
\* users have it, and if it was killed or could not undo the rename, as
\* iam_old (dcos_zk_backup.py, dcos_etcdctl.py, iam-database-restore.py).
RestoresDoWhatTheySay ==
    /\ (verb = "restore" /\ exit = "ok") =>
          /\ taken # Unknown /\ ~stale /\ ~(tool = "etcd" /\ running) => live = taken
          /\ tool = "etcd" => files = {"initial-nodes", "initial-state"}
    /\ (tool = "zk" /\ verb = "restore" /\ pc \in {"rmtree", "extract"}) =>
          live = kept \/ kept \in ToSet(Copies)
    /\ (tool = "iam" /\ verb = "restore" /\ exit = "failed") =>
          live = kept \/ (live = Missing /\ old = kept /\ failed > 1)
    /\ (tool = "iam" /\ verb = "restore" /\ exit = "killed") =>
          \/ live = kept
          \/ live = Missing /\ old = kept
          \/ live = path.content
=============================================================================
