----------------------------- MODULE Installer ------------------------------
(***************************************************************************)
(* DC/OS is brought to the nodes: dcos_generate_config.sh generates on the *)
(* bootstrap node what nodes fetch (dcos_installer, gen.build_deploy.bash),*)
(* dcos_install.sh checks a node, writes what its first boot needs and     *)
(* starts that boot; dcos_node_upgrade.sh upgrades a node that runs.       *)
(* The boot and the activation themselves are PkgInstall's.                *)
(***************************************************************************)
EXTENDS Naturals, Sequences, FiniteSets

CONSTANTS
    Generations,    \* [version, config]: an installer's container and a valid config.yaml
    RoleArguments,  \* what dcos_install.sh may be told to install
    MaxRuns,        \* bound: runs of the installer
    MaxJobs,        \* bound: runs of its scripts on the node
    Tries           \* of the checks after an upgrade (300)

VARIABLES
    run,        \* of the installer: [at, of, from, todo, created]
    served,     \* genconf/serve: "no", "part" or "whole" per file
    script,     \* dcos_install.sh there: the generation it installs
    upgrades,   \* the upgrade scripts there: [from, of]
    job,        \* on the node: [at, of, from, roles, skip, tries, checked, status]
    host,       \* the node: [roles, list, units, enabled, boot, tarball, opt, cut, active]
    left_runs, left_jobs,
    disturbed,  \* history: files that a copy cut off has left, or its rollback removed,
    promised,   \*   generations whose run has ended with status 0,
    mishaps     \*   the node was installed "unchecked", or "again"; host.cut: see Stopped

genVars == <<run, served, script, upgrades, left_runs, disturbed, promised>>
nodeVars == <<job, host, left_jobs, mishaps>>
vars == <<genVars, nodeVars>>

None == [version |-> 0, config |-> "none"]
Cut == [version |-> 0, config |-> "cut"]    \* a script that is not all there
NoRun == [at |-> "done", of |-> None, from |-> 0, todo |-> <<>>, created |-> <<>>]
NoJob == [at |-> "done", of |-> None, from |-> 0, roles |-> {}, skip |-> FALSE,
          tries |-> 0, checked |-> FALSE, status |-> 1]

Bootstrap(v) == [kind |-> "bootstrap", of |-> [None EXCEPT !.version = v]]
Common == [kind |-> "package", of |-> None]    \* the same in every version
ConfigOf(g) == [kind |-> "dcos-config", of |-> g]    \* and the package list
InstallScript == [kind |-> "dcos_install.sh", of |-> None]

\* What a container has, and what gen makes: first the one whose name is
\* the same each time, the channel's
cached(g) == <<Bootstrap(g.version), Common>>
artifacts(g) == <<InstallScript, ConfigOf(g)>>
cluster_packages(g) == {Common, ConfigOf(g)}

\* What is in the bootstrap tarball, in whatever order: active/ with the links
\* to its packages, and the rest: these packages, pkgpanda's among them, and the
\* flag that makes its setup do something.  A node has each of some version
Parts == {"active", "rest"}
Unpacked(v) == [p \in Parts |-> v]

Elements(s) == {s[i] : i \in DOMAIN s}
Needed(g) == {Bootstrap(g.version)} \cup cluster_packages(g)
Whole(fs) == \A f \in fs : served[f] = "whole"

At(label) == run.at = label
Put(f, content) ==
    IF f = InstallScript
    THEN /\ script' = (IF content = "whole" THEN run.of ELSE Cut)
         /\ UNCHANGED served
    ELSE served' = [served EXCEPT ![f] = content] /\ UNCHANGED script

-----------------------------------------------------------------------------
(* The installer                                                           *)

\* config.yaml may be missing, be refused, or fail to bootstrap Exhibitor's
\* TLS: that is the end of the run (for TLS with what log.error() returns,
\* None, as its status, which is success)
onprem_generate(from) ==
    /\ At("done") /\ left_runs > 0 /\ left_runs' = left_runs - 1
    /\ \E g \in Generations :
          run' = [at |-> "bundle", of |-> g, from |-> from, todo |-> artifacts(g), created |-> <<>>]
    /\ UNCHANGED <<served, script, upgrades, disturbed, promised, nodeVars>>

do_configure == onprem_generate(0)
generate_node_upgrade_script == \E installed \in Generations : onprem_generate(installed.version)

\* A file that is being copied is not fetched by a node: to it, the copy is
\* one step
copy ==
    LET f == Head(run.todo)
    IN  /\ run.todo # <<>>
        /\ Put(f, "whole")
        /\ disturbed' = disturbed \ {f}
        /\ run' = [run EXCEPT !.todo = Tail(@),
                              !.created = IF At("copy") THEN Append(@, f) ELSE @]
        /\ UNCHANGED <<upgrades, left_runs, promised, nodeVars>>

dispatch == do_configure \/ generate_node_upgrade_script

do_bundle_onprem == At("bundle") /\ copy

\* Mutant of fetch_artifacts: looks for the bootstrap tarball only
fetch_artifacts_looks_at_one ==
    /\ At("bundle") /\ run.todo = <<>>
    /\ run' = [run EXCEPT !.at = "copy",
                          !.todo = IF served[Bootstrap(run.of.version)] # "no" THEN <<>> ELSE cached(run.of)]
    /\ UNCHANGED <<served, script, upgrades, left_runs, disturbed, promised, nodeVars>>

\* The three files of do_bundle_onprem that say what is latest come before;
\* nothing here reads them
fetch_artifacts ==
    /\ At("bundle") /\ run.todo = <<>>
    /\ run' = [run EXCEPT !.at = "copy",
                          !.todo = IF \A f \in Elements(cached(run.of)) : served[f] # "no"
                                   THEN <<>> ELSE cached(run.of)]
    /\ UNCHANGED <<served, script, upgrades, left_runs, disturbed, promised, nodeVars>>

do_move_atomic == At("copy") /\ copy

\* Mutant of copy_fails: the file at hand is not among those to be removed
copy_fails_unseen ==
    /\ run.todo # <<>> /\ ~At("rollback")
    /\ Put(Head(run.todo), "part")
    /\ IF At("copy") THEN run' = [run EXCEPT !.at = "rollback"] /\ UNCHANGED disturbed
       ELSE run' = NoRun /\ disturbed' = disturbed \cup {Head(run.todo)}
    /\ UNCHANGED <<upgrades, left_runs, promised, nodeVars>>

\* No space, or the operator interrupts: only do_move_atomic cleans up
copy_fails ==
    /\ run.todo # <<>> /\ ~At("rollback")
    /\ Put(Head(run.todo), "part")
    /\ IF At("copy")
       THEN /\ run' = [run EXCEPT !.at = "rollback", !.created = Append(@, Head(run.todo))]
            /\ UNCHANGED disturbed
       ELSE run' = NoRun /\ disturbed' = disturbed \cup {Head(run.todo)}
    /\ UNCHANGED <<upgrades, left_runs, promised, nodeVars>>

\* ... all that was copied, over an older copy too
rollback ==
    /\ At("rollback")
    /\ IF run.created = <<>> THEN run' = NoRun /\ UNCHANGED <<served, disturbed>>
       ELSE LET last == run.created[Len(run.created)]
            IN  /\ served' = [served EXCEPT ![last] = "no"]
                /\ disturbed' = disturbed \cup {last}
                /\ run' = [run EXCEPT !.created = SubSeq(@, 1, Len(@) - 1)]
    /\ UNCHANGED <<script, upgrades, left_runs, promised, nodeVars>>

\* The run is killed, or the machine stops, in a copy or anywhere else
Kill ==
    /\ ~At("done")
    /\ run' = NoRun
    /\ \/ /\ run.todo # <<>> /\ ~At("rollback")
          /\ Put(Head(run.todo), "part")
          /\ disturbed' = disturbed \cup {Head(run.todo)}
       \/ /\ disturbed' = disturbed \cup (IF At("rollback") THEN Elements(run.created) ELSE {})
          /\ UNCHANGED <<served, script>>
    /\ UNCHANGED <<upgrades, left_runs, promised, nodeVars>>

\* Each in a directory of its own
upgrade_script == IF run.from = 0 THEN {} ELSE {[from |-> run.from, of |-> run.of]}

\* ... is done, and so is the run
make_serve_dir ==
    /\ At("copy") /\ run.todo = <<>>
    /\ upgrades' = upgrades \cup upgrade_script
    /\ promised' = promised \cup {run.of}
    /\ run' = NoRun
    /\ UNCHANGED <<served, script, left_runs, disturbed, nodeVars>>

-----------------------------------------------------------------------------
(* dcos_install.sh                                                         *)

JobAt(label) == job.at = label
JobGoto(label) == job' = [job EXCEPT !.at = label]
Failed == job' = NoJob
Succeeded == job' = [job EXCEPT !.at = "done", !.status = 0]
NewJob(label, g, from, roles, skip) ==
    /\ JobAt("done") /\ left_jobs > 0 /\ left_jobs' = left_jobs - 1
    /\ job' = [at |-> label, of |-> g, from |-> from, roles |-> roles, skip |-> skip,
               tries |-> IF from = 0 THEN 0 ELSE Tries, checked |-> FALSE, status |-> 1]

\* A script that is cut off has no last line, which is what runs it
main ==
    /\ script \in Generations
    /\ \E roles \in RoleArguments, disable_preflight \in BOOLEAN :
          /\ NewJob(IF disable_preflight THEN "roles" ELSE "check", script, 0, roles, FALSE)
          /\ mishaps' = mishaps \cup (IF disable_preflight THEN {"unchecked"} ELSE {})
    /\ UNCHANGED <<genVars, host>>

check_preexisting_dcos == host.opt # Unpacked(0)

\* Mutant of InvalidRole: the roles one by one
InvalidRole_one_by_one(roles) == ~(roles \subseteq {"master", "slave", "slave_public", "minuteman"})
\* "$ROLES" is one word
InvalidRole(roles) == roles \notin {{"master"}, {"slave"}, {"slave_public"}, {"minuteman"}}

\* How many of the checks of commands, their versions, docker, ports, SELinux
\* and file systems fail: any or none
OVERALL_RC == {0, 1}

check_all ==
    /\ JobAt("check")
    /\ \E rc \in OVERALL_RC :
       IF check_preexisting_dcos \/ InvalidRole(job.roles) \/ rc # 0
       THEN Failed /\ UNCHANGED mishaps
       ELSE /\ JobGoto("roles")
            /\ mishaps' = mishaps \cup
                 (IF host.opt = Unpacked(0) /\ host.roles # {} THEN {"again"} ELSE {})
    /\ UNCHANGED <<genVars, host, left_jobs>>

setup_dcos_roles ==
    /\ JobAt("roles")
    /\ host' = [host EXCEPT !.roles = @ \cup job.roles]
    /\ JobGoto("configure")
    /\ UNCHANGED <<genVars, left_jobs, mishaps>>

\* setup-flags has the id of the list (ExhibitorStart has the CA's certificate);
\* the units have the bootstrap's
configure_dcos ==
    /\ JobAt("configure")
    /\ host' = [host EXCEPT !.list = job.of]
    /\ JobGoto("services")
    /\ UNCHANGED <<genVars, left_jobs, mishaps>>

\* Mutant of Boot: whatever is there is taken for all of it
Boot_if_anything(h) ==
    IF h.boot \in {"download", "unpack", "setup", "up"} THEN h
    ELSE [h EXCEPT !.boot = IF \E p \in Parts : h.opt[p] # 0 THEN "setup" ELSE "download"]

\* dcos-setup requires dcos-download, whose condition is that active/ is not
\* there; once it has succeeded there is nothing left for it to do
Boot(h) ==
    IF h.boot \in {"download", "unpack", "setup", "up"} THEN h
    ELSE [h EXCEPT !.boot = IF h.opt["active"] = 0 THEN "download" ELSE "setup"]

\* A unit fails, or the machine stops: an unpacking that had made active/ is
\* not begun again
Stopped(h) ==
    IF h.boot \notin {"download", "unpack", "setup"} THEN h
    ELSE [h EXCEPT !.boot = "failed", !.tarball = 0,
                   !.cut = @ \/ h.opt["active"] \notin {0, h.opt["rest"]}]

\* The units are written, services restarted, dcos-setup enabled and started
setup_and_start_services ==
    /\ \/ /\ JobAt("services")
          /\ host' = [host EXCEPT !.units = job.of, !.enabled = TRUE]
          /\ JobGoto("start")
       \/ /\ JobAt("start")
          /\ host' = Boot(host)
          /\ job' = NoJob
    /\ UNCHANGED <<genVars, left_jobs, mishaps>>

\* A command fails (errexit), or the connection to the node is lost
CutOff ==
    /\ job.at \in {"roles", "configure", "services", "start"}
    /\ Failed
    /\ UNCHANGED <<genVars, host, left_jobs, mishaps>>

Reboot ==
    /\ ~JobAt("done") \/ host.boot \in {"failed", "download", "unpack", "setup"}
    /\ Failed
    /\ host' = IF host.enabled THEN Boot(Stopped(host)) ELSE host
    /\ UNCHANGED <<genVars, left_jobs, mishaps>>

-----------------------------------------------------------------------------
(* The first boot                                                          *)

\* curl: what is missing, cut off or being copied cannot be fetched, and the
\* network may fail
Download ==
    /\ host.boot = "download"
    /\ \/ host' = Stopped(host)
       \/ /\ Whole({Bootstrap(host.units.version)})
          /\ host' = [host EXCEPT !.boot = "unpack", !.tarball = host.units.version]
    /\ UNCHANGED <<genVars, job, left_jobs, mishaps>>

\* mkdir, which leaves an empty directory, and tar, over what an earlier one
\* has left
Unpack ==
    /\ host.boot = "unpack"
    /\ \/ host' = Stopped(host)
       \/ \E p \in Parts : /\ host.opt[p] # host.tarball
                          /\ host' = [host EXCEPT !.opt[p] = host.tarball]
       \/ /\ host.opt = Unpacked(host.tarball)
          /\ host' = [host EXCEPT !.boot = "setup", !.tarball = 0]
    /\ UNCHANGED <<genVars, job, left_jobs, mishaps>>

\* Fails if pkgpanda is not there; without the flag there is nothing to do.
\* What active/ links to and the packages of the list are activated; pkgpanda
\* refuses packages of two versions, which have the same names
Setup ==
    /\ host.boot = "setup"
    /\ \/ host' = Stopped(host)
       \/ /\ host.opt["rest"] # host.opt["active"]
          /\ host' = [host EXCEPT !.boot = "idle"]
       \/ /\ Whole(cluster_packages(host.list))
          /\ host' = IF host.opt["active"] = host.list.version
                     THEN [host EXCEPT !.boot = "up", !.active = host.list]
                     ELSE [host EXCEPT !.boot = "refused"]
    /\ UNCHANGED <<genVars, job, left_jobs, mishaps>>

-----------------------------------------------------------------------------
(* dcos_node_upgrade.sh                                                    *)

upgrade ==
    /\ host.boot = "up"
    /\ \E u \in upgrades, skip_checks \in BOOLEAN :
          NewJob("version", u.of, u.from, {}, skip_checks)
    /\ UNCHANGED <<genVars, host, mishaps>>

\* The checks before may fail; the role must be known
may_upgrade ==
    LET refused == host.active.version # job.from \/ Cardinality(host.roles) # 1
    IN  /\ JobAt("version")
        /\ \/ ~refused /\ JobGoto("fetch")
           \/ (refused \/ ~job.skip) /\ Failed
        /\ UNCHANGED <<genVars, host, left_jobs, mishaps>>

\* Packages that the node has are not fetched
fetch ==
    /\ JobAt("fetch")
    /\ \/ Whole(cluster_packages(job.of) \ cluster_packages(host.active)) /\ JobGoto("activate")
       \/ Failed
    /\ UNCHANGED <<genVars, host, left_jobs, mishaps>>

activate ==
    /\ JobAt("activate")
    /\ host' = [host EXCEPT !.active = job.of]
    /\ IF job.skip THEN Succeeded ELSE JobGoto("poststart")
    /\ UNCHANGED <<genVars, left_jobs, mishaps>>

\* The status is that of the last `let T=T-1', which is 1 once T is 0
poststart_checks ==
    /\ JobAt("poststart")
    /\ \/ job' = [job EXCEPT !.at = "done", !.checked = TRUE,
                             !.status = IF job.tries = 0 THEN 1 ELSE 0]
       \/ job.tries = 0 /\ Failed
       \/ job.tries > 0 /\ job' = [job EXCEPT !.tries = @ - 1]
    /\ UNCHANGED <<genVars, host, left_jobs, mishaps>>

-----------------------------------------------------------------------------
Init ==
    /\ run = NoRun
    /\ served = [f \in UNION {Needed(g) : g \in Generations} |-> "no"]
    /\ script = None /\ upgrades = {}
    /\ job = NoJob
    /\ host = [roles |-> {}, list |-> None, units |-> None, enabled |-> FALSE, boot |-> "no",
               tarball |-> 0, opt |-> Unpacked(0), cut |-> FALSE, active |-> None]
    /\ left_runs = MaxRuns /\ left_jobs = MaxJobs
    /\ disturbed = {} /\ promised = {} /\ mishaps = {}

Next ==
    \/ dispatch \/ do_bundle_onprem \/ fetch_artifacts
    \/ do_move_atomic \/ copy_fails \/ rollback \/ Kill \/ make_serve_dir
    \/ main \/ check_all \/ setup_dcos_roles \/ configure_dcos
    \/ setup_and_start_services \/ CutOff \/ Reboot \/ Download \/ Unpack \/ Setup
    \/ upgrade \/ may_upgrade \/ fetch \/ activate \/ poststart_checks

-----------------------------------------------------------------------------
\* What a run has announced with status 0 is there, whole, unless a later
\* copy was cut off or rolled back over it: a run that finds all files there
\* copies none, and must not find what a failed one has left
\* (do_move_atomic, fetch_artifacts in config_util.py).
PromisesAreKept ==
    \A g \in promised : Whole(Needed(g) \ (disturbed \cup Elements(run.created)))

\* A node gets a second role, or comes to a boot that pkgpanda refuses, with
\* the bootstrap of one version and the packages of another, only if it was
\* installed unchecked, or again before its boot had unpacked anything, which
\* is what the check looks for (check_preexisting_dcos in bash.py).
NodesAreOfOneKind ==
    host.boot = "refused" \/ Cardinality(host.roles) > 1 => mishaps # {}

\* A node that comes up has all of one bootstrap tarball, and its setup has
\* something to do, unless an unpacking was cut off once it had made active/,
\* which is all that dcos-download looks for (dcos-services.yaml).
NodesAreWhole ==
    host.boot \in {"up", "idle"} /\ ~host.cut =>
        host.boot = "up" /\ host.opt = Unpacked(host.opt["active"])

\* An upgrade that ends with status 0 has activated what it was generated
\* for, on a node of one role that passed the checks (upgrade.py).
UpgradesSucceed ==
    JobAt("done") /\ job.status = 0 =>
        host.active = job.of /\ Cardinality(host.roles) = 1 /\ (job.skip \/ job.checked)

InstallationsAreWhole == PromisesAreKept /\ NodesAreOfOneKind /\ NodesAreWhole /\ UpgradesSucceed
=============================================================================
