# DC/OS in TLA+

This directory holds TLA+ specifications of the parts of DC/OS that carry its
own logic: how a configuration is generated, how packages are built, released,
installed and activated, how a node boots and is set up, how the masters form
their CockroachDB and etcd clusters, how their data are saved and restored, and
how Admin Router knows what runs in the cluster. TLC checks them on small
instances; the TLA+ proof system proves the most important results for instances
of every size. `PROJECT.json` relates every definition to the lines it models,
every property to the run that checks it, and lists the hazards of the code.

    tlc -workers 2 -config MCPkgInstall.cfg MCPkgInstall      # one run
    tlapm PkgInstallProofs.tla                                # one proof

Paths below are relative to the repository.

## 1. Inventory

DC/OS is a distribution: most of `packages/` are build recipes for upstream
software. Its own programs are these.

| Part | State it keeps | Operations | Talks to |
|---|---|---|---|
| **pkgpanda Install/Systemd** `pkgpanda/__init__.py`, `actions.py` | `/opt/mesosphere/NAME`, `NAME.new`, `NAME.old` for every active name; unit files; `install_progress` | activate, swap, recover at boot | file system, systemd, the repository |
| **pkgpanda Repository** `pkgpanda/__init__.py`, `actions.py`, `util.py` | `/opt/mesosphere/packages/ID` and `ID_tmp` | add, remove, load | HTTP downloads, Install |
| **pkgpanda setup and the boot units** `actions.setup`, `gen/dcos-services.yaml` | the flag file of the bootstrap tarball | download and extract, `pkgpanda setup` | systemd, both of the above |
| **pkgpanda HTTP API** `pkgpanda/http` | none of its own | ten request threads | Repository and Install, without a lock |
| **pkgpanda build** `pkgpanda/build` | caches, the id of each last build, `complete.latest.json` | dependency order, build, bootstrap tarball | docker, git, a repository |
| **CockroachDB registration** `packages/cockroach/extra/register.py` | ZNodes `/cockroach/nodes` and `/cockroach/lock`, a nodes file, the store | bootstrap or join, at each start of the service | ZooKeeper, cockroach |
| **etcd discovery** `packages/etcd/extra/etcd_discovery` | ZNodes `/etcd/nodes` and `/etcd/locking`, `initial-nodes`, `initial-state`, the data directory, etcd's member list | join-cluster at each start, leave-cluster | ZooKeeper, etcdctl, etcd |
| **Backup tools** `packages/exhibitor/extra/dcos_zk_backup.py`, `packages/etcd/extra/etcdctl`, `packages/cockroach/extra/iam-database-*.py` | an archive or a dump; data directories and databases | backup, restore | file system, etcdctl, cockroach, systemd |
| **Admin Router cache** `packages/adminrouter/extra/src/lib/cache.lua` | a dictionary shared by the nginx workers, a lock in it, timers | refresh, get | Marathon, Mesos, Mesos DNS |
| **Admin Router services** `service.lua`, `util.lua` | the cache's entries | store answers, normalise names, resolve a path | cache, Mesos DNS |
| **Admin Router forwarding, auth** `util.lua`, `auth/*.lua`, `agent.lua` | one header, the request | send to the leading master, check a token | cache |
| **Service bootstrap** `packages/bootstrap/extra/dcos_internal_utils` | `/cluster-id` in ZooKeeper and on disk; run directories | agree on the cluster id, prepare directories | ZooKeeper |
| **Calico network** `packages/calico/extra` | a ZooKeeper lock and flag, a docker network | create the network once | ZooKeeper, docker |
| **IAM user migration** `packages/bouncer/extra` | legacy users in ZooKeeper, users of the IAM | migrate users | IAM, ZooKeeper |
| **Exhibitor start** `packages/exhibitor/extra` | the stores for TLS, the root certificate in `/tmp` | TLS bootstrap, permissions, start | the bootstrap CA, systemd |
| **Agent start** `packages/mesos/extra` | `mesos-resources` and its cache, CNI's data | find volumes once, move CNI's data | mount, the Mesos agent, systemd |
| **dcos-net helpers** `packages/dcos-net/extra` | an iptables rule, networkd's file, a link, `resolv.conf` | set-up, a timer's script, a watchdog loop | dcos-net, networkd, systemd |
| **Configuration generation** `gen/` | arguments being resolved, templates being parsed, files on their way to a node | resolve, validate, calculate, render, late binding | the installer, pkgpanda |
| **Release** `release/` | artifacts in storage | make commands, two upload stages, promote | storage providers |
| **Installer** `dcos_installer/`, `gen/build_deploy/bash.py`, `upgrade.py` | the serve directory; on a node roles, `setup-flags`, units | generate, copy artifacts with a rollback; `dcos_install.sh`, `dcos_node_upgrade.sh` | gen, HTTP, pkgpanda |

Hard behaviours, and what correctness means where they meet:

* *A swap that cannot be atomic.* Activation replaces a dozen directories, a
  unit directory and files, and restarts services, with kills and reboots
  possible between any two system calls. What a completed activation leaves
  must be one package set, and an interrupted one must be carried on.
* *Programs without a common lock.* The HTTP server's threads and command
  lines change one package directory tree.
* *Membership recorded several times.* ZooKeeper's list, etcd's member list or
  CockroachDB's `--join`, and a data directory have to agree, while programs
  die holding locks, sessions expire and masters are replaced.
* *A cache filled by racing timers and requests*, under a lock with a time
  limit and backends that are late.
* *Names normalised in two places* that must agree for requests to reach the
  service they name.
* *Two-stage writes* (release, database renames, restores, copies with
  rollback) that fail or stop in the middle.
* *Values decided in an order nobody wrote down*: setters of arguments that
  depend on each other, looked up in the order of Python's sets, with late
  values that are bound on the node.
* *A cache of builds* in which later builds trust what earlier, interrupted
  ones have left.

`PROJECT.json` lists these hazards with their lines and the properties that
would show them going wrong.

## 2. The modules

| Module | Models | Checked by | Proved in |
|---|---|---|---|
| `PkgInstall` | Install and Systemd | `pkg_install`, `pkg_install_recovery` | `PkgInstallProofs` |
| `PkgSetup` | extends `PkgInstall`: the boot units and `pkgpanda setup` | `pkg_install` | `PkgInstallProofs` |
| `PkgRepository` | Repository and its concurrent users | `tools` | `PkgRepositoryProofs` |
| `PkgBuild` | pkgpanda/build | `tools` | |
| `ReleaseStorage` | release: create and promote | `tools` | `PkgRepositoryProofs` |
| `Backups` | the backup and restore tools | `tools` | `NodeProofs` |
| `NodeSetup` | programs run before a service starts: bootstrap, calico network, user migration, telegraf | `tools` | `NodeProofs` |
| `ExhibitorStart` | TLS bootstrap and start of Exhibitor | `tools` | `NodeProofs` |
| `AgentStart` | volumes and CNI's data before the Mesos agent | `tools` | `NodeProofs` |
| `DcosNet` | set-up, resolv.conf and watchdog of dcos-net | `tools` | `NodeProofs` |
| `GenParser` | the tokenizer and the parser of gen's template language | `gen` | `GenProofs` |
| `GenTemplate` | extends `GenParser`: rendering and targets | `gen` | |
| `GenResolver` | setters, conditions, late values | `gen` | `GenProofs` |
| `GenCalc` | validation and calculation | `gen`, `gen_vni` | `NodeProofs` |
| `GenPackages` | from arguments to the files of a node | `gen` | `GenProofs` |
| `Installer` | dcos_installer, dcos_install.sh, the upgrade script | `gen` | `NodeProofs` |
| `ClusterMembership` | abstract: nodes become members, members serve | refined by `CockroachRegister` | |
| `CockroachRegister` | register.py, cockroach.sh | `cockroach`, `cockroach_expiry` | `CockroachRegisterProofs` |
| `EtcdDiscovery` | etcd_discovery.py, etcd.sh, the unit | `etcd`, `etcd_wedge` | `EtcdDiscoveryProofs` |
| `AdminRouterCache` | the refresh machinery of cache.lua | `adminrouter_cache` | `AdminRouterCacheProofs` |
| `AdminRouterServices` | what cache.lua stores, service.lua, names | `adminrouter_services`, `adminrouter_running` | `AdminRouterServicesProofs` |

`PkgSetup` composes `PkgInstall` with the units that start it. `MCGen` and
`MCTools` hold modules that share no state in the code: a behaviour is one of
one module, chosen by the initial value of `which`, and each property speaks of
the behaviours of its module. Two properties are conjunctions over several
modules: `NodesAreSetUp` in `MCTools` (`NodeSetup`, `ExhibitorStart`, `AgentStart`,
`DcosNet`) and `ConfigurationArrives` in `MCGen` (`GenPackages`, `Installer`).
In the same way `MCPkgInstall` has two kinds of behaviours, those of
`PkgInstall` alone (`host = "off"`) and those of `PkgSetup`.

Each `MC` module gives a module its constants for TLC. An operator that stands
before a definition and is called *Mutant of X* is a plausible mistake in X;
each property is broken by one, which shows that the property depends on the
code.

### PkgInstall

A file-system entry of an active name is `None`, a package set, or `Partial`.
`active`, `new` and `old` hold the three entries of each name; `unit`, `staged`
and `running` are the unit files, those staged as `NAME.unit.new`, and what
systemd runs. One action is one system call that changes these: `CleanNew`,
`CleanOld` (where a directory goes by `rm -rf`, so that it may be found `Partial`),
`MakeDirs`, `Populate`, `StageNewUnits`, `WriteFiles` (the build),
`CheckNew`, `RecordArchive`, `StopAll`, `RemoveUnitFiles`, `Archive`,
`RecordMove`, `MoveNew`, `ActivateNewUnitFiles`, `RemoveProgress` (the swap).
`Kill` and `Reboot` come between any two, `RecoverSwapActive` is `pkgpanda
setup`. Moving a directory onto one that exists puts it inside
(`shutil.move`): `nested` records that.

*Run `pkg_install`*: five names in the order of `get_active_names` (bin, the
unit directory, environment, active, active.buildinfo.full.json: three
directories, two files), two sets with different units, three activations, three
faults. Five names give a first, a last and middle ones for each loop, with the
unit directory in the middle; two sets suffice since an activation
relates a new set to at most one earlier one at any name; three faults let a
recovery and the activation after it be interrupted too.

* `CheckMeansComplete`: if every `NAME.new` is there, which is all `swap_active`
  looks at, they are the entries of one set with all unit files staged, and
  complete, but that the first may be what a killed `rm -rf` has left of it. An
  activation's own check never finds that, a recovery's not before two faults.
* `MoveTargetsFree`: archiving never moves onto an existing directory, nor does
  an activation move a new entry onto one.
* `SwapNeverRaises`: an activation is not refused by its own check and finds
  every unit file it moves.
* `ActivationLeavesOneSet`: an activation that completes leaves one set at every
  name and its units in place, whatever was interrupted before.
* `ConsistentActive`, `NoOrphanService`: with at most one fault, the live entries
  and unit files are those of one set whenever `install_progress` does not
  exist, and a running service was started from the unit file that is installed.
  With two faults they do not hold: see below.
* `ArchiveStageLeft` (liveness): a swap interrupted in its archive stage does
  not stay there. Fairness: a running process goes on, and somebody runs
  `pkgpanda setup` after an interruption, as `pkgpanda/docs/package_concepts.md`
  tells the operator to. The boot unit does so only if it can start: `PkgSetup`.

*Run `pkg_install_recovery`* checks the comment "so that if there is a hard/fast
fail at any point the activate swap can continue" (`__init__.py:972`) and finds
it violated: killed after the first move of the `move_new` stage, the recovery
calls `swap_active`, whose first check wants the entries that were already
moved, and raises. Once `active` is in place `dcos-download.service` does not
extract the bootstrap tarball any more, and this repeats at every boot.

Observed while modelling, and the reasons for `faults <= 1` above: an
activation killed in `move_new`, a second one killed after building its new
entries and before it records its own stage, and `setup` then reads the stage
of the first, skips archiving, and moves new directories into live ones. And a
swap killed in its archive stage, the next activation killed in the `rm -rf` of
`bin.new` (`__init__.py:789-794`): every `NAME.new` still exists, `install_progress`
still says `archive`, and `setup` makes an incomplete `bin` the live one.

### PkgSetup

`host` is where the boot is: `Download` (only where there is no `active`),
`Extract` of one entry of the tarball at a time, `StartSetup` (which needs bin
and environment), the steps of `PkgInstall` as `Pkgpanda`, `RemoveBootstrap` (the
flag file). `Upgrade` is an operator's activation on a node that is up, and
`StartAgain` starts failed units. `PkgpandaKilled` and `HostStops` come anywhere.

*Run `pkg_install`* also has the behaviours of this module, from an empty disk,
with two faults and two upgrades among the two sets. `BootComesUp` (liveness): a
node that boots comes up with one whole package set, the one it is configured for
unless it was upgraded, or is *stranded*; a node that is up is whole whenever no
swap is recorded (`NodeIsWhole`, its first conjunct); and it is stranded only if something
stopped at a moment the history variable `exposed` names: while the tarball
was extracted, between the first move of a swap and the removal of
`install_progress`, or while an upgrade was clearing the entries an
interrupted swap needs, from the first file of the first of them on. A
`systemctl start` that fails (`StartTargetFails`) ends setup with the flag file
still there, and the next boot activates again. Fairness: systemd and pkgpanda go on, and a failed unit
is started again, by an operator or at the next boot. Nothing is assumed
of downloads that fail, kills and stops, which the fault bound ends.

What strands a node, all seen in counterexamples before `exposed` was defined:

* the units look for `active` (`gen/dcos-services.yaml:23`), while an interrupted
  first extraction may have made it, in the order of the tarball's members, which
  is that of `os.listdir`: the tarball is never extracted again;
* a swap archives bin and environment before `active`. Stopped in between, the
  unit cannot start, and the tarball is not extracted because `active` is there;
* stopped between archiving `active` and moving the new one in place, the
  tarball is extracted again and the configured set activated: the node comes
  up, but an upgrade is undone;
* stopped after the first move of `move_new`, even just before
  `install_progress` is removed, `swap_active` refuses at every boot;
* an interrupted extraction over a half archived node can make the recovery
  archive onto an `.old` directory that exists.
* an upgrade over an interrupted swap, killed while it removes `bin.new`, lets the
  recovery make what is left of it the live bin.

### PkgRepository

A directory is the set of its files. Each client runs one operation, file by
file: `AddCheck`, `Clean`, `MakeDir`, `Extract`, `Move`; `CheckActive`,
`Remove`; `Load`, `Link`. A client that has a directory open goes on with
it when it is renamed (`Moved`), as `tar` and `rm` do. Fetches and extractions
fail, programs are killed.

There is no lock. The properties therefore speak of packages on which no two
operations that clash (two adds, or a remove with anything) have overlapped
(`raced`) and whose removal was not killed (`cut`), and say that these are the
only ways: `PresentIsComplete` (a package that is there has all its files),
`ActiveIsPresent`, `AddIsAllOrNothing`. For two adds of one
package at a time nothing of the kind holds: each deletes the other's `ID_tmp`
and either may be moved into place while incomplete, which the comment at
`__init__.py:480` takes for unlikely between *different* packages only.

*Run `tools`*, repository behaviours: two clients, two packages of two files, four operations,
two faults. Clashes are between two clients on one package; the second package
shows that nothing spreads. Four operations allow an add, an activation, and
two more that overlap.

### CockroachRegister and ClusterMembership

`pc` is where `main()` of each master's `register.py` is; `zkNodes` and `lock`
are the ZNodes; `orphaned` says that the lock's holder is dead and its session
not yet expired; `child` are nodes running `cockroach` without `--join`; `store`
names the cluster a node's data belongs to. A program dies anywhere (`Crash`) and
starts again; `SessionExpires`, outside `StableSpec`, takes the lock from a
living one.

*Run `cockroach`* (three masters, two deaths: one for the first to bootstrap, one
for the next): `OneBootstrap`, `JoinListUsable` (a list to join with contains the
node and one that has the cluster), `MembersNeverLost`, `OneCluster` (without
deaths), `ImplementsMembership` (each step is one of `ClusterMembership` or a
stutter) and `Converges`. Fairness: programs go on (the service is
restarted always) and ZooKeeper expires dead sessions.

*Run `cockroach_expiry`* checks "This lock prevents multiple instances from
starting without --join at the same time" with one session expiry and finds it
violated: the holder is never told.

Observed: a node that dies after creating the cluster and before registering
leaves a store; another node then creates a second cluster, and the first
registers with its own store. That is why `OneCluster` is for `crashes = 0`.

### EtcdDiscovery

The steps of `join_cluster` and `leave_cluster` under the ZooKeeper lock,
etcdctl's member operations (which need a healthy majority and refuse some
changes), `etcd.sh`, and etcd starting with an initial cluster or from its data
directory. Events are deaths of programs (`Crash`), replacements of a master by
an empty one with the same address (`Replaced`), and uses of leave-cluster
(`LeaveStart`); `MaxEvents` bounds them together.

*Run `etcd`* (three masters, two events): `OneCluster`, `ReplacedIsReadded` (a
replaced master is removed and added again before it runs), `ListIsQuorum`
("The list of nodes in ZK reflect the nodes that have been actually added to the
quorum": a registered node with data is a member, and without any event
a member is registered whenever the lock is free), `Converges`.
`OneCluster` and `ReplacedIsReadded` are for runs without leave-cluster;
`Converges` is for nodes that are not
wedged (see the next run), without leave-cluster. Fairness: programs go on, the
unit restarts them, ZooKeeper expires the sessions of dead ones.
Three masters are the smallest number with a majority that survives one loss.

*Run `etcd_wedge`* checks that a registered node starts while none leaves or is
replaced, with two masters and one event, and finds a node whose program dies once
its member is added and the node registered, before `etcd.sh` has made its data
directory. Started again, it is taken for a node that has lost its data and has to
be removed and added again; etcdctl, though, needs a healthy majority, which the two
members do not have while one of them has never started, and fails every time.

Observed: a leave-cluster that is killed, or whose etcdctl fails, keeps
the old member; the replaced master is then not added again and starts with an
empty log. leave-cluster for the only registered node empties the list, so the
next node makes a second cluster.

### AdminRouterCache

Ages replace clock times. `handler` is a timer's or a request's coroutine, at one
step of `refresh_cache`: taking the lock, checking each entry, sending a request,
its answer (in time, late, failed), storing value and time, unlocking. A timer
starts another handler although an earlier one of its worker still runs
(`TimerFires`; `Timers` bounds how many run). `Tick` lets time pass when nothing
urgent is left. `AnswerIsLate` starts the timeout again, since the HTTP client's
timeout is per socket operation. `StoreEvicts` is what `cache:set` does for want of
room: it drops other keys, or the one it replaces, and may then succeed or not.
A handler that ends with an error leaves its lock to the expiration time or to
the collector of its worker, which deletes whatever lock is there then
(`HandlerAborts`, `GcLock`).

*Run `adminrouter_cache`*: two workers, two timer handlers in the first and one in
the second, a request, two entries, two faults; the
real constants (25 s period, 20 s expiry and so on) scaled so that their order
is kept (`CacheAssumption`) and a refresh whose answers come in time has room
(`TimingAssumption`; of the defaults, three answers within the 180 s a request
waits for the lock). Two entries give a refresh between whose entries the
lock can expire. `DataAgeKnown` (what the cache serves is no older than its time
says and its request has taken, late answers included, also after keys were
dropped between the writes of two handlers; ages above the last limit of
`cache.lua` are not told apart), `EntriesAreRefreshed` (a bound on an entry's age
that grows with the faults), `EarlyRequestServed` (without faults a request before
the first timer gets its entry, time and data). Time is discrete and bounded waits
are urgent, so that the last two are invariants and need no fairness.

Observed: when the dictionary has dropped the data of an entry but not its time,
requests fail for that entry ("Could not retrieve ... from SHM", `cache.lua:742-746`)
until the time expires and a timer comes, although a refresh would help at once:
only a missing time starts one (`cache.lua:716`), and `forcible`, which says that
keys were dropped, is ignored (`cache.lua:82`).

### AdminRouterServices

Paths and names are sequences of characters because their normalisation is what
the properties are about; a normalised name is the sequence of its parts.
`StoredApps` and `StoredFrameworks` are what `cache.lua` keeps of an answer
(`MarathonAnswers`, `MesosAnswers`; `CacheTooOld` is an entry nobody could
refresh). The steps of a request, `Begin`, `FetchMesos`, `Resolve`,
`MesosDnsAnswers` and `Finish`, are the loop of `service.lua` (Marathon's apps, then Mesos'
frameworks, then Mesos DNS, for one more segment each time).

*Run `adminrouter_services`*: nine paths and answers that take every branch, two
segments at most. `ShortestNameRouted` (a request goes to the app or framework
with the fewest fields its path begins with, and asks it for the rest of the
path), `NotFoundIsCertain` (an answer "not found" is only given by one who has
both entries). Two segments are enough for a shorter name to be preferred to a
longer one and for the bound of the search to be reached.

*Run `adminrouter_running`*: the entries of apps are those of running tasks;
violated, as `table.remove` inside `ipairs` skips the next element
(`cache.lua:208`).

Observed: a last field of one character is taken for none (`util.lua:252`), in
paths and in the names of apps and frameworks; `ShortestNameRouted` leaves these
out.

### GenParser, GenTemplate

`GenParser`: the tokenizer (`Lex`, one token a step) and the recursive descent of
`parse_str` with its calls as a stack (`ParseChunk`, `ParseOpening`, `ParseCase`,
`ParseBlobInSwitch`, `ParseClosing`, `ParseEnd`, `ParseError`). `GenTemplate` adds
`render`, a step, and `target_from_ast` and `get_filters` as operators. A text is a sequence of pieces
(braces, blanks, words, strings).

*Run `gen`*, templates: all sequences of five of the tokens that have structure
and of three of all tokens, and all texts of two tokens with a piece missing; two
arguments, each absent, a string or a list. Five tokens make a switch with two
cases or a block in a block; the missing pieces give every kind of syntax error.
`TokensPrintTheText`, `ParserAcceptsTheLanguage` (against a grammar by intervals),
`TargetIsWhatRenderNeeds` (against what `render` misses).

Observed: the list a `for` goes over is never in the target
(`template.py:2-4` announces loops, `target_from_ast` skips it); rendering an empty
list raises `KeyError` (`del arguments[...]`); a text that ends inside a control
group raises `IndexError`, not `SyntaxError`.

### GenResolver

The depth-first search of `Resolver` as a stack of calls: `TestCondition`,
`Select`, `FilterLate`, `ChooseOne`, `LookForLate`, `Calculate` in the order of
`_calculate`, with the walk over the target (`AskVariable`, `AskScope`,
`LeaveTarget`) around it and `ValidateMulti` after it. The sets Python walks in
no particular order are walked in every order. A source is a sequence of scopes
(`Scopes`), each with the conditions of all the scopes it is inside of; a setter is
known by the number of its scope and whether it is optional (`Setters`), which gives
the order of the lists in the code (`Before`). `Targets` holds the targets and those
of their cases: `yield_validates` is a recursive function over it.

*Run `gen`*, resolver: three arguments with every combination of a default or a
must setter that is a text, a function of the others or a failing one, one
conditional scope, an extension that removes setters, user and late arguments,
targets with and without a sub-scope. Three arguments make chains, diamonds and
cycles. `ResolverFindsTheSolution` compares with the least solution of the setters
(`Solution`), defined without the search: nothing is known, then what follows from
that, and so on for as many rounds as there are names. Errors are compared where no
setters form a cycle (`Acyclic`). `NoSilentFailure` relates the status to the target.
`MCGen` extends this module, so that the assumptions of its proofs are evaluated, and
assumes `GivenAssumption` of `GenCalc` and `PackagesAssumption` of `GenPackages`.

Observed: a cycle through a condition escapes as an `AssertionError`; whether a
setter with a late and an unset parameter gives "late" or an error depends on the
order of a set; a switch on a late variable (`internals.py:734`) and setters that
are all late (`internals.py:613`) end in an assertion or an `IndexError`. Such
behaviours end in `outcome`s other than "resolved".

### GenCalc

`ValidateSingle`, `ValidateMulti` and `Calculate` are the three stages of a
configuration; the validators and calculations are operators under their names in
`gen/calc.py`, for those that relate arguments or guard a calculation.

*Run `gen`*, calculations: the defaults with the arguments of any two groups
changed. Two, as no validator looks at arguments of more than two groups.
`AcceptedConfigWorks`: for what no validator refuses, one ensemble is described, of
as many masters as quorums are counted by, no check of the operator replaces one of
DC/OS, and no overlay shares an IPv4 address with Calico's network.

*Run `gen_vni`* checks "VXLAN VNI {} should not conflict with that of dcos
overlay" and finds 1024 accepted: a text is compared with a number
(`calc.py:1132`).

Observed: `bootstrap_tmp_dir[-1] != 0` (`calc.py:558-564`) is the same mistake; the
default network may be an overlay that `enable_ipv6` has disabled; overlays are
compared with Calico's network only, so two of them with the same subnet, or one
with that of `vtep_subnet`, are accepted (`calc.py:402-428`); `num_masters`
and `mesos_log_retention_mb` that are no numbers raise `ValueError` instead of
being reported.

### GenPackages

`initialize_exhibitor_ca`, `validate_and_raise`, `render_templates`,
`make_packages` are the stages of `gen.generate`; `build_late_package` and
`do_bootstrap` what happens on the way to a node and there. Texts are sequences of
atoms that say which argument a value is of, so that leaks and placeholders can be
seen. `Reconfigure` lets the operator change a value, or renew the certificate,
and generate again.

*Run `gen`*, packages: two arguments that are the user's, late, secret or
calculated from each other, two files with any of ten contents in each of three
templates, and two runs: two files to have one with late values and one without,
two runs for an id to be used twice. `ConfigurationArrives`: files come to the
node with their final values; no secret where none was asked for; nothing left
unbound; content follows from the id.

Observed, and excepted in the property: the id does not change with a user
argument no template refers to, nor with a renewed certificate, though
`gen/__init__.py:631` wants "any change in config" to yield a new one; a file
with a stray end marker and no late variable is dropped; a value calculated from
a late one makes the bootstrap of the node fail (TODO, `internals.py:590`); late
values in dcos-metadata and in the cloud config are not bound;
`exhibitor_tls_bootstrap._check` wants `exhibitor_bootstrap_ca_url` in the
configuration, where its docstring says it must not be set.

### Installer

One generation is an installer's container of some version with one valid
`config.yaml`. `run` is the installer on the bootstrap node, `served` and `script`
are the serve directory, `job` is a script on the node and `host` that node: its
roles, the package list in `setup-flags`, the bootstrap id in its units, its boot.

* The installer: `do_configure` or `generate_node_upgrade_script`, then
  `do_bundle_onprem` (the script first, then the packages of the configuration),
  `fetch_artifacts` (copies nothing if every file is there), `do_move_atomic`, on an
  error `copy_fails` and `rollback`, and `make_serve_dir`, which for an upgrade also
  makes its script. `Kill` comes anywhere.
* `dcos_install.sh`: `main`, `check_all`, `setup_dcos_roles`, `configure_dcos`,
  `setup_and_start_services`, each of which can be `CutOff`; the first boot:
  `Download` (curl, which needs a whole file), `Unpack` (tar, in whatever order and
  over what an earlier one has left: active/ with its links, and the rest) and
  `Setup`; each can fail or be interrupted by a `Reboot` (`Stopped`). `Boot` begins
  with the download unless active/ is there, the preflight looks for anything in
  /opt/mesosphere.
* `dcos_node_upgrade.sh`: `upgrade`, `may_upgrade`, `fetch`, `activate`,
  `poststart_checks`.

A copy is one step for the nodes, since a file that is being copied cannot be
fetched and unpacked. Activation, which can itself be interrupted, is `PkgInstall`'s.

*Run `gen`*, installations: two versions, so that what one run leaves meets what the
other needs, the first to be generated being 1 (`FirstIsVersionOne`: they are
interchangeable); two runs of the installer and two scripts on a node, since a failure
needs one to fail and one to be misled; one role or two; one try of the last
checks. `InstallationsAreWhole`, a conjunct of `ConfigurationArrives`: a run that
ended with status 0 has left every file that is needed, whole, but for those that a
later copy has cut off or taken back (`disturbed`); a node gets a second role, or a
bootstrap of one version and packages of the other, only if it was installed without
the preflight, or again before its boot had unpacked anything; a node that comes up
has all of one bootstrap tarball unless an unpacking was cut off after it had made
active/ (`host.cut`); an upgrade that reports success has activated what it was made
for.

Observed: an error of the TLS bootstrap ends the installer with status 0, as the
status is what `log.error` returns, `None` (`dcos_installer/backend.py:48-52`; the docstring
says "Returns error code"); the rollback also removes files an earlier run had put
there; a run killed in a copy leaves a partial file, which a later run that finds all
names there does not copy again; `dcos_install.sh` is published before the files it
names. An unpacking of the bootstrap that is cut off after active/ is not begun
again: the next boot sets up what is there, or, without the flag file `bootstrap`,
ends with success and has done nothing. The preflight takes a node whose boot has unpacked nothing for a new one;
`"$ROLES"` is quoted, so two roles fail it and `--preflight-only` without a role
always does. The upgrade script ends with status 1 when its checks pass only at the
last try, since `let T=T-1` then has status 1; and `node-poststart cluster` and `&&`
are handed to dcos-check-runner as arguments.

### PkgBuild

`BuildTree` and `BuildPackage` start the builder; `Resolve` gives an order
(the depth-first `Visit`, for all trees in `Plan`) or an error; for each
package it computes the id, looks in the cache and in the repository
(`fetch_active`), runs docker and stores; `Bundle` and `Tree` make bootstrap
tarballs and `complete.latest.json`. Builds fail and are killed anywhere; `Edit`
changes sources between builds. Hashes are injective: an id is a record.

*Run `tools`*, builds: every graph of requirements of two packages, one with two
variants, and one that does not exist, in one and two trees, without faults;
a chain and a wide graph of three packages, built again and again with two versions
of each and two faults. Two packages give every kind of cycle and of wrong
requirement, three a package between two that change. `TreeBuildsInOrder`,
`CompleteIsCurrent`.

Observed: an unknown requirement raises `KeyError` before the messages meant for
it; the keys of a treeinfo are compared with `>`; `build_tree_variants` passes a
string where a list is iterated; a killed build leaves a partial bootstrap tarball
under its final name, or a tarball without its `active.json` that is taken for up
to date (`build/__init__.py:626` relies on it being whole): `interrupted`.

### ReleaseStorage

`create` and `promote` make the commands of a release; `Apply` performs them one
by one in the two stages, skipping what is there; `Fail` ends a release anywhere.

*Run `tools`*, releases: two commits that share a package, two providers, two
releases, which may overlap. `WhatIsPublishedWorks` is the guarantee in the
comment at `release/__init__.py:681`. Two releases make all the overlaps of
one with another; a failed one and its repetition are also two. The builds satisfy
`ReleaseAssumption`.

Observed: local storage copies in place, so an upload cut short passes for the
artifact; `ReadOnlyProxy` has no `download_inner` and cannot be instantiated, and
its `url` calls a property.

### Backups

A behaviour is about one of ZooKeeper, etcd and the IAM's database. Each step of
`backup` and `restore` is an action that can fail, be killed, or half happen;
`Write`, `StartOrStop` and `OtherPath` are the service and the operator in between.

*Run `tools`*, backups: two versions of the data, two faults: one for the step
and one for the attempt to undo it. `RestoresDoWhatTheySay`.

Observed: a ZooKeeper backup with an operator's directory that holds an earlier
copy archives that one (`stale`); a restore killed after removing the data
cannot be repeated before something makes the directory again, and the copy it
has kept goes with its temporary directory; etcd's restore takes a partial
archive after it has removed the data, and does not ask whether etcd is running, which
may then write into what is restored (in the model, and an exception of the property);
the IAM backup empties the existing file first; an IAM restore without a file leaves
`iam_new`, and a lookup that fails counts as "no database yet", as does the next
restore after both renames have failed, which leaves what was live in `iam_old`.

### NodeSetup

A behaviour is about one of four programs that run on all nodes at once: the
agreement on the cluster id (with ZooKeeper servers that start alone and join an
ensemble), the calico network (docker's configuration, the lock and the flag), the
users of the IAM, and telegraf's containers. A kill, a lost answer, a lost
session or a server that leaves counts against `MaxLost`.

*Run `tools`*, set-up: two masters and an agent, one master or two, two users, two
losses. The symmetric parts are reduced (`SmallSetup`: telegraf's files on one
node, one docker that restarts; `TwoMakeTheNetwork`: the agent takes no part in making
the network, two nodes race for it). Two masters are the smallest
ensemble that can lose its majority. `NodesAreSetUp`: one conjunct for each thing
promised.

Observed: a creator killed between creating the network and setting the flag makes
a second network possible; the loss of the lock's session is not noticed; a
migration can bring back a user the operator has removed, from a list it read
before or when it is run again; telegraf's files moved by a program killed before
`chmod` keep their old permissions, and old and new directories that both hold files
stop every later start.

### ExhibitorStart

`exhibitor_pc` goes through the three programs of `dcos-exhibitor.service`:
`bootstrap_exhibitor_tls.py` (`main`, `gen_tls_artifacts`, the commands of
`dcos-bootstrap-ca`, `command_fails`, `_remove_artifact_dir`, `unlink`), the
permissions, and `start`. `artifacts` is the directory of stores, written file by
file. `Kill`, `ChangeAddress` and `CleanTmp` are what happens to the master.

*Run `tools`*, Exhibitor: two addresses, a static ensemble with one of them, two
troubles (one to leave the stores half written, one in the start after it). The CA's
address and the kind of storage vary where they are used (`SmallExhibitor`).
`ExhibitorIsSafe`, a conjunct of `NodesAreSetUp`: Exhibitor runs without TLS where it
is required only if a program was killed while the stores were written or removed;
with TLS it can read all of them and they are for its address; a root certificate
that was used is gone; a static ensemble has the master in it.

Observed: the directory's existence is all that a later start looks at, so a kill
while it is filled or emptied makes later starts go on without TLS even where
`EXHIBITOR_TLS_REQUIRED` is set; a failing `detect_ip` ends the start even where TLS
is not required.

### AgentStart

`find_mounts_matching`, `get_mounts_and_freespace` and `_handle_root_volume` make
`resources` once, from `mounted`, `free` and `resources_cache`; `move`, `copytree`
and `rmtree` are `shutil.move` between file systems; `recover` is the Mesos agent,
which compares `resources` with its `checkpoint`. `DiscoverAgain` is the operator's
removal or renaming of the file.

*Run `tools`*, agents: one volume beside the root, three sizes of which one is too
small, four events: use, unmount or change, discover again, and a kill.
`AgentIsAccepted`, a conjunct of `NodesAreSetUp`: Mesos refuses only where
the operator has deleted the file instead of renaming it, or a volume was unmounted;
CNI's data are whole somewhere until a reboot, and in their place when the agent
runs, unless their move was cut off.

Observed: a move that was cut off leaves a partial directory, into which the next
one puts the copy (`shutil.move`), where CNI does not look; a second cut-off makes
every later start fail until a reboot empties `/var/run`.

### DcosNet

Three programs that run at once: the set-up (`check_rule`, `add_rule`, `add_config`,
`restart_unit`, `add_link`), `gen_resolvconf.py` (`begin`, `check_server`,
`write_resolv`) and the watchdog (`loop`, `watchdog`, `sleep`, `kill`).
`StartOrStopAnswering`, `SetupFails`, `CutOff`, `Flush` and `Upgrade` come between.

*Run `tools`*, dcos-net: two servers, three resolvers of which one has another port,
at most one in `resolv.conf`, two events. Two servers are needed for one that answers
among others that do not, and for a change between two questions. `NetIsSetUp`, a
conjunct of `NodesAreSetUp`: one rule; networkd runs with the package's configuration
unless its restart failed or was cut off; `resolv.conf` has the servers that answer,
or resolvers that fit; the watchdog kills only after no server has answered
throughout a round.

Observed: a restart of networkd that was cut off is never done, because the file is
already the new one; line 34 of `dcos-net-watchdog.py` raises `AttributeError` when a
probe fails other than by a timeout, which ends the watchdog instead of counting.

## 3. Proofs

Each theorem is about the module's own specification, for every value of the
constants that the module's `ASSUME` (or, for boots, `Backups` and the modules about nodes,
the theorem's hypothesis) admits, and for any number of steps, faults and restarts:
the bounds of the runs are constants like others. The assumptions say that the
words for "nothing" are no values, that sets of nodes are finite and not empty,
that periods and limits keep the order they have in the code; TLC evaluates those
of the modules in each run. Every proof has the same shape: `IInv` holds at first,
each action has a lemma that it keeps `IInv`, and the theorem puts them together.
Here is why each `IInv` is what it is.

`PkgInstallProofs`: for any list of names (the first of which is not the unit
directory), sets and units, and any number of
faults and activations, `TypeOK`, `CheckMeansComplete`, `MoveTargetsFree`,
`SwapNeverRaises` and `ActivationLeavesOneSet` hold. None is inductive: each is
about one moment of the swap and depends on everything done before. `IInv` adds

* `BuildInv`, what each step of the build has finished: `NAME.new` are gone up to
  the loop's position, then made again as the target's;
* `SwapInv`, what a swap may rely on at each step, recovery or not: the recorded
  stage, that names behind the loop's position have been archived;
* `ActivateInv`, that an activation also knows its target is what is built;
* `Disjoint`, that while a recovery may start from the archive stage no name has
  both a live and an archived entry: without it a recovery could not be shown to
  archive onto free places;
* `OfOneSet`, that new entries that all exist are of one set, the first perhaps
  incomplete;
* `UnitsKnown`, that unit files belong to the active unit directory;
* `NestedLive`, that a directory moved into another lies in a live one, and
  `AtFirst`, that each loop over the names starts with the first.

`OneSetIsActive` and `ServicesAreOfTheirUnits` are about histories with at most one
fault. `OneFaultInv` holds beside `IInv` and says, for those, what is live:
`ProgressInv` (one set, whenever no progress is recorded), `RecoverInv` (what an
interrupted swap has left is what its recovery needs), `NewWhole` (while a swap is
recorded, the first new entry is incomplete only if some other is missing, but
while an activation removes it), `MoveInv` (names behind the
position of the second loop are the target's, those before it archived) and
`ServiceInv` (nothing runs while unit files change). The one fault may come first,
in the middle or last, so `RecoverInv` has to hold of runs that have had none.

The same module proves what a boot keeps up, of `PkgSetup`, with the hypothesis
`SetupAssumption` (the name the download looks for is one of the tarball, the
node is configured for a package set). All of `IInv` but `Disjoint` is called `Core`,
and each action's lemma keeps `Core` up by itself, because `Extract` breaks
`Disjoint`: it puts entries where an interrupted swap has archived some.

* `BootsActivateWholeSets`: whatever is stopped, wherever, `TypeOK`,
  `SwapNeverRaises` and `ActivationLeavesOneSet` hold of the
  activations of setup and of upgrades. `Core` is enough, with `HostInv` for which
  unit may run beside pkgpanda. And what the check of `swap_active` accepts is one
  complete set: of an activation always, of a recovery unless the node was stopped
  where a boot cannot help.
* `UpMeansWhole` (`NodeIsWhole`) and `SwapsOfBootsAreClean` are about nodes that were
  not stopped where a boot cannot help, for any number of faults, while
  `OneSetIsActive` allows one. `LiveInv` is why: a swap in its
  move stage goes on to its end, so no recovery starts from there. `SetupInv` says
  why nothing to do means a whole node: without the flag file, and with no swap
  recorded, one has been finished since `active` was extracted (`Settled`); an
  incomplete `active` directory is seen only during the extraction, so setup
  activates what is configured; a swap that is recorded before any upgrade is the
  bootstrap's, and the flag file is still there. Its last clauses give `Disjoint`,
  and with it `NewWhole`,
  back: from the extraction on, until `CleanNew` has removed the first new entry, the
  flag file makes setup begin anew.

`CockroachRegisterProofs`: for any set of masters and any number of deaths, as
long as no session of a living program expires (`StableSpec`),
`TypeOK`, `OneBootstrap`, `JoinListUsable`, `MembersNeverLost`, `OneCluster` and
`ImplementsMembership`. `IInv` says that whoever is in the locked block owns the
lock (`LockInv`), `cockroach` runs without `--join` only there (`ChildInv`), a
list about to be written is the current one (`FreshInv`, which needs `LockInv`),
once anybody is registered some registered node has a cluster (`SeedInv`), and
this is true of lists read and dumped (`ListInv`). `ClusterInv` adds, for runs
without deaths, that a store exists only after its node has registered or is
about to, whence `OneCluster`. The refinement maps
`members` to `zkNodes` and `serving` to the nodes that have reached it.

`EtcdDiscoveryProofs`: for any finite set of masters, `OneCluster`,
`ReplacedIsReadded` and `ListIsQuorum`. Beside the lock (`LockInv`), the lists read
under it (`ListInv`) and what each step finds on the disk (`DiskInv`):

* `SinceInv`, the heart of it: for a node that is about to initialise a cluster
  there is a set of nodes, with all that are registered, that is closed under the
  nodes' lists and none of whose data are of that node's earlier cluster. Nodes that
  start with a list of such nodes cannot bring the earlier cluster back;
* `LogInv`, `RegisteredInv` and `QuorumInv`: a cluster with members is in some log,
  registered nodes with data are members of their cluster, and
  members are registered but for the moment between the two steps;
* `FounderInv` and `StartedInv`, without leave-cluster: there is one founder, lists
  on disk are of registered nodes, and a member that has lost its data does not start
  before it is removed.

`PkgRepositoryProofs`: for any packages, files and clients, `PresentIsComplete`,
`ActiveIsPresent` and `AddIsAllOrNothing`. A package nobody has raced for or left half
removed is used by one client, or by readers (`RaceInv`); what its client has open
is where it takes it to be (`PlaceInv`), an add that is alone knows what it has
extracted (`AddInv`), a removal that the package is not active (`RemoveInv`), and
an activation that what it has loaded is there (`LinkInv`). The proof needs no
bound on clients since a step of one changes, of the others, at most the place of
an open directory (`Frame`).

The same module takes `ReleaseStorage` as an instance. `PublishedWorks`: for any
builds, providers and channels, and any number of releases at a time that fail
anywhere, `WhatIsPublishedWorks`, with `ReleaseAssumption` as its hypothesis: two builds
of one commit are the same. Without it the theorem would be false: the release of a
commit is stored under the commit's name, a second build of it writes over the first
while others may be copying to the channel, and what they copy then refers to
packages that are not everywhere yet. `Going` says what a release has stored so far:
stage 1 up to its command, on each provider in turn, hence, in stage 2, all that it
refers to on every provider. `StorageInv` says of each path what it may hold: under
the name of a commit, something of that commit or of a release that is served
already (a copy of what another repository had), under the name of a channel only
what is served. Paths are never deleted (`Grows`), so both outlast the steps of all
other releases.

`AdminRouterCacheProofs`. `AgesAreKnown`: for any workers, timers, requests, entries,
periods and faults, `DataAgeKnown`. A value and its time are stored by two steps
between which another handler may store either, when the lock has expired or was
deleted under its holder, and either may be dropped; `StampInv` says that whoever is
about to store the time finds its own data, another's of an age a request can have,
or none, and `SnapInv` bounds what a handler carries by the time its request has
still to wait. `DataThere` adds that data are missing only after a failure.

`EntriesStayYoung` (`EntriesAreRefreshed`) and `EarlyRequestsAreServed`
(`EarlyRequestServed`) are timing bounds, under `TimingAssumption` as well: if answers
take longer than a request waits, it ends without its entry. `TInv`
adds to `IInv`, for every entry, that some refresh will reach it in time:

* `ScanInv`: a handler that refreshes is going to store the entry, and it was young
  enough when the handler began; or it will end early enough for the next timer to
  do so. The handler may be one that has outlived its lock;
* `LockInv`: while the lock is free, every timer fires in time for the entry; when it
  was left locked, a timer that finds it so comes a period later and still in time,
  which is what a failure costs;
* `FaultFree`: without failures the one handler that refreshes has the lock, and
  unlocks before the lock expires.

Both are stated with the sums of the constants (`Turn`, `ToEnd`, `Limit`), never with
values. `EarlyInv` adds for requests that whoever refreshes leaves no entry
without a time behind it, and that a request that waits for such an entry waits
longer than the refresh under way.

`AdminRouterServicesProofs`: for any apps, frameworks, names and paths,
`NotFoundIsCertain` (`NotFoundIsKnown`) and `ShortestNameRouted`
(`ShortestNamesAreRouted`), from `PathAssumption` and `AppAssumption`.
`SearchInv`: by the time Mesos DNS is asked, both entries have been read, or the
name is one of a leader, for which a missing entry of Marathon does not matter.
`FindInv` says of the search that no shorter part of the path is a service
(`LevelInv`), what is known of the part tried last (`AnswerInv`), and that entries
are found under the names of their apps (`NamesKept`).

The rest of that module is about what `Scan`, `Joined` and `StoredApps` compute,
which are folds over sequences of any length. The library's induction theorems
take an operator as a parameter; a set can be passed to its theorem about
minimal elements (`WFMin`) instead, and `Induction` and `SeqInduction` are proved
from that: a set that has 0 and the successor of each of its elements, or the
empty sequence and one more element after each of its sequences, has all. From
there

* `FoldExists` and `FoldOfSeq` show that the recursion a fold stands for has a
  solution, so that the value of the fold is that of each solution
  (`SameValues`), and `FoldAppend` what one more element does to it;
* `FieldsAppend` and `FieldsConcat` say the same of the reference definition,
  `Fields`, which counts where fields begin;
* `ScanSplits` relates the two: a path is a part that ends with a separator, whose
  fields are those scanned, and a rest that has no separator unless the limit is
  reached. `AllFields` and `FirstFields` say for names and paths what
  `Component` then returns, and that what follows the joined fields in the path
  has the fields that are left. They fail for a last field of one
  character, which is where the code deviates.

`NodeProofs` (`NodesSetUp`): for any nodes, masters and users, `NodesAreSetUp`,
with `SetupAssumption` as its hypothesis: `"ensemble"` and nobody are no nodes, and
the masters are some. One part for each program, and lemmas (`BootAside`,
`NetworkAside` and the like) that a step of one leaves the others' alone. `BootInv`:
an id is proposed only at a server that is of the ensemble, or is the only one, so
no other server keeps an id that somebody could read. `NetworkInv`: if the holder is
not disturbed, the flag tells whether there is a network but between its making and
the setting of the flag.

`NodeProofs` also has a part for each of five modules of such programs, which it takes as
instances.

* `RestoresAreTrue`: for any data, failing steps and kills, `RestoresDoWhatTheySay`,
  with `DataAssumption` as its hypothesis: a version of the data is not one of the
  words for their absence. `ArchiveInv` follows a backup from the copy to the file,
  `ReplaceInv` and `RenameInv` say for each step of a restore where the old and the
  new data are, `ExitInv` what is left of that at the end. `failed` counts steps that
  failed: with two, an IAM restore may end with no database of that name, its data
  being in `iam_old`.
* `ExhibitorSafe`: for any addresses and ensembles, `ExhibitorIsSafe`. `StoresInv`
  says at each step what is in the directory: outside the program that fills it,
  everything or nothing, unless that was cut off; `CertificatesInv`, that the stores
  and the server's certificate are of the address the master still has. The program
  decides by the directory's existence alone, so the first is what TLS rests on.
* `AgentAccepted`: for any volumes and sizes, `AgentIsAccepted`, with
  `VolumesAssumption` (the root volume is none of them). `SpaceInv`: as long as the
  operator has made no mistake, the spaces the agent has in its checkpoint are those
  of the file, or of its cache while there is no file, or being measured the same
  again. `CopyInv` and `PlaceInv` follow the copies of CNI's data
  through a move, one that was cut off and the one after it.
* `NetIsSetUpAlways`: for any servers and resolvers, `NetIsSetUp`, with
  `AddressesAssumption` (the words for a program's place are no addresses).
  `NetworkdInv`: the file is the package's only if networkd has loaded it or is about
  to be restarted, or a restart was missed. `ResolvInv`: as long as no server changes,
  those that are up are those that answer, of the ones that were asked. `WatchInv`:
  whoever has answered all the time is among those still to be asked.
* `Installations`: for any generations and roles, `InstallationsAreWhole`. `CopiesInv`:
  a file that is not whole is disturbed, or among those a rollback is about to remove;
  files that are no longer among a run's `todo` are whole, those it found are
  so or disturbed. `OneKindInv` says how far a node that was checked and installed
  once can have come at each step of the script, and that its units, list and
  unpacked tarball are then of one generation; `TreeInv` that what has active/ has the
  rest, outside of an unpacking and unless one was cut off; `UpgradeInv` what an
  upgrade knows.

`MCTools` checks `RestoresDoWhatTheySay` and `NodesAreSetUp` under the same names, for
the behaviours of their modules; its `NodesAreSetUp` has as further conjuncts those of
`ExhibitorStart`, `AgentStart` and `DcosNet`.

The last part of `NodeProofs` is about the arguments all these nodes are set up with,
and takes `GenCalc` as an instance. `AcceptedConfigsWork`: for any arguments,
`AcceptedConfigWorks`, with `GivenAssumption` as its hypothesis: numbers are numbers
or junk, lists are lists, subnets have addresses. `CalcInv` says what the validators
have excluded by the time anything is calculated (`SinglesValid`, `SeveralValid`); the
rest is one lemma for each promise. `OneSorted`: the sorted list depends only on which
masters there are, as a list without duplicates has one place for each. `ChecksStay`:
merging checks of other names keeps both, and the merged ones are again valid.
`NetworksStay`: what is done to overlays without IPv4 leaves them valid and their
subnets alone, so that the validator's answer is still about what runs.

`GenProofs`: for any finite set of names, any configurations and targets, and every
order of the search, `NoSilentFailure` (`NoFailureIsSilent`) and
`ResolverFindsTheSolution` (`OrderDecidesNothing`). The assumptions are
`NamesAssumption` (the names are finitely many), `TargetAssumption` and
`ConfigAssumption` (what targets and setters mention are names, and a conditional
scope is under at least one condition). The argument has three parts.

* *The solution*, which knows nothing of the search. `Solution` is defined by a
  recursive function; `RoundsExist` and `SolutionIsARound` give it meaning by the
  induction over a set described above. A value once known stays when more is known
  (`ValueGrows`), so each round adds a name or is the last that changes anything, and
  as many rounds as there are names end in a fixed point (`SolutionIsFixed`). Without
  a cycle it leaves no name open (`AcyclicIsSolved`).
* *What a call knows of it* (`FrameInv`). The conditions behind it are decided, as in
  the solution; the setters it has dropped have an unmet condition, are optional
  beside others, or have a late parameter; those it keeps are not known to. `TheOneLeft`
  says that the value of the one setter left is the solution's.
  Only the calls differ between orders, never what they find.
* *The invariant* (`IInv`). `Agree`: whatever is resolved or late is the solution's,
  and so is an error, unless there is a cycle. `StackInv`: each call on the stack was
  asked for by the one below it, whence a name that is met again closes a cycle
  (`CycleOnStack`) and the error it ends in is excused. `AskedInv`: every name the
  target asks for has been decided, is being calculated, or will still be asked for.
  `ErrorInv`: if any name is in error, some error or unset name has been recorded;
  this is what is inductive: an error without a message always has another name in
  error as its cause.

`GenProofs` takes `GenPackages` and `GenParser` as instances. `ConfigurationsArrive`:
for any arguments, templates and number of runs, `ConfigurationArrives` of that module, with
`PackagesAssumption` as its hypothesis: arguments are finitely many, none has the name
of a builtin, and no two templates write one path, in the packages or in the cloud
config (which `gen/__init__.py:458` leaves to its callers). Texts are built by
`FlattenSeq`, a fold, which gets its meaning by an induction over sequences
(`SeqInduction`, `FlattenSteps`); it follows that what is true of words, and kept by
appending, is true of files (`FlattenClosed`). Three things are so.

* In a rendered file every placeholder is whole, and only for late words of that file
  (`Tidy`); if no value has a marker, every end belongs to a placeholder (`Closed`). So
  it can be rendered exactly where the node knows the late words (`RenderNeeds`).
* `render_late_content` looks at places of the whole text, and still is the sequence of
  what it makes of each word (`CellsConcat`, `FlattenChanges`): the result is what is
  expected of the file (`RenderIsExpected`). What an atom of a file tells is one of its
  words or of what its builtins list, which without `SecretBuiltins` is no secret
  (`BuiltinFacts`, `MixLeaks`).
* `PkgInv` says what each stage has left for the next (`Rendered`, `Extracted`, `Made`,
  `Bootstrapped`), and of the packages of all runs so far that their files are a function
  of the id and of what the history `origin` has of it (`Stored`, `MadeOf`): hence two
  runs give an id the same content.

`TextsAreKept` and `ParserIsTheGrammar` are `TokensPrintTheText` and
`ParserAcceptsTheLanguage` of `GenParser` for any texts, with `TextsAssumption` (a text
is a sequence) as their hypothesis: blocks in blocks to any depth, where TLC sees five
tokens.

* *What is read.* A helper of the tokenizer, unless it fails, splits what it was given
  into what it has read and what it leaves (`IdentifierReads`, `StringReads`,
  `ExpectReads`); so does each kind of token (`ControlReads`, `ReplacementReads`,
  `BraceReads`, `BlobReads`), and what it has read is the token printed (`TokenReads`).
  `LexInv` adds that the end of the text is the last token and no other, and that the
  value of a case is not empty, which is what the parser relies on to tell a case that
  is open from none.
* *What the grammar says.* `InLanguage` is a recursive function on intervals. That there
  is such a function is shown by induction on the length of the interval
  (`DerivesUnfold`); from its equation follows what one token of each kind does to what
  may come after it (`ReadChunk`, `ReadOpening`, `ReadCase`, `ReadBlank`,
  `ReadClosing`, `ReadUnexpected`).
* *What the parser still has to see.* `Viable`: each call in progress can be finished by
  a token of its own, from where the call inside it ends. An action of the parser keeps
  that, both ways (`TopChanges`, `Pushed`, `Popped`), and a token that is refused makes
  it false (`Stuck`). So `ParseInv` is an equivalence: what is left of the tokens is
  `Viable` for the stack if and only if the whole is of the language. An implication
  would only show that what is accepted is right, or that what is right is accepted.

`render` leaves the tokens, so the same holds of `GenTemplate`, but it cannot be stated
of that module (see below).

What is only model-checked, and why:

* liveness, which depends on fairness: `ArchiveStageLeft`, `BootComesUp` (but for its
  first conjunct), both
  `Converges`;
* what is computed by RECURSIVE operators, which the provers cannot be given:
  `TargetIsWhatRenderNeeds` (rendering and targets in `GenTemplate`),
  `TreeBuildsInOrder` and
  `CompleteIsCurrent` (the order of builds is found recursively, ids contain those of
  requirements).

## 4. Not modelled

* pkgpanda: the HTTP API's routes (its mutations are the operations of
  `PkgRepository` and `PkgInstall`); uninstall, roles, users, sysctl; `chown` and
  modes. An activation is alone in `PkgInstall`; its overlap with changes to the
  repository is in `PkgRepository`.
* CockroachDB, etcd and ZooKeeper themselves: only what the programs see of them.
  CockroachDB's replication settings (idempotent statements); etcd discovery's
  ensure-permissions; TLS.
* Admin Router: forwarding to the leader (one condition on a header), authentication
  (delegated to a vendored library), request buffering, agents; names with dots (a
  normalised name is the sequence of its parts here, a string with dots in the
  code).
* gen: conversions of single texts in `calc.py` (URLs, search domains, Erlang
  terms, file contents), the units of the cloud config, several templates of one
  name; the cloud templates (`gen/build_deploy/aws.py`, `azure.py`), which are text
  made in one step and keep nothing.
* release: the builder images, provider set-up, and the commands that store
  nothing.
* The installer's command line and its configuration file's editor; the docker image
  it is shipped in (`make_installer_docker`); which commands and versions the
  preflight looks for (one failing check or none); the text of the scripts.
* Log cleanup, a single program that removes old files.

## 5. What is left

`Backups` and `NodeSetup` could be given abstract specifications (a store with one
value; a value agreed on once) that they implement; their properties say
the same in terms of states.
