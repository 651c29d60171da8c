------------------------------ MODULE PkgBuild ------------------------------
(***************************************************************************)
(* pkgpanda/build: the packages of a source tree are built in the order of *)
(* their requirements, into a cache where the name of a package is a hash  *)
(* of everything it is built from; the bootstrap tarball and the file      *)
(* complete.latest.json name what belongs to the tree as it is now.        *)
(*                                                                         *)
(* A package is a pair of a name and a variant, both numbers, variant 0    *)
(* the default one.  Hashes are taken as injective: an id is a record of   *)
(* what is hashed.  Steps can fail from outside (downloads, docker) and a  *)
(* build can be killed between any two of them, Faults times in all;       *)
(* sources are edited only while no build runs.                            *)
(***************************************************************************)
EXTENDS Naturals, Sequences, SequencesExt, FiniteSets, FiniteSetsExt

CONSTANTS
    Starts,         \* trees to start from, each with a number of faults
    MaxVersion,     \* bound: versions of the sources of a package
    Remote          \* "none", or "first" when the repository has what the first
                    \* version of the tree gives

VARIABLES
    tree,           \* [packages, upstream, requires, infos, file]
    source,         \* the version of each package's sources
    pc, job, error, \* the builder
    todo,           \* packages to build, then trees to complete
    current,        \* the id of the package, or of the bootstrap, being built
    built,          \* the ids built by this run of the builder
    latest,         \* {variant}latest in the cache folder of a package
    cache,          \* package tarballs
    downloads,      \* the version a package's source archive in the cache is of
    bootstraps,     \* bootstrap tarballs: from id to "partial" or "complete"
    actives,        \* ids with an active.json
    complete,       \* complete.latest.json of each tree
    faults,
    interrupted     \* history: bootstrap tarballs whose making was cut short

vars == <<tree, source, pc, job, error, todo, current, built, latest, cache, downloads,
          bootstraps, actives, complete, faults, interrupted>>

Nil == <<>>
NoError == ""
TreeTask(i) == <<0, i>>         \* in todo
disk == <<latest, cache, downloads, bootstraps, actives, complete>>

Before(a, b) == a[1] < b[1] \/ (a[1] = b[1] /\ a[2] > b[2])
Sorted(packages) == SetToSortSeq(packages, Before)

\* Packages of the tree hide those of the upstream with their name
packages == tree.packages \cup {p \in tree.upstream : \A q \in tree.packages : q[1] # p[1]}
Requires(p) == tree.requires[p]

-----------------------------------------------------------------------------
(* Package sets and the order of builds                                    *)

Variant(info, name) == IF name \in DOMAIN info.variants THEN info.variants[name] ELSE 0

RECURSIVE WithDependencies(_)
WithDependencies(tuples) ==
    LET more == tuples \cup UNION {Requires(p) : p \in tuples \cap packages}
    IN  IF more = tuples THEN tuples ELSE WithDependencies(more)

Tuples(info, names) == WithDependencies({<<n, Variant(info, n)>> : n \in names})

CoreNames(info) ==
    IF info.core # {} THEN info.core ELSE {p[1] : p \in packages} \ info.excludes

AllPackages(info) == Tuples(info, CoreNames(info))
BootstrapPackages(info) ==
    IF info.bootstrap # {} THEN Tuples(info, info.bootstrap) ELSE AllPackages(info)

ValidTuples(info, tuples) ==
    \A p \in tuples : p[2] = Variant(info, p[1]) /\ p[1] \notin info.excludes

\* Excluded names are refused in the lists; a package that is not there is
\* met when its requirements are asked for, before the checks
PackageSetError(info) ==
    IF (info.core \cup info.bootstrap) \cap info.excludes # {} THEN "excluded"
    ELSE IF ~(AllPackages(info) \cup BootstrapPackages(info) \subseteq packages) THEN "unknown"
    ELSE IF ~ValidTuples(info, AllPackages(info)) THEN "invalid"
    ELSE IF ~ValidTuples(info, BootstrapPackages(info)) THEN "invalid"
    ELSE IF ~(BootstrapPackages(info) \subseteq AllPackages(info)) THEN "not a subset"
    ELSE NoError

RECURSIVE Visit(_, _)
\* Mutant of Visit: a package is put into the order before what it requires
VisitsLate(p, state) ==
    LET Require(s, r) ==
            IF s.error # NoError \/ r \in Range(s.order) THEN s
            ELSE IF r \in s.visited THEN [s EXCEPT !.error = "circular"]
            ELSE Visit(r, s)
    IN  FoldLeft(Require, [state EXCEPT !.visited = @ \cup {p}, !.order = Append(@, p)],
                 Sorted(Requires(p)))

Visit(p, state) ==
    LET Require(s, r) ==
            IF s.error # NoError \/ r \in Range(s.order) THEN s
            ELSE IF r \in s.visited THEN [s EXCEPT !.error = "circular"]
            ELSE Visit(r, s)
        after == FoldLeft(Require, [state EXCEPT !.visited = @ \cup {p}], Sorted(Requires(p)))
    IN  IF after.error # NoError THEN after ELSE [after EXCEPT !.order = Append(@, p)]

VisitPackages(state, info) ==
    FoldLeft(LAMBDA s, p : IF s.error # NoError \/ p \in s.visited THEN s ELSE Visit(p, s),
             state, Sorted(AllPackages(info)))

\* The order in which packages are built, or why there is none
Plan ==
    LET errors == {PackageSetError(tree.infos[i]) : i \in DOMAIN tree.infos} \ {NoError}
    IN  IF errors # {} THEN [order |-> <<>>, visited |-> {}, error |-> CHOOSE e \in errors : TRUE]
        ELSE FoldLeft(VisitPackages, [order |-> <<>>, visited |-> {}, error |-> NoError], tree.infos)

-----------------------------------------------------------------------------
(* Ids                                                                     *)

PackageId(p, version, deps) == [package |-> p, version |-> version, requires |-> deps]

\* The packages one package needs, each at its last build.  missing is the
\* first one that has none.
RECURSIVE Dependencies(_, _)
Dependencies(to_check, deps) ==
    LET r == Head(to_check)
        Stop(why, p) == [error |-> why, missing |-> p, ids |-> {}]
    IN  IF to_check = <<>> THEN [error |-> NoError, missing |-> Nil, ids |-> {latest[d] : d \in deps}]
        ELSE IF r \in deps THEN Dependencies(Tail(to_check), deps)
        ELSE IF \E d \in deps : d[1] = r[1] THEN Stop("several variants", Nil)
        ELSE IF latest[r] = Nil THEN Stop("no last build", r)
        ELSE IF latest[r] \notin cache THEN Stop("no tarball", Nil)
        ELSE Dependencies(Tail(to_check) \o Sorted(Requires(r)), deps \cup {r})

\* What a build from nothing gives for a version of all sources
RECURSIVE IdIn(_, _)
IdIn(p, versions) ==
    PackageId(p, versions[p], {IdIn(r, versions) : r \in WithDependencies(Requires(p))})

BootstrapId(ids) == ids
FirstVersions == [p \in DOMAIN source |-> 1]
RemotePackage(id) == Remote = "first" /\ id = IdIn(id.package, FirstVersions)
RemoteBootstrap(id) ==
    Remote = "first" /\ id = BootstrapId({IdIn(i.package, FirstVersions) : i \in id})

-----------------------------------------------------------------------------
(* The builder                                                             *)

Stop(why) ==
    /\ pc' = "idle" /\ error' = why /\ todo' = <<>> /\ current' = Nil
    /\ UNCHANGED <<tree, source, job, built, interrupted>>

Goto(label) == pc' = label /\ UNCHANGED <<tree, source, job, error, interrupted>>

BuildTree ==
    /\ pc = "idle"
    /\ job' = "tree"
    /\ built' = <<>>
    /\ IF Plan.error # NoError
       THEN error' = Plan.error /\ UNCHANGED <<pc, todo>>
       ELSE /\ error' = NoError
            /\ todo' = Plan.order \o [i \in DOMAIN tree.infos |-> TreeTask(i)]
            /\ pc' = "next"
    /\ UNCHANGED <<tree, source, current, disk, faults, interrupted>>

\* mkpanda in the folder of a package, one that belongs to a tree
BuildPackage(p, recursive) ==
    /\ pc = "idle" /\ Plan.error = NoError /\ p \in Range(Plan.order)
    /\ job' = IF recursive THEN "recursive" ELSE "single"
    /\ built' = <<>> /\ error' = NoError /\ todo' = <<p>> /\ pc' = "next"
    /\ UNCHANGED <<tree, source, current, disk, faults, interrupted>>

\* The next package to build has its id computed.  A recursive build first
\* builds what has no last build.
Resolve ==
    /\ pc = "next" /\ todo # <<>> /\ Head(todo)[1] # 0
    /\ LET p == Head(todo)
           deps == Dependencies(Sorted(Requires(p)), {})
       IN  IF deps.error = NoError
           THEN /\ current' = PackageId(p, source[p], deps.ids)
                /\ Goto("package")
                /\ UNCHANGED <<todo, built>>
           ELSE IF deps.missing # Nil /\ job = "recursive"
           THEN /\ todo' = <<deps.missing>> \o todo
                /\ Goto("next")
                /\ UNCHANGED <<current, built>>
           ELSE Stop(deps.error)
    /\ UNCHANGED <<disk, faults>>

\* The package is in the cache: latest names it, and the next one follows
Done(id) ==
    /\ latest' = [latest EXCEPT ![id.package] = id]
    /\ built' = [q \in DOMAIN built \cup {id.package} |->
                    IF q = id.package THEN id ELSE built[q]]
    /\ todo' = Tail(todo)
    /\ current' = Nil
    /\ Goto("next")

UpToDate ==
    /\ pc = "package" /\ current \in cache
    /\ Done(current)
    /\ UNCHANGED <<cache, downloads, bootstraps, actives, complete, faults>>

try_fetch_by_id ==
    /\ pc = "package" /\ current \notin cache
    /\ \/ /\ RemotePackage(current)
          /\ cache' = cache \cup {current}
          /\ Done(current)
          /\ UNCHANGED faults
       \/ /\ faults' = IF RemotePackage(current) THEN faults - 1 ELSE faults
          /\ faults' \in Nat
          /\ Goto("clean")
          /\ UNCHANGED <<latest, cache, todo, current, built>>
    /\ UNCHANGED <<downloads, bootstraps, actives, complete>>

\* What an earlier build left in src and result is removed, then the sources are put in
\* place.  An archive that is not the one asked for is kept aside, and the
\* next build downloads it again.
checkout ==
    /\ pc = "clean"
    /\ LET p == current.package
           there == IF p \in DOMAIN downloads THEN downloads[p] ELSE source[p]
       IN  IF p \in tree.file
              THEN IF there = source[p]
                   THEN /\ downloads' = [q \in DOMAIN downloads \cup {p} |->
                                            IF q = p THEN there ELSE downloads[q]]
                        /\ Goto("docker") /\ UNCHANGED <<todo, current, built>>
                   ELSE /\ downloads' = [q \in DOMAIN downloads \ {p} |-> downloads[q]]
                        /\ Stop("corrupt download")
              ELSE Goto("docker") /\ UNCHANGED <<downloads, todo, current, built>>
    /\ UNCHANGED <<latest, cache, bootstraps, actives, complete, faults>>

\* The build script fails, or leaves the unit of a reserved service
docker_fails ==
    /\ pc \in {"clean", "docker"} /\ faults > 0
    /\ faults' = faults - 1
    /\ Stop("failed")
    /\ UNCHANGED <<latest, cache, downloads, bootstraps, actives, complete>>

docker_run ==
    /\ pc = "docker"
    /\ latest' = [latest EXCEPT ![current.package] = current]
    /\ Goto("bundle")
    /\ UNCHANGED <<todo, current, built, cache, downloads, bootstraps, actives, complete,
                   faults>>

Bundle ==
    /\ pc = "bundle"
    /\ cache' = cache \cup {current}
    /\ Done(current)
    /\ UNCHANGED <<downloads, bootstraps, actives, complete, faults>>

-----------------------------------------------------------------------------
(* Bootstrap tarballs, and what is complete                                *)

Tree == tree.infos[Head(todo)[2]]
Put(f, k, v) == [x \in DOMAIN f \cup {k} |-> IF x = k THEN v ELSE f[x]]

make_bootstrap_tarball ==
    /\ pc = "next" /\ todo # <<>> /\ Head(todo)[1] = 0
    /\ current' = BootstrapId({built[p] : p \in BootstrapPackages(Tree)})
    /\ Goto(IF current' \in DOMAIN bootstraps THEN "complete" ELSE "fetch bootstrap")
    /\ UNCHANGED <<todo, built, disk, faults>>

fetch_bootstrap ==
    /\ pc = "fetch bootstrap"
    /\ \/ /\ RemoteBootstrap(current)
          /\ bootstraps' = Put(bootstraps, current, "complete")
          /\ Goto("fetch active")
          /\ UNCHANGED faults
       \/ /\ faults' = IF RemoteBootstrap(current) THEN faults - 1 ELSE faults
          /\ faults' \in Nat
          /\ Goto("activate")
          /\ UNCHANGED bootstraps
    /\ UNCHANGED <<todo, current, built, latest, cache, downloads, actives, complete>>

\* Mutant of fetch_active: when active.json cannot be fetched, the bootstrap tarball will do
FetchActiveOrNot ==
    /\ pc = "fetch active"
    /\ \/ actives' = actives \cup {current} /\ UNCHANGED faults
       \/ faults > 0 /\ faults' = faults - 1 /\ UNCHANGED actives
    /\ Goto("complete")
    /\ UNCHANGED <<todo, current, built, latest, cache, downloads, bootstraps, complete>>

fetch_active ==
    /\ pc = "fetch active"
    /\ \/ /\ actives' = actives \cup {current}
          /\ Goto("complete")
          /\ UNCHANGED faults
       \/ /\ faults > 0
          /\ faults' = faults - 1
          /\ Goto("activate")
          /\ UNCHANGED actives
    /\ UNCHANGED <<todo, current, built, latest, cache, downloads, bootstraps, complete>>

Activate ==
    /\ pc = "activate"
    /\ actives' = actives \cup {current}
    /\ Goto("tar")
    /\ UNCHANGED <<todo, current, built, latest, cache, downloads, bootstraps, complete,
                   faults>>

\* The tarball is written where it is looked for
make_tar ==
    /\ pc \in {"tar", "taring"}
    /\ bootstraps' = Put(bootstraps, current, IF pc = "tar" THEN "partial" ELSE "complete")
    /\ Goto(IF pc = "tar" THEN "taring" ELSE "complete")
    /\ UNCHANGED <<todo, current, built, latest, cache, downloads, actives, complete,
                   faults>>

write_complete ==
    /\ pc = "complete"
    /\ complete' = [complete EXCEPT ![Head(todo)[2]] =
                        [bootstrap |-> current, packages |-> {latest[p] : p \in AllPackages(Tree)},
                         sources |-> source]]
    /\ todo' = Tail(todo) /\ current' = Nil
    /\ Goto("next")
    /\ UNCHANGED <<built, latest, cache, downloads, bootstraps, actives, faults>>

Finish ==
    /\ pc = "next" /\ todo = <<>>
    /\ pc' = "idle" /\ error' = "none"
    /\ UNCHANGED <<tree, source, job, todo, current, built, disk, faults, interrupted>>

Kill ==
    /\ pc # "idle" /\ faults > 0
    /\ faults' = faults - 1
    /\ interrupted' = IF /\ pc \in {"fetch active", "activate", "tar", "taring"}
                         /\ current \in DOMAIN bootstraps
                      THEN interrupted \cup {current} ELSE interrupted
    /\ pc' = "idle" /\ error' = "killed" /\ todo' = <<>> /\ current' = Nil
    /\ UNCHANGED <<tree, source, job, built, disk>>

\* The sources of a package become those of another version, also of one they were before
Edit(p, v) ==
    /\ pc = "idle" /\ source[p] # v /\ faults > 0
    /\ source' = [source EXCEPT ![p] = v]
    /\ faults' = faults - 1
    /\ UNCHANGED <<tree, pc, job, error, todo, current, built, disk, interrupted>>

Init ==
    /\ \E s \in Starts : tree = s.tree /\ faults = s.faults
    /\ source = [p \in packages |-> 1]
    /\ pc = "idle" /\ job = "none" /\ error = NoError /\ todo = <<>> /\ current = Nil /\ built = <<>>
    /\ latest = [p \in DOMAIN tree.requires |-> Nil] /\ cache = {} /\ downloads = <<>>
    /\ bootstraps = <<>> /\ actives = {}
    /\ complete = [i \in DOMAIN tree.infos |-> Nil]
    /\ interrupted = {}

Next ==
    \/ BuildTree \/ Resolve \/ UpToDate \/ try_fetch_by_id \/ checkout \/ docker_fails
    \/ docker_run \/ Bundle \/ make_bootstrap_tarball \/ fetch_bootstrap \/ fetch_active
    \/ Activate \/ make_tar \/ write_complete \/ Finish \/ Kill
    \/ \E p \in packages :
        \/ \E v \in 1..MaxVersion : Edit(p, v)
        \/ \E recursive \in BOOLEAN : BuildPackage(p, recursive)

Spec == Init /\ [][Next]_vars

-----------------------------------------------------------------------------
(* Properties                                                              *)

Cyclic(tuples) == \E ps \in SUBSET tuples : ps # {} /\ \A p \in ps : Requires(p) \cap ps # {}

\* A build of the whole tree meets every package after all it requires, each
\* built in the same run, whatever earlier builds, of single packages too,
\* have left; it has no order only when there is none (build_tree, and the
\* checks of _build for the last builds of what a package requires)
TreeBuildsInOrder ==
    job = "tree" =>
        /\ error \notin {"no last build", "no tarball", "several variants"}
        /\ error = "circular" => \E i \in DOMAIN tree.infos : Cyclic(AllPackages(tree.infos[i]))
        /\ pc \in {"package", "clean", "docker", "bundle"} =>
              current = IdIn(current.package, source)
        /\ error = "none" =>
              \A i \in DOMAIN tree.infos :
                  LET info == tree.infos[i] IN
                  \A p \in AllPackages(info) :
                      /\ p \in DOMAIN built /\ p[2] = Variant(info, p[1])
                      /\ Requires(p) \subseteq AllPackages(info)

\* What complete.latest.json names is in the cache and is what the sources it
\* was made from give, however many builds failed, were killed or built
\* single packages from other versions.  A bootstrap tarball is as complete as
\* it is named unless a build was killed while it was written (_build,
\* make_bootstrap_tarball, build_tree).
CompleteIsCurrent ==
    \A i \in DOMAIN complete : complete[i] # Nil =>
        LET c == complete[i]
            info == tree.infos[i]
            IdsOf(ps) == {IdIn(p, c.sources) : p \in ps}
        IN  /\ c.packages = IdsOf(AllPackages(info))
            /\ c.bootstrap = BootstrapId(IdsOf(BootstrapPackages(info)))
            /\ c.packages \subseteq cache
            /\ c.bootstrap \in DOMAIN bootstraps
            /\ \/ c.bootstrap \in interrupted
               \/ bootstraps[c.bootstrap] = "complete" /\ c.bootstrap \in actives
=============================================================================
