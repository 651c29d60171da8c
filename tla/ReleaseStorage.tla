--------------------------- MODULE ReleaseStorage ---------------------------
(***************************************************************************)
(* release: what a build gives is put into a repository on every storage   *)
(* provider, first what others refer to (stage 1), then what users ask for *)
(* by a fixed name (stage 2).  Several releases can run at a time, each    *)
(* can fail at any command and be started again.                           *)
(*                                                                         *)
(* A path is <<repository, artifact>> for what never changes once it is    *)
(* there, <<repository, channel, commit, artifact>> for the release of a   *)
(* commit and <<repository, channel, artifact>> for the last release of a  *)
(* channel.  What such an artifact refers to follows from the release and  *)
(* the repository it was made for.                                         *)
(***************************************************************************)
EXTENDS Naturals, Sequences, SequencesExt, FiniteSets

CONSTANTS
    Builds,         \* what can be released: [commit, bootstrap, packages, config]
    Providers,      \* a sequence of names
    Preferred,      \* the one promote reads from
    InPlace,        \* providers that write a file where it is looked for (local)
    Channels,       \* of the repository of `create'
    Workers,
    MaxJobs

VARIABLES
    storage,    \* of each provider: from path to content
    queue,      \* of each worker: the commands it applies, and which is next
    writing,    \* of each worker: whether that one is half done
    jobs        \* releases begun

vars == <<storage, queue, writing, jobs>>

Testing == "testing"
Stable == "stable"
NoChannel == ""
Nil == <<>>

-----------------------------------------------------------------------------
(* Artifacts                                                               *)

Reproducible(name) == [reproducible |-> name, channel |-> Nil, copy |-> FALSE]
Channel(name) == [reproducible |-> Nil, channel |-> <<name>>, copy |-> FALSE]

make_bootstrap_artifacts(build) ==
    <<Reproducible(<<"bootstrap", build.bootstrap>>), Reproducible(<<"active", build.bootstrap>>),
      Channel("bootstrap.latest"), Channel("complete.latest.json")>>

make_stable_artifacts(build) ==
    make_bootstrap_artifacts(build)
    \o [i \in DOMAIN build.packages |-> Reproducible(<<"package", build.packages[i]>>)]

\* The templates of the providers, and the package with the configuration
\* they refer to
make_channel_artifacts(build) ==
    <<Channel("version"), Reproducible(<<"package", build.config>>), Channel("template")>>

\* What is known of a release: its metadata.json
Metadata(build, repository, channel) ==
    [build |-> build, repository |-> repository, channel |-> channel]

ReproduciblePath(m, name) == <<m.repository, name>>
CommitPath(m, name) == <<m.repository, m.channel, m.build.commit, name>>
ChannelPath(m, name) == <<m.repository, m.channel, name>>

-----------------------------------------------------------------------------
(* make_commands                                                           *)

Command(source, destination, is_reproducible, content) ==
    [source |-> source, destination |-> destination, if_not_exists |-> is_reproducible,
     content |-> content]

\* The first destination is uploaded, or copied from the release promoted;
\* every other one is copied from the first.  No artifact has a destination
\* of both kinds.
Stage1Command(artifact, m, from) ==
    LET copied == artifact.copy IN
    IF artifact.reproducible # Nil
    THEN Command(IF copied THEN ReproduciblePath(from, artifact.reproducible) ELSE Nil,
                 ReproduciblePath(m, artifact.reproducible), TRUE, artifact.reproducible)
    ELSE Command(IF copied THEN CommitPath(from, artifact.channel) ELSE Nil,
                 CommitPath(m, artifact.channel), FALSE, <<artifact.channel, m>>)

Stage2Command(artifact, m) ==
    Command(CommitPath(m, artifact.channel), ChannelPath(m, artifact.channel), FALSE,
            <<artifact.channel, m>>)

make_commands(core, channel, m, from) ==
    LET artifacts == core \o channel \o <<Channel("metadata.json")>>
        named == SelectSeq(artifacts, LAMBDA a : a.channel # Nil)
    IN  [stage1 |-> [i \in DOMAIN artifacts |-> Stage1Command(artifacts[i], m, from)],
         stage2 |-> [i \in DOMAIN named |-> Stage2Command(named[i], m)]]

\* The loops of apply_storage_commands; a release that is at no command is done
Commands(release) == IF release.stage = 1 THEN release.commands.stage1 ELSE release.commands.stage2

AtCommand(release) == release # Nil /\ release.command \in DOMAIN Commands(release)

\* Mutant of NextStage: both stages of a provider, then the next provider
NextStageOfProvider(release) ==
    IF release.stage = 1 THEN [release EXCEPT !.stage = 2, !.command = 1]
    ELSE IF release.provider + 1 \in DOMAIN Providers
         THEN [release EXCEPT !.stage = 1, !.provider = @ + 1, !.command = 1]
         ELSE Nil

\* Every provider has stage 1 before any has stage 2
NextStage(release) ==
    IF release.provider + 1 \in DOMAIN Providers
    THEN [release EXCEPT !.provider = @ + 1, !.command = 1]
    ELSE IF release.stage = 1 THEN [release EXCEPT !.stage = 2, !.provider = 1, !.command = 1]
         ELSE Nil

NextCommand(release) ==
    IF release.command + 1 \in DOMAIN Commands(release) THEN [release EXCEPT !.command = @ + 1]
    ELSE NextStage(release)

apply_storage_commands(commands) ==
    [commands |-> commands, stage |-> 1, provider |-> 1, command |-> 1]

-----------------------------------------------------------------------------
exists(provider, path) == path \in DOMAIN storage[provider]

Begin(w, commands) ==
    /\ queue' = [queue EXCEPT ![w] = apply_storage_commands(commands)]
    /\ jobs' = jobs + 1
    /\ UNCHANGED <<storage, writing>>

Free(w) == queue[w] = Nil /\ jobs < MaxJobs

create(w, build, channel) ==
    /\ Free(w)
    /\ LET m == Metadata(build, Testing, channel)
       IN  Begin(w, make_commands(make_stable_artifacts(build), make_channel_artifacts(build), m, m))

\* Everything of the core must be at the preferred provider, or the download
\* raises; it is copied inside each provider
fetch_key_artifacts(m) ==
    \A i \in DOMAIN make_stable_artifacts(m.build) :
        LET a == make_stable_artifacts(m.build)[i] IN
        exists(Preferred, IF a.reproducible # Nil THEN ReproduciblePath(m, a.reproducible)
                          ELSE CommitPath(m, a.channel))

promote(w, channel) ==
    /\ Free(w)
    /\ LET path == <<Testing, channel, <<"metadata.json">>>> IN
       /\ exists(Preferred, path)
       /\ storage[Preferred][path].whole
       /\ LET from == storage[Preferred][path].content[2]
              core == make_stable_artifacts(from.build)
          IN  /\ fetch_key_artifacts(from)
              /\ Begin(w, make_commands([i \in DOMAIN core |-> [core[i] EXCEPT !.copy = TRUE]],
                                        make_channel_artifacts(from.build),
                                        Metadata(from.build, Stable, NoChannel), from))

-----------------------------------------------------------------------------
(* The commands of the storage providers                                   *)

Store(provider, path, value) ==
    storage' = [storage EXCEPT ![provider] =
                    [q \in DOMAIN @ \cup {path} |-> IF q = path THEN value ELSE @[q]]]

Value(provider, command) ==
    IF command.source = Nil THEN [content |-> command.content, whole |-> TRUE]
    ELSE storage[provider][command.source]

Skip(w) ==
    /\ AtCommand(queue[w]) /\ ~writing[w]
    /\ LET c == Commands(queue[w])[queue[w].command]
       IN  c.if_not_exists /\ exists(Providers[queue[w].provider], c.destination)
    /\ queue' = [queue EXCEPT ![w] = NextCommand(@)]
    /\ UNCHANGED <<storage, writing, jobs>>

Apply(w) ==
    /\ AtCommand(queue[w])
    /\ LET provider == Providers[queue[w].provider]
           c == Commands(queue[w])[queue[w].command]
           half == provider \in InPlace /\ ~writing[w]
       IN  /\ writing[w] \/ ~(c.if_not_exists /\ exists(provider, c.destination))
           /\ c.source = Nil \/ exists(provider, c.source)
           /\ LET value == Value(provider, c)
              IN  Store(provider, c.destination,
                        IF half THEN [value EXCEPT !.whole = FALSE] ELSE value)
           /\ writing' = [writing EXCEPT ![w] = half]
           /\ queue' = IF half THEN queue ELSE [queue EXCEPT ![w] = NextCommand(@)]
    /\ UNCHANGED jobs

\* A command raises, also when what it copies is not there, or the release is
\* killed
Fail(w) ==
    /\ queue[w] # Nil
    /\ queue' = [queue EXCEPT ![w] = Nil]
    /\ writing' = [writing EXCEPT ![w] = FALSE]
    /\ UNCHANGED <<storage, jobs>>

Init ==
    /\ storage = [p \in ToSet(Providers) |-> <<>>]
    /\ queue = [w \in Workers |-> Nil]
    /\ writing = [w \in Workers |-> FALSE]
    /\ jobs = 0

Next ==
    \E w \in Workers :
        \/ \E build \in Builds, channel \in Channels : create(w, build, channel)
        \/ \E channel \in Channels : promote(w, channel)
        \/ Skip(w) \/ Apply(w) \/ Fail(w)

Spec == Init /\ [][Next]_vars

-----------------------------------------------------------------------------
(* Properties                                                              *)

\* Where the links of an artifact lead: to the provider that the template is
\* for, or to the preferred one
Needs(m) ==
    LET artifacts == make_stable_artifacts(m.build) \o make_channel_artifacts(m.build)
    IN  {IF a.reproducible # Nil THEN ReproduciblePath(m, a.reproducible)
         ELSE CommitPath(m, a.channel) : a \in ToSet(artifacts)}

\* "we guarantee that a user is never able to download something such as a
\* cloudformation template which won't work" (release/__init__.py:681-687):
\* what the last release of a channel refers to is on every provider, also
\* while other releases run and after some have failed; and it is there as a
\* whole, except on a provider that writes files in place, where an upload cut
\* short, or still running, passes for the artifact.
WhatIsPublishedWorks ==
    \A i \in DOMAIN Providers, j \in DOMAIN Providers :
        LET p == Providers[i]
            q == Providers[j]
        IN  \A path \in DOMAIN storage[p] :
                (Len(path) = 3 /\ storage[p][path].whole) =>
                    \A need \in Needs(storage[p][path].content[2]) :
                        exists(q, need) /\ (q \notin InPlace => storage[q][need].whole)
=============================================================================
