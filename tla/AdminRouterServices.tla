------------------------ MODULE AdminRouterServices ------------------------
(***************************************************************************)
(* How Admin Router finds the service a request for /service/... is for    *)
(* (src/packages/adminrouter/extra/src/lib): what cache.lua keeps of the   *)
(* answers of Marathon and Mesos, how util.lua takes service names and     *)
(* paths apart, and the search of service.lua.                             *)
(*                                                                         *)
(* Names and paths are sequences of characters: their normalisation        *)
(* decides which requests reach which service.  A normalised name is the   *)
(* sequence of its parts (the code joins them with dots).                  *)
(***************************************************************************)
EXTENDS Integers, SequencesExt

CONSTANTS
    Sep,              \* the character "/"
    Apps,             \* answers of Marathon: sequences of apps
    Frameworks,       \* answers of Mesos: sequences of frameworks
    Paths,            \* what follows /service/ in the URIs of requests
    LeaderNames,      \* the normalised names of the root Marathon and Metronome
    ResolveLimit,
    DnsAddress,       \* an address Mesos DNS knows
    Empty,            \* an empty webui_url
    None

(* No separator comes first, or after another.                             *)
Clean(p) ==
    /\ p # <<>> => p[1] # Sep
    /\ \A i \in 2..Len(p) : p[i] = Sep => p[i - 1] # Sep

(* nginx merges slashes and redirects a single part to one with a slash.   *)
ASSUME PathAssumption ==
    /\ ResolveLimit \in Nat \ {0}
    /\ \A p \in Paths :
         /\ p \in Seq(ToSet(p)) /\ p # <<>> /\ Clean(p)
         /\ \E i \in DOMAIN p : p[i] = Sep

(* Answers are lists of apps, and their names are sequences of characters. *)
ASSUME AppAssumption ==
    \A apps \in Apps :
        /\ apps \in Seq(ToSet(apps))
        /\ \A app \in ToSet(apps) : app.name \in Seq(ToSet(app.name))

VARIABLES
    svcapps,    \* the entry of Marathon's apps, by normalised name, or None
    mesosstate, \* the entry of Mesos' frameworks, by id and by name, or None
    req         \* a request that is being resolved

vars == <<svcapps, mesosstate, req>>

----------------------------------------------------------------------------
(* util.lua: names and paths *)

(* Characters up to a separator make a field, and once there are limit     *)
(* fields everything else is the rest.                                     *)
NothingScanned == [fields |-> <<>>, rest |-> <<>>]

ScanOne(acc, c, limit) ==
    IF c # Sep \/ Len(acc.fields) = limit
    THEN [fields |-> acc.fields, rest |-> Append(acc.rest, c)]
    ELSE [fields |-> IF acc.rest = <<>> THEN acc.fields ELSE Append(acc.fields, acc.rest),
          rest |-> <<>>]

Scan(path, limit) ==
    FoldLeft(LAMBDA acc, c : ScanOne(acc, c, limit), NothingScanned, path)

(* A rest of one character is taken for nothing.                           *)
Remains(rest) == Len(rest) > 1

(* The first limit fields of a path, and whether there are more.           *)
Component(path, limit) ==
    LET s == Scan(path, limit)
        full == Len(s.fields) = limit
    IN [fields |-> IF ~full /\ Remains(s.rest) THEN Append(s.fields, s.rest) ELSE s.fields,
        more |-> full /\ Remains(s.rest)]

NoLimit == -1

(* Mutant of NormalizedName: the name is not turned round. *)
NormalizedName_Plain(name) == Component(name, NoLimit).fields

NormalizedName(name) == Reverse(Component(name, NoLimit).fields)

----------------------------------------------------------------------------
(* cache.lua: Marathon's apps *)

(* Elements are removed from the list that is being iterated over. *)
Processed(tasks) ==
    FoldLeft(LAMBDA ts, i : IF i <= Len(ts) /\ ~ts[i].running THEN RemoveAt(ts, i) ELSE ts,
             tasks, [i \in 1..Len(tasks) |-> i])

Task(app) == Head(Processed(app.tasks))

(* Lua counts from 1. *)
PortIndex(app) == app.index + 1

Host(app) == IF app.container THEN Task(app).ip ELSE Task(app).host

FixedPort(app) == app.container /\ app.mappings[PortIndex(app)] # 0

Port(app) == IF FixedPort(app) THEN app.mappings[PortIndex(app)]
                               ELSE Task(app).ports[PortIndex(app)]

(* What is not labelled for Admin Router, or has no address, is skipped. *)
Routable(app) ==
    /\ app.labelled /\ app.index # None
    /\ app.tasks # None /\ Processed(app.tasks) # <<>>
    /\ Host(app) # None
    /\ app.container => PortIndex(app) \in DOMAIN app.mappings
    /\ ~FixedPort(app) => Task(app).ports # None /\ PortIndex(app) \in DOMAIN Task(app).ports

(* "app" and "running" are not stored: they name the origin of the entry. *)
AppEntry(app) == [url |-> <<Host(app), Port(app)>>, rewrite |-> app.rewrite,
                  app |-> app.name, running |-> Task(app).running]

(* The last of several apps of a name wins. *)
StoreOne(acc, app) ==
    LET name == NormalizedName(app.name) IN
    IF Routable(app)
    THEN [k \in DOMAIN acc \cup {name} |-> IF k = name THEN AppEntry(app) ELSE acc[k]]
    ELSE acc

StoredApps(apps) == FoldLeft(StoreOne, <<>>, apps)

(* cache.lua: Mesos' frameworks *)
FrameworkEntry(f) == [name |-> NormalizedName(f.name), webui |-> f.webui]

StoredFrameworks(fs) ==
    [byId   |-> FoldLeft(LAMBDA acc, f : (<<f.id>> :> FrameworkEntry(f)) @@ acc, <<>>, fs),
     byName |-> FoldLeft(LAMBDA acc, f : (NormalizedName(f.name) :> FrameworkEntry(f)) @@ acc, <<>>, fs)]

----------------------------------------------------------------------------
(* The caches are refreshed while requests come and go, and become too old.*)
NoRequest == [pc |-> "idle"]

Init ==
    /\ svcapps = None
    /\ mesosstate = None
    /\ req = NoRequest

MarathonAnswers ==
    /\ \E apps \in Apps : svcapps' = StoredApps(apps)
    /\ UNCHANGED <<mesosstate, req>>

MesosAnswers ==
    /\ \E fs \in Frameworks : mesosstate' = StoredFrameworks(fs)
    /\ UNCHANGED <<svcapps, req>>

CacheTooOld ==
    /\ \/ svcapps' = None /\ UNCHANGED mesosstate
       \/ mesosstate' = None /\ UNCHANGED svcapps
    /\ UNCHANGED req

----------------------------------------------------------------------------
(* service.lua *)

(* The request keeps what it has read of the two entries. *)
Begin ==
    /\ req.pc = "idle"
    /\ \E p \in Paths : req' = [pc |-> "fetch", path |-> p, svc |-> svcapps]
    /\ UNCHANGED <<svcapps, mesosstate>>

FetchMesos ==
    /\ req.pc = "fetch"
    /\ req' = [pc |-> "resolve", path |-> req.path, svc |-> req.svc, mes |-> mesosstate,
               level |-> 1, result |-> None]
    /\ UNCHANGED <<svcapps, mesosstate>>

(* The part of the path that is tried as the name of a service. *)
RealPath == Component(req.path, req.level).fields
ServiceName == Reverse(RealPath)

IsApp == ServiceName \notin LeaderNames /\ ServiceName \in DOMAIN req.svc

(* Framework ids come first. *)
Framework ==
    CASE ServiceName \in DOMAIN req.mes.byId -> req.mes.byId[ServiceName]
      [] ServiceName \in DOMAIN req.mes.byName /\ ServiceName \notin DOMAIN req.mes.byId ->
           req.mes.byName[ServiceName]
      [] OTHER -> [name |-> <<>>, webui |-> None]

Answer(result) == req' = [req EXCEPT !.pc = "done", !.result = result]
Routed(url) == [status |-> 200, service |-> ServiceName, url |-> url]
NotFound == [status |-> 404]
Unavailable == [status |-> 503]

(* Another, longer part of the path is tried, unless there is none left. *)
NextLevel ==
    IF Component(req.path, req.level).more /\ req.level < ResolveLimit
    THEN req' = [req EXCEPT !.pc = "resolve", !.level = @ + 1]
    ELSE Answer(NotFound)

(* Mutant of Resolve: Mesos goes on without Marathon. *)
Resolve_NoPriority ==
    /\ req.pc = "resolve"
    /\ IF req.svc # None /\ IsApp THEN Answer(Routed(req.svc[ServiceName].url))
       ELSE IF req.mes = None THEN Answer(Unavailable)
       ELSE CASE Framework.webui = None  -> NextLevel
              [] Framework.webui = Empty -> req' = [req EXCEPT !.pc = "dns"]
              [] OTHER                   -> Answer(Routed(Framework.webui))
    /\ UNCHANGED <<svcapps, mesosstate>>

Resolve ==
    /\ req.pc = "resolve"
    /\ IF ServiceName \notin LeaderNames /\ req.svc = None THEN Answer(Unavailable)
       ELSE IF IsApp THEN Answer(Routed(req.svc[ServiceName].url))
       ELSE IF req.mes = None THEN Answer(Unavailable)
       ELSE CASE Framework.webui = None  -> NextLevel
              [] Framework.webui = Empty -> req' = [req EXCEPT !.pc = "dns"]
              [] OTHER                   -> Answer(Routed(Framework.webui))
    /\ UNCHANGED <<svcapps, mesosstate>>

(* Mesos DNS knows the task of the framework, does not, or fails. *)
MesosDnsAnswers ==
    /\ req.pc = "dns"
    /\ \/ Answer(Routed(DnsAddress))
       \/ NextLevel
       \/ Answer(Unavailable)
    /\ UNCHANGED <<svcapps, mesosstate>>

Finish ==
    /\ req.pc = "done"
    /\ req' = NoRequest
    /\ UNCHANGED <<svcapps, mesosstate>>

Next == \/ MarathonAnswers \/ MesosAnswers \/ CacheTooOld
        \/ Begin \/ FetchMesos \/ Resolve \/ MesosDnsAnswers \/ Finish

Spec == Init /\ [][Next]_vars

(* What the service is asked for: the path without the name of the service,*)
(* unless its app wants the whole.                                         *)
JoinOne(acc, f) == IF acc = <<>> THEN f ELSE acc \o <<Sep>> \o f
Joined(fields) == FoldLeft(JoinOne, <<>>, fields)

Rewrites == IsApp => req.svc[ServiceName].rewrite

Rest == SubSeq(req.path, Len(Joined(RealPath)) + 1, Len(req.path))
RewrittenPath == IF Rest = <<>> THEN <<Sep>> ELSE Rest
----------------------------------------------------------------------------
(* The fields of a path, by definition: the n-th are the characters, none  *)
(* a separator, up to which n fields begin.                                *)
Begins(path, i) == path[i] # Sep /\ (i = 1 \/ path[i - 1] = Sep)
Number(path, i) == Cardinality({j \in 1..i : Begins(path, j)})
Field(path, n) == {i \in DOMAIN path : path[i] # Sep /\ Number(path, i) = n}
Fields(path) ==
    [n \in 1..Number(path, Len(path)) |-> SubSeq(path, Min(Field(path, n)), Max(Field(path, n)))]

(* Paths and names whose last field the code does not see. *)
Lost(path) == path # <<>> /\ Begins(path, Len(path))

Answered(status) == req.pc = "done" /\ req.result.status = status

AppsOf(fields) ==
    {k \in DOMAIN req.svc : ~Lost(req.svc[k].app) /\ Fields(req.svc[k].app) = fields}

IsService(fields) ==
    LET name == Reverse(fields)
        byId == req.mes.byId
        byName == req.mes.byName
        webui == IF name \in DOMAIN byId THEN byId[name].webui
                 ELSE IF name \in DOMAIN byName THEN byName[name].webui ELSE None
    IN \/ req.svc # None /\ AppsOf(fields) # {} /\ name \notin LeaderNames
       \/ req.mes # None /\ webui \notin {None, Empty}

(* "service name: group1/group2/foobar, normalized: foobar.group2.group1"  *)
(* (util.lua:276), the same for the labels of apps and for what is asked   *)
(* for: a request goes to the app whose name its path begins with, the one *)
(* with the fewest fields, before any framework of that name, and is       *)
(* refused only if there is none.  What the service is then asked for is   *)
(* what follows its name in the path.  Excepted are paths and names that   *)
(* end with a field of a single character.                                 *)
ShortestNameRouted ==
    LET fields == Fields(req.path)
        prefix(n) == SubSeq(fields, 1, n)
        noShorter(n) == \A m \in 1..n - 1 : ~IsService(prefix(m))
    IN /\ Answered(404) /\ ~Lost(req.path) =>
            noShorter(1 + (IF Len(fields) < ResolveLimit THEN Len(fields) ELSE ResolveLimit))
       /\ Answered(200) /\ ~Lost(req.path) =>
            LET n == Len(req.result.service) IN
            /\ req.result.service = Reverse(prefix(n))
            /\ noShorter(n)
            /\ req.svc # None /\ req.result.service \notin LeaderNames =>
                 \A k \in AppsOf(prefix(n)) : req.result.url = req.svc[k].url
            /\ Rewrites => Fields(RewrittenPath) = SubSeq(fields, n + 1, Len(fields))

(* The tests of the answers 503 and 404 when Marathon or Mesos do not      *)
(* answer: that there is no such service is said only by one who has both  *)
(* entries; without Marathon's, a leader's name is all that is resolved.   *)
NotFoundIsCertain ==
    /\ Answered(404) => req.mes # None
    /\ (Answered(404) \/ Answered(200)) /\ req.svc = None => ServiceName \in LeaderNames

(* "Process only tasks in TASK_RUNNING state" (cache.lua:208): the address *)
(* of an app is the one of a task that is running.                         *)
EntriesAreRunning == svcapps # None => \A k \in DOMAIN svcapps : svcapps[k].running

=============================================================================
