------------------------------ MODULE DcosNet -------------------------------
(***************************************************************************)
(* The helpers of dcos-net on a node: dcos-net-setup.py, which prepares    *)
(* the node before dcos-net starts, gen_resolvconf.py, which a timer runs  *)
(* to choose the name servers, and dcos-net-watchdog.py, which kills       *)
(* dcos-net when it does not answer.  The three run concurrently; systemd  *)
(* starts what has failed or was killed again.                             *)
(***************************************************************************)
EXTENDS Naturals, FiniteSets

CONSTANTS
    Servers,            \* NAME_SERVERS: addresses that dcos-net answers at
    Resolvers,          \* of the configuration,
    OtherPorts,         \*   those of them with a port that is not 53
    MAX_SERVER_COUNT,
    MaxEvents           \* bound: kills and what else happens on the node

VARIABLES
    net,                \* where dcos-net is: in a step of its setup, or "up"
    answering,          \* servers
    rules,              \* how many copies of the iptables rule
    link,               \* the interface is there
    networkd,           \* its configuration: the package's, the file, what it has loaded
    unit,               \* networkd is "active", "inactive" or "absent"
    checked,            \* of gen_resolvconf: servers still to ask, or where it is
    up,                 \*   and those that answered
    resolv,             \* the servers in resolv.conf, or Partial
    busy,               \* it is a mount point, as in a container
    watch,              \* of the watchdog: the round, and servers still to ask
    net_events,
    missed,             \* history: networkd's restart failed or was cut off,
    changed,            \*   servers changed since gen_resolvconf began,
    cut_off,            \*   gen_resolvconf was killed,
    steady              \*   servers that have answered since the round began

setupVars == <<rules, link, networkd, unit, missed>>
resolvVars == <<checked, up, resolv, busy, cut_off>>
vars == <<net, answering, setupVars, resolvVars, watch, net_events, changed, steady>>

Partial == {"partial"}

Event == net_events < MaxEvents /\ net_events' = net_events + 1
At(step) == net = step
Goto(step) == net' = step

\* When dcos-net ends none of its servers answers
Answers(s) ==
    /\ answering' = s
    /\ steady' = steady \cap s
    /\ changed' = (changed \/ s # answering)

-----------------------------------------------------------------------------
(* dcos-net-setup.py                                                       *)

NotSetup == UNCHANGED <<answering, resolvVars, watch, net_events, changed, steady>>

\* iptables: the rule is added if the check finds none
check_rule ==
    /\ At("rule")
    /\ Goto(IF rules > 0 THEN "config" ELSE "add")
    /\ UNCHANGED setupVars /\ NotSetup

add_rule ==
    /\ At("add")
    /\ rules' = rules + 1 /\ Goto("config")
    /\ UNCHANGED <<link, networkd, unit, missed>> /\ NotSetup

\* Mutant of copy_file: a file that exists is not compared
copy_missing_file ==
    IF networkd.file # "missing" THEN Goto("link") /\ UNCHANGED networkd
    ELSE networkd' = [networkd EXCEPT !.file = networkd.source] /\ Goto("restart")

copy_file ==
    IF networkd.file = networkd.source THEN Goto("link") /\ UNCHANGED networkd
    ELSE \/ networkd' = [networkd EXCEPT !.file = "partial"] /\ UNCHANGED net
         \/ networkd' = [networkd EXCEPT !.file = networkd.source] /\ Goto("restart")

add_config ==
    /\ At("config")
    /\ IF unit = "absent" THEN Goto("link") /\ UNCHANGED networkd ELSE copy_file
    /\ UNCHANGED <<rules, link, unit, missed>> /\ NotSetup

\* Only if the unit is active
restart_unit ==
    /\ At("restart")
    /\ \/ unit # "active" /\ Goto("link") /\ UNCHANGED <<networkd, missed>>
       \/ /\ unit = "active" /\ Goto("link")
          /\ networkd' = [networkd EXCEPT !.loaded = networkd.file] /\ UNCHANGED missed
       \/ unit = "active" /\ Goto("rule") /\ missed' = TRUE /\ UNCHANGED networkd
    /\ UNCHANGED <<rules, link, unit>> /\ NotSetup

\* "File exists" is no error
add_link ==
    /\ At("link")
    /\ link' = TRUE /\ Goto("up")
    /\ UNCHANGED <<rules, networkd, unit, missed>> /\ NotSetup

-----------------------------------------------------------------------------
(* gen_resolvconf.py                                                       *)

NotResolv == UNCHANGED <<net, answering, setupVars, watch, net_events, steady>>

begin ==
    /\ checked = {"idle"}
    /\ checked' = Servers /\ up' = {} /\ changed' = FALSE
    /\ UNCHANGED <<resolv, busy, cut_off>> /\ NotResolv

check_server ==
    /\ \E ns \in checked \cap Servers :
          /\ up' = IF ns \in answering THEN up \cup {ns} ELSE up
          /\ checked' = IF checked = {ns} THEN {"write"} ELSE checked \ {ns}
    /\ UNCHANGED <<resolv, busy, cut_off, changed>> /\ NotResolv

Smaller(a, b) == IF a < b THEN a ELSE b
FallbackServers ==
    LET usable == Resolvers \ OtherPorts
    IN  {s \in SUBSET usable : Cardinality(s) = Smaller(MAX_SERVER_COUNT, Cardinality(usable))}
Contents == IF up # {} THEN {up} ELSE FallbackServers

\* A mount point can not be replaced, it is written
write_resolv ==
    /\ checked = {"write"}
    /\ \E c \in Contents :
          \/ resolv' = c /\ checked' = {"idle"}
          \/ busy /\ resolv # c /\ resolv' = Partial /\ UNCHANGED checked
    /\ UNCHANGED <<up, busy, cut_off, changed>> /\ NotResolv

-----------------------------------------------------------------------------
(* dcos-net-watchdog.py                                                    *)

NotWatchdog == UNCHANGED <<setupVars, resolvVars, net_events>>

\* One server that answers ends the loop
loop ==
    /\ watch.round = 0
    /\ watch' = [round |-> 1, ask |-> Servers]
    /\ steady' = answering
    /\ UNCHANGED <<net, answering, changed>> /\ NotWatchdog

watchdog ==
    /\ watch.round # 0
    /\ \E ns \in watch.ask :
          watch' = IF ns \in answering THEN [round |-> 0, ask |-> {}]
                   ELSE [watch EXCEPT !.ask = @ \ {ns}]
    /\ UNCHANGED <<net, answering, changed, steady>> /\ NotWatchdog

\* Mutant of sleep: no second round
no_second_round ==
    /\ watch = [round |-> 1, ask |-> {}]
    /\ watch' = [round |-> 2, ask |-> {}]
    /\ steady' = answering
    /\ UNCHANGED <<net, answering, changed>> /\ NotWatchdog

sleep ==
    /\ watch = [round |-> 1, ask |-> {}]
    /\ watch' = [round |-> 2, ask |-> Servers]
    /\ steady' = answering
    /\ UNCHANGED <<net, answering, changed>> /\ NotWatchdog

\* The configuration may say that it does not kill
kill ==
    /\ watch = [round |-> 2, ask |-> {}]
    /\ watch' = [round |-> 0, ask |-> {}]
    /\ \/ /\ Goto("rule") /\ Answers({})
          /\ missed' = (missed \/ (At("restart") /\ unit = "active"))
       \/ UNCHANGED <<net, answering, changed, steady, missed>>
    /\ UNCHANGED <<rules, link, networkd, unit, resolvVars, net_events>>

\* What is not a timeout ends the watchdog, and systemd starts it again
unexpected_error ==
    /\ watch.ask # {} /\ Event
    /\ watch' = [round |-> 0, ask |-> {}]
    /\ UNCHANGED <<net, answering, changed, steady, setupVars, resolvVars>>

-----------------------------------------------------------------------------
StartOrStopAnswering ==
    /\ At("up") /\ Event
    /\ \E s \in SUBSET Servers : Answers(s)
    /\ UNCHANGED <<net, setupVars, resolvVars, watch>>

SetupFails ==
    /\ ~At("up") /\ Event
    /\ Goto("rule")
    /\ missed' = (missed \/ (At("restart") /\ unit = "active"))
    /\ UNCHANGED <<answering, rules, link, networkd, unit, resolvVars, watch, changed, steady>>

CutOff ==
    /\ checked # {"idle"} /\ Event
    /\ checked' = {"idle"} /\ cut_off' = TRUE
    /\ UNCHANGED <<net, answering, setupVars, up, resolv, busy, watch, changed, steady>>

Flush ==
    /\ rules > 0 /\ Event
    /\ rules' = 0
    /\ UNCHANGED <<net, answering, link, networkd, unit, missed, resolvVars, watch, changed, steady>>

Upgrade ==
    /\ networkd.source = "old" /\ Event
    /\ networkd' = [networkd EXCEPT !.source = "new"]
    /\ Goto("rule") /\ Answers({})
    /\ missed' = (missed \/ (At("restart") /\ unit = "active"))
    /\ UNCHANGED <<rules, link, unit, resolvVars, watch>>

Init ==
    /\ net = "rule" /\ answering = {}
    /\ rules \in {0, 1} /\ link \in BOOLEAN
    /\ networkd = [source |-> "old", file |-> "missing", loaded |-> "missing"]
    /\ unit \in {"active", "inactive", "absent"}
    /\ checked = {"idle"} /\ up = {} /\ resolv = {"host"} /\ busy \in BOOLEAN
    /\ watch = [round |-> 0, ask |-> {}]
    /\ net_events = 0 /\ missed = FALSE /\ changed = FALSE /\ cut_off = FALSE /\ steady = {}

Next ==
    \/ check_rule \/ add_rule \/ add_config \/ restart_unit \/ add_link
    \/ begin \/ check_server \/ write_resolv
    \/ loop \/ watchdog \/ sleep \/ kill \/ unexpected_error
    \/ StartOrStopAnswering \/ SetupFails \/ CutOff \/ Flush \/ Upgrade

Spec == Init /\ [][Next]_vars

-----------------------------------------------------------------------------
(* Properties                                                              *)

\* While dcos-net is up: its rule is there once, or was flushed; networkd runs
\* with the configuration of the package, unless a restart of it failed or was
\* cut off.  When gen_resolvconf has run, resolv.conf has just the servers that
\* answer, or, if none does, resolvers that it can have, unless a server
\* changed meanwhile or it was killed.  The watchdog kills dcos-net only if no
\* server has answered throughout either round.
NetIsSetUp ==
    /\ rules < 2
    /\ At("up") /\ unit = "active" => networkd.loaded = networkd.source \/ missed
    /\ resolv = Partial => cut_off \/ checked = {"write"}
    /\ checked = {"idle"} /\ ~changed /\ ~cut_off /\ resolv # {"host"} =>
          \/ answering # {} /\ resolv = answering
          \/ answering = {} /\ resolv \in FallbackServers
    /\ watch.round # 0 /\ watch.ask = {} => steady = {}
=============================================================================
