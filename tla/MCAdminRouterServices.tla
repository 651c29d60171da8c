----------------------- MODULE MCAdminRouterServices -----------------------
(* Instances of AdminRouterServices for TLC. *)
EXTENDS AdminRouterServices

Slash == "/"
aa == <<"a", "a">>
bb == <<"b", "b">>
c == <<"c">>
mm == <<"m", "m">>
id == <<"i", "d">>
S == <<Slash>>

MCLeaderNames == {<<mm>>}

Running == [running |-> TRUE, host |-> "h1", ip |-> "i1", ports |-> <<1, 2>>]
Stopped == [running |-> FALSE, host |-> "h2", ip |-> None, ports |-> None]
Staging == [running |-> FALSE, host |-> "h3", ip |-> "i3", ports |-> <<3>>]

App(name) ==
    [name |-> name, labelled |-> TRUE, index |-> 0, container |-> FALSE, mappings |-> <<>>,
     rewrite |-> TRUE, tasks |-> <<Running>>]

(* Apps of every kind the code tells apart. *)
Kinds ==
    LET a == App(S \o aa) IN
    {a, [a EXCEPT !.labelled = FALSE], [a EXCEPT !.index = None], [a EXCEPT !.index = 1],
     [a EXCEPT !.index = 2], [a EXCEPT !.tasks = None], [a EXCEPT !.tasks = <<Stopped>>], [a EXCEPT !.tasks = <<Stopped, Running>>],
     [a EXCEPT !.container = TRUE], [a EXCEPT !.container = TRUE, !.mappings = <<9>>],
     [a EXCEPT !.container = TRUE, !.mappings = <<9, 0>>, !.index = 1],
     [a EXCEPT !.rewrite = FALSE]}

MCApps ==
    {<<>>} \cup {<<a>> : a \in Kinds}
    \cup {<<App(S \o aa \o S \o bb)>>, <<App(aa \o S \o bb \o S), App(S \o bb \o S \o aa)>>,
          <<App(S \o mm), App(S \o c \o S \o bb)>>, <<App(bb \o S \o c \o S \o aa)>>,
          <<App(S \o bb \o S \o c)>>,
          <<App(S \o aa), [App(aa) EXCEPT !.tasks = <<Staging, Running>>]>>}

(* With two tasks that are not running before one that is.                 *)
MCAppsStaging == MCApps \cup {<<[App(S \o aa) EXCEPT !.tasks = <<Staging, Staging, Running>>]>>}

F(name, webui) == [id |-> id, name |-> name, webui |-> webui]

MCFrameworks ==
    {<<>>, <<F(mm, "w1")>>, <<F(aa, "w1"), [F(aa, "w2") EXCEPT !.id = bb]>>,
     <<F(aa \o S \o bb, Empty), [F(bb, Empty) EXCEPT !.id = c]>>, <<F(bb, None), [F(id, "w2") EXCEPT !.id = bb]>>}

MCPaths ==
    {bb \o S, mm \o S, mm \o S \o aa, c \o S \o bb \o S \o aa, aa \o S \o bb,
     aa \o S \o bb \o S \o c, aa \o S \o bb \o S \o aa, aa \o S \o c,
     bb \o S \o c \o S \o aa \o S \o bb}
============================================================================
