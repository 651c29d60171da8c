------------------------- MODULE ClusterMembership -------------------------
(***************************************************************************)
(* What the discovery program of a replicated database promises: a list of *)
(* members that only members-to-be add themselves to, that never loses a   *)
(* member which has not asked to leave, and that a node is on before it    *)
(* serves.                                                                 *)
(***************************************************************************)
CONSTANT Nodes

VARIABLES members, serving

Init == members = {} /\ serving = {}

Join(n) == members' = members \cup {n} /\ UNCHANGED serving

Serve(n) ==
    /\ n \in members
    /\ serving' = serving \cup {n}
    /\ UNCHANGED members

Stop(n) == serving' = serving \ {n} /\ UNCHANGED members

Next == \E n \in Nodes : Join(n) \/ Serve(n) \/ Stop(n)

Spec == Init /\ [][Next]_<<members, serving>>
=============================================================================
