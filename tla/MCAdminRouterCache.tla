------------------------- MODULE MCAdminRouterCache -------------------------
(* Instances of AdminRouterCache for TLC. *)
EXTENDS AdminRouterCache, TLC

CONSTANTS w1, w2, t1, t2, t3, r1

(* The first worker may run two handlers at a time, after the lock has     *)
(* expired or was deleted, and serves the request.                         *)
MCWorkerOf ==
    (t1 :> w1) @@ (t2 :> w1) @@ (t3 :> w2) @@ (r1 :> w1)

Symmetry == Permutations({t1, t2})
=============================================================================
