------------------------ MODULE MCCockroachRegister ------------------------
(* Instances of CockroachRegister for TLC. *)
EXTENDS CockroachRegister

CONSTANTS n1, n2, n3
=============================================================================
