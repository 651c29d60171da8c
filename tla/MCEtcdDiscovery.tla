-------------------------- MODULE MCEtcdDiscovery --------------------------
(* Instances of EtcdDiscovery for TLC. *)
EXTENDS EtcdDiscovery

CONSTANTS n1, n2, n3
=============================================================================
