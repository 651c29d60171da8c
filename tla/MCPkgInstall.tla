---------------------------- MODULE MCPkgInstall ----------------------------
(* Instances of PkgInstall for TLC: bin, the unit directory, environment,    *)
(* active and active.buildinfo.full.json stand for the active names, in the  *)
(* order of get_active_names; two package sets share one unit.  A behaviour  *)
(* with host = "off" is one of PkgInstall, with an operator who also runs    *)
(* "pkgpanda setup"; the others are boots, of PkgSetup, on a node of their   *)
(* own.                                                                      *)
EXTENDS PkgInstall, TLC

CONSTANTS s1, s2, u1, u2

MCDirs == {1, 2, 4}
MCUnitsOf == (s1 :> {u1}) @@ (s2 :> {u1, u2})

VARIABLES
    live, prepared, archived, inside, files, waiting, started, stage,
    step, at, rest, what, wanted, failures, asked,
    host, bootstrap, packages, left, exposed

nodeVars == <<live, prepared, archived, inside, files, waiting, started, stage,
              step, at, rest, what, wanted, failures, asked,
              host, bootstrap, packages, left, exposed>>

Boot == INSTANCE PkgSetup WITH
    active <- live, new <- prepared, old <- archived, nested <- inside,
    unit <- files, staged <- waiting, running <- started, progress <- stage,
    pc <- step, i <- at, todo <- rest, mode <- what, target <- wanted,
    faults <- failures, requests <- asked,
    MaxFaults <- 2, MaxRequests <- 2,
    Bin <- 1, Environment <- 3, Active <- 4, Configured <- s2

NoNode ==
    /\ live = <<>> /\ prepared = <<>> /\ archived = <<>> /\ inside = {}
    /\ files = <<>> /\ waiting = <<>> /\ started = <<>> /\ stage = "none"
    /\ step = "idle" /\ at = 1 /\ rest = {} /\ what = "" /\ wanted = ""
    /\ failures = 0 /\ asked = 0
    /\ host = "off" /\ bootstrap = FALSE /\ packages = FALSE /\ left = {} /\ exposed = FALSE

MCInit == Init /\ (NoNode \/ Boot!Fresh)

MCNext ==
    \/ host = "off" /\ Next /\ UNCHANGED nodeVars
    \/ host # "off" /\ Boot!NextBoot /\ UNCHANGED vars

MCSpec == MCInit /\ [][MCNext]_<<vars, nodeVars>> /\ Fairness /\ Boot!BootFairness

BootComesUp == Boot!BootComesUp
=============================================================================
