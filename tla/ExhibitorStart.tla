--------------------------- MODULE ExhibitorStart ---------------------------
(***************************************************************************)
(* A master starts Exhibitor (dcos-exhibitor.service): as root it gets the *)
(* stores for TLS from the bootstrap CA (bootstrap_exhibitor_tls.py) and   *)
(* sets who can read them (set_exhibitor_file_permissions.py), then it     *)
(* starts with them if they are there (start_exhibitor.py).  systemd runs  *)
(* all three again whenever one fails or Exhibitor stops.                  *)
(***************************************************************************)
EXTENDS Naturals, Sequences, FiniteSets

CONSTANTS
    Addresses,      \* that a master may have
    Ensembles,      \* the static ensembles that may be configured
    MaxTroubles     \* bound: kills and changes of the address

VARIABLES
    settings,       \* [enabled, required, url, backend, ensemble, size]
    address,        \* of the master now
    root_cert,      \* /tmp/root-cert.pem is there
    artifacts,      \* [exists, files, ip]: exhibitor-tls-artifacts
    readable,       \* the files of it that dcos_exhibitor can read
    certificates,   \* the address each entity has been signed for
    exhibitor_pc,
    commands,       \* of dcos-bootstrap-ca, still to be run
    detected,       \* what gen_tls_artifacts has from detect_ip
    exhibitor,      \* how Exhibitor was started
    troubles,
    moved,          \* history: the address has changed,
    killed_in       \*   where the programs were killed

vars == <<settings, address, root_cert, artifacts, readable, certificates, exhibitor_pc,
          commands, detected, exhibitor, troubles, moved, killed_in>>
node == <<settings, address, troubles, moved, killed_in>>
disk == <<root_cert, artifacts, readable, certificates>>

Stores == {"truststore", "clientstore", "serverstore"}
Nowhere == "nowhere"
NoArtifacts == [exists |-> FALSE, files |-> {}, ip |-> Nowhere]
Stopped == [tls |-> FALSE, hostname |-> Nowhere, ensemble |-> {}]
Shared == {"AWS_S3", "AZURE", "GCE", "ZK", "SHARED_FS"}

At(label) == exhibitor_pc = label
Goto(label) == exhibitor_pc' = label
Trouble == troubles < MaxTroubles /\ troubles' = troubles + 1

\* A program that ends with status 1 is the end of this start
_fail_and_calculate_status == Goto(IF settings.required THEN "failed" ELSE "permissions")

-----------------------------------------------------------------------------
(* bootstrap_exhibitor_tls.py                                              *)

\* The CA may be reached or not
main ==
    /\ exhibitor_pc \in {"idle", "failed"}
    /\ IF ~settings.enabled THEN _fail_and_calculate_status
       ELSE IF artifacts.exists THEN Goto("permissions")
       ELSE \/ _fail_and_calculate_status
            \/ root_cert /\ settings.url /\ Goto("generate")
    /\ UNCHANGED <<node, disk, commands, detected, exhibitor>>

\* ... and the script may not know the address yet
gen_tls_artifacts ==
    /\ At("generate")
    /\ \/ /\ detected' = address
          /\ commands' = <<"init_server", "init_client", "csr_server", "csr_client", "create">>
          /\ Goto("command")
       \/ Goto("failed") /\ UNCHANGED <<detected, commands>>
    /\ UNCHANGED <<node, disk, exhibitor>>

init_entity ==
    /\ At("command") /\ Head(commands) \in {"init_server", "init_client"}
    /\ commands' = Tail(commands)
    /\ UNCHANGED <<node, disk, exhibitor_pc, detected, exhibitor>>

csr ==
    /\ At("command")
    /\ \E entity \in {"server", "client"} :
          /\ Head(commands) = (IF entity = "server" THEN "csr_server" ELSE "csr_client")
          /\ certificates' = [certificates EXCEPT ![entity] = detected]
    /\ commands' = Tail(commands)
    /\ UNCHANGED <<node, root_cert, artifacts, readable, exhibitor_pc, detected, exhibitor>>

\* dcos-bootstrap-ca writes the files in no known order
create_exhibitor_artifacts ==
    /\ At("command") /\ Head(commands) = "create"
    /\ \/ /\ artifacts.files # Stores
          /\ \E f \in Stores \ artifacts.files :
                artifacts' = [exists |-> TRUE, files |-> artifacts.files \cup {f},
                              ip |-> certificates["server"]]
          /\ UNCHANGED exhibitor_pc
       \/ artifacts.files = Stores /\ Goto("unlink") /\ UNCHANGED artifacts
    /\ UNCHANGED <<node, root_cert, readable, certificates, commands, detected, exhibitor>>

\* Mutant of command_fails: what was written is left
command_fails_keeps ==
    /\ At("command")
    /\ _fail_and_calculate_status
    /\ UNCHANGED <<node, disk, commands, detected, exhibitor>>

command_fails ==
    /\ At("command")
    /\ Goto("remove")
    /\ UNCHANGED <<node, disk, commands, detected, exhibitor>>

_remove_artifact_dir ==
    /\ At("remove")
    /\ IF artifacts.files # {}
       THEN /\ \E f \in artifacts.files :
                  artifacts' = [artifacts EXCEPT !.files = @ \ {f}] /\ readable' = readable \ {f}
            /\ UNCHANGED exhibitor_pc
       ELSE artifacts' = NoArtifacts /\ _fail_and_calculate_status /\ UNCHANGED readable
    /\ UNCHANGED <<node, root_cert, certificates, commands, detected, exhibitor>>

\* unlink raises if someone else has cleaned /tmp
unlink ==
    /\ At("unlink")
    /\ root_cert' = FALSE
    /\ Goto(IF root_cert THEN "permissions" ELSE "failed")
    /\ UNCHANGED <<node, artifacts, readable, certificates, commands, detected, exhibitor>>

-----------------------------------------------------------------------------
(* set_exhibitor_file_permissions.py                                       *)

set_permissions ==
    /\ At("permissions")
    /\ readable' = IF artifacts.files = Stores THEN Stores ELSE readable
    /\ Goto("start")
    /\ UNCHANGED <<node, root_cert, artifacts, certificates, commands, detected, exhibitor>>

-----------------------------------------------------------------------------
(* start_exhibitor.py                                                      *)

\* A shared ensemble begins empty, Exhibitor adds the masters to it
Ensemble ==
    IF settings.backend = "STATIC" THEN settings.ensemble
    ELSE IF settings.size = 1 THEN {address} ELSE {}

CanStart ==
    \/ settings.backend = "STATIC" /\ address \in settings.ensemble
    \/ settings.backend # "STATIC" /\ (settings.size = 1 \/ settings.backend \in Shared)

start ==
    /\ At("start")
    /\ \/ /\ CanStart
          /\ exhibitor' = [tls |-> artifacts.files = Stores, hostname |-> address,
                         ensemble |-> Ensemble]
          /\ Goto("running")
       \/ Goto("failed") /\ UNCHANGED exhibitor
    /\ UNCHANGED <<node, disk, commands, detected>>

-----------------------------------------------------------------------------
Kill ==
    /\ exhibitor_pc \notin {"idle", "failed"} /\ Trouble
    /\ killed_in' = killed_in \cup {IF At("command") THEN Head(commands) ELSE exhibitor_pc}
    /\ Goto("failed") /\ exhibitor' = Stopped
    /\ UNCHANGED <<settings, address, moved, disk, commands, detected>>

ChangeAddress ==
    /\ Trouble
    /\ \E ip \in Addresses \ {address} : address' = ip
    /\ moved' = TRUE
    /\ UNCHANGED <<settings, killed_in, disk, exhibitor_pc, commands, detected, exhibitor>>

CleanTmp ==
    /\ root_cert /\ Trouble
    /\ root_cert' = FALSE
    /\ UNCHANGED <<settings, address, moved, killed_in, artifacts, readable, certificates,
                   exhibitor_pc, commands, detected, exhibitor>>

\* The operator may have put stores there
Init ==
    /\ settings \in [enabled : BOOLEAN, required : BOOLEAN, url : BOOLEAN,
                     backend : {"STATIC", "ZK", "other"}, ensemble : Ensembles, size : {1, 3}]
    /\ address \in Addresses /\ root_cert \in BOOLEAN
    /\ artifacts \in {NoArtifacts, [exists |-> TRUE, files |-> Stores, ip |-> address]}
    /\ readable = {} /\ certificates = [e \in {"server", "client"} |-> Nowhere]
    /\ exhibitor_pc = "idle" /\ commands = <<>> /\ detected = Nowhere /\ exhibitor = Stopped
    /\ troubles = 0 /\ moved = FALSE /\ killed_in = {}

Next ==
    \/ main \/ gen_tls_artifacts \/ init_entity \/ csr \/ create_exhibitor_artifacts
    \/ command_fails \/ _remove_artifact_dir \/ unlink
    \/ set_permissions \/ start
    \/ Kill \/ ChangeAddress \/ CleanTmp

Spec == Init /\ [][Next]_vars

-----------------------------------------------------------------------------
(* Properties                                                              *)

\* Exhibitor runs without TLS where it is required only if a program was
\* killed while it wrote or removed the stores.  With TLS it can read all of
\* them, and they are for its address unless that has changed; a root
\* certificate that was used is gone unless the program was killed before it
\* removed it.  A static ensemble has the master in it.  (bootstrap_exhibitor_
\* tls.py, start_exhibitor.py)
ExhibitorIsSafe ==
    exhibitor_pc = "running" =>
        /\ settings.enabled /\ settings.required =>
              exhibitor.tls \/ killed_in \cap {"create", "remove"} # {}
        /\ exhibitor.tls => Stores \subseteq readable
        /\ exhibitor.tls => moved \/ artifacts.ip = exhibitor.hostname
        /\ exhibitor.tls /\ root_cert /\ certificates["client"] # Nowhere =>
              killed_in \cap {"create", "remove", "unlink"} # {}
        /\ settings.backend = "STATIC" \/ settings.size = 1 =>
              exhibitor.hostname \in exhibitor.ensemble
=============================================================================
