------------------------------ MODULE GenCalc ------------------------------
(***************************************************************************)
(* gen/calc.py: what makes a configuration acceptable, and what is         *)
(* calculated from it.  The validators of one argument are tried first,    *)
(* those of several arguments where all of these are valid (GenResolver    *)
(* has the order in which arguments are resolved).                         *)
(*                                                                         *)
(* A number given as text is the set of the number, or {} when the text is *)
(* none.  An address is a number, 0 one that does not parse.               *)
(***************************************************************************)
EXTENDS Integers, Sequences, SequencesExt, FiniteSetsExt

CONSTANTS
    Given,          \* the arguments of configurations
    SpartanResolvers, \* the addresses spartan listens on
    LongNames,      \* the names of more than 13 characters
    ReservedIps     \* dns_bind_ip_reserved

VARIABLES
    config,     \* the arguments given
    step,       \* "given", "single", "accepted", "rejected", "crashed" or "calculated"
    invalid,    \* the arguments found invalid
    result      \* the arguments calculated

vars == <<config, step, invalid, result>>

Junk == {}
NoPort == {-1}
None == <<>>

\* What arguments are when they are what their names say
IsNumeral(value) == value = Junk \/ \E n \in value : n \in Int /\ value = {n}
IsSubnet(subnet) == subnet.low \in Int /\ subnet.high \in Int
IsList(names) == names = None \/ (names = <<names[1]>> /\ names[1] \in Seq(Range(names[1])))
IsChecks(checks) ==
    checks.node_checks # None =>
        IsList(checks.node_checks.prestart) /\ IsList(checks.node_checks.poststart)
IsNetwork(network) ==
    /\ network = [key \in DOMAIN network |-> network[key]]
    /\ "overlays" \in DOMAIN network =>
          /\ network.overlays \in Seq(Range(network.overlays))
          /\ \A overlay \in Range(network.overlays) :
                "subnet" \in DOMAIN overlay => IsSubnet(overlay.subnet)
GivenAssumption ==
    \A given \in Given :
        /\ IsNumeral(given.num_masters) /\ IsNumeral(given.mesos_log_retention_mb)
        /\ given.master_list \in Seq(Int)
        /\ IsSubnet(given.calico_network_cidr) /\ IsNetwork(given.dcos_overlay_network)
        /\ given.check_config # None => IsChecks(given.check_config)
        /\ IsChecks(given.custom_checks)

-----------------------------------------------------------------------------
(* Validators of one argument                                              *)

validate_true_false(val) == val \in {"true", "false"}
validate_int_in_range(value, low, high) == \E n \in value : low <= n /\ n <= high
AtLeast(value, low) == \E n \in value : low <= n

valid_ipv4_address(ip) == ip # 0
check_duplicates(items) == IsInjective(items)

validate_ip_list(list) ==
    /\ check_duplicates(list)
    /\ \A i \in DOMAIN list : valid_ipv4_address(list[i])

validate_ip_port(node) ==
    /\ node.port # NoPort => validate_int_in_range(node.port, 1, 65535)
    /\ valid_ipv4_address(node.ip)
validate_ip_port_list(list) ==
    check_duplicates(list) /\ \A i \in DOMAIN list : validate_ip_port(list[i])

validate_resolvers(resolvers) ==
    /\ validate_ip_port_list(resolvers)
    /\ \A i \in DOMAIN resolvers : resolvers[i].ip \notin SpartanResolvers

validate_dns_forward_zones(zones) ==
    \A zone \in DOMAIN zones : \A i \in DOMAIN zones[zone] : validate_ip_port(zones[zone][i])

\* The text is compared with the number 1024, from which it always differs
validate_vxlan_vni(vni) == validate_int_in_range(vni, 1, 16777215)

\* A subnet: its version, 0 if it does not parse, and its addresses
Subnet(version, low, high) == [version |-> version, low |-> low, high |-> high]
validate_config_subnet(subnet, version) == subnet.version = version

\* overlay_network: a function from the keys that are there; `enabled' is "true"
\* or "false" where JSON has true or false
validate_overlay(overlay) ==
    /\ "name" \in DOMAIN overlay
    /\ overlay.name \notin LongNames
    /\ {"subnet", "subnet6"} \cap DOMAIN overlay # {}
    /\ "subnet" \in DOMAIN overlay => validate_config_subnet(overlay.subnet, 4)
    /\ "subnet6" \in DOMAIN overlay => validate_config_subnet(overlay.subnet6, 6)
    /\ "enabled" \in DOMAIN overlay => overlay.enabled \in {"true", "false"}

validate_dcos_overlay_network(network) ==
    /\ {"overlays", "vtep_mac_oui", "vtep_subnet", "vtep_subnet6"} \subseteq DOMAIN network
    /\ network.overlays # <<>>
    /\ validate_config_subnet(network.vtep_subnet, 4)
    /\ validate_config_subnet(network.vtep_subnet6, 6)
    /\ "vtep_mtu" \in DOMAIN network => AtLeast(network.vtep_mtu, 552)
    /\ \A i \in DOMAIN network.overlays : validate_overlay(network.overlays[i])

\* A check configuration: its cluster checks, its node checks if it has any,
\* with the names run before and after the start of DC/OS, if given
ListOf(names) == IF names = None THEN {} ELSE Range(names[1])
validate_check_config(checks) ==
    LET node == checks.node_checks IN
    node # None =>
        /\ node.prestart # None \/ node.poststart # None
        /\ DOMAIN node.checks = ListOf(node.prestart) \cup ListOf(node.poststart)

validate_num_masters(n) == \E m \in n : m \in {1, 3, 5, 7, 9}
validate_mesos_log_retention_mb(mb) == AtLeast(mb, 1024)

-----------------------------------------------------------------------------
(* Calculations                                                            *)

\* The checks of DC/OS, by name
calculate_check_config(check_time) ==
    LET names == <<"components_master", "components_agent", "xz", "docker",
                   "cockroachdb_replication">>
                 \o (IF check_time = "true" THEN <<"clock_sync">> ELSE <<>>)
    IN  [cluster_checks |-> <<>>,
         node_checks |-> [checks |-> [n \in Range(names) |-> "dcos"],
                          prestart |-> <<<<>>>>,
                          poststart |-> <<names>>]]

\* What the second has under a key takes the place of what the first has
merged_dict(dict_a, dict_b) ==
    [key \in DOMAIN dict_a \cup DOMAIN dict_b |->
        IF key \in DOMAIN dict_b THEN dict_b[key] ELSE dict_a[key]]

merged_check_config(config_a, config_b) ==
    LET Node(c) == IF c.node_checks = None
                   THEN [checks |-> <<>>, prestart |-> <<<<>>>>, poststart |-> <<<<>>>>]
                   ELSE c.node_checks
        Order(list) == IF list = None THEN <<>> ELSE list[1]
        a == Node(config_a)
        b == Node(config_b)
        checks == merged_dict(a.checks, b.checks)
    IN  [cluster_checks |-> merged_dict(config_a.cluster_checks, config_b.cluster_checks),
         node_checks |->
            IF DOMAIN checks = {} THEN None
            ELSE [checks |-> checks,
                  prestart |-> <<Order(a.prestart) \o Order(b.prestart)>>,
                  poststart |-> <<Order(a.poststart) \o Order(b.poststart)>>]]

calculate_check_config_contents(check_config, custom_checks) ==
    merged_check_config(custom_checks, check_config)

calc_num_masters(master_list) == {Len(master_list)}
master_quorum(num_masters) == num_masters \div 2 + 1

\* Sorted: x is at i if fewer than i are below it and at least i not above it
IsAt(list, i, x) ==
    /\ Cardinality({j \in DOMAIN list : list[j] < x}) < i
    /\ i <= Cardinality({j \in DOMAIN list : list[j] <= x})
calculate_exhibitor_static_ensemble(master_list) ==
    [i \in DOMAIN master_list |-> CHOOSE x \in Range(master_list) : IsAt(master_list, i, x)]

\* int(1 + (mb - 512) / 256 * 10), in exact arithmetic
calculate_mesos_log_retention_count(mb) == 1 + ((mb - 512) * 10) \div 256
calculate_mesos_log_directory_max_files(mb) == 25 + calculate_mesos_log_retention_count(mb)

\* An overlay without an IPv4 subnet is of no use without IPv6
calculate_dcos_overlay_network_json(network, enable_ipv6) ==
    [network EXCEPT !.overlays =
        [i \in DOMAIN @ |-> IF enable_ipv6 = "false" /\ "subnet" \notin DOMAIN @[i]
                            THEN merged_dict(@[i], [enabled |-> "false"]) ELSE @[i]]]

calculate_docker_credentials_dcos_owned(credentials) ==
    IF credentials = "{}" THEN "false" ELSE "true"

calculate_adminrouter_tls_version_override(tls) ==
    SelectSeq(<<"1_0", "1_1", "1_2">>, LAMBDA v : tls[v] = "true")

calculate_dns_bind_ip_blacklist_json(blacklist) == ReservedIps \o blacklist

calculate_mesos_dns_resolvers_str(resolvers) ==
    IF resolvers = <<>> THEN "externalOn" ELSE "resolvers"

\* With a static list of masters their number must be that of the list; what
\* the user gives for it as well is a second setter, and refused
num_masters ==
    IF config.master_discovery = "static" THEN calc_num_masters(config.master_list)
    ELSE config.num_masters

check_config ==
    IF config.check_config = None THEN calculate_check_config(config.check_time)
    ELSE config.check_config

dcos_overlay_network_json ==
    calculate_dcos_overlay_network_json(config.dcos_overlay_network, config.enable_ipv6)

-----------------------------------------------------------------------------
Flags == {"check_time", "enable_ipv6", "dcos_l4lb_enable_ipv6", "dcos_overlay_enable",
          "calico_enabled"}

FailedSingle ==
    LET Failed(name, ok) == IF ok THEN {} ELSE {name} IN
    {flag \in Flags : ~validate_true_false(config[flag])}
    \cup Failed("tls", \A v \in DOMAIN config.tls : validate_true_false(config.tls[v]))
    \cup Failed("num_masters", validate_num_masters(num_masters))
    \cup Failed("master_list", validate_ip_list(config.master_list))
    \cup Failed("resolvers", validate_resolvers(config.resolvers))
    \cup Failed("dns_bind_ip_blacklist", validate_ip_list(config.dns_bind_ip_blacklist))
    \cup Failed("dns_forward_zones", validate_dns_forward_zones(config.dns_forward_zones))
    \cup Failed("mesos_log_retention_mb",
                validate_mesos_log_retention_mb(config.mesos_log_retention_mb))
    \cup Failed("dcos_overlay_network", validate_dcos_overlay_network(config.dcos_overlay_network))
    \cup Failed("calico_network_cidr", validate_config_subnet(config.calico_network_cidr, 4))
    \cup Failed("calico_vxlan_port", validate_int_in_range(config.calico_vxlan_port, 1025, 65535))
    \cup Failed("calico_vxlan_vni", validate_vxlan_vni(config.calico_vxlan_vni))
    \cup Failed("check_config", validate_check_config(check_config))
    \cup Failed("custom_checks", validate_check_config(config.custom_checks))

\* int() of a text that is no number, where no one turns it into an assertion
Raises == num_masters = Junk \/ config.mesos_log_retention_mb = Junk

ValidateSingle ==
    /\ step = "given"
    /\ step' = IF Raises THEN "crashed" ELSE "single"
    /\ invalid' = IF Raises THEN invalid ELSE FailedSingle
    /\ UNCHANGED <<config, result>>

-----------------------------------------------------------------------------
(* Validators of several arguments                                         *)

validate_network_default_name(name, network) ==
    \E i \in DOMAIN network.overlays : network.overlays[i].name = name

Overlaps(a, b) == a.low <= b.high /\ b.low <= a.high

validate_overlay_networks_not_overlap ==
    (config.calico_enabled = "true" /\ config.dcos_overlay_enable = "true") =>
        \A i \in DOMAIN config.dcos_overlay_network.overlays :
            LET overlay == config.dcos_overlay_network.overlays[i] IN
            "subnet" \in DOMAIN overlay => ~Overlaps(overlay.subnet, config.calico_network_cidr)

validate_dcos_l4lb_enable_ipv6 ==
    config.enable_ipv6 = "false" => config.dcos_l4lb_enable_ipv6 = "false"

validate_exhibitor_storage_master_discovery ==
    config.master_discovery # "static" => config.exhibitor_storage_backend # "static"

validate_superuser_credentials_not_partially_given ==
    (config.superuser_uid = "") <=> (config.superuser_public_key = "")

validate_adminrouter_tls_version_present ==
    \E v \in DOMAIN config.tls : config.tls[v] = "true"

(* Mutant of validate_custom_checks: only the names of cluster checks are compared *)
ComparesClusterChecks(custom_checks, dcos_checks) ==
    DOMAIN custom_checks.cluster_checks \cap DOMAIN dcos_checks.cluster_checks = {}

validate_custom_checks(custom_checks, dcos_checks) ==
    LET Node(c) == IF c.node_checks = None THEN {} ELSE DOMAIN c.node_checks.checks IN
    /\ DOMAIN custom_checks.cluster_checks \cap DOMAIN dcos_checks.cluster_checks = {}
    /\ Node(custom_checks) \cap Node(dcos_checks) = {}

FailedMulti ==
    LET Failed(parameters, ok) ==
            IF parameters \cap invalid # {} \/ ok THEN {} ELSE parameters
    IN  Failed({"dcos_overlay_network_default_name", "dcos_overlay_network"},
               validate_network_default_name(config.dcos_overlay_network_default_name,
                                             config.dcos_overlay_network))
        \cup Failed({"dcos_overlay_network", "dcos_overlay_enable", "calico_network_cidr",
                     "calico_enabled"}, validate_overlay_networks_not_overlap)
        \cup Failed({"dcos_l4lb_enable_ipv6", "enable_ipv6"}, validate_dcos_l4lb_enable_ipv6)
        \cup Failed({"master_discovery", "exhibitor_storage_backend"},
                    validate_exhibitor_storage_master_discovery)
        \cup Failed({"superuser_uid", "superuser_public_key"},
                    validate_superuser_credentials_not_partially_given)
        \cup Failed({"tls"}, validate_adminrouter_tls_version_present)
        \cup Failed({"custom_checks", "check_config"},
                    validate_custom_checks(config.custom_checks, check_config))

ValidateMulti ==
    /\ step = "single"
    /\ invalid' = invalid \cup FailedMulti
    /\ step' = IF invalid' = {} THEN "accepted" ELSE "rejected"
    /\ UNCHANGED <<config, result>>

Calculate ==
    /\ step = "accepted"
    /\ \E n \in num_masters, mb \in config.mesos_log_retention_mb :
         result' =
            [num_masters |-> n,
             master_quorum |-> master_quorum(n),
             static_ensemble |-> calculate_exhibitor_static_ensemble(config.master_list),
             retention_count |-> calculate_mesos_log_retention_count(mb),
             max_files |-> calculate_mesos_log_directory_max_files(mb),
             overlay_network |-> dcos_overlay_network_json,
             checks |-> calculate_check_config_contents(check_config, config.custom_checks),
             docker_credentials_dcos_owned |->
                calculate_docker_credentials_dcos_owned(config.docker_credentials),
             tls_versions |-> calculate_adminrouter_tls_version_override(config.tls),
             blacklist |-> calculate_dns_bind_ip_blacklist_json(config.dns_bind_ip_blacklist),
             mesos_dns |-> calculate_mesos_dns_resolvers_str(config.resolvers)]
    /\ step' = "calculated"
    /\ UNCHANGED <<config, invalid>>

Init ==
    /\ config \in Given
    /\ step = "given"
    /\ invalid = {}
    /\ result = None

Next == ValidateSingle \/ ValidateMulti \/ Calculate

Spec == Init /\ [][Next]_vars

-----------------------------------------------------------------------------
(* Properties                                                              *)

\* Every master computes the same ids for the ZooKeeper ensemble, in whatever
\* order the operator of each has written the list, and the number of masters
\* that quorums are counted by is that of the masters there are
OneEnsemble ==
    /\ \A p \in SetToSeqs(Range(config.master_list)) :
          calculate_exhibitor_static_ensemble(p) = result.static_ensemble
    /\ config.master_discovery = "static" =>
          Cardinality(Range(config.master_list)) = result.num_masters

\* What the node runs is a valid check configuration with every check of DC/OS
\* as it is, and every check of the operator
ChecksAreKept ==
    LET Node(c) == IF c.node_checks = None THEN <<>> ELSE c.node_checks.checks
        Within(f, g) == \A n \in DOMAIN f : n \in DOMAIN g /\ g[n] = f[n]
    IN  /\ validate_check_config(result.checks)
        /\ \A c \in {check_config, config.custom_checks} :
              /\ Within(Node(c), Node(result.checks))
              /\ Within(c.cluster_checks, result.checks.cluster_checks)

\* Where IPv6 is off nothing that needs it is on, and where Calico and the
\* overlays are both on, no overlay shares an IPv4 address with Calico's network.
\* (Overlays are not compared with each other, nor with vtep_subnet.)
NetworksAreApart ==
    LET overlays == Range(result.overlay_network.overlays)
        On(o) == "enabled" \in DOMAIN o => o.enabled = "true"
    IN  /\ validate_dcos_overlay_network(result.overlay_network)
        /\ config.enable_ipv6 = "false" =>
              /\ config.dcos_l4lb_enable_ipv6 = "false"
              /\ \A o \in overlays : On(o) => "subnet" \in DOMAIN o
        /\ (config.calico_enabled = "true" /\ config.dcos_overlay_enable = "true") =>
              \A o \in overlays : "subnet" \in DOMAIN o =>
                  Range([a \in o.subnet.low..o.subnet.high |-> a])
                  \cap (config.calico_network_cidr.low..config.calico_network_cidr.high) = {}

\* A configuration that no validator refuses gives a cluster that can work,
\* although every validator sees only the arguments it names
\* (gen/calc.py:39-1132 and the lists of the entry).
AcceptedConfigWorks ==
    step = "calculated" =>
        /\ OneEnsemble
        /\ ChecksAreKept
        /\ NetworksAreApart

\* "VXLAN VNI {} should not conflict with that of dcos overlay", which is 1024
\* (gen/calc.py:1128-1132).
VniIsFree == step = "calculated" => config.calico_vxlan_vni # {1024}
=============================================================================
