------------------------------- MODULE MCGen --------------------------------
(* The resolver, the template language, the calculations, the packages and *)
(* the installer, one model per behaviour: `which' says whose; the         *)
(* variables of the others stay as they are.  The parser's stack is the    *)
(* resolver's.                                                             *)
EXTENDS GenResolver

CONSTANTS Texts, Arguments, Filters, Given, SpartanResolvers, LongNames, ReservedIps,
          Sources, Templates, Generations, RoleArguments, MaxRuns, MaxJobs, Tries

VARIABLES
    which,
    text, rest, tokens, token_pos, phase, error, ast, given, arguments, missing,
    config, step, invalid, result,
    entered, templates, ca, stage, runs, argument_dict, late_variables, rendered, late_files,
    artifacts, cloud, node, origin, surprise,
    run, served, script, upgrades, job, host, left_runs, left_jobs, disturbed, promised, mishaps

templateVars == <<text, rest, tokens, token_pos, phase, error, ast, given, arguments, missing>>
resolverVars == <<sources, walk, state, errors, unset, late, outcome>>
calcVars == <<config, step, invalid, result>>
packageVars == <<entered, templates, ca, stage, runs, argument_dict, late_variables, rendered,
                 late_files, artifacts, cloud, node, origin, surprise>>
installerVars == <<run, served, script, upgrades, job, host, left_runs, left_jobs, disturbed,
                   promised, mishaps>>

T == INSTANCE GenTemplate
C == INSTANCE GenCalc
P == INSTANCE GenPackages
I == INSTANCE Installer

NoTemplate ==
    /\ text = <<>> /\ rest = <<>> /\ tokens = <<>> /\ token_pos = 0 /\ phase = ""
    /\ error = "" /\ ast = <<>> /\ given = <<>> /\ arguments = <<>> /\ missing = <<>>
NoResolver ==
    /\ sources = <<>> /\ walk = <<>> /\ state = <<>> /\ errors = {} /\ unset = {}
    /\ late = {} /\ outcome = ""
NoCalc == config = <<>> /\ step = "" /\ invalid = {} /\ result = <<>>

NoPackages ==
    /\ entered = <<>> /\ templates = <<>> /\ ca = 0 /\ stage = "" /\ runs = 0
    /\ argument_dict = <<>> /\ late_variables = <<>> /\ rendered = {} /\ late_files = {}
    /\ artifacts = <<>> /\ cloud = <<>> /\ node = <<>> /\ origin = <<>> /\ surprise = FALSE

NoInstaller ==
    /\ run = <<>> /\ served = <<>> /\ script = <<>> /\ upgrades = {} /\ job = <<>> /\ host = <<>>
    /\ left_runs = 0 /\ left_jobs = 0 /\ disturbed = {} /\ promised = {} /\ mishaps = {}

AnyInit ==
    \/ which = "template" /\ T!TemplateInit /\ NoResolver /\ NoCalc /\ NoPackages /\ NoInstaller
    \/ which = "resolver" /\ Init /\ NoTemplate /\ NoCalc /\ NoPackages /\ NoInstaller
    \/ /\ which = "calc" /\ C!Init /\ stack = <<>>
       /\ NoTemplate /\ NoResolver /\ NoPackages /\ NoInstaller
    \/ /\ which = "packages" /\ P!Init /\ stack = <<>>
       /\ NoTemplate /\ NoResolver /\ NoCalc /\ NoInstaller
    \/ /\ which = "installer" /\ I!Init /\ stack = <<>>
       /\ NoTemplate /\ NoResolver /\ NoCalc /\ NoPackages

\* Versions are interchangeable: the one generated first is 1
FirstIsVersionOne == left_runs = MaxRuns => run'.of.version \in {0, 1}

AnyNext ==
    /\ UNCHANGED which
    /\ \/ /\ which = "template" /\ T!TemplateNext
          /\ UNCHANGED <<resolverVars, calcVars, packageVars, installerVars>>
       \/ /\ which = "resolver" /\ Next
          /\ UNCHANGED <<templateVars, calcVars, packageVars, installerVars>>
       \/ /\ which = "calc" /\ C!Next
          /\ UNCHANGED <<templateVars, resolverVars, packageVars, installerVars, stack>>
       \/ /\ which = "packages" /\ P!Next
          /\ UNCHANGED <<templateVars, resolverVars, calcVars, installerVars, stack>>
       \/ /\ which = "installer" /\ I!Next /\ FirstIsVersionOne
          /\ UNCHANGED <<templateVars, resolverVars, calcVars, packageVars, stack>>

AnySpec ==
    AnyInit /\ [][AnyNext]_<<which, stack, templateVars, resolverVars, calcVars, packageVars, installerVars>>

TokensPrintTheText == which = "template" => T!TokensPrintTheText
ParserAcceptsTheLanguage == which = "template" => T!ParserAcceptsTheLanguage
TargetIsWhatRenderNeeds == which = "template" => T!TargetIsWhatRenderNeeds
AcceptedConfigWorks == which = "calc" => C!AcceptedConfigWorks
VniIsFree == which = "calc" => C!VniIsFree
ConfigurationArrives ==
    /\ which = "packages" => P!ConfigurationArrives
    /\ which = "installer" => I!InstallationsAreWhole

-----------------------------------------------------------------------------
(* Texts put together from tokens, and those damaged by the loss of one    *)
(* piece                                                                   *)

X == <<"x">>
Control(words) == <<"{", "%", " ">> \o words \o <<" ", "%", "}">>

StructureTokens ==
    {Control(<<"switch", " ", "x">>), Control(<<"case", " ", "'a'">>),
     Control(<<"case", " ", "'b'">>), Control(<<"endswitch">>),
     Control(<<"for", " ", "x", " ", "in", " ", "l">>), Control(<<"endfor">>),
     <<"nl">>, <<"{", "{", " ", "x", " ", "}", "}">>}
AllTokens ==
    StructureTokens
    \cup {<<"#">>, <<"{">>, <<"{", "{", "{", "{">>}
    \cup {<<"{", "{", " ", "x", " ", "|", " ", f, " ", "}", "}">> : f \in {"f", "g"}}

WithoutPiece(s, i) == SubSeq(s, 1, i - 1) \o SubSeq(s, i + 1, Len(s))
Damaged(s) == {WithoutPiece(s, i) : i \in DOMAIN s}

MCTexts ==
    {a \o b \o c : a, b, c \in AllTokens}
    \cup {a \o b \o c \o d \o e : a, b, c, d, e \in StructureTokens}
    \cup UNION {Damaged(a \o b) : a, b \in AllTokens}

Str(v) == [type |-> "str", v |-> v]
List(vs) == [type |-> "list", items |-> vs]
Values == {Str(<<"'a'">>), Str(<<"'b'">>), Str(<<"'c'">>)}
Lists == {List(<<>>), List(<<Str(<<"'a'">>)>>),
          List(<<Str(<<"'b'">>), Str(<<"'c'">>)>>)}
Optional(name, values) == {<<>>} \cup {name :> v : v \in values}
MCArguments ==
    {x @@ l : x \in Optional(X, Values \cup {List(<<>>)}),
              l \in Optional(<<"l">>, Lists \cup {Str(<<"'a'">>)})}
MCFilters == {<<"f">>}

-----------------------------------------------------------------------------
(* Every name has no setter, a default or a calculation; a may decide      *)
(* which setters the others get, and so may b                              *)

MCSetters(n) ==
    {<<>>, <<"default", Text("u")>>}
    \cup {<<k, Function(ps)>> : k \in {"default", "must"}, ps \in {{m} : m \in Names \ {n}} \cup {Names \ {n}}}
    \cup {<<"must", Asserting(Names \ {n})>>}
Entry(f, conditional) ==
    [must |-> [n \in {m \in Names : f[m] # <<>> /\ f[m][1] = "must"} |-> f[n][2]],
     default |-> [n \in {m \in Names : f[m] # <<>> /\ f[m][1] = "default"} |-> f[n][2]],
     conditional |-> conditional]
Nothing == [must |-> <<>>, default |-> <<>>, conditional |-> <<>>]
Case(conditions, k, m, value) ==
    <<[conditions |-> conditions,
       scope |-> Entry([o \in Names |-> IF o = m THEN <<k, value>> ELSE <<>>], <<>>)]>>
IfA == <<<<"a", "u">>>>
IfB == <<<<"b", "v">>>>
Conditionals ==
    {<<>>, Case(IfA, "must", "c", Text("v")), Case(IfB, "default", "c", Text("u")),
     Case(IfA, "must", "b", Text("v")) \o Case(IfA \o IfB, "must", "c", Text("u"))}
    \cup {Case(IfA, "must", m, Function({"c"})) : m \in {"b", "c"}}
Extensions == {Nothing, Entry([n \in Names |-> IF n = "b" THEN <<"must", Function({"c"})>> ELSE <<>>], <<>>)}
ScopeTarget == [variables |-> {"b"}, sub_scopes |-> ("a" :> ("u" :> [variables |-> {"c"}, sub_scopes |-> <<>>]
                                                @@ "v" :> [variables |-> {}, sub_scopes |-> <<>>]))]
Flat == [variables |-> {"a", "b", "c"}, sub_scopes |-> <<>>]
UserAndLate == {[user |-> <<>>, late |-> {}], [user |-> <<>>, late |-> {"c"}],
                [user |-> "b" :> "v", late |-> {"c"}],
                [user |-> ("b" :> "u") @@ ("c" :> "v"), late |-> {}]}
MCTargets ==
    {Flat, ScopeTarget} \cup {ScopeTarget.sub_scopes["a"][v] : v \in {"u", "v"}}
MCConfigs ==
    {c \in {[base |-> Entry([a |-> fa, b |-> fb, c |-> fc], cond), extension |-> ext,
             user |-> ul.user, late |-> ul.late,
             invalid |-> {<<"b", "v">>}, clash |-> {{"b", "c"}}, target |-> t] :
                fa \in {f \in MCSetters("a") : f = <<>> \/ f[2].parameters # {"b", "c"}},
                fb \in MCSetters("b"),
                fc \in {f \in MCSetters("c") : f = <<>> \/ f[2].parameters # {"a", "b"}},
                cond \in Conditionals, ext \in Extensions, ul \in UserAndLate, t \in {Flat, ScopeTarget}} :
        c.extension = Nothing \/ (c.target = Flat /\ c.late = {})}

-----------------------------------------------------------------------------
(* Configurations: the defaults with two groups of arguments changed       *)

Subnet(version, low, high) == [version |-> version, low |-> low, high |-> high]
Net4(low, high) == Subnet(4, low, high)
Net6 == Subnet(6, 0, 0)
NoNet == Subnet(0, 0, 0)
Vtep == [vtep_mac_oui |-> "70:B3", vtep_subnet |-> Net4(1, 2), vtep_subnet6 |-> Net6]
Overlay4 == [name |-> "dcos", subnet |-> Net4(10, 14)]
Overlay6 == [name |-> "dcos6", subnet6 |-> Net6]

NodeChecks(checks, prestart, poststart) ==
    [cluster_checks |-> <<>>,
     node_checks |-> [checks |-> checks, prestart |-> prestart, poststart |-> poststart]]
NoChecks == [cluster_checks |-> <<>>, node_checks |-> <<>>]
Tls(a, b, c) == ("1_0" :> a) @@ ("1_1" :> b) @@ ("1_2" :> c)

Defaults ==
    [check_time |-> "true", enable_ipv6 |-> "true", dcos_l4lb_enable_ipv6 |-> "true",
     dcos_overlay_enable |-> "true", calico_enabled |-> "true",
     tls |-> Tls("false", "false", "true"),
     master_discovery |-> "static", exhibitor_storage_backend |-> "static",
     master_list |-> <<2, 1, 3>>, num_masters |-> {3},
     resolvers |-> <<[ip |-> 8, port |-> {-1}]>>, dns_bind_ip_blacklist |-> <<>>,
     dns_forward_zones |-> <<>>, mesos_log_retention_mb |-> {4000},
     dcos_overlay_network |-> [overlays |-> <<Overlay4, Overlay6>>] @@ Vtep,
     dcos_overlay_network_default_name |-> "dcos",
     calico_network_cidr |-> Net4(20, 24), calico_vxlan_port |-> {64000},
     calico_vxlan_vni |-> {4096}, check_config |-> <<>>, custom_checks |-> NoChecks,
     superuser_uid |-> "", superuser_public_key |-> "", docker_credentials |-> "{}"]

Upstreams == {<<>>, <<[ip |-> 8, port |-> {53}]>>, <<[ip |-> 8, port |-> {}]>>,
              <<[ip |-> 0, port |-> {-1}]>>, <<[ip |-> 9, port |-> {65536}], [ip |-> 8, port |-> {0}]>>}

Masters ==
    {[master_list |-> l] : l \in {<<1>>, <<3, 1, 2>>, <<1, 1, 2>>, <<1, 2>>, <<0>>}}
    \cup {[master_discovery |-> "agent_pull", exhibitor_storage_backend |-> b, num_masters |-> n] :
          b \in {"static", "zookeeper"}, n \in {{1}, {4}, {5}, {9}, {}}}
Names_ ==
    {[resolvers |-> r] : r \in Upstreams \cup {<<[ip |-> 198, port |-> {-1}]>>}}
    \cup {[dns_forward_zones |-> [z |-> u]] : u \in Upstreams}
    \cup {[dns_bind_ip_blacklist |-> l] : l \in {<<4>>, <<4, 4>>}}
Logs == {[mesos_log_retention_mb |-> mb] : mb \in {{}, {1023}, {1024}, {1025}, {1279}, {1280}, {9999}}}
Switches ==
    {[enable_ipv6 |-> v, dcos_l4lb_enable_ipv6 |-> w] : v, w \in {"true", "false", "yes"}}
    \cup {[calico_enabled |-> v, dcos_overlay_enable |-> w] : v, w \in {"true", "false"}}
    \cup {[check_time |-> "false"]}
    \cup {[tls |-> Tls(a, "false", c)] : a, c \in {"true", "false", "yes"}}
    \cup {[superuser_uid |-> u, superuser_public_key |-> k] : u, k \in {"", "given"}}
    \cup {[docker_credentials |-> "{...}"]}
Networks ==
    {[dcos_overlay_network |-> [overlays |-> os] @@ Vtep] :
        os \in {<<>>, <<Overlay6>>, <<[name |-> "dcos"]>>, <<[subnet |-> Net6, name |-> "dcos"]>>,
                <<[name |-> "dcos", subnet6 |-> Net6, subnet |-> Net4(14, 16)]>>,
                <<Overlay4, [name |-> "other", subnet |-> Net4(14, 20), enabled |-> "true"]>>,
                <<Overlay4, [name |-> "other", subnet |-> Net4(20, 21), enabled |-> "false"]>>,
                <<Overlay4, [name |-> "dcos-long-name", subnet |-> Net4(30, 31)]>>,
                <<[name |-> "dcos", subnet |-> Net4(10, 14), enabled |-> "yes"]>>}}
    \cup {[dcos_overlay_network |-> [overlays |-> <<Overlay4>>]],
          [dcos_overlay_network |-> [overlays |-> <<Overlay4>>, vtep_mtu |-> {551}] @@ Vtep],
          [dcos_overlay_network_default_name |-> "other"]}
    \cup {[calico_network_cidr |-> n] : n \in {Net4(14, 15), Net4(8, 30), Net4(15, 19), Net6, NoNet}}
    \cup {[calico_vxlan_port |-> p] : p \in {{1024}, {65535}}}
    \cup {[calico_vxlan_vni |-> v] : v \in {{0}, {1024}, {16777215}, {}}}
Mine == "mine" :> "operator"
CustomChecks ==
    {[custom_checks |-> c] :
        c \in {NodeChecks(Mine, <<<<"mine">>>>, <<>>), NodeChecks(Mine, <<>>, <<>>),
               NodeChecks(Mine, <<<<>>>>, <<<<>>>>), NodeChecks("xz" :> "operator", <<>>, <<<<"xz">>>>),
               NodeChecks("clock_sync" :> "operator", <<>>, <<<<"clock_sync">>>>),
               [NoChecks EXCEPT !.cluster_checks = Mine]}}
    \cup {[check_config |-> NodeChecks("xz" :> "dcos", <<>>, <<<<"xz">>>>)],
          [check_config |-> [NoChecks EXCEPT !.cluster_checks = Mine]]}

MCReservedIps == <<198>>
ASSUME MCGivenAssumption == C!GivenAssumption
ASSUME MCTextsAssumption == T!TextsAssumption
ASSUME MCPackagesAssumption == P!PackagesAssumption

MCGiven ==
    LET Groups == Masters \cup Names_ \cup Logs \cup Switches \cup Networks \cup CustomChecks
    IN  {g @@ h @@ Defaults : g, h \in Groups}

-----------------------------------------------------------------------------
(* Two arguments, one of which may be calculated from the other, and two   *)
(* files that ask for them                                                 *)

Entered(by, value, of, secret) == [by |-> by, value |-> value, of |-> of, secret |-> secret]
User == Entered("user", 1, {}, FALSE)
LateOne == Entered("late", 1, {}, FALSE)
MCSources ==
    {[x |-> x, y |-> y] :
        x \in {User, LateOne, [User EXCEPT !.secret = TRUE], [User EXCEPT !.value = 0]},
        y \in {User, LateOne, Entered("calculated", 1, {"x"}, FALSE),
               Entered("calculated", 1, {"x"}, TRUE)}}
Contents ==
    {<<"t">>, <<"x">>, <<"y">>, <<"x", "t", "y">>, <<"expanded_config">>,
     <<"t", "expanded_config_full">>, <<"user_arguments">>, <<"user_arguments_full">>,
     <<"exhibitor_ca_certificate">>, <<"x", "user_arguments">>}
File(template, path, content) == [in |-> template, path |-> path, content |-> content]
MCTemplates ==
    {<<File("dcos-config", "p", p), File(t, "q", q)>> :
        p, q \in Contents, t \in {"dcos-config", "dcos-metadata", "cloud-config"}}

-----------------------------------------------------------------------------
(* Two versions of DC/OS, one configuration                                *)

MCGenerations == {[version |-> v, config |-> "a"] : v \in {1, 2}}
MCRoleArguments == {{"master"}, {"master", "slave"}}
=============================================================================
