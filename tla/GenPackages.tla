---------------------------- MODULE GenPackages -----------------------------
(***************************************************************************)
(* gen.generate: from a resolved configuration and the templates to the    *)
(* packages and the cloud config, and from there to the files of a node    *)
(* (resolve_late_package, and do_bootstrap in pkgpanda/actions.py).  Values *)
(* that only the service that launches the cluster knows are placeholders  *)
(* on the way (GenResolver has how arguments are resolved).                *)
(*                                                                         *)
(* A text is a sequence of atoms <<kind, name, detail>>.                   *)
(***************************************************************************)
EXTENDS Naturals, Sequences, SequencesExt, FiniteSetsExt

CONSTANTS
    Sources,    \* what is given for every argument:
                \*   [by, value, of, secret]; `of' are the parameters of one
                \*   that is calculated
    Templates,  \* the files of all templates: [in, path, content], the content
                \*   a sequence of arguments, builtins and other words
    MaxRuns     \* bound: of gen.generate

VARIABLES
    entered, templates,
    ca,             \* the version of the certificate in genconf/ca, 0 if none
    stage, runs,
    argument_dict,
    late_variables,
    rendered,       \* files
    late_files,
    artifacts,      \* from the id of a package to its files
    cloud,          \* [files, late_config, packages]
    node,           \* from path to content
    origin,         \* history: what of the entry its id does not tell
    surprise        \* history: an id got another content, for no such reason

SecretBuiltins == {"expanded_config_full", "user_arguments_full"}
Builtins == SecretBuiltins \cup {"expanded_config", "user_arguments", "exhibitor_ca_certificate"}

\* What is entered for names, and templates, can be anything of this shape: only
\* what is calculated is so from others, and a path is written once
AreEntered(s) ==
    /\ s \in [DOMAIN s -> [by : {"user", "late", "calculated"}, value : Nat,
                            of : SUBSET DOMAIN s, secret : BOOLEAN]]
    /\ IsFiniteSet(DOMAIN s) /\ DOMAIN s \cap Builtins = {}
    /\ \A v \in DOMAIN s : s[v].by # "calculated" => s[v].of = {}
AreTemplates(files) ==
    /\ \A f \in files : f \in [in : {"dcos-config", "dcos-metadata", "cloud-config"},
                               path : {f.path}, content : Seq(Range(f.content))]
    /\ \A f, g \in files :
          f.path = g.path /\ (f.in = "cloud-config" <=> g.in = "cloud-config") => f = g
PackagesAssumption ==
    /\ \A s \in Sources : AreEntered(s)
    /\ \A t \in Templates : AreTemplates(Range(t))

vars == <<entered, templates, ca, stage, runs, argument_dict, late_variables, rendered,
          late_files, artifacts, cloud, node, origin, surprise>>

Start == <<"start", "", {}>>
End == <<"end", "", {}>>
Hidden == <<"hidden", "", {}>>
Placeholder(name) == <<Start, <<"name", name, {}>>, End>>

Vars == DOMAIN entered
Files(template) == {f \in Range(templates) : f.in = template}

-----------------------------------------------------------------------------
(* Arguments                                                               *)

Referenced == UNION {Range(f.content) : f \in Range(templates)}
is_finalized(v) == v \in Referenced \/ \E w \in Referenced \cap Vars : v \in entered[w].of
is_late(v) == entered[v].by = "late" \/ \E p \in entered[v].of : entered[p].by = "late"
ByUser == {v \in Vars : entered[v].by = "user"}
Secret == {v \in Vars : entered[v].secret}

Value(v) ==
    IF entered[v].by = "calculated"
    THEN <<<<"calculated", v, {<<p, entered[p].value>> : p \in entered[v].of}>>>>
    ELSE IF entered[v].value = 0 THEN <<End>> ELSE <<<<"value", v, {entered[v].value}>>>>

get_final_arguments ==
    [v \in {w \in Vars : is_finalized(w)} |-> IF is_late(v) THEN Placeholder(v) ELSE Value(v)]

get_late_variables ==
    [v \in {w \in Vars : entered[w].by = "late" /\ is_finalized(w)} |-> Value(v)]

Flatten(values, names) == FlattenSeq(SetToSeq({values[n] : n \in names}))
user_arguments_full == Flatten([v \in ByUser |-> Value(v)], ByUser)

\* Mutant of user_arguments_masked: nothing is masked
NothingMasked == user_arguments_full

user_arguments_masked ==
    Flatten([v \in ByUser |-> IF v \in Secret THEN <<Hidden>> ELSE Value(v)], ByUser)

\* Values that begin with a placeholder are not yet known
Known == {v \in DOMAIN argument_dict : argument_dict[v] = <<>> \/ Head(argument_dict[v]) # Start}

Builtin(name) ==
    CASE name = "user_arguments_full" -> user_arguments_full
      [] name = "user_arguments" -> user_arguments_masked
      [] name = "expanded_config_full" ->
            Flatten(argument_dict, Known) \o user_arguments_full \o user_arguments_masked
      [] name = "expanded_config" -> Flatten(argument_dict, Known \ Secret) \o user_arguments_masked
      [] name = "exhibitor_ca_certificate" -> <<<<"certificate", "", {ca}>>>>

config_id == argument_dict

-----------------------------------------------------------------------------
(* Texts with placeholders                                                 *)

IndicesOf(text, atom) == {i \in DOMAIN text : text[i] = atom}
EndAfter(text, i) == {j \in IndicesOf(text, End) : j > i}
TokenAt(text, i) == SubSeq(text, i + 1, Min(EndAfter(text, i)) - 1)
InTokens(text) == UNION {i..Min(EndAfter(text, i)) : i \in IndicesOf(text, Start)}

\* Every prefix has a suffix, with no other prefix in between; every suffix
\* has a prefix
Splits(text) ==
    /\ \A i \in IndicesOf(text, Start) :
          EndAfter(text, i) # {} /\ ~\E k \in DOMAIN TokenAt(text, i) : TokenAt(text, i)[k] = Start
    /\ IndicesOf(text, End) \subseteq InTokens(text)

late_bind_placeholder_in(text) == \E i \in DOMAIN text : text[i] \in {Start, End}

IsKnown(values, token) == Len(token) = 1 /\ token[1][1] = "name" /\ token[1][2] \in DOMAIN values

CanRender(text, values) ==
    Splits(text) /\ \A i \in IndicesOf(text, Start) : IsKnown(values, TokenAt(text, i))

render_late_content(text, values) ==
    FlattenSeq([i \in DOMAIN text |->
        IF text[i] = Start THEN values[TokenAt(text, i)[1][2]]
        ELSE IF i \in InTokens(text) THEN <<>>
        ELSE <<text[i]>>])

-----------------------------------------------------------------------------
(* gen.generate                                                            *)

At(s, next) ==
    stage = s /\ stage' = next /\ UNCHANGED <<entered, templates, runs>>

validate_and_raise ==
    /\ At("entered", "resolved")
    /\ argument_dict' = get_final_arguments
    /\ late_variables' = get_late_variables
    /\ UNCHANGED <<ca, rendered, late_files, artifacts, cloud, node, origin, surprise>>

\* The certificate is made where it is missing
initialize_exhibitor_ca ==
    /\ At("resolved", "certified")
    /\ ca' = IF ca = 0 THEN runs + 1 ELSE ca
    /\ UNCHANGED <<argument_dict, late_variables, rendered, late_files, artifacts, cloud, node,
                   origin, surprise>>

Word(w) ==
    IF w \in Builtins THEN Builtin(w)
    ELSE IF w \in Vars THEN argument_dict[w]
    ELSE <<<<"text", w, {}>>>>
Render(f) == [f EXCEPT !.content = FlattenSeq([i \in DOMAIN @ |-> Word(@[i])])]

render_templates ==
    /\ At("certified", "rendered")
    /\ rendered' = {Render(f) : f \in Range(templates)}
    /\ UNCHANGED <<ca, argument_dict, late_variables, late_files, artifacts, cloud, node, origin,
                   surprise>>

extract_files_containing_late_variables ==
    /\ At("rendered", "extracted")
    /\ late_files' = {f \in rendered : f.in = "dcos-config" /\ late_bind_placeholder_in(f.content)}
    /\ rendered' = rendered \ late_files'
    /\ UNCHANGED <<ca, argument_dict, late_variables, artifacts, cloud, node, origin, surprise>>

do_gen_package(files) == [p \in {f.path : f \in files} |-> (CHOOSE f \in files : f.path = p).content]

ConfigPackages ==
    [id \in {<<n, config_id>> : n \in {"dcos-config", "dcos-metadata"}} |->
        do_gen_package({f \in rendered : f.in = id[1]})]

\* Its files are written if there is a late variable, and forgotten if not
LateBound == late_files # {} /\ DOMAIN late_variables # {}
build_late_package ==
    IF LateBound THEN [id \in {<<"dcos-provider", config_id>>} |-> do_gen_package(late_files)]
    ELSE <<>>

\* What the files of the packages follow from, besides the id
Untold == <<ca, {<<v, entered[v].value>> : v \in {w \in ByUser : ~is_finalized(w)}}>>

make_packages ==
    /\ At("extracted", "made")
    /\ LET made == [id \in DOMAIN ConfigPackages \cup DOMAIN build_late_package |->
                      IF id \in DOMAIN ConfigPackages THEN ConfigPackages[id]
                      ELSE build_late_package[id]]
           again == DOMAIN made \cap DOMAIN artifacts
       IN  /\ artifacts' = [id \in DOMAIN artifacts \cup DOMAIN made |->
                              IF id \in DOMAIN made THEN made[id] ELSE artifacts[id]]
           /\ origin' = [id \in DOMAIN artifacts' |->
                           IF id \in DOMAIN made THEN Untold ELSE origin[id]]
           /\ surprise' = \E id \in again : made[id] # artifacts[id] /\ origin[id] = Untold
    /\ cloud' = [files |-> do_gen_package({f \in rendered : f.in = "cloud-config"}),
                 late_config |-> IF LateBound THEN <<late_variables>> ELSE <<>>,
                 packages |-> DOMAIN ConfigPackages,
                 late_package |-> <<"dcos-provider", config_id>>]
    /\ UNCHANGED <<ca, argument_dict, late_variables, rendered, late_files, node>>

-----------------------------------------------------------------------------
(* A node                                                                  *)

Fetched(ids) ==
    LET paths == UNION {DOMAIN artifacts[id] : id \in ids}
    IN  [p \in paths |-> artifacts[CHOOSE id \in ids : p \in DOMAIN artifacts[id]][p]]

do_bootstrap ==
    /\ stage = "made"
    /\ UNCHANGED <<entered, templates, runs>>
    /\ IF cloud.late_config = <<>>
       THEN stage' = "up" /\ node' = Fetched(cloud.packages)
       ELSE LET late == artifacts[cloud.late_package]
                values == Head(cloud.late_config)
                files == Fetched(cloud.packages)
            IN  IF \A p \in DOMAIN late : CanRender(late[p], values)
                THEN /\ stage' = "up"
                     /\ node' = [p \in DOMAIN files \cup DOMAIN late |->
                                   IF p \in DOMAIN late THEN render_late_content(late[p], values)
                                   ELSE files[p]]
                ELSE stage' = "stuck" /\ UNCHANGED node
    /\ UNCHANGED <<ca, argument_dict, late_variables, rendered, late_files, artifacts, cloud,
                   origin, surprise>>

\* The operator
Reconfigure ==
    /\ stage \in {"up", "stuck"} /\ runs < MaxRuns
    /\ \E v \in Vars : \E value \in {1, 2} \ {entered[v].value} :
          entered' = [entered EXCEPT ![v].value = value]
    /\ ca' \in {0, ca}
    /\ stage' = "entered" /\ runs' = runs + 1
    /\ UNCHANGED <<templates, argument_dict, late_variables, rendered, late_files, artifacts,
                   cloud, node, origin, surprise>>

Init ==
    /\ entered \in Sources /\ templates \in Templates
    /\ ca = 0 /\ stage = "entered" /\ runs = 1
    /\ argument_dict = <<>> /\ late_variables = <<>> /\ rendered = {} /\ late_files = {}
    /\ artifacts = <<>> /\ cloud = <<>> /\ node = <<>> /\ origin = <<>> /\ surprise = FALSE

Next ==
    \/ validate_and_raise \/ initialize_exhibitor_ca \/ render_templates
    \/ extract_files_containing_late_variables \/ make_packages
    \/ do_bootstrap \/ Reconfigure

Spec == Init /\ [][Next]_vars

-----------------------------------------------------------------------------
(* Properties                                                              *)

Mentions(f, vs) == Range(f.content) \cap vs # {}
Late == {v \in Vars : is_late(v)}
Marked == {v \in Vars : entered[v].value = 0}
Expected(f) ==
    FlattenSeq([i \in DOMAIN f.content |->
        IF f.content[i] \in Vars THEN Value(f.content[i]) ELSE Word(f.content[i])])

Leaks(text, vs) == \E i \in DOMAIN text : text[i][1] = "value" /\ text[i][2] \in vs

\* Every file of the configuration comes to the node with its final values,
\* whether it goes there with the packages or through the late package, if no
\* value has a marker of a placeholder; a node stays down only if a file needs
\* something that is calculated from a late value, which is still to be done
\* (TODO, gen/internals.py:590).  A file that asks neither for a secret nor for
\* the full arguments has no secret in it; nothing is left unbound in the cloud
\* config and in dcos-metadata unless they mention a late value; and what a
\* package has follows from its id and what is known not to be in it: the
\* certificate, and arguments that nothing refers to (gen/__init__.py:593-804,
\* pkgpanda/actions.py:228-260).
ConfigurationArrives ==
    /\ (stage = "up" /\ Marked = {}) =>
          \A f \in Files("dcos-config") : f.path \in DOMAIN node /\ node[f.path] = Expected(f)
    /\ stage = "stuck" =>
          \/ Marked # {}
          \/ \E f \in Files("dcos-config") : \E v \in Late :
                entered[v].by = "calculated" /\ Mentions(f, {v})
    /\ stage = "up" =>
          \A f \in Range(templates) :
             LET content == IF f.in = "cloud-config" THEN cloud.files[f.path]
                            ELSE IF f.path \in DOMAIN node THEN node[f.path] ELSE <<>>
             IN  /\ Leaks(content, Secret) => Mentions(f, SecretBuiltins \cup Secret)
                 /\ late_bind_placeholder_in(content) =>
                       Marked # {} \/ (f.in # "dcos-config" /\ Mentions(f, Late))
    /\ ~surprise
=============================================================================
