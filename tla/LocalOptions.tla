---------------------------- MODULE LocalOptions ----------------------------
(***************************************************************************)
(* The Local bindings in the options of the config entry: which options    *)
(* are a configuration, how the old single binding becomes a list, and the *)
(* options form, which shows the bindings without their passwords and puts *)
(* the stored ones back in when it is submitted.  Forms may be open side   *)
(* by side, and each looks at the options again while another one saves.   *)
(*                                                                         *)
(* A binding is a device, a binding id, a password and whether it demands  *)
(* an identity (require_identity; read_contract_policy is kept the same    *)
(* way); its profile, which is checked against a fixed table, and the      *)
(* other options of the form are left out.  The branch of merge_local_shadow_options for a form without  *)
(* the list is not reached: the form requires the list.                    *)
(***************************************************************************)
EXTENDS Naturals, Sequences

CONSTANTS Appliances,  \* PAT device ids
          BindingIds,  \* binding ids
          Secrets,     \* MQTT passwords
          Editors,     \* options forms
          NoSecret, NoBinding, Invalid,
          MaxSaves     \* bound: submissions

VARIABLES options,     \* entry.options: the old binding, the list, the private control gate
          forms,       \* per form: what it shows, or what is being merged with which options
          saves,
          typed        \* history: which password was ever typed for which binding id

optionVars == <<options, forms, saves, typed>>

Binding == [pat : Appliances, id : BindingIds, secret : Secrets \cup {NoSecret},
            strict : BOOLEAN]
Lists == UNION {[1..n -> Binding] : n \in 0..2}

ASSUME OptionsAssumption ==
    /\ NoSecret \notin Secrets
    /\ NoBinding \notin Binding
    /\ Invalid \notin Seq(Binding)
BindingsIn(list) == {list[i] : i \in DOMAIN list}
NoOptions == [legacy |-> NoBinding, list |-> Invalid, gate |-> "none"]
ShutForm == [at |-> "shut", shows |-> <<>>, opts |-> NoOptions]

----------------------------------------------------------------------------
(* What is a configuration.                                                *)

(* _configuration_from_values.                                             *)
IsConfiguration(binding) == binding.secret # NoSecret

OneToOne(list) ==
    \A i, j \in DOMAIN list : i # j => list[i].pat # list[j].pat /\ list[i].id # list[j].id

(* _legacy_local_shadow_configuration, which knows one profile.            *)
FromLegacy(binding) ==
    IF binding = NoBinding THEN <<>>
    ELSE IF IsConfiguration(binding) THEN <<binding>> ELSE Invalid

(* _configuration_from_binding, for each.                                  *)
AreConfigurations(list) == \A b \in BindingsIn(list) : IsConfiguration(b)

(* local_shadow_configurations: the list, or the old binding, never both.  *)
Configurations(opts) ==
    IF opts.list = Invalid THEN FromLegacy(opts.legacy)
    ELSE IF opts.legacy = NoBinding /\ AreConfigurations(opts.list) /\ OneToOne(opts.list)
         THEN opts.list
    ELSE Invalid

(* migrate_local_shadow_options.                                           *)
Versioned(opts, list) == [opts EXCEPT !.list = list, !.legacy = NoBinding]

----------------------------------------------------------------------------
(* The form.                                                               *)

(* Mutant of Masked: what a binding demands is not shown.                  *)
MaskedLoosely(binding) == [binding EXCEPT !.secret = NoSecret, !.strict = FALSE]

(* _configuration_dict.                                                    *)
Masked(binding) == [binding EXCEPT !.secret = NoSecret]

(* local_bindings_for_form.                                                *)
MaskedList(opts) ==
    IF Configurations(opts) = Invalid THEN <<>>
    ELSE [i \in DOMAIN Configurations(opts) |-> Masked(Configurations(opts)[i])]

(* Mutant of KnownSecret: the password of the only binding is put in.      *)
OnlySecret(opts, id) ==
    IF Configurations(opts) # Invalid /\ Len(Configurations(opts)) = 1
    THEN {Configurations(opts)[1].secret} ELSE {}

(* Mutant of KnownSecret: those of a list that is not valid, too.          *)
AnySecret(opts, id) ==
    IF opts.list = Invalid THEN {}
    ELSE {b.secret : b \in {c \in BindingsIn(opts.list) : c.id = id}} \ {NoSecret}

(* Passwords of a configuration that is not valid are not used again.      *)
KnownSecret(opts, id) ==
    IF Configurations(opts) = Invalid THEN {}
    ELSE {b.secret : b \in {c \in BindingsIn(Configurations(opts)) : c.id = id}}

(* merge_local_shadow_options.                                             *)
Unmasked(opts, binding) ==
    IF binding.secret = NoSecret /\ KnownSecret(opts, binding.id) # {}
    THEN [binding EXCEPT !.secret = CHOOSE s \in KnownSecret(opts, binding.id) : TRUE]
    ELSE binding
MergedList(opts, list) == [i \in DOMAIN list |-> Unmasked(opts, list[i])]

(* What a user may make of what is shown, in one visit.                    *)
Edits(list) ==
    {list}
    \cup {SubSeq(list, 1, i - 1) \o SubSeq(list, i + 1, Len(list)) : i \in DOMAIN list}
    \cup {[list EXCEPT ![i].id = id] : i \in DOMAIN list, id \in BindingIds}
    \cup {[list EXCEPT ![i].secret = s] : i \in DOMAIN list, s \in Secrets}
    \cup {Append(list, b) : b \in IF Len(list) < 2 THEN {c \in Binding : ~c.strict} ELSE {}}

TypedIn(list) == {<<b.id, b.secret>> : b \in {c \in BindingsIn(list) : c.secret # NoSecret}}

OpenForm(e) ==
    /\ forms[e].at = "shut"
    /\ forms' = [forms EXCEPT ![e] = [at |-> "open", shows |-> MaskedList(options), opts |-> options]]
    /\ UNCHANGED <<options, saves, typed>>

(* async_step_init is entered again: it takes the options as they are now, *)
(* and merges in an executor.                                              *)
Submit(e) ==
    /\ forms[e].at = "open" /\ saves > 0
    /\ \E list \in Edits(forms[e].shows) :
          /\ forms' = [forms EXCEPT ![e] = [at |-> "merging", shows |-> list, opts |-> options]]
          /\ typed' = typed \cup TypedIn(list)
    /\ saves' = saves - 1
    /\ UNCHANGED options

(* Mutant of Result: the private gate is left out with the other options.  *)
ResultOfForm(opts, list) == [Versioned(opts, MergedList(opts, list)) EXCEPT !.gate = "none"]

(* The options the form makes of its list; the gate it does not show is    *)
(* taken over.                                                             *)
Result(opts, list) == Versioned(opts, MergedList(opts, list))

SaveOptions(e) ==
    LET result == Result(forms[e].opts, forms[e].shows) IN
    /\ forms[e].at = "merging"
    /\ IF Configurations(result) # Invalid
       THEN /\ options' = result
            /\ forms' = [forms EXCEPT ![e] = ShutForm]
       ELSE /\ forms' = [forms EXCEPT ![e] =
                   [at |-> "open", shows |-> MaskedList(forms[e].opts), opts |-> forms[e].opts]]
            /\ UNCHANGED options
    /\ UNCHANGED <<saves, typed>>

CloseForm(e) ==
    /\ forms[e].at = "open"
    /\ forms' = [forms EXCEPT ![e] = ShutForm]
    /\ UNCHANGED <<options, saves, typed>>

----------------------------------------------------------------------------
(* The entry as it may be found: with the old binding, with a list, or     *)
(* with both or with two bindings of one id, which is not a configuration. *)
OptionsInit ==
    /\ options \in [legacy : {NoBinding} \cup {b \in Binding : b.secret # NoSecret},
                    list : {Invalid} \cup {l \in Lists : \A b \in BindingsIn(l) : b.secret # NoSecret},
                    gate : {"set"}]
    /\ forms = [e \in Editors |-> ShutForm]
    /\ saves = MaxSaves
    /\ typed = IF Configurations(options) = Invalid THEN {}
               ELSE TypedIn(Configurations(options))

OptionsNext ==
    \E e \in Editors : OpenForm(e) \/ Submit(e) \/ SaveOptions(e) \/ CloseForm(e)

OptionsSpec == OptionsInit /\ [][OptionsNext]_optionVars

----------------------------------------------------------------------------
(* Whatever forms are submitted side by side: a binding that is saved has  *)
(* a password somebody gave for its own binding id, in options that were   *)
(* valid or in a form; a form that was not edited changes nothing; and the *)
(* private gate, which no form shows, stays.                               *)
Unedited(e) ==
    Configurations(forms[e].opts) # Invalid /\ forms[e].shows = MaskedList(forms[e].opts)
BindingsKeepTheirs ==
    [][\A e \in Editors : forms[e].at = "merging" /\ forms'[e].at = "shut" =>
          /\ TypedIn(options'.list) \subseteq typed
          /\ Unedited(e) => Configurations(options') = Configurations(forms[e].opts)
          /\ options'.gate = options.gate]_optionVars

=============================================================================
