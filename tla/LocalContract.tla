---------------------------- MODULE LocalContract ----------------------------
(***************************************************************************)
(* Which local controls an appliance has, and what may be sent to it       *)
(* (local_control_contract.py, local_control_confirmed_features.py):       *)
(*  - a contract gives every capability of the model a descriptor; it is   *)
(*    the one of the release, or that of the rows of the feature database; *)
(*  - eligibility narrows it to the values this appliance may be sent;     *)
(*  - confirmed features add capabilities and values to both.              *)
(*                                                                         *)
(* A value is an integer; lists the code keeps sorted and unique are sets. *)
(* The text of labels, keys and digests is left out, and so are the other  *)
(* models, but for what their rollout does to this one.                    *)
(***************************************************************************)
EXTENDS Integers, FiniteSets

CONSTANTS
    Capabilities,
    Bundled,          \* the release's contract: capability -> descriptor
    BundledFeatures   \* the release's confirmed features: capability -> feature

\* A descriptor: its kind of entity; the exact values; for a number its grid; whether the
\* factory makes the entity or another one owns it; whether its state is reported; for an
\* action the draft it sends; and the texts a draft, an action or a parameter accepts.
Domains == {"switch", "select", "number", "button", "draft", "action", "parameter"}
Plain(domain, values) ==
    [domain |-> domain, values |-> values, min |-> 0, max |-> 0, step |-> 0, factory |-> TRUE,
     reported |-> TRUE, from |-> "none", texts |-> {}]

Grid(d) == {v \in d.min .. d.max : (v - d.min) % d.step = 0}

\* mutant: a number is taken without comparing its values with its grid
WellFormedWithHoles(d) ==
    /\ d.values # {}
    /\ d.domain = "switch" => d.values \subseteq {0, 1}
    /\ d.domain \in {"button", "action"} => Cardinality(d.values) = 1
    /\ d.factory => d.reported /\ (d.domain = "switch" => d.values = {0, 1})
    /\ d.domain \in {"draft", "action"} => d.texts # {}

\* what _descriptor, and around it the database's loader, accept
WellFormed(d) ==
    /\ d.values # {}
    /\ d.domain = "switch" => d.values \subseteq {0, 1}
    /\ d.domain = "number" => d.step > 0 /\ d.values = Grid(d)
    /\ d.domain \in {"button", "action"} => Cardinality(d.values) = 1
    /\ d.factory => d.reported /\ (d.domain = "switch" => d.values = {0, 1})
    /\ d.domain \in {"draft", "action"} => d.texts # {}

(***************************************************************************)
(* The database: which models it is in force for, and per capability its   *)
(* control and its confirmed feature, each "on", "off" or not there.       *)
(***************************************************************************)
Off(db) == {c \in DOMAIN db.rows : db.rows[c].control = "off" \/ db.rows[c].confirmed = "off"}
Disabled(db) == IF db.rollout \in {"ours", "all"} THEN Off(db) ELSE {}

\* a row that is not well formed is left out; it does not take the others with it
RowContract(db) ==
    [c \in {x \in DOMAIN db.rows \ Off(db) :
              db.rows[x].control = "on" /\ WellFormed(db.rows[x].descriptor)} |-> db.rows[c].descriptor]

Contract(db) == IF db.rollout \in {"ours", "all"} THEN RowContract(db) ELSE Bundled
FromDatabase(db) == db.rollout # "none"

Features(db) ==
    IF db.rollout \in {"ours", "all"}
    THEN [c \in {x \in DOMAIN db.rows \ Off(db) : db.rows[x].confirmed = "on"} |-> db.rows[c].feature]
    ELSE BundledFeatures

(***************************************************************************)
(* Eligibility: whether the appliance is bound at all, and the values      *)
(* allowed by capability.  An installer's scope may be broken, name stale  *)
(* artifacts, or not list the appliance.                                   *)
(***************************************************************************)
Error == [ok |-> FALSE, bound |-> FALSE, allowed |-> [c \in {} |-> {}]]
Unbound == [Error EXCEPT !.ok = TRUE]
Bound(allowed) == [ok |-> TRUE, bound |-> TRUE, allowed |-> allowed]
Exact(contract) == [c \in DOMAIN contract |-> contract[c].values]

Scoped(contract, scope) ==
    LET common(c) == scope[c] \cap contract[c].values
    IN Bound([c \in {x \in DOMAIN scope \cap DOMAIN contract : common(x) # {}} |-> common(c)])

\* resolve_local_control_binding_eligibility
Eligibility(contract, fromDatabase, o) ==
    CASE ~o.given -> IF DOMAIN contract = {} THEN Unbound ELSE Bound(Exact(contract))
      [] o.given /\ o.broken -> Error
      [] o.given /\ ~o.broken /\ fromDatabase -> IF o.listed THEN Scoped(contract, o.scope) ELSE Unbound
      [] OTHER -> IF o.stale \/ ~o.listed THEN Unbound
                  ELSE IF o.scope = Exact(contract) THEN Bound(o.scope) ELSE Error

(***************************************************************************)
(* Confirmed features.                                                     *)
(***************************************************************************)
Neighbours(S) == {p \in S \X S : p[1] < p[2] /\ ~\E v \in S : p[1] < v /\ v < p[2]}
Even(S) == Cardinality({p[2] - p[1] : p \in Neighbours(S)}) = 1
Least(S) == CHOOSE v \in S : \A w \in S : v <= w
Most(S) == CHOOSE v \in S : \A w \in S : v >= w

\* mutant: a number stays one whatever gaps its values have
StaysNumberAlways(old, values) == old.domain = "number"
\* irregular values must not become a lattice with points nobody may send
StaysNumber(old, values) == old.domain = "number" /\ Even(values)

Extended(old, new) ==
    LET values == old.values \cup new IN
    IF old.domain = "switch" THEN [old EXCEPT !.values = values]
    ELSE IF StaysNumber(old, values)
    THEN [old EXCEPT !.values = values, !.min = Least(values), !.max = Most(values),
                     !.step = (CHOOSE p \in Neighbours(values) : TRUE)[2] - (CHOOSE p \in Neighbours(values) : TRUE)[1]]
    ELSE [old EXCEPT !.values = values, !.domain = "select"]

\* an extension adds new values to one existing control, or, as the HUM's operation mode,
\* lists all of a select's values and new ones; an addition replaces none
Fits(contract, c, f) ==
    IF f.extends
    THEN /\ c \in DOMAIN contract /\ f.descriptor.values # {}
         /\ IF f.whole
            THEN /\ contract[c].domain = "select"
                 /\ contract[c].values \subseteq f.descriptor.values
            ELSE /\ f.descriptor.values \cap contract[c].values = {}
                 /\ contract[c].domain \in {"number", "select", "switch"}
                 /\ contract[c].domain = "switch" =>
                       ~contract[c].factory /\ f.descriptor.values \subseteq {0, 1}
    ELSE c \notin DOMAIN contract

\* mutant: the values of an extension are allowed with all the old ones
NowAllowedAll(contract, allowed, c, f) ==
    IF f.extends THEN contract[c].values \cup f.descriptor.values ELSE f.descriptor.values
\* an extension owns only the values it lists: an old command's permission only if it is whole
NowAllowed(contract, allowed, c, f) ==
    IF f.extends /\ c \in DOMAIN allowed THEN allowed[c] \cup f.descriptor.values ELSE f.descriptor.values

\* augment_confirmed_features: the contract, and what the bound appliance may be sent
Augmented(contract, el, features) ==
    IF ~el.bound THEN [ok |-> TRUE, contract |-> contract, el |-> el]
    ELSE [ok |-> \A c \in DOMAIN features : Fits(contract, c, features[c]),
          contract |-> [c \in DOMAIN contract \cup DOMAIN features |->
                          IF c \notin DOMAIN features THEN contract[c]
                          ELSE IF c \in DOMAIN contract
                          THEN Extended(contract[c], features[c].descriptor.values)
                          ELSE features[c].descriptor],
          el |-> Bound([c \in DOMAIN el.allowed \cup DOMAIN features |->
                          IF c \in DOMAIN features THEN NowAllowed(contract, el.allowed, c, features[c])
                          ELSE el.allowed[c]])]

\* What follows from a database and an installer's options.
Menu(db, o) ==
    LET contract == Contract(db)
        el == Eligibility(contract, FromDatabase(db), o)
        all == Augmented(contract, el, Features(db))
    IN [base |-> [ok |-> el.ok, contract |-> contract, el |-> el],
        full |-> [ok |-> db.valid /\ el.ok /\ all.ok, contract |-> all.contract, el |-> all.el]]

\* Setup keeps the controls it has when the features do not fit; a live edit fails as a whole.
AtSetup(db, o) == IF ~db.valid THEN [ok |-> FALSE, contract |-> [c \in {} |-> {}], el |-> Unbound]
                  ELSE IF Menu(db, o).full.ok THEN Menu(db, o).full ELSE Menu(db, o).base
AtEdit(db, o) == Menu(db, o).full

(***************************************************************************)
(* What may be sent, and which entities the factory makes.                 *)
(***************************************************************************)
AllowedExactly(m, c) ==
    c \in DOMAIN m.contract /\ c \in DOMAIN m.el.allowed /\ m.el.allowed[c] = m.contract[c].values

\* local_control_value_authorized: a draft is never a command
ValueAuthorized(m, c, v) ==
    /\ m.el.bound /\ c \in DOMAIN m.contract /\ c \in DOMAIN m.el.allowed
    /\ LET d == m.contract[c] IN
       CASE d.domain = "draft" -> FALSE
         [] d.domain = "action" ->
                /\ AllowedExactly(m, c) /\ d.from \in DOMAIN m.contract
                /\ m.contract[d.from].domain = "draft"
                /\ v \in d.texts \cap m.contract[d.from].texts
         [] d.domain = "parameter" -> AllowedExactly(m, c) /\ v \in d.texts
         [] OTHER -> v \in m.el.allowed[c] \cap d.values

CapabilityAuthorized(m, c) == AllowedExactly(m, c) /\ m.el.allowed[c] # {}

\* mutant: an entity is made for a control that may be sent in part
OfferedInPart(m) == {c \in DOMAIN m.contract \cap DOMAIN m.el.allowed : m.contract[c].factory /\ m.el.bound}
\* eligible_factory_descriptors
Offered(m) == {c \in DOMAIN m.contract : m.contract[c].factory /\ m.el.bound /\ AllowedExactly(m, c)}

(***************************************************************************)
(* feature_conditions.py: a policy holds clauses for the function and for  *)
(* single values of it; a state that is not known satisfies none.          *)
(***************************************************************************)
Satisfied(clauses, state) ==
    \A k \in clauses : k.semantic \in DOMAIN state /\ state[k.semantic] \in k.values

EvaluateCondition(policy, state, values) ==
    /\ policy.valid /\ Satisfied(policy.all, state)
    /\ \A v \in values \cap DOMAIN policy.byValue : Satisfied(policy.byValue[v], state)
=============================================================================
