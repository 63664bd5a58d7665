------------------------------ MODULE MCStores ------------------------------
(***************************************************************************)
(* Six parts that share no state, and must come right out of what is kept *)
(* of them: the pins of the full read, with two releases, the second of    *)
(* which has a reviewed successor for one binding; the energy history; the *)
(* totals of a bridge's ledger; an integrated energy meter; a plain entity,*)
(* with the power-save flags; the options of the Local bindings.  A        *)
(* behaviour is one of one of them.                                        *)
(***************************************************************************)
EXTENDS ReadConsumer, EnergyHistory, LocalEnergy, EnergyMeter, EntityCommands, LocalOptions, TLC

CONSTANTS m1, m2, c1, c2

VARIABLE part       \* the part that moves

allVars == <<part, vars, historyVars, energyVars, meterVars, cardVars, optionVars>>

MCReviewed == [m \in {m1, m2} |-> IF m = m2 THEN m1 ELSE NoContract]
MCAuthority == <<[b1 |-> m1, b2 |-> NoContract], [b1 |-> m2, b2 |-> m1]>>
MCBindings == {"b1", "b2"}
MCMonthOf == <<1, 1, 2>>
Symmetric == Permutations(Callers)

(* One appliance has a number of the first day, the other has none yet; no *)
(* more than one item is left of the older stores.                         *)
SmallHistory ==
    /\ paired = Targets
    /\ meter[1][1] = 1 /\ meter[2][1] = NoData
    /\ legacy.alias[1] = "home"
    /\ Cardinality({t \in Targets : legacy.byId[t] # NoItem})
       + Cardinality({a \in Aliases : legacy.byAlias[a] # NoItem}) <= 1

(* The parts that do not move.                                             *)
NoPins == \A b \in Bindings : live[b] = Detached

NoLegacy ==
    /\ legacy.alias[2] = "home"
    /\ \A t \in Targets : legacy.byId[t] = NoItem
    /\ \A a \in Aliases : legacy.byAlias[a] = NoItem

NoCard == authorised = {} /\ card \in ActionButtons /\ card.risk = "low"

(* The options as they are found: a list, a list that is not one to one,   *)
(* the old binding, or both.                                               *)
Found(pat, id) == [pat |-> pat, id |-> id, secret |-> "s1", strict |-> TRUE]
SmallOptions ==
    [legacy : {NoBinding}, gate : {"set"},
     list : {<<>>, <<Found(1, "a")>>, <<Found(1, "a"), Found(2, "b")>>,
             <<Found(1, "a"), Found(1, "b")>>}]
    \cup [legacy : {[Found(1, "a") EXCEPT !.strict = FALSE]}, gate : {"set"},
          list : {Invalid, <<Found(1, "a")>>}]

MCInit ==
    /\ part \in {"pins", "history", "ledger", "meter", "entity", "options"}
    /\ Init /\ HistoryInit /\ SmallHistory /\ EnergyInit /\ MeterInit /\ CardInit
    /\ IF part = "options" THEN options \in SmallOptions /\ OptionsInit
       ELSE options = NoOptions /\ forms = [e \in Editors |-> ShutForm] /\ saves = 0 /\ typed = {}
    /\ part = "pins" \/ NoPins
    /\ part = "history" \/ NoLegacy
    /\ part = "entity" \/ NoCard

MCNext ==
    /\ UNCHANGED part
    /\ \/ part = "pins" /\ Next /\ UNCHANGED <<historyVars, energyVars, meterVars, cardVars, optionVars>>
       \/ part = "history" /\ HistoryNext /\ UNCHANGED <<vars, energyVars, meterVars, cardVars, optionVars>>
       \/ part = "ledger" /\ EnergyNext /\ UNCHANGED <<vars, historyVars, meterVars, cardVars, optionVars>>
       \/ part = "meter" /\ MeterNext /\ UNCHANGED <<vars, historyVars, energyVars, cardVars, optionVars>>
       \/ part = "entity" /\ CardNext /\ UNCHANGED <<vars, historyVars, energyVars, meterVars, optionVars>>
       \/ part = "options" /\ OptionsNext /\ UNCHANGED <<vars, historyVars, energyVars, meterVars, cardVars>>

(* The two meters Home Assistant sums up: no total of the bridge's ledger  *)
(* falls unless the ledger says it started over, and the integrated meter  *)
(* counts no moment twice and none it did not see.                         *)
EnergyIsHonest == LedgerNeverRewinds /\ [][MeterCountsOnce']_meterVars

MCSpec == MCInit /\ [][MCNext]_allVars

=============================================================================
