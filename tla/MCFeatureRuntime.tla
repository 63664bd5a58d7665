--------------------------- MODULE MCFeatureRuntime ---------------------------
(***************************************************************************)
(* Two parts of an entry's life that share no state; a behaviour is one of *)
(* one of them.  The feature menu has three contents: the first, one that  *)
(* redefines an entity, removes one and adds one that waits for the        *)
(* appliance, and one that is rejected.  The local side has two bindings   *)
(* and every kind of entry that differs in what may be set up.             *)
(***************************************************************************)
EXTENDS FeatureRuntime, LocalSetup

CONSTANTS b1, b2

VARIABLE part       \* the part that moves

allVars == <<part, vars, setupVars>>

MCPlatforms == <<"sensor", "switch">>
MCKeys == {"s1", "s2", "w1"}
MCPlatformOf == [k \in MCKeys |-> IF k = "w1" THEN 2 ELSE 1]
MCMenu == [c \in {"old", "new", "bad"} |->
    CASE c = "old" -> [k \in MCKeys |-> IF k = "s2" THEN "none" ELSE "d1"]
      [] c = "new" -> [k \in MCKeys |-> IF k = "s1" THEN "d1" ELSE "d2"]
      [] c = "bad" -> [k \in MCKeys |-> "d2"]]

(* b1 is an air conditioner with everything, b2 a dehumidifier without a   *)
(* ledger whose profile has no presence.                                   *)
Both == [bound |-> Bindings, valid |-> TRUE, database |-> FALSE, edited |-> {b1},
         listed |-> Bindings, tanks |-> {b2}, dehumidifiers |-> {b2},
         identified |-> Bindings, presence |-> {b1}, readable |-> Bindings, metered |-> {b1},
         controls |-> Bindings, scope |-> "none", scoped |-> {b1}, wideq |-> TRUE]

MCEntries ==
    {Both, [Both EXCEPT !.valid = FALSE], [Both EXCEPT !.bound = {}],
     [Both EXCEPT !.listed = {b1}], [Both EXCEPT !.wideq = FALSE],
     [Both EXCEPT !.dehumidifiers = {}],
     [Both EXCEPT !.identified = {b2}, !.presence = Bindings]}
    \cup {[Both EXCEPT !.database = TRUE, !.edited = e, !.scope = s] :
             e \in {{b1}, Bindings}, s \in {"none", "listed", "stale", "invalid"}}

(* The part that does not move.                                            *)
StillMenu == sequence = FirstContent /\ startup.ready
StillSetup == facts = Both

MCInit ==
    /\ part \in {"menu", "setup"} /\ Init /\ SetupInit
    /\ part = "menu" \/ StillMenu
    /\ part = "setup" \/ StillSetup

MCNext ==
    /\ UNCHANGED part
    /\ \/ part = "menu" /\ Next /\ UNCHANGED setupVars
       \/ part = "setup" /\ SetupNext /\ UNCHANGED vars

(* What the menu's own Fairness says, of the behaviours that are its.      *)
MCFairness ==
    /\ WF_vars(part = "menu" /\ Check) /\ WF_vars(part = "menu" /\ (CheckStep \/ Refresh))
    /\ WF_vars(part = "menu" /\ Recovered) /\ SF_vars(part = "menu" /\ Discover)

MCSpec == MCInit /\ [][MCNext]_allVars /\ MCFairness
==============================================================================
