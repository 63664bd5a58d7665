--------------------------- MODULE PatCoordinator ---------------------------
(***************************************************************************)
(* PatDeviceCoordinator of coordinator.py: one device's status, pushed by  *)
(* MQTT as deltas and read by REST as a whole.  A report maps the fields it*)
(* carries to values; values of a field are numbered in the order the      *)
(* appliance took them.                                                    *)
(***************************************************************************)
EXTENDS Integers

CONSTANTS Fields,     \* of the status; of an oven, its zones
          Refreshes   \* calls of _async_update_data that may overlap

VARIABLES listed,     \* whether the device reports whole lists of zones
          data,       \* self.data
          available,  \* last_update_success of the coordinator
          marked,     \* self.cloud_paused
          ready,      \* self.startup_status_ready
          active,     \* self._refresh_active
          slot,       \* self._refresh_push; the empty report is None
          refresh,    \* each refresh: how far it is, its gate's generation, its reply
          crossed,    \* history: refreshes another one has begun or ended beside
          setBack,    \* history: fields of data a crossed refresh's reply has set
          shut,       \* the gate of the REST client: whether it has a reason,
          gen         \*   and its generation

shown == <<data, setBack, available, marked, ready>>
slots == <<active, slot, crossed>>
coordinatorVars == <<listed, shown, slots, refresh>>
restGate == <<shut, gen>>

NoReport == [f \in {} |-> 0]

IsReport(report) == \E S \in SUBSET Fields : report \in [S -> Nat]

(* deep_merge: the delta's fields, and the base's others.                  *)
deep_merge(base, delta) ==
    [f \in DOMAIN base \cup DOMAIN delta |->
        IF f \in DOMAIN delta THEN delta[f] ELSE base[f]]

Resting == [at |-> "idle", gen |-> 0, reply |-> NoReport]

CoordinatorInit ==
    /\ listed \in BOOLEAN
    /\ data = NoReport
    /\ available = TRUE /\ marked = FALSE /\ ready = FALSE
    /\ active = FALSE /\ slot = NoReport
    /\ refresh = [r \in Refreshes |-> Resting]
    /\ crossed = {} /\ setBack = {}

(* A status dict is merged into what is there, a list replaces it.         *)
Onto(base, report) == IF listed THEN report ELSE deep_merge(base, report)

----------------------------------------------------------------------------
(* handle_mqtt_status: an open gate lets a report through, for the status  *)
(* and for the reply of a refresh under way.                               *)
\* Mutant of handle_mqtt_status: a refresh keeps the last report only.
HandleStatusKeepsLast(report) ==
    \/ shut /\ UNCHANGED coordinatorVars
    \/ /\ ~shut
       /\ marked' = FALSE /\ available' = TRUE
       /\ data' = Onto(data, report)
       /\ slot' = IF active THEN report ELSE slot
       /\ setBack' = setBack \ DOMAIN report
       /\ UNCHANGED <<listed, ready, active, refresh, crossed>>

handle_mqtt_status(report) ==
    \/ shut /\ UNCHANGED coordinatorVars
    \/ /\ ~shut
       /\ marked' = FALSE /\ available' = TRUE
       /\ data' = Onto(data, report)
       /\ slot' = IF active THEN Onto(slot, report) ELSE slot
       /\ setBack' = setBack \ DOMAIN report
       /\ UNCHANGED <<listed, ready, active, refresh, crossed>>

----------------------------------------------------------------------------
(* The refreshes under way that r crosses.  All have the one slot: each    *)
(* empties it when it begins and when it ends.                             *)
Crosses(r) == {q \in Refreshes \ {r} : refresh[q].at # "idle"}

(* _async_update_data up to its request; the gate may refuse it at once.   *)
RefreshBegins(r) ==
    /\ refresh[r].at = "idle" /\ ~shut
    /\ active' = TRUE /\ slot' = NoReport
    /\ crossed' = crossed \cup Crosses(r)
    /\ refresh' = [refresh EXCEPT ![r].at = "asked", ![r].gen = gen]
    /\ UNCHANGED <<listed, shown, restGate>>

(* The finally block.                                                      *)
Finally(r) ==
    /\ active' = FALSE /\ slot' = NoReport
    /\ crossed' = (crossed \cup Crosses(r)) \ {r}
    /\ refresh' = [refresh EXCEPT ![r] = Resting]

RefreshRefused(r) ==
    /\ refresh[r].at = "idle" /\ shut
    /\ Finally(r)
    /\ available' = FALSE
    /\ UNCHANGED <<listed, data, setBack, marked, ready, restGate>>

(* LG answers with the status of this moment.                              *)
Served(r, status) ==
    /\ refresh[r].at = "asked"
    /\ refresh' = [refresh EXCEPT ![r].at = "served", ![r].reply = status]
    /\ UNCHANGED <<listed, shown, slots, restGate>>

(* What of a reply reaches the status: nothing but what was not pushed.    *)
SetsBack(r) ==
    setBack' = IF r \in crossed THEN setBack \cup (Fields \ DOMAIN slot)
               ELSE IF listed /\ slot # NoReport THEN setBack ELSE {}

\* Mutant of RefreshSucceeds: the reply is the status, whatever was pushed.
RefreshSucceedsOverPushes(r) ==
    /\ refresh[r].at = "served" /\ ~shut /\ gen = refresh[r].gen
    /\ marked' = FALSE /\ ready' = TRUE /\ available' = TRUE
    /\ data' = Onto(data, refresh[r].reply)
    /\ setBack' = IF r \in crossed THEN Fields ELSE {}
    /\ Finally(r)
    /\ UNCHANGED <<listed, restGate>>

\* Mutant of RefreshSucceeds: the reply does not pass the gate.
RefreshSucceedsUngated(r) ==
    /\ refresh[r].at = "served"
    /\ marked' = FALSE /\ ready' = TRUE /\ available' = TRUE
    /\ LET merged == Onto(data, refresh[r].reply) IN
       data' = IF slot = NoReport THEN merged
               ELSE IF listed THEN data ELSE deep_merge(merged, slot)
    /\ SetsBack(r)
    /\ Finally(r)
    /\ UNCHANGED <<listed, restGate>>

(* The reply is merged into the status, and what was pushed meanwhile into *)
(* both; a list pushed meanwhile stays.                                    *)
RefreshSucceeds(r) ==
    /\ refresh[r].at = "served" /\ ~shut /\ gen = refresh[r].gen
    /\ marked' = FALSE /\ ready' = TRUE /\ available' = TRUE
    /\ LET merged == Onto(data, refresh[r].reply) IN
       data' = IF slot = NoReport THEN merged
               ELSE IF listed THEN data ELSE deep_merge(merged, slot)
    /\ SetsBack(r)
    /\ Finally(r)
    /\ UNCHANGED <<listed, restGate>>

(* An error, or the gate refuses the reply: a push meanwhile still counts. *)
RefreshFails(r) ==
    /\ refresh[r].at # "idle"
    /\ available' = (slot # NoReport)
    /\ Finally(r)
    /\ UNCHANGED <<listed, data, setBack, marked, ready, restGate>>

(* wait_for gives up on it, or its task is cancelled.                      *)
RefreshCancelled(r) ==
    /\ refresh[r].at # "idle"
    /\ Finally(r)
    /\ UNCHANGED <<listed, shown, restGate>>

RefreshStep(r) ==
    \/ RefreshBegins(r)
    \/ RefreshRefused(r)
    \/ RefreshSucceeds(r)
    \/ RefreshFails(r)
    \/ RefreshCancelled(r)


=============================================================================
