----------------------------- MODULE PatDevice ------------------------------
(***************************************************************************)
(* One PAT device: its coordinator, the push client of its account, and    *)
(* what __init__.py and cloud_runtime.py do to both: start_cloud replaces  *)
(* the client, a pause and an unload shut it down.  LG pushes what the     *)
(* appliance reports; a push may be lost.                                  *)
(***************************************************************************)
EXTENDS PatCoordinator, MqttClient, Sequences, Functions

CONSTANTS MaxValues,   \* bounds: the sum of the values of the fields,
          MaxPauses    \*         pauses of the account

ASSUME PatDeviceAssumption ==
    /\ Fields # {}
    /\ MaxClients \in Nat /\ MaxValues \in Nat /\ MaxPauses \in Nat

VARIABLES real,     \* the appliance: each field's value
          posted,   \* pushes _post_to_hass has queued on the loop, by client
          lost,     \* history: the last value of each field whose push was lost
          current,  \* data.mqtt; 0 is None
          starter,  \* start_cloud: idle, replacing data.mqtt, or starting it
          pause,    \* async_pause: how far the account's pause is
          closed    \* async_unload_entry has closed CloudRuntime

patAccount == <<current, starter, pause, closed>>
patVars == <<coordinatorVars, restGate, mqtt, real, posted, lost, patAccount>>

PatInit ==
    /\ CoordinatorInit /\ MqttInit
    /\ shut = FALSE /\ gen = 0
    /\ real = [f \in Fields |-> 1]
    /\ posted = <<>>
    /\ lost = [f \in Fields |-> 0]
    /\ current = 0 /\ starter = "idle"
    /\ pause = "none" /\ closed = FALSE

Later(a, b) == IF a > b THEN a ELSE b

(* The values of a report that will never arrive.                          *)
Lose(report) ==
    lost' = [f \in Fields |-> IF f \in DOMAIN report THEN Later(lost[f], report[f]) ELSE lost[f]]

----------------------------------------------------------------------------
(* The appliance changes some fields and reports them, or all its zones; LG*)
(* pushes the report to a client with an open socket, whose thread drops it*)
(* in _on_message if it is to stop or queues it for the loop.  On its way a*)
(* push may take its time, as it does in the queue, or be lost.            *)
Change(fs) ==
    /\ fs # {}
    /\ real' = [f \in Fields |-> IF f \in fs THEN real[f] + 1 ELSE real[f]]
    /\ SumFunction(real') <= MaxValues
    /\ LET report == [f \in IF listed THEN Fields ELSE fs |-> real'[f]] IN
       \/ /\ \E c \in Clients :
                /\ mqtt[c].socket = "open" /\ ~mqtt[c].stopping
                /\ posted' = Append(posted, <<c, report>>)
          /\ UNCHANGED lost
       \/ Lose(report) /\ UNCHANGED posted
    /\ UNCHANGED <<coordinatorVars, restGate, mqtt, patAccount>>

\* Mutant of deliver: what was queued is delivered.
deliverUnfenced ==
    /\ posted # <<>>
    /\ posted' = Tail(posted)
    /\ handle_mqtt_status(Head(posted)[2])
    /\ IF shut THEN Lose(Head(posted)[2]) ELSE UNCHANGED lost
    /\ UNCHANGED <<restGate, mqtt, real, patAccount>>

(* deliver, on the event loop: a client that is stopping delivers nothing. *)
deliver ==
    /\ posted # <<>>
    /\ posted' = Tail(posted)
    /\ LET c == Head(posted)[1]
           report == Head(posted)[2] IN
       \/ /\ ~mqtt[c].stopping
          /\ handle_mqtt_status(report)
          /\ IF shut THEN Lose(report) ELSE UNCHANGED lost
       \/ /\ mqtt[c].stopping
          /\ Lose(report)
          /\ UNCHANGED coordinatorVars
    /\ UNCHANGED <<restGate, mqtt, real, patAccount>>

Refreshing ==
    /\ \E r \in Refreshes : RefreshStep(r) \/ Served(r, real)
    /\ UNCHANGED <<mqtt, real, posted, lost, patAccount>>

----------------------------------------------------------------------------
(* start_cloud looks at the gate and shuts the old client down, ...        *)
StartReplaces ==
    /\ starter = "idle" /\ ~shut /\ ~closed
    /\ current < MaxClients
    /\ IF current = 0 THEN UNCHANGED mqtt ELSE AsyncShutdown(current)
    /\ starter' = "replacing"
    /\ UNCHANGED <<coordinatorVars, restGate, real, posted, lost, current, pause, closed>>

(* ... and starts a new one through the gate, if that is still open.       *)
StartBegins ==
    /\ starter = "replacing"
    /\ current # 0 => mqtt[current].shutdown = "done"
    /\ current' = current + 1
    /\ \/ ~shut /\ AsyncStart(current + 1) /\ starter' = "starting"
       \/ shut /\ UNCHANGED mqtt /\ starter' = "idle"
    /\ UNCHANGED <<coordinatorVars, restGate, real, posted, lost, pause, closed>>

StartProceeds ==
    /\ starter = "starting"
    /\ Prepared(current) \/ Subscribed(current, shut) \/ Connected(current)
    /\ UNCHANGED <<coordinatorVars, restGate, real, posted, lost, patAccount>>

StartGivesUp ==
    /\ starter = "starting"
    /\ GivesUp(current)
    /\ UNCHANGED <<coordinatorVars, restGate, real, posted, lost, patAccount>>

StartEnds ==
    /\ starter = "starting" /\ ~Starting(current)
    /\ starter' = "idle"
    /\ UNCHANGED <<coordinatorVars, restGate, mqtt, real, posted, lost, current, pause, closed>>

ThreadsAndShutdowns ==
    /\ \E c \in Clients : WorkerStep(c) \/ ShutdownStep(c)
    /\ UNCHANGED <<coordinatorVars, restGate, real, posted, lost, patAccount>>

----------------------------------------------------------------------------
(* async_pause of the PAT account: the gate shuts; ...                     *)
Pause ==
    /\ pause = "none" /\ gen < 2 * MaxPauses
    /\ shut' = TRUE /\ gen' = gen + 1
    /\ pause' = "shut"
    /\ UNCHANGED <<coordinatorVars, mqtt, real, posted, lost, current, starter, closed>>

(* ... cancel_pending has ended a start; the device is marked and the      *)
(* client shut down, ...                                                   *)
PauseDisconnects ==
    /\ pause = "shut"
    /\ current # 0 => ~Starting(current)
    /\ marked' = TRUE
    /\ IF current = 0 THEN UNCHANGED mqtt ELSE AsyncShutdown(current)
    /\ pause' = "disconnecting"
    /\ UNCHANGED <<listed, data, setBack, available, ready, slots, refresh, restGate, real,
                   posted, lost, current, starter, closed>>

(* ... which is waited for.                                                *)
PauseEnds ==
    /\ pause = "disconnecting"
    /\ current # 0 => mqtt[current].shutdown \in {"done", "none"}
    /\ pause' = "acknowledged"
    /\ UNCHANGED <<coordinatorVars, restGate, mqtt, real, posted, lost, current, starter, closed>>

(* async_resume, after the pause or after its caller has abandoned it.     *)
Resume ==
    /\ pause # "none"
    /\ shut' = FALSE /\ gen' = gen + 1
    /\ pause' = "none"
    /\ UNCHANGED <<coordinatorVars, mqtt, real, posted, lost, current, starter, closed>>

(* async_unload_entry: async_close cancels start_cloud, wherever it is, ...*)
Unload ==
    /\ ~closed
    /\ closed' = TRUE
    /\ starter' = "idle"
    /\ IF starter = "starting" /\ Starting(current) THEN GivesUp(current) ELSE UNCHANGED mqtt
    /\ UNCHANGED <<coordinatorVars, restGate, real, posted, lost, current, pause>>

(* ... and async_stop shuts the client down.                               *)
UnloadStops ==
    /\ closed /\ current # 0
    /\ AsyncShutdown(current)
    /\ UNCHANGED <<coordinatorVars, restGate, real, posted, lost, patAccount>>

PatNext ==
    \/ \E fs \in SUBSET Fields : Change(fs)
    \/ deliver
    \/ Refreshing
    \/ StartReplaces
    \/ StartBegins
    \/ StartProceeds
    \/ StartGivesUp
    \/ StartEnds
    \/ ThreadsAndShutdowns
    \/ Pause
    \/ PauseDisconnects
    \/ PauseEnds
    \/ Resume
    \/ Unload
    \/ UnloadStops

PatSpec == PatInit /\ [][PatNext]_patVars

----------------------------------------------------------------------------
(* When nothing is on its way any more, a field that is shown is the       *)
(* appliance's, unless the push of its last value was lost or what is shown*)
(* was set by the reply of a refresh beside which another has begun or     *)
(* ended: they share one memory of what was pushed meanwhile.  No other    *)
(* crossing of pushes, replies, pauses and clients leaves an old value.    *)
Quiet == posted = <<>> /\ \A r \in Refreshes : refresh[r].at = "idle"

CaughtUp ==
    Quiet => \A f \in DOMAIN data \ setBack : data[f] = real[f] \/ lost[f] = real[f]

(* The clients the account has no use for: those start_cloud has replaced, *)
(* and every one once a pause is acknowledged or the entry is unloaded.    *)
Disconnected == pause = "acknowledged" \/ (closed /\ current # 0 /\ mqtt[current].shutdown = "done")

(* "Fence SDK-thread and already-queued deliveries": nothing a replaced or *)
(* disconnected client has queued reaches the coordinator, although its    *)
(* thread may go on receiving.                                             *)
OnlyTheCurrentClientSpeaks ==
    [][/\ posted # <<>> /\ posted' = Tail(posted)
       /\ Head(posted)[1] # current \/ Disconnected
       => coordinatorVars' = coordinatorVars]_patVars

(* Under an acknowledged pause the device is marked as stale: no push that *)
(* was queued before it, and no late reply, unmarks it.  And "Close the AWS*)
(* socket even when that REST call is fenced": when the account is         *)
(* disconnected no socket stays open, but for the instants in which a      *)
(* thread is about to close its own; "otherwise SDK reconnects survive".   *)
PauseIsComplete ==
    /\ pause = "acknowledged" => marked
    /\ Disconnected => \A c \in Clients :
          mqtt[c].worker \in {"none", "connected", "failed"} => mqtt[c].socket # "open"
=============================================================================
