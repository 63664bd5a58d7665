----------------------------- MODULE MqttClient -----------------------------
(***************************************************************************)
(* MyLgMqtt of mqtt.py: starting the push client on the event loop, the    *)
(* worker thread in which the SDK connects, and the one shutdown task.     *)
(* start_cloud replaces the object with a new one; here they are numbered. *)
(***************************************************************************)
EXTENDS Integers

CONSTANT MaxClients   \* bound: MyLgMqtt objects made

Clients == 1 .. MaxClients

VARIABLE mqtt         \* every MyLgMqtt object made or still to be made

(* of each: start, how far async_start is; client, whether self._client is *)
(* set; stopping, self._stopping; shutdown, self._shutdown_task; worker,   *)
(* the thread of _async_connect_sdk; connection, whether the SDK client has*)
(* an _mqtt_connection; socket, what has become of its socket.             *)
Unborn ==
    [start |-> "new", client |-> FALSE, stopping |-> FALSE, shutdown |-> "none",
     worker |-> "none", connection |-> FALSE, socket |-> "none"]

MqttInit == mqtt = [c \in Clients |-> Unborn]

Starting(c) == mqtt[c].start \in {"preparing", "subscribing", "connecting"}

----------------------------------------------------------------------------
(* async_start: the SDK client is made and prepared, which may fail, ...   *)
AsyncStart(c) ==
    mqtt' = [mqtt EXCEPT ![c].start = "preparing", ![c].client = TRUE]

Prepared(c) ==
    /\ mqtt[c].start = "preparing"
    /\ \/ /\ mqtt[c].client
          /\ mqtt' = [mqtt EXCEPT ![c].start = "subscribing"]
       \/ mqtt' = [mqtt EXCEPT ![c].start = "failed", ![c].client = FALSE]

(* ... the devices are subscribed, and unless a shutdown or a pause has    *)
(* come between, a thread connects.                                        *)
Subscribed(c, shut) ==
    /\ mqtt[c].start = "subscribing"
    /\ mqtt' = IF mqtt[c].stopping \/ shut
               THEN [mqtt EXCEPT ![c].start = "failed"]
               ELSE [mqtt EXCEPT ![c].start = "connecting", ![c].worker = "connecting"]

Connected(c) ==
    /\ mqtt[c].start = "connecting"
    /\ \/ /\ mqtt[c].worker = "connected"
          /\ mqtt' = [mqtt EXCEPT ![c].start = "started"]
       \/ /\ mqtt[c].worker = "failed"
          /\ mqtt' = [mqtt EXCEPT ![c].start = "failed", ![c].stopping = TRUE]

(* Connecting takes too long, or the task is cancelled; the thread goes on.*)
GivesUp(c) ==
    /\ Starting(c)
    /\ mqtt' = [mqtt EXCEPT ![c].start = "failed",
                            ![c].stopping = @ \/ mqtt[c].start = "connecting"]

----------------------------------------------------------------------------
(* The worker thread.  The SDK opens a socket and makes its connection     *)
(* known, in an order of its own; a connect that fails leaves no socket    *)
(* open that is not known.                                                 *)
WorkerOpens(c) ==
    /\ mqtt[c].worker = "connecting" /\ mqtt[c].socket = "none"
    /\ mqtt' = [mqtt EXCEPT ![c].socket = "open"]

WorkerKnows(c) ==
    /\ mqtt[c].worker = "connecting" /\ ~mqtt[c].connection
    /\ mqtt' = [mqtt EXCEPT ![c].connection = TRUE]

WorkerReturns(c) ==
    /\ mqtt[c].worker = "connecting"
    /\ \/ /\ mqtt[c].connection /\ mqtt[c].socket = "open"
          /\ mqtt' = [mqtt EXCEPT ![c].worker = "returned"]
       \/ /\ mqtt[c].socket = "open" => mqtt[c].connection
          /\ mqtt' = [mqtt EXCEPT ![c].worker = "raised"]

Outcome(c) == IF mqtt[c].worker = "returned" THEN "connected" ELSE "failed"

Closed(socket) == IF socket = "open" THEN "closed" ELSE socket

\* Mutant of WorkerEnds: the thread leaves the socket to the event loop.
WorkerEndsOnly(c) ==
    /\ mqtt[c].worker \in {"returned", "raised"}
    /\ mqtt' = [mqtt EXCEPT ![c].worker = Outcome(c)]

(* Its finally block looks at _stopping, and closes what it has opened.    *)
WorkerEnds(c) ==
    /\ mqtt[c].worker \in {"returned", "raised"}
    /\ mqtt' = IF mqtt[c].stopping /\ mqtt[c].connection
               THEN [mqtt EXCEPT ![c].worker = Outcome(c), ![c].socket = Closed(@)]
               ELSE [mqtt EXCEPT ![c].worker = Outcome(c)]

----------------------------------------------------------------------------
(* async_shutdown: one task for all who ask.  It takes the client, has the *)
(* SDK unsubscribe, and closes the connection it then finds.               *)
AsyncShutdown(c) ==
    mqtt' = [mqtt EXCEPT ![c].stopping = TRUE,
                         ![c].shutdown = IF @ = "none" THEN "created" ELSE @]

ShutdownRuns(c) ==
    /\ mqtt[c].shutdown = "created"
    /\ mqtt' = [mqtt EXCEPT ![c].client = FALSE,
                            ![c].shutdown = IF mqtt[c].client THEN "leaving" ELSE "done"]

ShutdownCloses(c) ==
    /\ mqtt[c].shutdown = "leaving"
    /\ mqtt' = [mqtt EXCEPT ![c].shutdown = "done",
                            ![c].socket = IF mqtt[c].connection THEN Closed(@) ELSE @]

WorkerStep(c) ==
    \/ WorkerOpens(c)
    \/ WorkerKnows(c)
    \/ WorkerReturns(c)
    \/ WorkerEnds(c)

ShutdownStep(c) ==
    \/ ShutdownRuns(c)
    \/ ShutdownCloses(c)

=============================================================================
