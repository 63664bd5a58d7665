----------------------------- MODULE WideqSession -----------------------------
(***************************************************************************)
(* WideqClient (wideq_client.py) over the vendored ClientAsync, Session,   *)
(* Auth and CoreAsync (wideq/core_async.py): one call at a time, under the *)
(* coordinator's I/O lock.  A call connects when there is no client,       *)
(* renews the access token when it is absent or near its end, and sends    *)
(* its request; a poll or a command whose session LG rejects closes the    *)
(* client, connects again and tries once more.                             *)
(*                                                                         *)
(* A request ends in one of Endings: accepted; "denied", the session is    *)
(* invalid; "native", codes 9006 and 9012, after the retries under a new   *)
(* client ID; "refused", any other error of the service; "down", a timeout,*)
(* a lost connection or an HTTP 5xx, after which a write may have been     *)
(* applied all the same.  Connecting (gateway, token, user number, device  *)
(* list) is one step: nothing of it is kept unless all of it succeeds.     *)
(***************************************************************************)
EXTENDS Naturals, FiniteSets

CONSTANTS
    Nobody,
    MaxFaults    \* bound: requests that fail, sessions revoked, calls cancelled

ASSUME FaultAssumption == MaxFaults \in Nat

VARIABLES
    client,      \* WideqClient._client: its token and its devices
    call,        \* the call under way
    faults

sessionVars == <<client, call, faults>>

Errors == {"denied", "native", "refused", "down"}
Lists(kind) == kind \in {"snapshots", "context"}
IsWrite(kind) == kind \in {"control", "write"}

\* _client is None
Closed == [open |-> FALSE, token |-> "none", due |-> FALSE, devices |-> "none", recent |-> FALSE]
NoCall == [who |-> Nobody, kind |-> "get", step |-> "idle", again |-> FALSE, error |-> "none", applied |-> 0]

InitSession == client = Closed /\ call = NoCall /\ faults = 0

Free == call.step = "idle"

Costs(outcome) ==       \* only what the service or a cancellation spoils is counted
    /\ outcome \in Errors => faults < MaxFaults
    /\ faults' = IF outcome \in Errors THEN faults + 1 ELSE faults

(***************************************************************************)
(* The service and the clock.                                              *)
(***************************************************************************)
Revoke ==           \* LG forgets the access token; the client does not know
    /\ client.token = "good" /\ faults < MaxFaults
    /\ client' = [client EXCEPT !.token = "bad"]
    /\ faults' = faults + 1
    /\ UNCHANGED call

ComesDue ==         \* the token is within a minute of its end
    /\ client.open /\ ~client.due
    /\ client' = [client EXCEPT !.due = TRUE]
    /\ UNCHANGED <<call, faults>>

Ages ==             \* 25 seconds since the last device list; a call that ended is answered before
    /\ client.recent /\ call.step # "ended"
    /\ client' = [client EXCEPT !.recent = FALSE, !.devices = IF @ = "fresh" THEN "old" ELSE @]
    /\ UNCHANGED <<call, faults>>

(***************************************************************************)
(* The steps of a call.                                                    *)
(***************************************************************************)
FirstStep(kind) == IF ~client.open THEN "connect" ELSE IF kind = "history" THEN "request" ELSE "auth"

Begins(who, kind) ==
    /\ Free
    /\ call' = [NoCall EXCEPT !.who = who, !.kind = kind, !.step = FirstStep(kind)]

Goes(step) == call' = [call EXCEPT !.step = step]
Ends(error) == call' = [call EXCEPT !.step = "ended", !.error = error]

\* mutant: whatever failed, logging in again is tried
ReconnectsAlways(error) == error # "native"
\* mutant: a session LG has forgotten is used on
ReconnectsNever(error) == FALSE
\* an outage cannot be repaired by logging in again, nor a plain rejection
Reconnects(error) == error = "denied"

Reconnecting == (Lists(call.kind) \/ call.kind = "control") /\ ~call.again

EndsAs(sent, error) ==
    IF Reconnecting /\ Reconnects(error)
    THEN client' = Closed /\ call' = [sent EXCEPT !.step = "connect", !.again = TRUE]
    ELSE UNCHANGED client /\ call' = [sent EXCEPT !.step = "ended", !.error = error]

Fails(error) == EndsAs(call, error)

\* a poll that failed goes on to its devices; an energy history never renews the token
AfterConnect == IF call.kind = "history" \/ (call.kind # "control" /\ call.again) THEN "request" ELSE "auth"

\* the first connect of a poll is outside its try, that of a command inside
Connect(outcome, devices) ==
    /\ call.step = "connect" /\ Costs(outcome)
    /\ IF outcome \in Errors
       THEN IF call.kind = "control" THEN Fails(outcome) ELSE UNCHANGED client /\ Ends(outcome)
       ELSE /\ client' = [open |-> TRUE, token |-> "good", due |-> FALSE, devices |-> devices, recent |-> TRUE]
            /\ Goes(AfterConnect)

Auth ==             \* Auth.refresh forgets the token before it asks for another
    /\ call.step = "auth"
    /\ IF client.token # "none" /\ ~client.due
       THEN Goes("request") /\ UNCHANGED client
       ELSE Goes("token") /\ client' = [client EXCEPT !.token = "none"]
    /\ UNCHANGED faults

Token(outcome) ==
    /\ call.step = "token" /\ Costs(outcome)
    /\ IF outcome \in Errors THEN Fails(outcome)
       ELSE Goes("request") /\ client' = [client EXCEPT !.token = "good", !.due = FALSE]

Authorised == client.token = "good"

\* an unauthorised request is denied whatever else may happen, at no fault's cost
Denied ==
    /\ call.step = "request" /\ ~Authorised
    /\ ~(Lists(call.kind) /\ client.recent)
    /\ Fails("denied")
    /\ UNCHANGED faults

\* mutant: the time of the list is noted before the list is asked for
LoadFailsNoted == [client EXCEPT !.recent = TRUE]
LoadFails == client

\* refresh_devices: nothing is asked within 25 seconds of the last list
Devices(outcome, devices) ==
    /\ call.step = "request" /\ Lists(call.kind)
    /\ IF client.recent THEN outcome = "ok" /\ devices = client.devices /\ UNCHANGED <<client, faults>> /\ Ends("none")
       ELSE /\ Authorised /\ devices # "old" /\ Costs(outcome)
            /\ IF outcome = "denied" THEN Fails("denied")
               ELSE IF outcome \in Errors THEN client' = LoadFails /\ Ends(outcome)
               ELSE client' = [client EXCEPT !.devices = devices, !.recent = TRUE] /\ Ends("none")

\* a request of one service path; a write is applied or not when it gets lost
Request(outcome, applies) ==
    /\ call.step = "request" /\ ~Lists(call.kind) /\ Authorised
    /\ Costs(outcome)
    /\ IsWrite(call.kind) /\ outcome = "ok" => applies
    /\ applies => IsWrite(call.kind) /\ outcome \in {"ok", "down"}
    /\ EndsAs([call EXCEPT !.applied = IF applies THEN @ + 1 ELSE @],
              IF outcome \in Errors THEN outcome ELSE "none")

InFlight == call.step \in {"connect", "token", "request"}

\* the coroutine is cancelled at an await; what it changed stays
Cancelled ==
    /\ InFlight /\ faults < MaxFaults
    /\ faults' = faults + 1
    /\ UNCHANGED client
==============================================================================
