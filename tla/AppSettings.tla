------------------------------ MODULE AppSettings ------------------------------
(***************************************************************************)
(* The settings kept by the account at LG (app_settings.py and             *)
(* wideq/web_settings.py): the food recommendation of a refrigerator and   *)
(* the product a styler is paired with.  A poll reads them all under       *)
(* _cloud_lock; a change, under the same lock, reads, writes once and      *)
(* reads again.  Every request is a call of WideqSession, between which    *)
(* the polls and commands of the appliances go, and the owner may change   *)
(* the same settings in the ThinQ app.                                     *)
(***************************************************************************)
EXTENDS WideqSession

CONSTANTS
    Home,            \* the coordinator of the appliances: polls, commands, histories
    Reader, Setter,  \* _async_update_data; async_set
    Products,        \* what the styler can be paired with
    Unpaired,
    MaxTouches       \* bound: changes made in the ThinQ app

ASSUME TouchAssumption == MaxTouches \in Nat
ASSUME CallersDiffer ==
    /\ Nobody \notin {Home, Reader, Setter} /\ Home \notin {Reader, Setter} /\ Reader # Setter

VARIABLES
    saved,     \* at LG: the value of each setting
    shown,     \* AppSettingsCoordinator.data
    cloud,     \* who holds _cloud_lock
    reader,    \* the poll: devices left, device being read, what was read
    setter,    \* the change: its step, the device, the value asked for
    seen,      \* what the last answer of LG said of the setting asked about
    touches,
    since,     \* history: what LG has had since a write of ours was last applied
    doubt      \* history: changes cancelled once a write may have been sent

appVars == <<saved, shown, cloud, reader, setter, seen, touches, since, doubt>>
settingsVars == <<sessionVars, appVars>>

Settings == {"food", "pairing"}
Options(d) == IF d = "food" THEN {"on", "off"} ELSE {Unpaired} \cup Products
Values == UNION {Options(d) : d \in Settings}
Unknown == "unknown"

Idle == [step |-> "idle", device |-> "food", value |-> "off"]
NoPoll == [todo |-> {}, device |-> "none", got |-> [d \in Settings |-> Unknown]]

SettingsInit ==
    /\ InitSession
    /\ saved = [d \in Settings |-> IF d = "food" THEN "off" ELSE Unpaired]
    /\ shown = [d \in Settings |-> Unknown]
    /\ cloud = Nobody /\ reader = NoPoll /\ setter = Idle
    /\ seen = Unknown /\ touches = 0
    /\ since = [d \in Settings |-> {saved[d]}]
    /\ doubt = {}

(***************************************************************************)
(* LG and the owner.                                                       *)
(***************************************************************************)
Touch(d, v) ==
    /\ touches < MaxTouches /\ v # saved[d]
    /\ touches' = touches + 1
    /\ saved' = [saved EXCEPT ![d] = v]
    /\ since' = [since EXCEPT ![d] = @ \cup {v}]
    /\ UNCHANGED <<sessionVars, shown, cloud, reader, setter, seen, doubt>>

Asked == IF call.who = Setter THEN setter.device ELSE reader.device

Applied(applies) ==
    IF applies /\ call.who = Setter
    THEN /\ saved' = [saved EXCEPT ![setter.device] = setter.value]
         /\ since' = [since EXCEPT ![setter.device] = {setter.value}]
    ELSE UNCHANGED <<saved, since>>

CallSteps ==
    \/ \E o \in {"ok", "denied", "refused", "down"}, ds \in {"fresh", "none"} : Connect(o, ds) /\ UNCHANGED appVars
    \/ Auth /\ UNCHANGED appVars
    \/ \E o \in {"ok", "denied", "down"} : Token(o) /\ UNCHANGED appVars
    \/ Denied /\ UNCHANGED appVars
    \/ \E o \in {"ok"} \cup Errors, ds \in {"fresh", "old", "none"} : Devices(o, ds) /\ UNCHANGED appVars
    \/ \E o \in {"ok"} \cup Errors, applies \in BOOLEAN :
          /\ Request(o, applies) /\ Applied(applies)
          /\ seen' = IF call.kind = "get" /\ o = "ok" THEN saved[Asked] ELSE seen
          /\ UNCHANGED <<shown, cloud, reader, setter, touches, doubt>>

(***************************************************************************)
(* The appliances' coordinator.                                            *)
(***************************************************************************)
HomePolls == Begins(Home, "snapshots") /\ UNCHANGED <<client, faults, appVars>>

HomeAsks(kind) == Begins(Home, kind) /\ UNCHANGED <<client, faults, appVars>>

Answered(who) == call.who = who /\ call.step = "ended"

HomeAnswered == Answered(Home) /\ call' = NoCall /\ UNCHANGED <<client, faults, appVars>>

(***************************************************************************)
(* The poll of the settings.                                               *)
(***************************************************************************)
ReaderStarts ==
    /\ cloud = Nobody
    /\ cloud' = Reader /\ reader' = [NoPoll EXCEPT !.todo = Settings]
    /\ UNCHANGED <<sessionVars, saved, shown, setter, seen, touches, since, doubt>>

ReaderAsks(d) ==
    /\ cloud = Reader /\ reader.device = "none" /\ d \in reader.todo
    /\ Begins(Reader, "get")
    /\ reader' = [reader EXCEPT !.todo = @ \ {d}, !.device = d]
    /\ UNCHANGED <<client, faults, saved, shown, cloud, setter, seen, touches, since, doubt>>

ReaderAsksContext ==
    /\ cloud = Reader /\ reader.device = "context"
    /\ Begins(Reader, "context")
    /\ reader' = [reader EXCEPT !.device = "pairing"]
    /\ UNCHANGED <<client, faults, saved, shown, cloud, setter, seen, touches, since, doubt>>

\* a device that cannot be read is left out of the result
ReaderAnswered ==
    /\ Answered(Reader)
    /\ call' = NoCall
    /\ reader' = IF call.error # "none" THEN [reader EXCEPT !.device = "none"]
                 ELSE IF reader.device = "pairing" /\ call.kind = "get" THEN [reader EXCEPT !.device = "context"]
                 ELSE [reader EXCEPT !.device = "none", !.got[reader.device] = seen]
    /\ seen' = IF reader'.device = "context" THEN seen ELSE Unknown
    /\ UNCHANGED <<client, faults, saved, shown, cloud, setter, touches, since, doubt>>

ReaderDone ==
    /\ cloud = Reader /\ reader.todo = {} /\ reader.device = "none"
    /\ shown' = reader.got /\ doubt' = {}
    /\ cloud' = Nobody /\ reader' = NoPoll
    /\ UNCHANGED <<sessionVars, saved, setter, seen, touches, since>>

(***************************************************************************)
(* A change.                                                               *)
(***************************************************************************)
SetterStarts(d, v) ==
    /\ cloud = Nobody
    /\ cloud' = Setter
    /\ setter' = [step |-> IF d = "pairing" THEN "context" ELSE "read", device |-> d, value |-> v]
    /\ UNCHANGED <<sessionVars, saved, shown, reader, seen, touches, since, doubt>>

CallOf(step) == CASE step = "context" -> "context" [] step = "write" -> "write" [] OTHER -> "get"

SetterAsks ==
    /\ setter.step # "idle"
    /\ Begins(Setter, CallOf(setter.step))
    /\ UNCHANGED <<client, faults, appVars>>

SetterGoes(step) ==
    /\ setter' = [setter EXCEPT !.step = step]
    /\ UNCHANGED <<shown, cloud, doubt>>

\* what was asked for, or what is on the server, is shown only if it was read
SetterSucceeds ==
    /\ shown' = [shown EXCEPT ![setter.device] = setter.value]
    /\ doubt' = doubt \ {setter.device}
    /\ cloud' = Nobody /\ setter' = Idle

\* mutant: a change that failed leaves what was shown
KeptAfterFailure(d) == shown
AfterFailure(d) == [shown EXCEPT ![d] = Unknown]

SetterFails ==
    /\ shown' = AfterFailure(setter.device)
    /\ doubt' = doubt \ {setter.device}
    /\ cloud' = Nobody /\ setter' = Idle

Direct == setter.device = "pairing" /\ seen # Unpaired /\ setter.value # Unpaired

\* pairing_allowed, then the pairing that is shown must be the one LG has
SetterAnswered(allowed) ==
    /\ Answered(Setter)
    /\ call' = NoCall
    /\ CASE call.error # "none" -> SetterFails
         [] call.error = "none" /\ setter.step = "context" ->
              IF allowed /\ shown["pairing"] # Unknown THEN SetterGoes("read") ELSE SetterFails
         [] call.error = "none" /\ setter.step = "read" ->
              IF setter.device = "pairing" /\ seen # shown["pairing"] THEN SetterFails
              ELSE IF seen = setter.value THEN SetterSucceeds
              ELSE IF Direct \/ (setter.device = "pairing" /\ ~allowed) THEN SetterFails
              ELSE SetterGoes("write")
         [] call.error = "none" /\ setter.step = "write" -> SetterGoes("confirm")
         [] call.error = "none" /\ setter.step = "confirm" ->
              IF seen = setter.value THEN SetterSucceeds ELSE SetterFails
    /\ seen' = Unknown
    /\ UNCHANGED <<client, faults, saved, reader, touches, since>>

(***************************************************************************)
(* A cancelled coroutine runs no except branch: its lock is released, what *)
(* is shown stays, and LG may have applied the write it was sending.       *)
(***************************************************************************)
Cancel(who, applies) ==
    /\ who # Nobody /\ faults < MaxFaults
    /\ call.who = who => InFlight
    /\ who = Home => call.who = Home
    /\ who \in {Reader, Setter} => cloud = who
    /\ faults' = faults + 1
    /\ call' = IF call.who = who THEN NoCall ELSE call
    /\ cloud' = IF cloud = who THEN Nobody ELSE cloud
    /\ reader' = IF who = Reader THEN NoPoll ELSE reader
    /\ setter' = IF who = Setter THEN Idle ELSE setter
    /\ doubt' = IF who = Setter /\ setter.step \in {"write", "confirm"} THEN doubt \cup {setter.device} ELSE doubt
    /\ applies => call.who = Setter /\ who = Setter /\ call.kind = "write" /\ call.step = "request" /\ Authorised
    /\ Applied(applies)
    /\ seen' = IF cloud = who THEN Unknown ELSE seen
    /\ UNCHANGED <<client, shown, touches>>

SettingsNext ==
    \/ Revoke /\ UNCHANGED appVars
    \/ ComesDue /\ UNCHANGED appVars
    \/ Ages /\ UNCHANGED appVars
    \/ \E d \in Settings : \E v \in Options(d) : Touch(d, v)
    \/ CallSteps
    \/ HomePolls
    \/ \E kind \in {"control", "history"} : HomeAsks(kind)
    \/ HomeAnswered
    \/ ReaderStarts
    \/ \E d \in Settings : ReaderAsks(d)
    \/ ReaderAsksContext
    \/ ReaderAnswered
    \/ ReaderDone
    \/ \E d \in Settings : \E v \in Options(d) : SetterStarts(d, v)
    \/ SetterAsks
    \/ \E allowed \in BOOLEAN : SetterAnswered(allowed)
    \/ \E who \in {Home, Reader, Setter}, applies \in BOOLEAN : Cancel(who, applies)

\* a request ends (its timeout), its coroutine goes on, and asyncio.Lock is first come, first served
Fairness ==
    /\ WF_settingsVars(CallSteps)
    /\ WF_settingsVars(HomeAnswered) /\ WF_settingsVars(ReaderAnswered) /\ WF_settingsVars(\E allowed \in BOOLEAN : SetterAnswered(allowed))
    /\ SF_settingsVars(HomePolls)

SettingsSpec == SettingsInit /\ [][SettingsNext]_settingsVars /\ Fairness
--------------------------------------------------------------------------------
(***************************************************************************)
(* Properties.                                                             *)
(***************************************************************************)
\* A command, or the change of a setting, is carried out once at most,
\* however often its session is renewed: a request that may have reached
\* LG is not sent again (WideqClient.async_control, Session.put2).
WritesOnce == call.applied <= 1

\* Nothing old is passed off as new.  A poll that succeeds never returns a
\* list of devices more than 25 seconds old: a list that could not be loaded
\* is asked for again by the next poll (ClientAsync.refresh_devices notes the
\* time after the load).  And while no change and no poll of the settings is
\* going on, what is shown of a setting is unknown or what LG has had since
\* the last write of ours it applied; a change cancelled in mid-write is the
\* exception until the next poll (async_set runs no except branch then).
PollIsFresh == Answered(Home) /\ call.kind = "snapshots" /\ call.error = "none" => client.devices # "old"
ShownWasConfirmed ==
    /\ PollIsFresh
    /\ cloud = Nobody => \A d \in Settings \ doubt : shown[d] \in since[d] \cup {Unknown}

(* A setting is written once per call, and what is shown of it was         *)
(* confirmed.                                                              *)
SettingIsConfirmed == WritesOnce /\ ShownWasConfirmed

\* Once LG answers and forgets no session, polls of the appliances succeed
\* again: a session it has forgotten is not used for ever
\* (WideqClient.async_get_snapshots).
SessionRecovers == []<>(Answered(Home) /\ call.kind = "snapshots" /\ call.error = "none")
================================================================================
