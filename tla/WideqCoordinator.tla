-------------------------- MODULE WideqCoordinator --------------------------
(***************************************************************************)
(* WideqCoordinator of coordinator_wideq.py: account polls, device         *)
(* commands and night-mode changes share one FIFO I/O lock, one rate       *)
(* limiter and one circuit breaker.  A step is what one coroutine does     *)
(* between two awaits.  Every request waits for the limiter, which the     *)
(* cloud gate does not guard, and then for a call, which it does.          *)
(***************************************************************************)
EXTENDS Integers, Sequences, FiniteSets, SequencesExt

CONSTANTS Devices,         \* PAT ids; every model has a night mode here
          Polls,           \* coroutines that may poll,
          Commands,        \*   send a device command,
          Changes,         \*   or change a night mode
          Settings,        \* night-mode tuples
          FirstSettings,   \* bound: what the appliances may have saved at the start
          NoSetting,       \* no entry in the night-mode cache
          Threshold,       \* WIDEQ_CIRCUIT_FAILURE_THRESHOLD
          MaxFetches,      \* bounds: account snapshots taken,
          MaxTouches,      \*         night modes changed by other clients,
          MaxPauses,       \*         pauses of the account
          Attempts         \* attempts to confirm a night mode

Ops == Polls \cup Commands \cup Changes

ASSUME ThresholdAssumption == Threshold \in Nat \ {0}
ASSUME OpsAssumption ==
    /\ Devices # {} /\ Settings # {}
    /\ NoSetting \notin Settings /\ FirstSettings \subseteq Settings
    /\ Polls \cap Commands = {} /\ Polls \cap Changes = {} /\ Commands \cap Changes = {}

VARIABLES io,         \* who waits for self._io_lock; its head holds it
          line,       \* the same for each of self._control_locks
          op,         \* where each coroutine is, and what it has in hand
          fails,      \* self._fail_count
          interval,   \* self.update_interval
          mapped,     \* the domain of self._pat_to_wideq
          online,     \* self._night_mode_online_wideq_ids, as PAT ids
          data,       \* self.data: the account snapshot each device's is from
          night,      \* self._night_mode_cache
          stale,      \* self.cloud_paused
          gate,       \* the client's CloudGate, and how far a pause of it is
          saved,      \* what the account has saved as each night mode
          seen,       \* history: the settings a GET has returned
          spent       \* bounds: snapshots, touches and pauses so far

locks == <<io, line>>
circuit == <<fails, interval>>
account == <<mapped, online, data>>
vars == <<locks, op, circuit, account, night, stale, gate, saved, seen, spent>>

NoData == 0
Requests == {"none", "snapshots", "energy", "tonight", "resolve", "control",
             "read", "write", "confirm"}
Places == {"idle", "device", "queued", "limiter", "call"}

(* In hand: the device, the setting expected and wanted; of a poll the     *)
(* snapshot it took (its number, its devices, the gate's generation) and   *)
(* the optional reads it has left; of a change the failed confirmations.   *)
Resting(d, v) ==
    [at |-> "idle", req |-> "none", dev |-> d, gen |-> 0, expected |-> v, wanted |-> v,
     shot |-> 0, devs |-> {}, left |-> {},
     tries |-> 0]

Idle == Resting(CHOOSE d \in Devices : TRUE, CHOOSE v \in Settings : TRUE)

circuitOpen == fails >= Threshold

Init ==
    /\ io = <<>>
    /\ line = [d \in Devices |-> <<>>]
    /\ op = [o \in Ops |-> Idle]
    /\ fails = 0 /\ interval = "normal"
    /\ mapped \in SUBSET Devices
    /\ online = {}
    /\ data = [d \in Devices |-> NoData]
    /\ night = [d \in Devices |-> NoSetting]
    /\ stale = FALSE
    /\ gate = [shut |-> FALSE, gen |-> 0, acknowledged |-> FALSE]
    /\ saved \in [Devices -> FirstSettings]
    /\ seen = [d \in Devices |-> {}]
    /\ spent = [fetches |-> 0, touches |-> 0, pauses |-> 0]

Spend(what, bound) ==
    /\ spent[what] < bound
    /\ spent' = [spent EXCEPT ![what] = @ + 1]

Holds(o) == io # <<>> /\ Head(io) = o

(* A coroutine is in a queue once.                                         *)
Without(queue, o) ==
    IF \E i \in 1 .. Len(queue) : queue[i] = o
    THEN RemoveAt(queue, CHOOSE i \in 1 .. Len(queue) : queue[i] = o)
    ELSE queue

\* Mutant of Frees: the device lock stays with its holder.
FreesIoOnly(o) ==
    /\ io' = Without(io, o)
    /\ UNCHANGED line

(* Leaving both async-with blocks.                                         *)
Frees(o) ==
    /\ io' = Without(io, o)
    /\ line' = [d \in Devices |-> Without(line[d], o)]

Leaves(o) ==
    /\ Frees(o)
    /\ op' = [op EXCEPT ![o] = Idle]

(* The next request waits for the limiter.                                 *)
Asks(o, req) ==
    /\ op' = [op EXCEPT ![o].at = "limiter", ![o].req = req]
    /\ UNCHANGED locks

----------------------------------------------------------------------------
(* The limiter lets a request through; the gate takes it if it is open.    *)
Granted(o) ==
    /\ op[o].at = "limiter"
    /\ ~gate.shut
    /\ op' = [op EXCEPT ![o].at = "call", ![o].gen = gate.gen]
    /\ UNCHANGED <<locks, circuit, account, night, stale, gate, saved, seen, spent>>

Answered(o, req) ==
    /\ op[o].at = "call" /\ op[o].req = req
    /\ ~gate.shut /\ gate.gen = op[o].gen

(* The gate refuses the call or its answer, a pause cancels it, or it ends *)
(* in an error of the service.                                             *)
Rejected(o, req) ==
    /\ op[o].req = req
    /\ op[o].at = "call" \/ (op[o].at = "limiter" /\ gate.shut)

(* An account snapshot: _resolve_devices keeps the devices it knows and    *)
(* may find more.                                                          *)
Snapshot(known, devs) ==
    /\ known \in {m \in SUBSET Devices : mapped \subseteq m}
    /\ devs \in SUBSET known
    /\ mapped' = known

----------------------------------------------------------------------------
(* _async_update_data looks at the gate and queues for the I/O lock.       *)
PollBegins(p) ==
    /\ op[p].at = "idle"
    /\ ~gate.shut
    /\ io' = Append(io, p)
    /\ op' = [op EXCEPT ![p].at = "queued"]
    /\ UNCHANGED <<line, circuit, account, night, stale, gate, saved, seen, spent>>

\* Mutant of PollEnters: the I/O lock is not waited for.
PollEntersUnlocked(p) ==
    /\ op[p].at = "queued"
    /\ Asks(p, "snapshots")
    /\ UNCHANGED <<circuit, account, night, stale, gate, saved, seen, spent>>

PollEnters(p) ==
    /\ op[p].at = "queued" /\ Holds(p)
    /\ Asks(p, "snapshots")
    /\ UNCHANGED <<circuit, account, night, stale, gate, saved, seen, spent>>

(* The except branch: one more failure, and the interval of a probe once   *)
(* the circuit is open.                                                    *)
PollFails(p) ==
    /\ fails' = IF fails > Threshold THEN fails ELSE fails + 1
    /\ interval' = IF fails' >= Threshold THEN "probe" ELSE interval
    /\ Leaves(p)
    /\ UNCHANGED <<data, stale>>

\* Mutant of PollSucceeds: the gate is not looked at again.
PollSucceedsUnfenced(p, shot, devs) ==
    /\ data' = [d \in Devices |-> IF d \in devs THEN shot ELSE NoData]
    /\ stale' = FALSE
    /\ fails' = 0
    /\ interval' = "normal"
    /\ Leaves(p)

(* The gate is looked at once more, and the snapshot becomes the data.     *)
PollSucceeds(p, shot, devs) ==
    /\ ~gate.shut
    /\ data' = [d \in Devices |-> IF d \in devs THEN shot ELSE NoData]
    /\ stale' = FALSE
    /\ fails' = 0
    /\ interval' = "normal"
    /\ Leaves(p)

PollEnds(p, shot, devs) ==
    \/ PollSucceeds(p, shot, devs)
    \/ gate.shut /\ PollFails(p)

(* The snapshot is taken.  Unless it is a probe, the energy history and    *)
(* then the night modes that are due are read before it is published.      *)
PollTakesSnapshot(p) ==
    /\ Answered(p, "snapshots")
    /\ Spend("fetches", MaxFetches)
    /\ \E known, up, devs \in SUBSET Devices, energy \in SUBSET {"energy"} :
          \E due \in SUBSET (devs \cap up) :
             /\ Snapshot(known, devs)
             /\ online' = up
             /\ \/ /\ fails = 0 /\ energy \cup due # {}
                   /\ op' = [op EXCEPT ![p] =
                               [@ EXCEPT !.at = "limiter",
                                         !.req = IF energy # {} THEN "energy" ELSE "tonight",
                                         !.shot = spent'.fetches,
                                         !.devs = devs, !.left = due]]
                   /\ UNCHANGED <<locks, circuit, data, stale>>
                \/ /\ fails # 0 \/ energy \cup due = {}
                   /\ PollEnds(p, spent'.fetches, devs)
    /\ UNCHANGED <<night, gate, saved, seen>>

PollRejected(p) ==
    /\ Rejected(p, "snapshots")
    /\ PollFails(p)
    /\ UNCHANGED <<mapped, online, night, gate, saved, seen, spent>>

(* One optional read is over; its failure is not the poll's.               *)
ReadsOn(p, left) ==
    \/ /\ left # {}
       /\ op' = [op EXCEPT ![p] = [@ EXCEPT !.at = "limiter", !.req = "tonight", !.left = left]]
       /\ UNCHANGED <<locks, circuit, data, stale>>
    \/ /\ left = {}
       /\ PollEnds(p, op[p].shot, op[p].devs)

PollReadsEnergy(p) ==
    /\ Answered(p, "energy") \/ Rejected(p, "energy")
    /\ ReadsOn(p, op[p].left)
    /\ UNCHANGED <<mapped, online, night, gate, saved, seen, spent>>

PollReadsNight(p, d) ==
    /\ d \in op[p].left
    /\ \/ /\ Answered(p, "tonight")
          /\ night' = [night EXCEPT ![d] = saved[d]]
          /\ seen' = [seen EXCEPT ![d] = @ \cup {saved[d]}]
       \/ /\ Rejected(p, "tonight")
          /\ night' = [night EXCEPT ![d] = NoSetting]
          /\ UNCHANGED seen
    /\ ReadsOn(p, op[p].left \ {d})
    /\ UNCHANGED <<mapped, online, gate, saved, spent>>

----------------------------------------------------------------------------
(* What a preview wants to have saved.                                     *)
Preview == NoSetting

(* async_control and _async_change_night_mode look at the circuit and      *)
(* queue for the device's lock; a change knows the setting it expects.     *)
Begins(o, d) ==
    /\ op[o].at = "idle"
    /\ ~circuitOpen
    /\ line' = [line EXCEPT ![d] = Append(@, o)]
    /\ \/ o \in Commands /\ op' = [op EXCEPT ![o] = [@ EXCEPT !.at = "device", !.dev = d]]
       \/ /\ o \in Changes /\ d \in mapped \cap online /\ night[d] # NoSetting
          /\ \E v \in Settings \cup {Preview} :
                op' = [op EXCEPT ![o] = [@ EXCEPT !.at = "device", !.dev = d,
                                                  !.expected = night[d], !.wanted = v]]
    /\ UNCHANGED <<io, circuit, account, night, stale, gate, saved, seen, spent>>

(* The device's lock is held; the I/O lock is next.                        *)
TakesDevice(o) ==
    /\ op[o].at = "device"
    /\ Head(line[op[o].dev]) = o
    /\ io' = Append(io, o)
    /\ op' = [op EXCEPT ![o].at = "queued"]
    /\ UNCHANGED <<line, circuit, account, night, stale, gate, saved, seen, spent>>

Unseen == UNCHANGED <<circuit, night, stale, gate, saved, seen>>

\* Mutant of CommandEnters: the circuit is not looked at again.
CommandEntersUnchecked(c) ==
    /\ op[c].at = "queued" /\ Holds(c)
    /\ Asks(c, IF op[c].dev \in mapped THEN "control" ELSE "resolve")
    /\ Unseen /\ UNCHANGED <<account, spent>>

(* The circuit is looked at again: it may have opened meanwhile.           *)
CommandEnters(c) ==
    /\ op[c].at = "queued" /\ Holds(c)
    /\ \/ circuitOpen /\ Leaves(c)
       \/ /\ ~circuitOpen
          /\ Asks(c, IF op[c].dev \in mapped THEN "control" ELSE "resolve")
    /\ Unseen /\ UNCHANGED <<account, spent>>

(* A device without a WideQ id is looked for in one account snapshot, which*)
(* updates the data too.                                                   *)
Resolves(o) ==
    /\ Answered(o, "resolve")
    /\ Spend("fetches", MaxFetches)
    /\ \E known, up, devs \in SUBSET Devices :
          /\ Snapshot(known, devs)
          /\ data' = [d \in Devices |-> IF d \in devs THEN spent'.fetches ELSE data[d]]
          /\ online' = IF o \in Changes THEN up ELSE online
    /\ LET d == op[o].dev IN
       \/ /\ o \in Commands
          /\ \/ d \in mapped' /\ Asks(o, "control")
             \/ d \notin mapped' /\ Leaves(o)
       \/ /\ o \in Changes
          /\ LET there == d \in mapped' /\ d \in online' /\ data'[d] # NoData IN
             \/ there /\ Asks(o, "read")
             \/ ~there /\ Leaves(o)
    /\ Unseen

ResolveRejected(o) ==
    /\ Rejected(o, "resolve")
    /\ Leaves(o)
    /\ Unseen /\ UNCHANGED <<account, spent>>

(* The command has been sent, or has failed.                               *)
CommandEnds(c) ==
    /\ Answered(c, "control") \/ Rejected(c, "control")
    /\ Leaves(c)
    /\ Unseen /\ UNCHANGED <<account, spent>>

ChangeEnters(n) ==
    /\ op[n].at = "queued" /\ Holds(n)
    /\ LET d == op[n].dev
           there == d \in online /\ data[d] # NoData IN
       \/ d \notin mapped /\ Asks(n, "resolve")
       \/ d \in mapped /\ there /\ Asks(n, "read")
       \/ d \in mapped /\ ~there /\ Leaves(n)
    /\ Unseen /\ UNCHANGED <<account, spent>>

(* parse_night_mode: an answer it does not know is a rejection.            *)
Told(n) == saved[op[n].dev]

(* preview_night_mode: the light changes for ten seconds, and nothing that *)
(* is saved.                                                               *)
Sought(n) == IF op[n].wanted = Preview THEN op[n].expected ELSE op[n].wanted
SavedBy(n) == {saved[op[n].dev], Sought(n)}
LastAttempt(n) == op[n].wanted = Preview \/ op[n].tries + 1 >= Attempts

(* set_night_mode_brightness and its siblings: the saved setting is read,  *)
(* and written only if it is still the expected one.                       *)
StillExpected(n) == Told(n) = op[n].expected

(* set_night_mode_setting.                                                 *)
ChangeReads(n) ==
    /\ Answered(n, "read")
    /\ LET d == op[n].dev
           before == Told(n) IN
       /\ seen' = [seen EXCEPT ![d] = @ \cup {before}]
       /\ \/ /\ ~StillExpected(n)
             /\ night' = [night EXCEPT ![d] = NoSetting]
             /\ Leaves(n)
          \/ /\ StillExpected(n) /\ before = op[n].wanted
             /\ night' = [night EXCEPT ![d] = before]
             /\ Leaves(n)
          \/ /\ StillExpected(n) /\ before # op[n].wanted
             /\ Asks(n, "write")
             /\ UNCHANGED night
    /\ UNCHANGED <<circuit, account, stale, gate, saved, spent>>

\* Mutant of ChangeWrites: the acknowledgement is taken for the setting.
ChangeWritesOptimistic(n) ==
    /\ Answered(n, "write")
    /\ \E now \in SavedBy(n) :
          saved' = [saved EXCEPT ![op[n].dev] = now]
    /\ night' = [night EXCEPT ![op[n].dev] = Sought(n)]
    /\ Asks(n, "confirm")
    /\ UNCHANGED <<circuit, account, stale, gate, seen, spent>>

(* The PUT is acknowledged, which does not say that it was saved.          *)
ChangeWrites(n) ==
    /\ Answered(n, "write")
    /\ \E now \in SavedBy(n) :
          saved' = [saved EXCEPT ![op[n].dev] = now]
    /\ Asks(n, "confirm")
    /\ UNCHANGED <<circuit, account, night, stale, gate, seen, spent>>

(* A fresh GET confirms the setting, or does not: another attempt, or none *)
(* is left or the change went wrong.                                       *)
ChangeConfirms(n) ==
    /\ Answered(n, "confirm")
    /\ LET d == op[n].dev IN
       /\ seen' = [seen EXCEPT ![d] = @ \cup {Told(n)}]
       /\ \/ /\ Told(n) = Sought(n)
             /\ night' = [night EXCEPT ![d] = Told(n)]
             /\ Leaves(n)
          \/ /\ Told(n) # Sought(n)
             /\ night' = [night EXCEPT ![d] = NoSetting]
             /\ Leaves(n)
          \/ /\ Told(n) # Sought(n)
             /\ ~LastAttempt(n)
             /\ op' = [op EXCEPT ![n].at = "limiter", ![n].tries = @ + 1]
             /\ UNCHANGED <<night, locks>>
    /\ UNCHANGED <<circuit, account, stale, gate, saved, spent>>

(* A refused or failed request of a change; a PUT may have been saved.     *)
ChangeRejected(n) ==
    /\ \E req \in {"read", "write", "confirm"} : Rejected(n, req)
    /\ night' = [night EXCEPT ![op[n].dev] = NoSetting]
    /\ \/ UNCHANGED saved
       \/ /\ op[n].req = "write" /\ op[n].at = "call"
          /\ saved' = [saved EXCEPT ![op[n].dev] = Sought(n)]
    /\ Leaves(n)
    /\ UNCHANGED <<circuit, account, stale, gate, seen, spent>>

(* A service call or a runtime task is cancelled wherever it waits.        *)
Cancelled(o) ==
    /\ op[o].at # "idle"
    /\ \/ UNCHANGED saved
       \/ /\ op[o].req = "write" /\ op[o].at = "call"
          /\ saved' = [saved EXCEPT ![op[o].dev] = Sought(o)]
    /\ Leaves(o)
    /\ UNCHANGED <<circuit, account, night, stale, gate, seen, spent>>

----------------------------------------------------------------------------
\* Mutant of Reconcile: also while the circuit is open.
ReconcileAlways ==
    /\ interval' = "normal"
    /\ UNCHANGED <<locks, op, fails, account, night, stale, gate, saved, seen, spent>>

(* reconcile_interval, for every change PAT reports.                       *)
Reconcile ==
    /\ ~circuitOpen
    /\ interval' = "normal"
    /\ UNCHANGED <<locks, op, fails, account, night, stale, gate, saved, seen, spent>>

(* CloudRuntime pauses the account, marks the data once nothing of it is   *)
(* in flight any more, and resumes it.                                     *)
Pause ==
    /\ Spend("pauses", MaxPauses)
    /\ gate' = [gate EXCEPT !.shut = TRUE, !.gen = @ + 1]
    /\ UNCHANGED <<locks, op, circuit, account, night, stale, saved, seen>>

Acknowledge ==
    /\ gate.shut /\ ~gate.acknowledged
    /\ \A o \in Ops : op[o].at # "call"
    /\ gate' = [gate EXCEPT !.acknowledged = TRUE]
    /\ stale' = TRUE
    /\ UNCHANGED <<locks, op, circuit, account, night, saved, seen, spent>>

Resume ==
    /\ gate.shut
    /\ gate' = [shut |-> FALSE, gen |-> gate.gen + 1, acknowledged |-> FALSE]
    /\ UNCHANGED <<locks, op, circuit, account, night, stale, saved, seen, spent>>

(* Another client of the account edits a night mode.                       *)
Touch(d, v) ==
    /\ Spend("touches", MaxTouches)
    /\ saved' = [saved EXCEPT ![d] = v]
    /\ UNCHANGED <<locks, op, circuit, account, night, stale, gate, seen>>

PollStep(p) ==
    \/ PollEnters(p)
    \/ PollTakesSnapshot(p)
    \/ PollRejected(p)
    \/ PollReadsEnergy(p)
    \/ \E d \in Devices : PollReadsNight(p, d)

CommandStep(c) ==
    \/ CommandEnters(c)
    \/ CommandEnds(c)

ChangeStep(n) ==
    \/ ChangeEnters(n)
    \/ ChangeReads(n)
    \/ ChangeWrites(n)
    \/ ChangeConfirms(n)
    \/ ChangeRejected(n)

(* What a coroutine does once it is under way.                             *)
Proceeds(o) ==
    \/ Granted(o)
    \/ o \in Polls /\ PollStep(o)
    \/ o \in Commands /\ CommandStep(o)
    \/ o \in Changes /\ ChangeStep(o)
    \/ o \notin Polls /\ (TakesDevice(o) \/ Resolves(o) \/ ResolveRejected(o))

Next ==
    \/ \E p \in Polls : PollBegins(p)
    \/ \E o \in Commands \cup Changes, d \in Devices : Begins(o, d)
    \/ \E o \in Ops : Proceeds(o) \/ Cancelled(o)
    \/ Reconcile
    \/ Pause
    \/ Acknowledge
    \/ Resume
    \/ \E d \in Devices, v \in Settings : Touch(d, v)

Spec == Init /\ [][Next]_vars

(* Locks are handed on, the limiter grants, and a call ends: with an       *)
(* answer, an error or a timeout of the client's session.                  *)
Fairness == \A o \in Ops : WF_vars(Proceeds(o))

FairSpec == Spec /\ Fairness

----------------------------------------------------------------------------
(* No request of a device command is under way while the circuit is open,  *)
(* although a poll may have opened it after the command was accepted       *)
(* ("Re-check after waiting"), and then the account is polled at the       *)
(* interval of a recovery probe, whatever PAT reports meanwhile.  A night- *)
(* mode change does not look again once it has its locks: it is left out.  *)
CircuitIsRespected ==
    circuitOpen => /\ \A c \in Commands : op[c].at \notin {"limiter", "call"}
                   /\ interval = "probe"

(* The displayed snapshot of a device is never replaced by an older one,   *)
(* although polls and commands both publish snapshots they took before     *)
(* further waits.                                                          *)
DataMovesForward ==
    [][\A d \in Devices : data'[d] = NoData \/ data'[d] >= data[d]]_vars

(* night_mode_for: "the last confirmed saved tuple, never an optimistic PUT*)
(* value".                                                                 *)
NightModeWasRead == \A d \in Devices : night[d] \in seen[d] \cup {NoSetting}

(* Once a pause is acknowledged the data stays marked as stale, whatever   *)
(* polls were under way.                                                   *)
PausedDataIsStale == gate.acknowledged => stale

(* What the coordinator keeps is true: a night mode was read from the      *)
(* account, and the data of a paused account is marked as stale.           *)
CachesAreHonest == NightModeWasRead /\ PausedDataIsStale

(* Whoever polls, commands or changes a night mode comes out of both locks:*)
(* nobody waits for ever for somebody who waits.                           *)
EveryoneLeaves == \A o \in Ops : op[o].at # "idle" ~> op[o].at = "idle"

=============================================================================
