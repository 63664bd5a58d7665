-------------------------- MODULE CompositeControl ---------------------------
(***************************************************************************)
(* The send_wideq_command service of services.py, build_wideq_request of   *)
(* control_router.py and async_control of coordinator_wideq.py, for one    *)
(* appliance whose controls are composite: a command sets some fields and  *)
(* says all the others again, as the last account snapshot has them.  PAT  *)
(* sets some of the same fields by commands of its own, and the user sets  *)
(* any of them at the appliance.                                           *)
(***************************************************************************)
EXTENDS Integers, Sequences

CONSTANTS Calls,         \* calls of the service
          Poll,          \* the account poll
          Template,        \* the fields of the template,
          PAT_PRIORITY_FIELDS,  \*   those PAT is authoritative for,
          Writable,      \*   writable_fields,
          Experimental,  \*   experimental_fields
          Values,
          Unknown        \* not in the snapshot; no snapshot

ASSUME CompositeAssumption ==
    /\ Poll \notin Calls /\ Unknown \notin Values
    /\ PAT_PRIORITY_FIELDS \subseteq Template
    /\ Writable \subseteq Template /\ Experimental \subseteq Template

VARIABLES control,   \* the control: its shape, its risk; the options that unlock it
          setting,      \* the appliance: its fields,
          remote,    \*   and whether remote control is enabled at it
          snapshot,  \* snapshot_for: what the last account snapshot said,
          enabled,   \*   and whether it said that remote control was enabled
          identified,     \* whether the WideQ id is identified
          holders,   \* who waits for self._io_lock; its head holds it
          call,      \* where each call is, and what it has in hand
          by         \* history: who has set each field last: a command, or the user

compositeVars == <<control, setting, remote, snapshot, enabled, identified, holders, call, by>>
lastRead == <<snapshot, enabled, identified>>
appliance == <<setting, remote, by>>

Unset == [f \in {} |-> Unknown]
NoSnapshot == [f \in Template |-> Unknown]
NoCall == [at |-> "idle", values |-> Unset, request |-> Unset]

CompositeInit ==
    /\ control \in [shape : {"template", "dataset"},
                    risk : {"low", "operation", "hazardous", "experimental"},
                    unlocked : SUBSET {"hazardous", "experimental"}]
    /\ setting \in [Template -> Values] /\ remote \in BOOLEAN
    /\ by = [f \in Template |-> "user"]
    /\ snapshot = NoSnapshot /\ enabled = FALSE
    /\ identified \in BOOLEAN
    /\ holders = <<>>
    /\ call = [c \in Calls |-> NoCall]

----------------------------------------------------------------------------
(* _render_placeholders: a field that is not set is said again as the      *)
(* snapshot has it.                                                        *)
Preserved(f) == snapshot[f]

(* build_wideq_request: a template says every field, the other shapes what *)
(* is set.                                                                 *)
Request(values) ==
    [f \in IF control.shape = "template" THEN Template ELSE DOMAIN values |->
        IF f \in DOMAIN values THEN values[f] ELSE Preserved(f)]

(* A field that is fixed, or one to be preserved that the snapshot has not.*)
Invalid(values) ==
    \/ ~(DOMAIN values \subseteq Writable)
    \/ \E f \in DOMAIN Request(values) : Request(values)[f] = Unknown

(* pat_priority_requested, control_uses_experimental_values and            *)
(* remote_control_enabled, as PAT and the last snapshot have it.           *)
Claimed(values) == DOMAIN values \cap PAT_PRIORITY_FIELDS # {}
Unaudited(values) == DOMAIN values \cap Experimental # {}
RemoteEnabled == remote \/ enabled

(* _handle_wideq_command, before any lock: PAT's fields are PAT's, a risk  *)
(* needs its option, and what acts needs remote control.                   *)
Allowed(values) ==
    /\ ~Claimed(values)
    /\ control.risk = "hazardous" => "hazardous" \in control.unlocked
    /\ control.risk = "experimental" \/ Unaudited(values) => "experimental" \in control.unlocked
    /\ control.risk \in {"operation", "hazardous"} => RemoteEnabled

Called(c) ==
    /\ call[c].at = "idle"
    /\ \E fs \in SUBSET Template \ {{}} : \E values \in [fs -> Values] :
          /\ Allowed(values)
          /\ holders' = Append(holders, c)
          /\ call' = [call EXCEPT ![c] = [at |-> "queued", values |-> values, request |-> Unset]]
    /\ UNCHANGED <<control, appliance, lastRead>>

(* Whoever asks for the lock is in its queue once.                         *)
RemoveFrom(queue, i) == SubSeq(queue, 1, i - 1) \o SubSeq(queue, i + 1, Len(queue))

Without(queue, o) ==
    IF \E i \in 1 .. Len(queue) : queue[i] = o
    THEN RemoveFrom(queue, CHOOSE i \in 1 .. Len(queue) : queue[i] = o)
    ELSE queue

(* The command leaves with an answer, or with an error.                    *)
Leaves(c) ==
    /\ holders' = Without(holders, c)
    /\ call' = [call EXCEPT ![c] = NoCall]

Holds(w) == holders # <<>> /\ Head(holders) = w

(* An account snapshot, which the appliance may be missing from.           *)
Snapshot(there) ==
    /\ snapshot' = IF there THEN setting ELSE NoSnapshot
    /\ enabled' = (there /\ remote)

(* request_factory, under the locks; then the limiter is waited for.       *)
Builds(c) == [call EXCEPT ![c].at = "limiter", ![c].request = Request(call[c].values)]

\* Mutant of Enters: the limiter is waited for without the lock.
EntersReleasing(c) ==
    /\ call[c].at = "queued" /\ Holds(c) /\ identified
    /\ IF Invalid(call[c].values) THEN Leaves(c) ELSE call' = Builds(c) /\ holders' = Tail(holders)
    /\ UNCHANGED <<control, appliance, lastRead>>

Enters(c) ==
    /\ call[c].at = "queued" /\ Holds(c) /\ identified
    /\ IF Invalid(call[c].values) THEN Leaves(c) ELSE call' = Builds(c) /\ UNCHANGED holders
    /\ UNCHANGED <<control, appliance, lastRead>>

(* An appliance without a WideQ id is looked for in one snapshot, which is *)
(* merged into what is shown.                                              *)
Resolves(c) ==
    /\ call[c].at = "queued" /\ Holds(c) /\ ~identified
    /\ \/ /\ Snapshot(TRUE) /\ identified' = TRUE
          /\ UNCHANGED <<holders, call>>
       \/ Leaves(c) /\ UNCHANGED lastRead
    /\ UNCHANGED <<control, appliance>>

(* The circuit is open, the gate shut, or the caller has gone.             *)
Refused(c) ==
    /\ call[c].at # "idle"
    /\ Leaves(c)
    /\ UNCHANGED <<control, appliance, lastRead>>

(* The appliance does what it is told.  No poll follows, and the snapshot  *)
(* is left as it is; the answer may be lost.                               *)
Sends(c) ==
    /\ call[c].at = "limiter"
    /\ LET told == call[c].request IN
       /\ setting' = [f \in Template |-> IF f \in DOMAIN told THEN told[f] ELSE setting[f]]
       /\ by' = [f \in Template |-> IF f \in DOMAIN call[c].values THEN "command" ELSE by[f]]
    /\ Leaves(c)
    /\ UNCHANGED <<control, remote, lastRead>>

----------------------------------------------------------------------------
Polls ==
    /\ \A i \in DOMAIN holders : holders[i] # Poll
    /\ holders' = Append(holders, Poll)
    /\ UNCHANGED <<control, appliance, lastRead, call>>

\* Mutant of PollAnswered: a poll does not wait for the lock.
PollAnsweredUnlocked ==
    /\ \E i \in DOMAIN holders : holders[i] = Poll
    /\ \/ \E there \in BOOLEAN : Snapshot(there) /\ identified' = (identified \/ there)
       \/ UNCHANGED lastRead
    /\ holders' = Without(holders, Poll)
    /\ UNCHANGED <<control, appliance, call>>

(* _async_update_data: the snapshot replaces the last one, if it comes.    *)
PollAnswered ==
    /\ Holds(Poll)
    /\ \/ \E there \in BOOLEAN : Snapshot(there) /\ identified' = (identified \/ there)
       \/ UNCHANGED lastRead
    /\ holders' = Tail(holders)
    /\ UNCHANGED <<control, appliance, call>>

(* A command of a PAT entity, and the user.                                *)
SetByPat(f, v) ==
    /\ f \in PAT_PRIORITY_FIELDS
    /\ setting' = [setting EXCEPT ![f] = v] /\ by' = [by EXCEPT ![f] = "command"]
    /\ UNCHANGED <<control, remote, lastRead, holders, call>>

SetByUser ==
    /\ \/ \E f \in Template, v \in Values :
             /\ setting' = [setting EXCEPT ![f] = v] /\ by' = [by EXCEPT ![f] = "user"]
             /\ UNCHANGED remote
       \/ remote' = ~remote /\ UNCHANGED <<setting, by>>
    /\ UNCHANGED <<control, lastRead, holders, call>>

CompositeNext ==
    \/ \E c \in Calls : Called(c) \/ Enters(c) \/ Resolves(c) \/ Refused(c) \/ Sends(c)
    \/ Polls
    \/ PollAnswered
    \/ \E f \in PAT_PRIORITY_FIELDS, v \in Values : SetByPat(f, v)
    \/ SetByUser

CompositeSpec == CompositeInit /\ [][CompositeNext]_compositeVars

(* One appliance none of whose fields is PAT's, with a template.           *)
TemplateSpec ==
    /\ CompositeInit /\ control = [shape |-> "template", risk |-> "low", unlocked |-> {}]
    /\ [][CompositeNext]_compositeVars

----------------------------------------------------------------------------
(* What a command says of the fields it does not set is what the account   *)
(* said last when it leaves, however long it waited for the locks and the    *)
(* limiter: it undoes nothing a poll has shown.                            *)
PreservesTheLatest ==
    \A c \in Calls : call[c].at = "limiter" =>
        \A f \in DOMAIN call[c].request \ DOMAIN call[c].values :
            call[c].request[f] = snapshot[f]

(* "Read under the coordinator's command/I/O locks so composite              *)
(* preservation fields cannot be stale due to another command": a command  *)
(* leaves what another has set as it is.                                   *)
NothingIsUndone ==
    [][\A c \in Calls : call[c].at = "limiter" /\ setting' # setting /\ call'[c].at = "idle" =>
          \A f \in Template \ DOMAIN call[c].values : by[f] = "command" => setting'[f] = setting[f]
      ]_compositeVars

=============================================================================
