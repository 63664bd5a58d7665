----------------------------- MODULE LocalSetting -----------------------------
(***************************************************************************)
(* Sending one local setting of an appliance (local_control_entity.py,     *)
(* the scalar half of local_control_router.py, local_control_native.py,    *)
(* button.py), while the feature database is edited:                       *)
(*  - the entities of the factory: one lock each, no cloud, given up for   *)
(*    good after a refusal before the wire; those the bridge remembers the *)
(*    state of are polled, and read once more after a command;             *)
(*  - a draft, and its button: entering a recipe sends nothing, a press    *)
(*    sends it once; the styler's course or program, and its Start button; *)
(*  - a native card: local first, the cloud when nothing was sent.         *)
(* The bridge's answers to one POST, the appliance and its report are the *)
(* environment.  Service calls reach an entity only while it is available. *)
(***************************************************************************)
EXTENDS LocalContract, Sequences

CONSTANTS
    Databases,   \* Databases[n]: a content of the feature database, with its conditions
    Options,     \* an installer's options
    Factory,     \* capabilities the factory makes entities of
    Remembered,  \* those of them whose state the bridge remembers
    Drafts, Actions, Cards,
    Course, Program, \* the two capabilities the styler's Start button sends
    Locks,       \* values of the state the conditions are about
    Values,      \* the modelled values
    Requests,    \* what is asked of controls: <<capability, value>>
    Nothing,     \* no value, no entity, not reported
    Callers,
    MaxEvents    \* bound: user actions, edits, presence changes and failed reads together

Kinds == {"factory", "action", "card", "start"}
Names == DOMAIN Databases
Settings == {0, 1}  \* what the one modelled field of the appliance can be

\* A descriptor as the loaders make it: only a row of the database may be a draft or an action,
\* and a parameter, whose texts have a schema, lists no values.
Loaded(c, d) ==
    /\ d \in [domain : Domains, values : SUBSET Int, min : Int, max : Int, step : Int,
              factory : BOOLEAN, reported : BOOLEAN, from : Capabilities \cup {"none"}, texts : SUBSET Int]
    /\ IsFiniteSet(d.values)
    /\ d.domain = "draft" => c \in Drafts
    /\ d.domain = "action" => c \in Actions
    /\ d.domain = "parameter" => d.values = {}

\* What features add is a switch, a select, a button or a parameter, in every catalogue released;
\* a number of theirs would have no grid, and no entity can be made of it.
LoadedFeature(c, f) == Loaded(c, f.descriptor) /\ (~f.extends => f.descriptor.domain # "number")

ASSUME CatalogueAssumption ==
    /\ \A c \in DOMAIN Bundled : Loaded(c, Bundled[c]) /\ WellFormed(Bundled[c])
    /\ \A c \in DOMAIN BundledFeatures : LoadedFeature(c, BundledFeatures[c])
    /\ \A n \in Names : \A c \in DOMAIN Databases[n].rows :
          LET row == Databases[n].rows[c]
          IN  Loaded(c, row.descriptor) /\ LoadedFeature(c, row.feature)

VARIABLES
    options,
    applied,     \* the content in force: the disabled functions and the conditions are its own
    menu,        \* the contract and the eligibility made of it
    device,      \* the appliance: its setting, and its lock
    report,      \* the lock's value as the providers last had it
    alive,       \* the command target: authenticated presence and the bridge's ID for it
    entities,    \* factory entities: descriptor, which object, given up, remembered state
    poll,        \* HA's poll of one remembered state
    calls,       \* service calls under way
    draft,       \* _feature_drafts, and which intent entered it
    choice,      \* the styler's course or program, and which intent chose it
    used,        \* history: commands each entered draft or choice has led to
    events

menuVars == <<options, applied, menu>>
worldVars == <<device, report, alive>>
intentVars == <<draft, choice, used>>
settingVars == <<menuVars, worldVars, entities, poll, calls, intentVars, events>>

(***************************************************************************)
(* The menu in force.                                                      *)
(***************************************************************************)
IsDisabled(cap) == cap \in Disabled(Databases[applied])

NoPolicy == [valid |-> TRUE, all |-> {}, byValue |-> [v \in {} |-> {}]]
Policy(cap) ==
    LET db == Databases[applied]
    IN IF db.rollout \in {"ours", "all"} /\ cap \in DOMAIN db.conditions THEN db.conditions[cap] ELSE NoPolicy

\* reported_local_value, whichever provider has it
Reported == [s \in IF report = Nothing THEN {} ELSE {"lock"} |-> report]

ConditionMet(cap, values) == EvaluateCondition(Policy(cap), Reported, values)
Authorised(cap, v) == ~IsDisabled(cap) /\ ValueAuthorized(menu, cap, v)

(***************************************************************************)
(* Entities.                                                               *)
(***************************************************************************)
NoEntity == [desc |-> Nothing, object |-> 0, refused |-> FALSE, shown |-> Nothing]
Wanted(cap) == IF cap \in Offered(menu) THEN menu.contract[cap] ELSE Nothing
There(cap) == entities[cap].desc # Nothing

Inputs(d) == IF d.domain = "number" THEN Grid(d) ELSE d.values

Available(cap) ==
    /\ There(cap) /\ ~entities[cap].refused
    /\ alive /\ ConditionMet(cap, {})

NoCall == [step |-> "idle", kind |-> "factory", cap |-> Nothing, value |-> Nothing, object |-> 0,
           intent |-> 0, commands |-> 0]
NoPoll == [step |-> "idle", cap |-> Nothing, object |-> 0, value |-> Nothing]
NoDraft == [value |-> Nothing, intent |-> 0]
NoChoice == [cap |-> Nothing, value |-> Nothing, intent |-> 0]

SettingInit ==
    /\ options \in Options
    /\ applied \in Names /\ menu = AtSetup(Databases[applied], options)
    /\ device = [setting |-> 0, lock |-> CHOOSE l \in Locks : TRUE]
    /\ report \in {device.lock, Nothing}
    /\ alive = TRUE
    /\ entities = [cap \in Factory |->
          IF Wanted(cap) = Nothing THEN NoEntity ELSE [NoEntity EXCEPT !.desc = Wanted(cap), !.object = 1]]
    /\ poll = NoPoll
    /\ calls = [c \in Callers |-> NoCall]
    /\ draft = NoDraft /\ choice = NoChoice /\ used = <<>>
    /\ events = 0

Event == events < MaxEvents /\ events' = events + 1

(***************************************************************************)
(* One command: the router's checks up to the POST, without an await.      *)
(***************************************************************************)
\* only the factory's entities and their buttons hold a lock of their own
HasLock(call) == call.kind \in {"factory", "action"}
Busy(c, call) ==
    /\ HasLock(call)
    /\ \E other \in Callers \ {c} :
           /\ calls[other].step \in {"queued", "posted"} /\ HasLock(calls[other])
           /\ calls[other].cap = call.cap /\ calls[other].object = call.object

\* mutant: the conditions are not looked at again once the entity has the lock
FreshEnough(call) == ~IsDisabled(call.cap)
\* ensure_feature_enabled and ensure_feature_conditions, at the time of sending
MayGo(call) == ~IsDisabled(call.cap) /\ (alive => ConditionMet(call.cap, {call.value}))

Refusal(call) == IF call.kind = "card" THEN [call EXCEPT !.step = "cloud"] ELSE NoCall

\* async_set_value and async_set_value_strict with _send: an error, a refusal before the
\* wire (None), or the POST
Sent(call) ==
    IF ~MayGo(call) THEN NoCall
    ELSE IF ~alive \/ ~Authorised(call.cap, call.value) THEN Refusal(call)
    ELSE [call EXCEPT !.step = "posted"]

\* a factory entity gives up for good when nothing could be sent
GivesUp(call) ==
    IF call.kind \in {"factory", "action"} /\ entities[call.cap].object = call.object
    THEN entities' = [entities EXCEPT ![call.cap].refused = TRUE]
    ELSE UNCHANGED entities

Send(c, call) ==
    /\ calls' = [calls EXCEPT ![c] = Sent(call)]
    /\ IF MayGo(call) /\ (~alive \/ ~Authorised(call.cap, call.value)) THEN GivesUp(call)
       ELSE UNCHANGED entities

\* _async_send: the checks before the lock; a free lock is taken at once
SendLocked(c, call) ==
    IF Busy(c, call) THEN calls' = [calls EXCEPT ![c] = [call EXCEPT !.step = "queued"]] /\ UNCHANGED entities
    ELSE Send(c, call)

Enter(c) ==
    /\ calls[c].step = "queued"
    /\ ~\E other \in Callers \ {c} :
           /\ calls[other].step = "posted" /\ HasLock(calls[other])
           /\ calls[other].cap = calls[c].cap /\ calls[other].object = calls[c].object
    /\ Send(c, calls[c])
    /\ UNCHANGED <<menuVars, worldVars, poll, intentVars, events>>

(***************************************************************************)
(* What a user does.                                                       *)
(***************************************************************************)
Asked(kind, cap, v, intent) ==
    [NoCall EXCEPT !.kind = kind, !.cap = cap, !.value = v, !.intent = intent,
                   !.object = IF cap \in Factory THEN entities[cap].object ELSE 0]

\* a switch, select, number or button of the factory
Ask(c, cap, v) ==
    /\ calls[c].step = "idle" /\ Event
    /\ cap \in Factory \ (Drafts \union Actions \union {Course, Program})
    /\ Available(cap) /\ v \in Inputs(entities[cap].desc) /\ ConditionMet(cap, {v})
    /\ SendLocked(c, Asked("factory", cap, v, 0))
    /\ UNCHANGED <<menuVars, worldVars, poll, intentVars>>

\* MyLgFeatureDraftText.async_set_value: text of the draft's pattern is kept
EnterDraft(cap, v) ==
    /\ Event
    /\ cap \in Factory \intersect Drafts /\ Available(cap)
    /\ v \in entities[cap].desc.texts /\ ~IsDisabled(cap)
    /\ draft' = [value |-> v, intent |-> Len(used) + 1]
    /\ used' = Append(used, 0)
    /\ UNCHANGED <<menuVars, worldVars, entities, poll, calls, choice>>

\* mutant: the draft is given up only once its command is answered
KeptDraft(d) == d
\* set_feature_draft(None): consumed before the first await
Consumed(d) == NoDraft

\* MyLgFeatureDraftButton.async_press
Press(c, cap) ==
    /\ calls[c].step = "idle" /\ Event
    /\ cap \in Factory \intersect Actions /\ Available(cap)
    /\ draft.value # Nothing /\ Authorised(cap, draft.value)
    /\ LET from == entities[cap].desc.from IN
       IF IsDisabled(from) THEN UNCHANGED <<calls, entities, draft>>
       ELSE /\ draft' = Consumed(draft)
            /\ IF ConditionMet(cap, {draft.value})
               THEN SendLocked(c, Asked("action", cap, draft.value, draft.intent))
               ELSE UNCHANGED <<calls, entities>>
    /\ UNCHANGED <<menuVars, worldVars, poll, choice, used>>

\* select_styler_course and select_styler_options: one replaces the other, nothing is sent
ChooseProgram(cap, v) ==
    /\ Event
    /\ cap \in Factory \intersect {Course, Program} /\ Available(cap)
    /\ Authorised(cap, v) /\ ConditionMet(cap, IF cap = Course THEN {v} ELSE {})
    /\ choice' = [cap |-> cap, value |-> v, intent |-> Len(used) + 1]
    /\ used' = Append(used, 0)
    /\ UNCHANGED <<menuVars, worldVars, entities, poll, calls, draft>>

\* the Start button: take_styler_start consumes, async_execute sends, there is no cloud
Start(c) ==
    /\ calls[c].step = "idle" /\ Event
    /\ choice.cap # Nothing
    /\ choice' = NoChoice
    /\ Send(c, Asked("start", choice.cap, choice.value, choice.intent))
    /\ UNCHANGED <<menuVars, worldVars, poll, draft, used>>

\* async_native_local_control of a native card, and its cloud fallback
UseCard(c, cap, v) ==
    /\ calls[c].step = "idle" /\ Event
    /\ cap \in Cards
    /\ Send(c, Asked("card", cap, v, 0))
    /\ UNCHANGED <<menuVars, worldVars, poll, intentVars>>

Cloud(c) ==     \* coordinator.async_control
    /\ calls[c].step = "cloud"
    /\ calls' = [calls EXCEPT ![c].step = "done", ![c].commands = @ + 1]
    /\ UNCHANGED <<menuVars, worldVars, entities, poll, intentVars, events>>

(***************************************************************************)
(* The bridge's answers.                                                   *)
(***************************************************************************)
Commanded(call) ==      \* the frame left the bridge
    used' = IF call.intent = 0 THEN used ELSE [used EXCEPT ![call.intent] = @ + 1]

Applied(call, took) ==
    device' = IF took /\ call.cap \in Remembered THEN [device EXCEPT !.setting = call.value] ELSE device

\* a remembered state is read again after a command that raised no error
After(call) == [call EXCEPT !.step = IF call.cap \in Remembered THEN "update" ELSE "done", !.commands = @ + 1]

Confirmed(c) ==
    /\ calls[c].step = "posted"
    /\ Commanded(calls[c]) /\ Applied(calls[c], TRUE)
    /\ calls' = [calls EXCEPT ![c] = After(@)]
    /\ UNCHANGED <<menuVars, report, alive, entities, poll, draft, choice, events>>

\* mutant: an answer that leaves open whether the frame was sent counts as a refusal
OnUnclearRefused(call) ==
    IF call.kind = "card" THEN [call EXCEPT !.step = "cloud", !.commands = @ + 1] ELSE After(call)
\* Pending, an unexpected verdict or an unverifiable one: nobody sends it again, and an error
\* raised for it skips the read.  A frame that takes effect only later is the appliance's change.
OnUnclear(call) == After(call)

Unclear(c) ==
    /\ calls[c].step = "posted"
    /\ Commanded(calls[c])
    /\ \E took \in BOOLEAN : Applied(calls[c], took)
    /\ \E raised \in BOOLEAN :
           calls' = [calls EXCEPT ![c] = IF raised /\ OnUnclear(@).step = "update"
                                         THEN [OnUnclear(@) EXCEPT !.step = "done"] ELSE OnUnclear(@)]
    /\ UNCHANGED <<menuVars, report, alive, entities, poll, draft, choice, events>>

Refused(c) ==   \* unreachable, or a 4xx: no frame left
    /\ calls[c].step = "posted"
    /\ calls' = [calls EXCEPT ![c] = Refusal(@)]
    /\ GivesUp(calls[c])
    /\ UNCHANGED <<menuVars, worldVars, poll, intentVars, events>>

\* busy or not ready: an error of the strict callers, a refusal to the others
Retryable(c) ==
    /\ calls[c].step = "posted"
    /\ calls' = [calls EXCEPT ![c] = IF @.kind \in {"factory", "action"} THEN NoCall ELSE Refusal(@)]
    /\ UNCHANGED <<menuVars, worldVars, entities, poll, intentVars, events>>

\* async_update after the command: the bridge is asked, and the answer is shown
Shows(cap, object, v) ==
    entities' = IF entities[cap].object = object THEN [entities EXCEPT ![cap].shown = v] ELSE entities

ReadBack(c) ==
    /\ calls[c].step = "update"
    /\ calls' = [calls EXCEPT ![c] = [@ EXCEPT !.step = "landing", !.value = IF alive THEN device.setting ELSE Nothing]]
    /\ UNCHANGED <<menuVars, worldVars, entities, poll, intentVars, events>>

Land(c) ==
    /\ calls[c].step = "landing"
    /\ Shows(calls[c].cap, calls[c].object, calls[c].value)
    /\ calls' = [calls EXCEPT ![c] = [@ EXCEPT !.step = "done"]]
    /\ UNCHANGED <<menuVars, worldVars, poll, intentVars, events>>

Return(c) ==
    /\ calls[c].step = "done"
    /\ calls' = [calls EXCEPT ![c] = NoCall]
    /\ UNCHANGED <<menuVars, worldVars, entities, poll, intentVars, events>>

(***************************************************************************)
(* Polls of the remembered states.                                         *)
(***************************************************************************)
\* mutant: an entity that was given up is polled no more
StillPolled(cap) == There(cap) /\ ~entities[cap].refused
\* should_poll, whatever its availability
Polled(cap) == There(cap)

Poll(cap) ==
    /\ poll.step = "idle"
    /\ cap \in Remembered /\ Polled(cap)
    /\ poll' = [step |-> "landing", cap |-> cap, object |-> entities[cap].object,
                value |-> IF alive THEN device.setting ELSE Nothing]
    /\ UNCHANGED <<menuVars, worldVars, entities, calls, intentVars, events>>

PollLands ==
    /\ poll.step = "landing"
    /\ Shows(poll.cap, poll.object, poll.value)
    /\ poll' = NoPoll
    /\ UNCHANGED <<menuVars, worldVars, calls, intentVars, events>>

PollFails ==    \* an error or an answer of another shape shows nothing
    /\ poll.step = "landing" /\ Event
    /\ Shows(poll.cap, poll.object, Nothing)
    /\ poll' = NoPoll
    /\ UNCHANGED <<menuVars, worldVars, calls, intentVars>>

(***************************************************************************)
(* The environment: the appliance, its report, its presence, and a live   *)
(* edit, which swaps the menu at once and the entities one after another.  *)
(***************************************************************************)
Touch ==
    /\ Event
    /\ \/ \E v \in Settings \ {device.setting} : device' = [device EXCEPT !.setting = v]
       \/ \E l \in Locks \ {device.lock} : device' = [device EXCEPT !.lock = l]
    /\ UNCHANGED <<menuVars, report, alive, entities, poll, calls, intentVars>>

Report ==
    /\ report # device.lock
    /\ report' = device.lock
    /\ UNCHANGED <<menuVars, device, alive, entities, poll, calls, intentVars, events>>

Expires ==
    /\ report # Nothing /\ Event
    /\ report' = Nothing
    /\ UNCHANGED <<menuVars, device, alive, entities, poll, calls, intentVars>>

Presence ==
    /\ Event
    /\ alive' = ~alive
    /\ UNCHANGED <<menuVars, device, report, entities, poll, calls, intentVars>>

Edit(n) ==
    /\ n # applied /\ Event /\ AtEdit(Databases[n], options).ok
    /\ \A cap \in Factory : entities[cap].desc = Wanted(cap)
    /\ applied' = n /\ menu' = AtEdit(Databases[n], options)
    /\ UNCHANGED <<options, worldVars, entities, poll, calls, intentVars>>

Replace(cap) ==
    /\ entities[cap].desc # Wanted(cap)
    /\ entities' = [entities EXCEPT ![cap] =
          [NoEntity EXCEPT !.desc = Wanted(cap), !.object = entities[cap].object + 1]]
    /\ UNCHANGED <<menuVars, worldVars, poll, calls, intentVars, events>>

Answer(c) == Confirmed(c) \/ Unclear(c) \/ Refused(c) \/ Retryable(c)
Goes(c) == Enter(c) \/ Answer(c) \/ Cloud(c) \/ ReadBack(c) \/ Land(c) \/ Return(c)

SettingNext ==
    \/ \E c \in Callers :
           \/ \E r \in Requests : Ask(c, r[1], r[2]) \/ UseCard(c, r[1], r[2])
           \/ \E cap \in Actions : Press(c, cap)
           \/ Start(c) \/ Goes(c)
    \/ \E cap \in Drafts, v \in Values : EnterDraft(cap, v)
    \/ \E r \in Requests : ChooseProgram(r[1], r[2])
    \/ \E cap \in Remembered : Poll(cap)
    \/ PollLands \/ PollFails
    \/ Touch \/ Presence
    \/ Report \/ Expires
    \/ \E n \in Names : Edit(n)
    \/ \E cap \in Factory : Replace(cap)

\* The bridge answers or the request times out; Home Assistant polls; the platforms work on.
SettingFairness ==
    /\ \A c \in Callers : WF_settingVars(Goes(c))
    /\ \A cap \in Remembered : WF_settingVars(Poll(cap))
    /\ WF_settingVars(PollLands)
    /\ \A cap \in Factory : WF_settingVars(Replace(cap))

SettingSpec == SettingInit /\ [][SettingNext]_settingVars /\ SettingFairness

(***************************************************************************)
(* Properties.                                                             *)
(***************************************************************************)
\* One service call leads to at most one command, local or cloud, and so does one entered
\* recipe or one chosen program, however often its button is pressed and whatever is unclear.
OnePerIntent ==
    /\ \A c \in Callers : calls[c].commands <= 1
    /\ \A i \in DOMAIN used : used[i] <= 1

\* What is posted is enabled, authorised and allowed by the conditions at that very moment,
\* though it waited, or its entity belongs to an older menu; and a card whose function the
\* operator disabled does not turn to the cloud instead.
NothingUnauthorisedLeaves ==
    [][\A c \in Callers :
          LET call == calls'[c] IN
          calls[c].step # call.step /\ calls[c].step # "posted" =>
              /\ call.step = "posted" =>
                     /\ Authorised(call.cap, call.value) /\ alive
                     /\ ConditionMet(call.cap, {call.value})
              /\ call.step = "cloud" => ~IsDisabled(call.cap)]_settingVars

\* Once the entities have followed an edit, every input Home Assistant offers for a control can
\* be sent: a grid has no point, a control no option, that would make its entity give up.
OfferedCanBeSent ==
    \A cap \in Factory \ (Drafts \union Actions) :
        There(cap) /\ entities[cap].desc = Wanted(cap)
            => \A v \in Inputs(entities[cap].desc) : Authorised(cap, v)

(* What a generic entity offers may be sent, and is sent once per intent.  *)
OffersAreKept == OnePerIntent /\ OfferedCanBeSent

\* A remembered state comes to be what the appliance has, although a poll and the read after
\* a command may answer in either order, and although the control was given up.
DisplayCatchesUp ==
    \A cap \in Remembered :
        <>[](alive /\ There(cap) => entities[cap].shown = device.setting)
=============================================================================
