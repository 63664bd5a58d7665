---------------------------- MODULE LocalControl ----------------------------
(***************************************************************************)
(* LocalControlRouter: how one air conditioner is commanded through the    *)
(* bridge on the own network, and when the cloud may be used instead.      *)
(*                                                                         *)
(* The bridge, the cloud and the appliance are external: a frame or a      *)
(* cloud command takes effect at a moment of its own, or never, and the    *)
(* answer tells less than what happened.  Reports of the appliance arrive  *)
(* in order, each with the moment it was observed (ordering is the         *)
(* semantic provider's business).                                          *)
(*                                                                         *)
(* Three memories keep a frame from restating what is no longer so:        *)
(* the overlay of what a local command has just confirmed, the barrier a   *)
(* cloud command puts up until every input is reported anew, and the       *)
(* arguments remembered by mode for when none is shown.                    *)
(*                                                                         *)
(* An air conditioner is written one frame of mode, fan and argument at a  *)
(* time, so a request that names one of them restates the other two from   *)
(* what the appliance reported (local_command.py).  An optional value is a *)
(* set of at most one element, and a refused composition has no frame.     *)
(* The argument of a frame is a temperature, except in AUTO, where it is a *)
(* comfort step; while the fan is on power the appliance shows Placeholder *)
(* instead of the temperature it keeps.                                    *)
(***************************************************************************)
EXTENDS Integers, Sequences, FiniteSetsExt

CONSTANTS Ordinary,     \* modes that share one scale of temperatures
          Preserving,   \* the modes of Ordinary that cannot change it: dry, fan_only
          Fans, Celsius, Comforts, Placeholder, MaxAge

AutoMode == "auto"
Power == "power"
Cool == "cool"
Modes == Ordinary \union {AutoMode}

ASSUME DomainAssumption ==
    /\ Cool \in Ordinary /\ AutoMode \notin Ordinary /\ Preserving \subseteq Ordinary \ {Cool}
    /\ Power \in Fans
    /\ Celsius \subseteq Int /\ Comforts \subseteq Int /\ Placeholder \in Int
    /\ Placeholder \notin Celsius \union Comforts /\ Celsius \intersect Comforts = {}
    /\ MaxAge \in Nat

\* The field of the shadow that holds the argument of a mode.
ArgumentOf(m) == IF m = AutoMode THEN "comfort" ELSE "target"
StateFields(m) == {"mode", "fan", ArgumentOf(m)}
AllFields == {"mode", "fan", "target", "comfort"}

Else(a, b) == IF a # {} THEN a ELSE b

\* What a field of shadow sh says, if it was observed and is not too old.
Fresh(sh, f, now) ==
    IF sh[f].at >= 0 /\ now - sh[f].at <= MaxAge THEN {sh[f].val} ELSE {}

\* The comfort step of an AUTO frame.
Comfort(sh, q, now, fan, kept) ==
    IF q.target # {} \/ fan = Power THEN {}
    ELSE IF q.comfort # {} THEN q.comfort
    ELSE IF Fresh(sh, "mode", now) = {AutoMode} /\ Fresh(sh, "fan", now) # {Power}
         THEN Fresh(sh, "comfort", now)
         ELSE kept

\* A mode without a temperature of its own only carries a real one over.
CarriesOver(sh, q, now) ==
    /\ q.target = {}
    /\ Fresh(sh, "mode", now) # {} /\ Fresh(sh, "mode", now) \subseteq Ordinary
    /\ Fresh(sh, "fan", now) # {} /\ Power \notin Fresh(sh, "fan", now)
    /\ Fresh(sh, "target", now) # {}

\* The temperature of any other frame.
Temperature(sh, q, now, m, fan, kept) ==
    IF q.comfort # {} \/ (fan = Power /\ (q.target # {} \/ m # Cool))
       \/ (m \in Preserving /\ ~CarriesOver(sh, q, now)) THEN {}
    ELSE IF q.target # {} THEN q.target
    ELSE IF Fresh(sh, "mode", now) = {} \/ Fresh(sh, "fan", now) = {} THEN {}
    ELSE IF Fresh(sh, "fan", now) = {Power} \/ Fresh(sh, "mode", now) = {AutoMode} THEN kept
    ELSE Fresh(sh, "target", now)

\* The frames for request q: one, or none when it is refused.
Compose(sh, q, now, keptTarget, keptComfort) ==
    {fr \in [mode : Else(q.mode, Fresh(sh, "mode", now)),
             fan : Else(q.fan, Fresh(sh, "fan", now)),
             arg : Celsius \union Comforts \union {Placeholder}] :
        fr.arg \in IF fr.mode = AutoMode THEN Comfort(sh, q, now, fr.fan, keptComfort)
                   ELSE Temperature(sh, q, now, fr.mode, fr.fan, keptTarget)}

\* The fields such a frame states because the shadow says so.
Restated(sh, q, now, fr) ==
    LET taken == IF fr.mode = AutoMode
                 THEN /\ q.comfort = {}
                      /\ Fresh(sh, "mode", now) = {AutoMode} /\ Fresh(sh, "fan", now) # {Power}
                 ELSE /\ q.target = {}
                      /\ Fresh(sh, "mode", now) # {AutoMode} /\ Fresh(sh, "fan", now) # {Power}
    IN (IF q.mode = {} THEN {"mode"} ELSE {}) \union (IF q.fan = {} THEN {"fan"} ELSE {})
       \union (IF taken THEN {ArgumentOf(fr.mode)} ELSE {})

\* The state the bridge is told the frame was composed from: all of it, or no command.
Expected(sh, now) ==
    {m \in Fresh(sh, "mode", now) : \A f \in StateFields(m) : Fresh(sh, f, now) # {}}

----------------------------------------------------------------------------
(* Which frames may be sent (local_control_composite_domain.py): a domain  *)
(* composes them from modes, fans, a grid of temperatures per mode, a grid *)
(* of comfort steps for AUTO and interlocks between mode and fan.  The     *)
(* confirmed features may let a domain carry the temperature over in modes *)
(* that cannot change it.                                                  *)

GridPoint(g, v) == g.min <= v /\ v <= g.max /\ (v - g.min) % g.step = 0
FullGrid(g) == g.step > 0 /\ g.min <= g.max /\ (g.max - g.min) % g.step = 0

\* _parse_domain: an interlock says that one part with one value needs another's values
DomainAccepted(d) ==
    /\ DOMAIN d.ranges = d.modes \ {AutoMode} /\ AutoMode \in d.modes
    /\ FullGrid(d.comfort) /\ \A m \in DOMAIN d.ranges : FullGrid(d.ranges[m])
    /\ d.interlocks # {}
    /\ \A lock \in d.interlocks : lock.when \in {"mode", "fan"} /\ lock.require \in {"mode", "fan"}

ComponentsAuthorized(d, fr) ==
    /\ fr.mode \in d.modes /\ fr.fan \in d.fans
    /\ \A lock \in d.interlocks : fr[lock.when] = lock.equals => fr[lock.require] \in lock.values

\* LocalControlCompositeInputDomain.authorizes, with both ways of rendering the argument
Authorizes(d, fr) ==
    /\ ComponentsAuthorized(d, fr)
    /\ IF fr.mode = AutoMode THEN GridPoint(d.comfort, fr.arg)
       ELSE fr.mode \in DOMAIN d.ranges /\ GridPoint(d.ranges[fr.mode], fr.arg)

\* augment_confirmed_climate_domain
Carries(d, modes) ==
    [d EXCEPT !.modes = @ \union modes,
              !.ranges = [m \in DOMAIN d.ranges \union modes |->
                            IF m \in modes THEN d.ranges[Cool] ELSE d.ranges[m]]]

----------------------------------------------------------------------------
(* The router.                                                             *)

CONSTANTS Requests, Wishes, Kinds, Domain, MaxClock, MaxReports, MaxEvents

Nobody == "nobody"

\* Kinds of request: "climate" may fall back to the cloud, "local" may not, "select" is the fan
\* select's, which goes straight to the cloud.  A wish names what is asked of each part.
ASSUME RequestAssumption ==
    /\ Nobody \notin Requests
    /\ Wishes \subseteq [mode : SUBSET Modes, fan : SUBSET Fans,
                         target : SUBSET Celsius, comfort : SUBSET Comforts]
    /\ Kinds \subseteq {"climate", "local", "select"} /\ DomainAccepted(Domain)
    /\ MaxClock \in Nat /\ MaxReports \in Nat /\ MaxEvents \in Nat

VARIABLES
    now,          \* the clock
    unit,         \* the settings of the appliance
    reports,      \* reports on their way to Home Assistant
    shadow,       \* what was reported, field by field, and when it was observed
    floor,        \* since when the appliance has been present, or Absent
    lock,         \* the request holding the device's tuple lock, if any
    overlay,      \* the confirmed fields the shadow has not caught up with
    barrier,      \* what was known of each field before the last cloud command
    targets,      \* _last_temperature_targets_by_mode
    comfort,      \* _last_comfort_preferences
    domain,       \* the release's domain of frames, or the one the confirmed features extend
    req,          \* the requests, see Idle
    events,       \* requests made, remote controls used, connections changed: to bound them
    confirmedAt,  \* when each field was last confirmed by a local command
    knownAt       \* of when the fields known at the last cloud command were

memory == <<overlay, barrier, targets, comfort>>
appliance == <<unit, reports, shadow, floor>>
ghosts == <<confirmedAt, knownAt>>
vars == <<now, unit, reports, shadow, floor, lock, overlay, barrier, targets,
          comfort, domain, req, events, confirmedAt, knownAt>>

Never == -1
Absent == MaxClock + 1
NoFrame == [mode |-> Cool, fan |-> Power, arg |-> Placeholder]
Nothing == [f \in {} |-> 0]          \* no overlay, no barrier, no basis

\* What the appliance shows of its settings: see above.
Shown(u) == [mode |-> u.mode, fan |-> u.fan,
             arg |-> IF u.mode = AutoMode THEN u.comfort
                     ELSE IF u.fan = Power THEN Placeholder ELSE u.target]

\* The settings after a frame.
Obeyed(u, fr) ==
    [mode |-> fr.mode, fan |-> fr.fan,
     target |-> IF fr.mode # AutoMode /\ fr.fan # Power THEN fr.arg ELSE u.target,
     comfort |-> IF fr.mode = AutoMode THEN fr.arg ELSE u.comfort]

\* A report updates the fields of its mode; the other argument is as it was.
Reported(sh, r) ==
    [f \in AllFields |->
        CASE f = "mode" -> [val |-> r.mode, at |-> r.at]
          [] f = "fan" -> [val |-> r.fan, at |-> r.at]
          [] f = ArgumentOf(r.mode) -> [val |-> r.arg, at |-> r.at]
          [] OTHER -> sh[f]]

Snapshot(u, t) == [mode |-> Shown(u).mode, fan |-> Shown(u).fan, arg |-> Shown(u).arg, at |-> t]

\* Power is a way of cooling.
Sane(u) == u.fan = Power => u.mode = Cool
Settings == {u \in [mode : Modes, fan : Fans, target : Celsius, comfort : Comforts] : Sane(u)}

\* A request: the frame it sends, by which ways a command of it may have left, and when the
\* fields its frame restates were observed.
Idle == [pc |-> "idle", kind |-> "local",
         wish |-> [mode |-> {}, fan |-> {}, target |-> {}, comfort |-> {}],
         frame |-> NoFrame, went |-> {}, basis |-> Nothing]

Init ==
    /\ now = 0 /\ reports = <<>> /\ domain \in {Domain, Carries(Domain, Preserving)}
    /\ unit \in Settings
    /\ shadow = Reported([f \in AllFields |-> [val |-> Placeholder, at |-> Never]], Snapshot(unit, 0))
    /\ floor = 0 /\ lock = Nobody
    /\ overlay = Nothing /\ barrier = Nothing
    /\ targets = [m \in Ordinary |-> {}] /\ comfort = {}
    /\ req = [r \in Requests |-> Idle] /\ events = 0
    /\ confirmedAt = [f \in AllFields |-> Never] /\ knownAt = [f \in AllFields |-> Never]

-----------------------------------------------------------------------------
(* The memories of the router. *)

\* mutant: the baseline is what the shadow shows, without what a command has confirmed.
MarkShadow(over, before) ==
    /\ barrier' = [f \in AllFields |->
                     Max({shadow[f].at} \union {before[g] : g \in DOMAIN before \intersect {f}})]
    /\ overlay' = Nothing
    /\ knownAt' = [f \in AllFields |-> shadow[f].at]

\* _mark_cloud_tuple_dispatch_locked: a later report must be newer than all that is known of
\* a field, by the shadow, the overlay and an earlier barrier.
Mark(over, before) ==
    /\ barrier' = [f \in AllFields |->
                     Max({shadow[f].at} \union {over[g].at : g \in DOMAIN over \intersect {f}}
                         \union {before[g] : g \in DOMAIN before \intersect {f}})]
    /\ overlay' = Nothing
    /\ knownAt' = [f \in AllFields |-> shadow[f].at]

\* mutant: a report as old as the baseline lifts the barrier.
BlockedStrictly ==
    /\ DOMAIN barrier # {}
    /\ \E f \in StateFields(shadow["mode"].val) :
          shadow[f].at = Never \/ shadow[f].at < barrier[f]

\* _cloud_tuple_barrier_blocks
Blocked ==
    /\ DOMAIN barrier # {}
    /\ \E f \in StateFields(shadow["mode"].val) :
          shadow[f].at = Never \/ shadow[f].at <= barrier[f]

\* _shadow_with_confirmation: the fields of the overlay that still count.
Unseen ==
    [f \in {g \in DOMAIN overlay : /\ now - overlay[g].at <= MaxAge
                                  /\ shadow[g].at < overlay[g].at} |-> overlay[f]]
Effective == [f \in AllFields |-> IF f \in DOMAIN Unseen THEN Unseen[f] ELSE shadow[f]]

\* mutant: the temperature shown on power is remembered too.
TellsOnPower(sh) == \A f \in StateFields(sh["mode"].val) : Fresh(sh, f, now) # {}

\* _remember_mode_argument
Tells(sh) ==
    /\ \A f \in StateFields(sh["mode"].val) : Fresh(sh, f, now) # {}
    /\ sh["fan"].val # Power
TargetsAfter(sh) ==
    IF Tells(sh) /\ sh["mode"].val # AutoMode
    THEN [targets EXCEPT ![sh["mode"].val] = {sh["target"].val}] ELSE targets
ComfortAfter(sh) ==
    IF Tells(sh) /\ sh["mode"].val = AutoMode THEN {sh["comfort"].val} ELSE comfort

\* control_fields_ready: all inputs were observed since the appliance has been present.
Ready == \A f \in StateFields(shadow["mode"].val) : shadow[f].at >= floor

-----------------------------------------------------------------------------
(* A request. *)

Event == events < MaxEvents /\ events' = events + 1

Start(r, w, k) ==
    /\ req[r] = Idle /\ Event
    /\ req' = [req EXCEPT ![r] = [Idle EXCEPT !.pc = "waiting", !.kind = k, !.wish = w]]
    /\ UNCHANGED <<now, appliance, memory, lock, domain, ghosts>>

\* climate asks for one of mode, fan and temperature; the select asks for a fan, without a fence.
StartClimate(r, w) == w.comfort = {} /\ Start(r, w, "climate")
StartLocal(r, w) == Start(r, w, "local")
StartSelect(r, w) ==
    /\ w.fan # {} /\ w.mode \union w.target \union w.comfort = {}
    /\ req[r] = Idle /\ Event
    /\ req' = [req EXCEPT ![r] = [Idle EXCEPT !.pc = "cloud", !.kind = "select", !.wish = w,
                                             !.went = {"cloud"}]]
    /\ UNCHANGED <<now, appliance, memory, lock, domain, ghosts>>

\* The end of an attempt that sent nothing: only a climate entity goes on to the cloud,
\* behind a fence that is put up before the lock is released.
Refused(q) == IF q.kind = "climate" THEN [q EXCEPT !.pc = "fencing", !.frame = NoFrame, !.basis = Nothing]
              ELSE Idle
Unserved(r, over, before) ==
    /\ req' = [req EXCEPT ![r] = Refused(@)]
    /\ IF req[r].kind = "climate" THEN Mark(over, before)
       ELSE overlay' = over /\ barrier' = before /\ UNCHANGED knownAt

\* The appliance is not there, or has not reported what a frame must restate.
NotReady(r) ==
    /\ ~Ready
    /\ Unserved(r, overlay, barrier)
    /\ UNCHANGED <<targets, comfort, lock>>

\* A cloud command has not been reported yet.
Fenced(r) ==
    /\ Ready /\ Blocked
    /\ req' = [req EXCEPT ![r] = Refused(@)]
    /\ UNCHANGED <<memory, knownAt, lock>>

\* The frames for the wish of r, and what they are composed from.
FramesFor(r) ==
    LET sh == Effective
        m == Else(req[r].wish.mode, {sh["mode"].val})
    IN IF Expected(sh, now) = {} THEN {}
       ELSE Compose(sh, req[r].wish, now,
                    UNION {TargetsAfter(sh)[x] : x \in m \intersect Ordinary},
                    IF m = {AutoMode} THEN ComfortAfter(sh) ELSE {})

\* No frame can be composed.
Uncomposed(r) ==
    /\ Ready /\ ~Blocked /\ FramesFor(r) = {}
    /\ targets' = TargetsAfter(Effective) /\ comfort' = ComfortAfter(Effective)
    /\ Unserved(r, Unseen, Nothing)
    /\ UNCHANGED lock

\* The frame is outside the domain: _send has nothing to send.
NotAuthorised(r) ==
    /\ Ready /\ ~Blocked
    /\ \E fr \in FramesFor(r) : ~Authorizes(domain, fr)
    /\ targets' = TargetsAfter(Effective) /\ comfort' = ComfortAfter(Effective)
    /\ Unserved(r, Unseen, Nothing)
    /\ UNCHANGED lock

\* The frame is composed and posted, with the lock held.
Composed(r) ==
    /\ Ready /\ ~Blocked
    /\ targets' = TargetsAfter(Effective) /\ comfort' = ComfortAfter(Effective)
    /\ barrier' = Nothing /\ overlay' = Unseen
    /\ \E fr \in {f \in FramesFor(r) : Authorizes(domain, f)} :
          req' = [req EXCEPT ![r].pc = "sent", ![r].frame = fr,
                             ![r].basis = [f \in Restated(Effective, req[r].wish, now, fr) |->
                                             Effective[f].at]]
    /\ lock' = r
    /\ UNCHANGED knownAt

\* LocalControlRouter._tuple, up to the answer of the bridge
Tuple(r) ==
    /\ req[r].pc = "waiting" /\ lock = Nobody
    /\ NotReady(r) \/ Fenced(r) \/ Uncomposed(r) \/ NotAuthorised(r) \/ Composed(r)
    /\ UNCHANGED <<now, appliance, domain, events, confirmedAt>>
\* The end of the block that holds the device's lock.
Released(r) == lock = r /\ lock' = Nobody

\* The bridge refuses before anything reaches the appliance (LocalCommandUnavailable).
BridgeRefuses(r) ==
    /\ req[r].pc = "sent" /\ Released(r)
    /\ Unserved(r, overlay, barrier)
    /\ UNCHANGED <<now, appliance, targets, comfort, domain, events, confirmedAt>>

\* The appliance obeys, and the answer is on its way.
BridgeObeys(r) ==
    /\ req[r].pc = "sent"
    /\ unit' = Obeyed(unit, req[r].frame)
    /\ req' = [req EXCEPT ![r].pc = "applied", ![r].basis = Nothing, ![r].went = @ \union {"local"}]
    /\ UNCHANGED <<now, reports, shadow, floor, memory, lock, events, domain, ghosts>>

\* _confirmed_tuple: a frame on power sets no argument.
Confirmed(fr) ==
    [f \in {"mode", "fan"} \union (IF fr.fan = Power THEN {} ELSE {ArgumentOf(fr.mode)}) |->
        [val |-> CASE f = "mode" -> fr.mode [] f = "fan" -> fr.fan [] OTHER -> fr.arg,
         at |-> now]]

\* The verdict is "confirmed" or "already".
BridgeConfirms(r) ==
    /\ \/ req[r].pc = "applied"
       \/ req[r].pc = "sent" /\ Obeyed(unit, req[r].frame) = unit
    /\ Released(r)
    /\ LET fr == req[r].frame  c == Confirmed(fr) IN
          /\ overlay' = c
          /\ targets' = IF "target" \in DOMAIN c THEN [targets EXCEPT ![fr.mode] = {fr.arg}]
                        ELSE targets
          /\ comfort' = IF "comfort" \in DOMAIN c THEN {fr.arg} ELSE comfort
          /\ confirmedAt' = [f \in AllFields |-> IF f \in DOMAIN c THEN now ELSE confirmedAt[f]]
    /\ req' = [req EXCEPT ![r] = Idle]
    /\ UNCHANGED <<now, appliance, barrier, domain, events, knownAt>>

\* mutant: a request without an answer is tried through the cloud.
UnclearRetried(q) == [q EXCEPT !.pc = IF q.kind = "climate" THEN "fencing" ELSE "lost",
                               !.basis = Nothing, !.went = @ \union {"local"}]

\* No answer, or one that confirms nothing: the frame may be anywhere, and is not repeated
\* (LocalCommandPending, LocalCommandFailed, "unverifiable").
Unclear(q) == IF q.pc = "sent" THEN [q EXCEPT !.pc = "lost", !.basis = Nothing, !.went = @ \union {"local"}]
              ELSE Idle
BridgeUnclear(r) ==
    /\ req[r].pc \in {"sent", "applied"} /\ Released(r)
    /\ req' = [req EXCEPT ![r] = Unclear(@)]
    /\ UNCHANGED <<now, appliance, memory, events, domain, ghosts>>

\* A frame nobody waits for any more arrives, or does not.
LateFrame(r) ==
    /\ req[r].pc = "lost"
    /\ unit' \in {unit, Obeyed(unit, req[r].frame)}
    /\ req' = [req EXCEPT ![r] = Idle]
    /\ UNCHANGED <<now, reports, shadow, floor, memory, lock, events, domain, ghosts>>

\* climate._control: the cloud command, behind the fence
Fence(r) ==
    /\ req[r].pc = "fencing" /\ lock = Nobody
    /\ Mark(overlay, barrier)
    /\ req' = [req EXCEPT ![r].pc = "cloud", ![r].went = @ \union {"cloud"}]
    /\ UNCHANGED <<now, appliance, targets, comfort, lock, domain, events, confirmedAt>>

\* The settings after a cloud command, which states only what was asked.
Asked(u, w) ==
    {v \in Settings :
        /\ v.mode \in Else(w.mode, {u.mode}) /\ v.fan \in Else(w.fan, {u.fan})
        /\ v.target \in Else(w.target, {u.target}) /\ v.comfort = u.comfort}

\* The cloud command is obeyed, or is not.
CloudEnds(r) ==
    /\ req[r].pc = "cloud"
    /\ unit' \in {unit} \union Asked(unit, req[r].wish)
    /\ req' = [req EXCEPT ![r] = Idle]
    /\ UNCHANGED <<now, reports, shadow, floor, memory, lock, events, domain, ghosts>>

RequestStep(r) ==
    \/ Tuple(r) \/ BridgeRefuses(r) \/ BridgeObeys(r) \/ BridgeConfirms(r) \/ BridgeUnclear(r)
    \/ LateFrame(r) \/ Fence(r) \/ CloudEnds(r)

-----------------------------------------------------------------------------
(* The appliance, its reports and its presence. *)

Tick ==
    /\ now < MaxClock /\ now' = now + 1
    /\ UNCHANGED <<appliance, memory, lock, req, events, domain, ghosts>>

\* Someone uses the remote control.
Remote ==
    /\ Event /\ unit' \in Settings \ {unit}
    /\ UNCHANGED <<now, reports, shadow, floor, memory, lock, req, domain, ghosts>>

\* The appliance leaves, or connects again.
Presence ==
    /\ Event /\ floor' \in {now, Absent}
    /\ UNCHANGED <<now, unit, reports, shadow, memory, lock, req, domain, ghosts>>

LastReport == IF reports = <<>> THEN shadow["mode"].at ELSE reports[Len(reports)].at

Publish ==
    /\ Len(reports) < MaxReports /\ LastReport < now
    /\ reports' = Append(reports, Snapshot(unit, now))
    /\ UNCHANGED <<now, unit, shadow, floor, memory, lock, req, events, domain, ghosts>>

Deliver ==
    /\ reports # <<>>
    /\ shadow' = Reported(shadow, Head(reports)) /\ reports' = Tail(reports)
    /\ UNCHANGED <<now, unit, floor, memory, lock, req, events, domain, ghosts>>

Starts(r, w) ==
    \/ "climate" \in Kinds /\ StartClimate(r, w)
    \/ "local" \in Kinds /\ StartLocal(r, w)
    \/ "select" \in Kinds /\ StartSelect(r, w)

Next ==
    \/ \E r \in Requests : RequestStep(r) \/ \E w \in Wishes : Starts(r, w)
    \/ Tick \/ Remote \/ Publish \/ Deliver \/ Presence

Spec == Init /\ [][Next]_vars

-----------------------------------------------------------------------------
(* Properties. *)

\* One request never becomes two commands: what may have left by the bridge is not repeated
\* through the cloud, whatever the answer and whenever it comes (local_command.py:557).
OneCommand == \A r \in Requests : req[r].went # {"local", "cloud"}

\* What a frame restates of the appliance is what is known of it in the end: nothing older than
\* what a local command confirmed, nothing that was known already when the last cloud command of
\* a climate entity left - its fields must "advance beyond what was known immediately before the
\* cloud dispatch" (local_control_router.py:486), and a report that was under way then does, late
\* as it is - and never the temperature that is only shown while the fan is on power; whichever
\* of the overlay, its expiry, late reports, the barrier and the remembered arguments comes between.
KeepsConfirmed(q) == \A f \in DOMAIN q.basis : q.basis[f] >= confirmedAt[f]
FenceHolds(q) == \A f \in DOMAIN q.basis : q.basis[f] > knownAt[f]
NoPlaceholder(fr) == fr.fan # Power => fr.arg \in IF fr.mode = AutoMode THEN Comforts ELSE Celsius
FrameIsFaithful ==
    \A r \in Requests : req[r].pc = "sent" =>
        KeepsConfirmed(req[r]) /\ FenceHolds(req[r]) /\ NoPlaceholder(req[r].frame)

=============================================================================
