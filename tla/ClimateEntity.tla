---------------------------- MODULE ClimateEntity ----------------------------
(***************************************************************************)
(* The climate entities of an air conditioner (climate.py) and the select  *)
(* for its AUTO comfort (select.py), which stand between Home Assistant's  *)
(* service calls and the router.  Three entities may own an appliance:     *)
(*   "native"  MyLgLocalClimate: state and commands are Local, always;     *)
(*   "hybrid"  MyLgClimate with a Local read provider: it reads Local, and *)
(*             sends what Local serves;                                    *)
(*   "pat"     MyLgClimate without: what Local does not serve goes to LG's *)
(*             cloud.                                                      *)
(* A service call is a list of writes, each tried at the router first.     *)
(***************************************************************************)
EXTENDS Integers, Sequences, FiniteSets

CONSTANTS ServiceCalls,
          Asks,         \* what they may ask: [do, to]
          Worded,       \* modes and fans with a local form (HVAC_TO_LOCAL_MODE, ...)
          Ranged,       \* modes the domain has a range of temperatures for
          Carrying,     \* those of them whose temperature cannot be changed
          OnGrid,       \* temperatures and steps on their grids, and the placeholder of "power"
          Readings,     \* what the Local provider may read
          FirstStatuses, \* what PAT may show at first
          MaxReads      \* bound: changes of it

Parts == {"power", "mode", "target", "fan", "lr", "ud"}

ASSUME ClimateAssumption ==
    /\ Carrying \subseteq Ranged /\ MaxReads \in Nat
    /\ \A a \in Asks : a.do \in {"on", "off", "mode", "target", "reach", "fan", "swing", "comfort"}
    /\ \A s \in FirstStatuses : s = [f \in Parts |-> s[f]]

VARIABLES owner,     \* which entity owns the appliance
          reading,   \* what the Local provider reads
          kept,      \* _last_targets_by_mode, "auto" for _last_comfort_preference
          status,    \* the PAT coordinator's status
          queue,     \* _command_lock: who holds it, who waits
          call,      \* the service calls, see Unmade
          reads,     \* bound: changes of the reading so far
          told,      \* history: what was read of a mode since the feed is healthy
          credible   \* history: values reported, confirmed or acknowledged

climateVars == <<owner, reading, kept, status, queue, call, reads, told, credible>>

Unmade == [pc |-> "idle", do |-> "none", todo |-> <<>>,
           fenced |-> FALSE,   \* the write at hand was fenced
           tries |-> 0,        \* history: writes that were tried
           went |-> <<>>]      \* history: what was sent by whom, and fenced or not
NoTargets == [m \in Ranged \cup {"auto"} |-> {}]

(* local_climate_control_domain: both frames are in one domain of the      *)
(* release, if the Local state is there.                                   *)
SharedDomain(primary, tuple, power) == primary /\ tuple # "none" /\ tuple = power

(* _build_entities, for an air conditioner.                                *)
OwnerOf(primary, tuple, power, read) ==
    IF SharedDomain(primary, tuple, power) THEN "native" ELSE IF read THEN "hybrid" ELSE "pat"

Owners == {OwnerOf(p, t, w, r) : p \in BOOLEAN, t \in {"none", "a", "b"}, w \in {"none", "a"}, r \in BOOLEAN}

(* _field: nothing is read of a feed that is not healthy.                  *)
Field(r, f) == IF r.healthy THEN r[f] ELSE "none"

-----------------------------------------------------------------------------
(* What the native entity remembers.                                       *)

\* Mutant of Remembered: the placeholder is remembered too.
RememberedOnPower(k, r) ==
    IF ~r.healthy THEN NoTargets
    ELSE IF r.mode \in Ranged /\ r.arg \in OnGrid THEN [k EXCEPT ![r.mode] = {r.arg}]
    ELSE k

\* Mutant of Remembered: an outage is slept through.
RememberedForEver(k, r) ==
    IF r.healthy /\ r.fan # "power" /\ r.mode \in Ranged /\ r.arg \in OnGrid
    THEN [k EXCEPT ![r.mode] = {r.arg}] ELSE k

(* _remember_current_target: a mode's temperature, AUTO's comfort step.    *)
Remembered(k, r) ==
    IF ~r.healthy THEN NoTargets
    ELSE IF r.fan = "power" \/ r.arg \notin OnGrid THEN k
    ELSE IF r.mode = "auto" /\ r.fan # "none" THEN [k EXCEPT !["auto"] = {r.arg}]
    ELSE IF r.mode \in Ranged THEN [k EXCEPT ![r.mode] = {r.arg}]
    ELSE k

Heard(t, r) ==
    IF ~r.healthy THEN {} ELSE IF r.fan = "power" THEN t ELSE t \cup {<<r.mode, r.arg>>}

\* Mutant of ShownTarget: whatever the fan is.
ShownTargetAnyFan(r) == IF r.healthy /\ r.mode \in Ranged /\ r.arg \in OnGrid THEN {r.arg} ELSE {}

(* target_temperature: neither AUTO's step nor the placeholder is one.     *)
ShownTarget(r) ==
    IF r.healthy /\ r.mode \in Ranged /\ r.fan \notin {"none", "power"} /\ r.arg \in OnGrid
    THEN {r.arg} ELSE {}

(* supported_features and the first check of async_set_temperature.        *)
TakesTarget(m, f) == m \in Ranged \ Carrying /\ f # "power"

-----------------------------------------------------------------------------
(* The writes of a service call.                                           *)

Ask(f, v) == [x \in {f} |-> v]
Both(m) == [x \in {"power", "mode"} |-> IF x = "power" THEN "on" ELSE m]

\* a temperature with the mode to come, and the power for an appliance that is off
Reach(m, t) == [x \in {"mode", "target"} |-> IF x = "mode" THEN m ELSE t]
ReachOn(m, t) == [x \in {"power", "mode", "target"} |-> IF x = "power" THEN "on" ELSE Reach(m, t)[x]]

Write(asks, frame) == [asks |-> asks, frame |-> frame, whole |-> FALSE]

(* swing_writes: two directions, two writes.                               *)
SwingWrites(s) == <<Write(Ask("lr", IF s \in {"lr", "both"} THEN "on" ELSE "off"), "flag"),
                    Write(Ask("ud", IF s \in {"ud", "both"} THEN "on" ELSE "off"), "flag")>>

(* resolve_tlv_read_owned_field: what Local owns is Local's or nothing.    *)
Owned(f) == IF owner = "pat" THEN status[f] ELSE Field(reading, f)
PowerRead == Owned("power")
JobMode == Owned("mode")

\* Mutant of ModeWrites: the mode has its local form after a power-on by cloud.
ModeWritesLocally(m) ==
    IF PowerRead = "on" THEN <<Write(Ask("mode", m), IF m \in Worded THEN "tuple" ELSE "none")>>
    ELSE (IF m \in Worded THEN <<[Write(Both(m), "on") EXCEPT !.whole = TRUE]>> ELSE <<>>)
         \o <<Write(Ask("power", "on"), "none"), Write(Ask("mode", m), "tuple")>>

(* async_set_hvac_mode of an appliance that is on or off: with a local form*)
(* of the mode, one frame is both; else cloud writes it, one by one.       *)
ModeWrites(m) ==
    IF PowerRead = "on" THEN <<Write(Ask("mode", m), IF m \in Worded THEN "tuple" ELSE "none")>>
    ELSE (IF m \in Worded THEN <<[Write(Both(m), "on") EXCEPT !.whole = TRUE]>> ELSE <<>>)
         \o <<Write(Ask("power", "on"), "none"), Write(Ask("mode", m), "none")>>

(* MyLgClimate writes the temperature alone, whatever mode was asked with  *)
(* it.                                                                     *)
Writes(a) ==
    CASE a.do = "on" -> <<Write(Ask("power", "on"), "on")>>
      [] a.do = "off" -> <<Write(Ask("power", "off"), "off")>>
      [] a.do = "mode" -> ModeWrites(a.to)
      [] a.do = "target" -> <<Write(Ask("target", a.to), "tuple")>>
      [] a.do = "reach" -> <<Write(Ask("target", a.to[2]), "tuple")>>
      [] a.do = "fan" -> <<Write(Ask("fan", a.to), IF a.to \in Worded THEN "tuple" ELSE "none")>>
      [] a.do = "swing" -> SwingWrites(a.to)

Serves(a) ==
    /\ a.do = "mode" => PowerRead # "none"
    /\ a.do \in {"target", "reach"} => JobMode \in {"cool", "auto"}
    /\ a.do # "comfort"

(* The native entity's: one frame with everything, a power-on frame for an *)
(* appliance that is off.                                                  *)
NativeWrites(a, power) ==
    CASE a.do = "on" -> <<Write(Ask("power", "on"), "on")>>
      [] a.do = "off" -> <<Write(Ask("power", "off"), "off")>>
      [] a.do = "mode" -> <<IF power = "off" THEN Write(Both(a.to), "on") ELSE Write(Ask("mode", a.to), "tuple")>>
      [] a.do = "target" -> <<Write(Ask("target", a.to), "tuple")>>
      [] a.do = "reach" -> <<IF power = "off" THEN Write(ReachOn(a.to[1], a.to[2]), "on")
                             ELSE Write(Reach(a.to[1], a.to[2]), "tuple")>>
      [] a.do = "fan" -> <<Write(Ask("fan", a.to), "tuple")>>
      [] a.do = "swing" -> SwingWrites(a.to)

(* The AUTO comfort select's: the mode AUTO comes with the step.           *)
ComfortWrites(power) ==
    <<IF power = "off" THEN Write(Both("auto"), "on") ELSE Write(Ask("mode", "auto"), "tuple")>>

NativeServes(a) ==
    /\ a.do = "mode" => a.to \in Ranged \cup {"auto"}
    /\ a.do = "target" => TakesTarget(Field(reading, "mode"), Field(reading, "fan"))
    /\ a.do = "reach" => TakesTarget(a.to[1], Field(reading, "fan"))
    /\ a.do = "fan" => a.to \in Worded

(* available, as far as the Local state decides it.                        *)
StateAvailable == reading.healthy /\ reading.power # "none"

-----------------------------------------------------------------------------
(* How a call goes from write to write.                                    *)

\* Mutant of Restates: only a write that says it turns the power on.
RestatesSpoken(w) == IF "power" \in DOMAIN w.asks THEN w.frame = "on" ELSE w.frame # "flag"

(* _cloud_write_restates_tuple.                                            *)
Restates(w) == w.frame # "flag" /\ (("power" \in DOMAIN w.asks) => w.asks["power"] = "on")

(* _control after the router's refusal: pat goes on to the cloud.          *)
Cloudward(q) == [q EXCEPT !.pc = IF Restates(Head(q.todo)) THEN "fence" ELSE "cloud", !.fenced = FALSE]

(* The next write, or the end.                                             *)
Proceed(q) ==
    IF q.todo = <<>> THEN [q EXCEPT !.pc = "done"]
    ELSE IF Head(q.todo).frame # "none" THEN [q EXCEPT !.pc = "router"]
    ELSE IF owner = "pat" THEN Cloudward(q)
    ELSE [q EXCEPT !.pc = "done", !.todo = <<>>]

\* Mutant of FailedWrite: the second direction is not tried.
FailedAtOnce(q) == Proceed([q EXCEPT !.tries = @ + 1, !.todo = <<>>])

(* An error ends the call, but both directions of a swing are tried.       *)
FailedWrite(q) == Proceed([q EXCEPT !.tries = @ + 1, !.todo = IF q.do = "swing" THEN Tail(@) ELSE <<>>])

Went(q, by) == [q EXCEPT !.went = Append(@, [by |-> by, asks |-> Head(q.todo).asks, fenced |-> q.fenced])]
Served(q) == Proceed([q EXCEPT !.tries = @ + 1, !.todo = IF Head(@).whole THEN <<>> ELSE Tail(@)])

\* Mutant of Declined: any entity goes on to the cloud.
DeclinedOpenly(q) ==
    IF Head(q.todo).whole THEN Proceed([q EXCEPT !.todo = Tail(@)]) ELSE Cloudward(q)

(* The router has not served a write, and nothing was sent.                *)
Declined(q) ==
    IF owner # "pat" THEN FailedWrite(q)
    ELSE IF Head(q.todo).whole THEN Proceed([q EXCEPT !.todo = Tail(@)])
    ELSE Cloudward(q)

\* Mutant of Unknown: a frame that may be on the wire is not taken for an answer.
UnknownRetried(q) == Declined(q)

(* LocalCommandPending, or a frame nothing can confirm: settled by a later *)
(* reading, never by a second command.                                     *)
Unknown(q) == Served(q)

WithAsked(w) == [f \in Parts |-> IF f \in DOMAIN w.asks THEN w.asks[f] ELSE status[f]]
Believed(w) == [f \in Parts |-> IF f \in DOMAIN w.asks THEN credible[f] \cup {w.asks[f]} ELSE credible[f]]

\* Mutant of Reflects: what was sent is shown.
ReflectsSent(o) == o \in {"confirmed", "unverifiable"}

(* reflects_the_appliance, of a local answer.                              *)
Reflects(o) == o = "confirmed"

(* The lock of the native entity is released by the end of its call.       *)
Unlocks(c, q) == queue' = IF q.pc = "done" THEN SelectSeq(queue, LAMBDA x : x # c) ELSE queue
Becomes(c, q) == call' = [call EXCEPT ![c] = q] /\ Unlocks(c, q)

-----------------------------------------------------------------------------
ClimateInit ==
    /\ owner \in Owners /\ reading \in Readings
    /\ kept = (IF owner = "native" THEN Remembered(NoTargets, reading) ELSE NoTargets)
    /\ told = Heard({}, reading)
    /\ status \in FirstStatuses
    /\ queue = <<>> /\ call = [c \in ServiceCalls |-> Unmade] /\ reads = 0
    /\ credible = [f \in Parts |-> {status[f]}]

(* A service call of MyLgClimate: nothing is locked.                       *)
CallPat(c, a) ==
    /\ owner # "native" /\ call[c].pc = "idle"
    /\ call' = [call EXCEPT ![c] = IF Serves(a) THEN Proceed([Unmade EXCEPT !.do = a.do, !.todo = Writes(a)])
                                   ELSE [@ EXCEPT !.pc = "done", !.do = a.do]]
    /\ UNCHANGED <<owner, reading, kept, status, queue, reads, told, credible>>

(* What the native entity does once it holds the lock: whether the unit is *)
(* on is read here.                                                        *)
Entered(a, power) ==
    IF StateAvailable \/ a.do = "swing"
    THEN Proceed([Unmade EXCEPT !.do = a.do, !.todo = NativeWrites(a, power)])
    ELSE [Unmade EXCEPT !.pc = "done", !.do = a.do]

Waiting(a) == [Unmade EXCEPT !.pc = "waiting", !.do = a.do, !.todo = <<a>>]

(* Refused before the lock: a swing needs the router there already.        *)
NativeRefuses(a) == ~NativeServes(a) \/ (a.do = "swing" /\ ~StateAvailable)

(* A service call of the native entity, which may find the lock taken.     *)
CallNative(c, a) ==
    /\ owner = "native" /\ call[c].pc = "idle" /\ a.do # "comfort"
    /\ IF NativeRefuses(a) THEN Becomes(c, [Unmade EXCEPT !.pc = "done", !.do = a.do])
       ELSE IF queue # <<>>
       THEN queue' = Append(queue, c) /\ call' = [call EXCEPT ![c] = Waiting(a)]
       ELSE LET q == Entered(a, Field(reading, "power"))
            IN /\ queue' = IF q.pc = "done" THEN <<>> ELSE <<c>>
               /\ call' = [call EXCEPT ![c] = q]
    /\ UNCHANGED <<owner, reading, kept, status, reads, told, credible>>

(* The select has no lock.                                                 *)
CallComfort(c, a) ==
    /\ owner = "native" /\ call[c].pc = "idle" /\ a.do = "comfort"
    /\ Becomes(c, IF StateAvailable
                  THEN Proceed([Unmade EXCEPT !.do = a.do, !.todo = ComfortWrites(reading.power)])
                  ELSE [Unmade EXCEPT !.pc = "done", !.do = a.do])
    /\ UNCHANGED <<owner, reading, kept, status, reads, told, credible>>

(* The lock comes to a call that waited.                                   *)
Acquire(c) ==
    /\ queue # <<>> /\ Head(queue) = c /\ call[c].pc = "waiting"
    /\ Becomes(c, Entered(Head(call[c].todo), Field(reading, "power")))
    /\ UNCHANGED <<owner, reading, kept, status, reads, told, credible>>

(* The router's answers, see LocalControl.                                 *)
RouterRefuses(c) ==
    /\ call[c].pc = "router"
    /\ Becomes(c, Declined(call[c]))
    /\ UNCHANGED <<owner, reading, kept, status, reads, told, credible>>

(* A frame was sent: the appliance has obeyed it, or nobody knows.         *)
RouterSends(c, o) ==
    LET w == Head(call[c].todo)
        q == Went(call[c], "local")
    IN /\ call[c].pc = "router"
       /\ Becomes(c, CASE o = "confirmed" -> Served(q)
                       [] o = "failed" -> FailedWrite(q)
                       [] OTHER -> Unknown(q))
       /\ status' = IF owner # "native" /\ Reflects(o) THEN WithAsked(w) ELSE status
       /\ credible' \in IF o = "confirmed" THEN {Believed(w)} ELSE {credible, Believed(w)}
       /\ UNCHANGED <<owner, reading, kept, reads, told>>

(* async_mark_cloud_tuple_dispatch, before the cloud is asked.             *)
FenceTuple(c) ==
    /\ call[c].pc = "fence"
    /\ call' = [call EXCEPT ![c].pc = "cloud", ![c].fenced = TRUE]
    /\ UNCHANGED <<owner, reading, kept, status, queue, reads, told, credible>>

(* The cloud's acknowledgement is shown, its refusal is an error.          *)
CloudAnswers(c, ok) ==
    LET w == Head(call[c].todo)
        q == Went(call[c], "cloud")
    IN /\ call[c].pc = "cloud"
       /\ Becomes(c, IF ok THEN Served(q) ELSE FailedWrite(q))
       /\ status' = IF ok THEN WithAsked(w) ELSE status
       /\ credible' = IF ok THEN Believed(w) ELSE credible
       /\ UNCHANGED <<owner, reading, kept, reads, told>>

(* PAT pushes what the appliance has, or had.                              *)
Push(f, v) ==
    /\ owner # "native" /\ v \in credible[f]
    /\ status' = [status EXCEPT ![f] = v]
    /\ UNCHANGED <<owner, reading, kept, queue, call, reads, told, credible>>

(* _handle_local_read_update.                                              *)
ReadingChanges(r) ==
    /\ owner # "pat" /\ reads < MaxReads /\ r # reading
    /\ reads' = reads + 1 /\ reading' = r
    /\ kept' = IF owner = "native" THEN Remembered(kept, r) ELSE kept
    /\ told' = Heard(told, r)
    /\ UNCHANGED <<owner, status, queue, call, credible>>

CallStep(c) ==
    \/ \E a \in Asks : CallPat(c, a) \/ CallNative(c, a) \/ CallComfort(c, a)
    \/ Acquire(c) \/ RouterRefuses(c)
    \/ \E o \in {"confirmed", "unverifiable", "pending", "failed"} : RouterSends(c, o)
    \/ FenceTuple(c)
    \/ \E ok \in BOOLEAN : CloudAnswers(c, ok)

ClimateNext ==
    \/ \E c \in ServiceCalls : CallStep(c)
    \/ \E f \in Parts : \E v \in credible[f] : Push(f, v)
    \/ \E r \in Readings : ReadingChanges(r)

ClimateSpec == ClimateInit /\ [][ClimateNext]_climateVars

-----------------------------------------------------------------------------
(* What a call asks for goes out at most once, and by one way: what is or  *)
(* may be on the wire is never repeated by the cloud, what belongs to Local*)
(* is never sent by it, and what the cloud has begun the router does not   *)
(* end.  Before the cloud states a mode, a fan or a temperature, the router*)
(* knows that its readings are over (_control, async_set_hvac_mode,        *)
(* _powered_on_locally, _send).                                            *)
SentOnce(q) ==
    \A i, j \in DOMAIN q.went :
        i # j => /\ DOMAIN q.went[i].asks \cap DOMAIN q.went[j].asks = {}
                 /\ q.do = "swing" \/ q.went[i].by = q.went[j].by
SettlesTuple(asks) ==
    \/ DOMAIN asks \cap {"mode", "fan", "target"} # {}
    \/ "power" \in DOMAIN asks /\ asks["power"] = "on"
AskedOnce ==
    \A c \in ServiceCalls :
        /\ SentOnce(call[c])
        /\ \A i \in DOMAIN call[c].went :
              call[c].went[i].by = "cloud" =>
                  /\ owner = "pat"
                  /\ SettlesTuple(call[c].went[i].asks) => call[c].went[i].fenced

(* A status shows what the appliance has had, what it confirmed or what the*)
(* cloud acknowledged, never what was only sent; and both directions of a  *)
(* swing were tried by the end.  A temperature that is shown, or with a    *)
(* comfort step will be restated, was read in that mode since the feed is  *)
(* healthy, and is never the placeholder of the fan "power"                *)
(* (_control, async_set_swing_mode, _remember_current_target).             *)
ClimateShowsWhatIs ==
    /\ \A f \in Parts : status[f] \in credible[f]
    /\ \A v \in ShownTarget(reading) : <<reading.mode, v>> \in told
    /\ \A m \in DOMAIN kept : \A v \in kept[m] : <<m, v>> \in told
    /\ \A c \in ServiceCalls :
          (call[c].pc = "done" /\ call[c].do = "swing" /\ call[c].tries # 0) => call[c].tries = 2

(* A climate entity passes each call on once, by the transport that owns   *)
(* the appliance, and shows nothing that nobody reported or acknowledged.  *)
ClimateIsFaithful == AskedOnce /\ ClimateShowsWhatIs

=============================================================================
