---------------------------- MODULE EnergyMeter -----------------------------
(***************************************************************************)
(* TlvIntegratedEnergySensor of sensor.py: the energy an air conditioner   *)
(* used, integrated from the power of its full-read feed over the times    *)
(* the source observed it at, and added up by Home Assistant for good.     *)
(* Readings may be old, repeated, or out of order; the feed comes and goes,*)
(* the entity is rebuilt by a live edit, and Home Assistant is restarted.  *)
(*                                                                         *)
(* A total is the set of the intervals it is the sum of.  The source's     *)
(* clock is taken to agree with Home Assistant's, and neither to jump.     *)
(* Times start at 1, and 0 is None.                                        *)
(***************************************************************************)
EXTENDS Naturals, FiniteSetsExt

CONSTANTS Powers,         \* what the appliance may draw
          MaxGap,         \* MAX_TLV_POWER_INTEGRATION_GAP
          MaxTime,        \* bound: the clock,
          MaxPowerCycles  \*   restarts and rebuilds

ASSUME MeterAssumption == Powers # {} /\ {MaxGap, MaxTime, MaxPowerCycles} \subseteq Nat

VARIABLES now,
          source,   \* the provider: up (field_available), and the last reading
          sensor,   \* the sensor's attributes
          kept,     \* the total in Home Assistant's store
          cycles,
          cuts      \* history: when the source was out, or the sensor away

meterVars == <<now, source, sensor, kept, cycles, cuts>>

NoReading == [at |-> 0, published |-> 0, watts |-> 0]
NewMeter(resume) ==
    [total |-> {}, valid |-> TRUE,       \* _energy_kwh, _total_valid
     at |-> 0, watts |-> 0,              \* _last_boundary, _last_power_w
     high |-> 0,                         \* _observation_high_water
     blocked |-> 0, resume |-> resume]   \* _blocked_through, _resume_at

MeterInit ==
    /\ now = 1 /\ source = [up |-> FALSE, reading |-> NoReading]
    /\ sensor = [NewMeter(1) EXCEPT !.blocked = 1]
    /\ kept = {} /\ cycles = 0 /\ cuts = {1}

----------------------------------------------------------------------------
(* _consume_current_publication                                            *)

(* _current_sample: a reading that is there, and was published in time.    *)
Sampled(src) ==
    src.up /\ src.reading.at # 0 /\ src.reading.published - src.reading.at <= MaxGap

\* Mutant of Broken: only the anchor goes.
BrokenOnly(m, src) == [m EXCEPT !.at = 0, !.watts = 0]

(* _break_continuity: nothing observed until now will be looked at again.  *)
Broken(m, src) ==
    [m EXCEPT !.at = 0, !.watts = 0,
              !.blocked = Max({now, m.high, m.blocked, src.reading.published})]

Awaited(m, r) == r.at < m.resume \/ r.at <= m.blocked

Anchored(m, r) == [m EXCEPT !.at = r.at, !.watts = r.watts, !.high = r.at]

\* Mutant of Extends: a gap is bridged.
ExtendsAnyGap(m, r) == m.at < r.at

Extends(m, r) == m.at < r.at /\ r.at - m.at <= MaxGap

Interval(m, r) == [from |-> m.at, to |-> r.at, first |-> m.watts, last |-> r.watts]

(* What a reading does to the sensor: it is not looked at, breaks the       *)
(* continuity, starts an interval, or ends one and starts the next.        *)
Measured(m, src) ==
    LET r == src.reading IN
    CASE Awaited(m, r) -> m
      [] ~Awaited(m, r) /\ r.at < m.high -> Broken(m, src)
      [] ~Awaited(m, r) /\ r.at >= m.high /\ m.at = 0 -> [Anchored(m, r) EXCEPT !.valid = TRUE]
      [] ~Awaited(m, r) /\ r.at >= m.high /\ m.at # 0 /\ r.at = m.at ->
             IF r.watts = m.watts THEN m ELSE Broken(m, src)
      [] OTHER -> IF Extends(m, r) THEN [Anchored(m, r) EXCEPT !.total = @ \cup {Interval(m, r)}]
                  ELSE Anchored(m, r)

Consumed(m, src) == IF Sampled(src) THEN Measured(m, src) ELSE Broken(m, src)

Consumes(m) ==
    /\ sensor' = Consumed(m, source')
    /\ cuts' = IF Sampled(source') THEN cuts ELSE cuts \cup {now}

----------------------------------------------------------------------------
(* The provider tells its listeners of a current, of another field in it,  *)
(* or that the field is there again or is not any more.                    *)
Told(src) ==
    /\ source' = src
    /\ Consumes(sensor)
    /\ UNCHANGED <<now, kept, cycles>>

Reports == \E at, published \in 1 .. now, w \in Powers :
    at <= published /\ Told([up |-> TRUE, reading |-> [at |-> at, published |-> published, watts |-> w]])

Repeats == Told(source)
GoesAway == source.up /\ Told([source EXCEPT !.up = FALSE])
ComesBack == ~source.up /\ source.reading # NoReading /\ Told([source EXCEPT !.up = TRUE])

----------------------------------------------------------------------------
(* async_added_to_hass: the total comes back, the anchor never does.  One  *)
(* that cannot be read is not shown until there is a fresh reading.        *)

\* Mutant of Added: the sensor takes up where a retained reading is.
AddedAtOnce(total, usable) == [NewMeter(0) EXCEPT !.total = total, !.valid = usable]

Added(total, usable) == [NewMeter(now) EXCEPT !.total = total, !.valid = usable]

Returns(total, usable) ==
    /\ cycles < MaxPowerCycles /\ cycles' = cycles + 1
    /\ sensor' = Consumed(Added(total, usable), source')
    /\ cuts' = cuts \cup {now}
    /\ UNCHANGED now

(* A live edit removes the entity and adds it; the provider stays.         *)
Rebuilt ==
    /\ kept' = sensor.total
    /\ UNCHANGED source
    /\ Returns(sensor.total, TRUE)

(* Home Assistant stops, orderly or not.                                   *)
StartsAgain ==
    /\ source' = [up |-> FALSE, reading |-> NoReading]
    /\ \/ kept' = sensor.total /\ Returns(sensor.total, TRUE)
       \/ UNCHANGED kept /\ Returns(kept, TRUE)
       \/ kept' = {} /\ Returns({}, FALSE)

Saves == kept' = sensor.total /\ UNCHANGED <<now, source, sensor, cycles, cuts>>

Passes == now < MaxTime /\ now' = now + 1 /\ UNCHANGED <<source, sensor, kept, cycles, cuts>>

MeterNext ==
    \/ Reports \/ Repeats \/ GoesAway \/ ComesBack
    \/ Rebuilt \/ StartsAgain \/ Saves \/ Passes

MeterSpec == MeterInit /\ [][MeterNext]_meterVars

----------------------------------------------------------------------------
(* Energy is counted once, and only while it was measured: the intervals   *)
(* of the total do not overlap, whatever is repeated, late or kept;    *)
(* none is longer than the gap, or spans a moment at which the source was  *)
(* out or the sensor away; and where one ends and another begins there was *)
(* one reading, unless the sensor was away just then.                      *)
MeterCountsOnce ==
    /\ \A x \in sensor.total : x.to - x.from <= MaxGap /\ \A t \in cuts : t <= x.from \/ x.to <= t
    /\ \A x, y \in sensor.total :
          /\ x # y => x.to <= y.from \/ y.to <= x.from
          /\ x.to = y.from /\ x.to \notin cuts => x.last = y.first

=============================================================================
