----------------------------- MODULE LocalEnergy -----------------------------
(***************************************************************************)
(* CumulativeEnergyShadowProvider of local_energy_provider.py: the totals  *)
(* of one appliance, published by the local bridge out of its ledger as    *)
(* one retained message, and counted by Home Assistant as ever growing.    *)
(* The broker repeats messages, an old one may come after a new one, and   *)
(* the connection comes and goes.                                          *)
(***************************************************************************)
EXTENDS Naturals, Sequences, SequencesExt

CONSTANTS Meters,          \* self.semantic_ids
          MaxPublications  \* bound on what the ledger publishes

ASSUME MetersAssumption == Meters # {} /\ MaxPublications \in Nat \ {0}

VARIABLES ledger,   \* the bridge: every publication so far, in order
          ready,    \* self._transport_ready
          valid,    \* self._current_valid
          held,     \* self._totals_wh and the generations, NoTotals at first
          heldIs    \* history: which publication that was

energyVars == <<ledger, ready, valid, held, heldIs>>

NoTotals == [binding |-> 0, baseline |-> 0, counted |-> 0, totals |-> [f \in Meters |-> 0]]

EnergyInit ==
    /\ ledger = << [NoTotals EXCEPT !.binding = 1] >>
    /\ ready = FALSE
    /\ valid = FALSE
    /\ held = NoTotals
    /\ heldIs = 0

----------------------------------------------------------------------------
(* The bridge counts a generation of the appliance's reports; starts the   *)
(* totals of the same appliance over; or those of another connection of it.*)
NextGeneration(f, n) ==
    [Last(ledger) EXCEPT !.counted = @ + 1, !.totals[f] = @ + n]

StartsOver == [Last(ledger) EXCEPT !.baseline = Last(ledger).counted + 1,
                                   !.counted = @ + 1,
                                   !.totals = NoTotals.totals]

Rebound == [NoTotals EXCEPT !.binding = Last(ledger).binding + 1]

Publishes ==
    /\ Len(ledger) < MaxPublications
    /\ \E p \in {NextGeneration(f, n) : f \in Meters, n \in {0, 1}} \cup {StartsOver, Rebound} :
          ledger' = Append(ledger, p)
    /\ UNCHANGED <<ready, valid, held, heldIs>>

(* set_transport_ready, of LocalMqtt.                                      *)
SetReady(up) ==
    /\ ready' = up
    /\ valid' = (valid /\ up)
    /\ UNCHANGED <<ledger, held, heldIs>>

----------------------------------------------------------------------------
Heard == held.binding # 0

Newer(p) == p.binding > held.binding \/ p.baseline > held.baseline

\* Mutant of Continues: the totals are compared, the generations are not.
ContinuesByTotals(p) ==
    Heard => /\ p.binding >= held.binding
             /\ ~Newer(p) => \A f \in Meters : p.totals[f] >= held.totals[f]

\* Mutant of Continues: what starts over is compared with what it replaces.
ContinuesByBinding(p) ==
    Heard => /\ p.binding >= held.binding
             /\ p.binding = held.binding => p.counted >= held.counted
             /\ p.binding = held.binding =>
                   \A f \in Meters : p.totals[f] >= held.totals[f]

(* What ingest accepts after what it holds: nothing goes back, and what    *)
(* has not moved on is the same.                                           *)
Continues(p) ==
    Heard => /\ p.binding >= held.binding
             /\ p.binding = held.binding =>
                   p.baseline >= held.baseline /\ p.counted >= held.counted
             /\ ~Newer(p) => \A f \in Meters : p.totals[f] >= held.totals[f]
             /\ ~Newer(p) /\ p.counted = held.counted => p.totals = held.totals

\* Mutant of Adopts: any publication of the right shape is taken.
AdoptsAny(i) ==
    /\ held' = ledger[i]
    /\ heldIs' = i
    /\ valid' = TRUE

Adopts(i) ==
    /\ Continues(ledger[i])
    /\ held' = ledger[i]
    /\ heldIs' = i
    /\ valid' = TRUE

(* A message of the topic, live or retained, any publication so far.       *)
Ingest(i) ==
    /\ i \in DOMAIN ledger
    /\ Adopts(i)
    /\ UNCHANGED <<ledger, ready>>

Rejects == valid' = FALSE /\ UNCHANGED <<ledger, ready, held, heldIs>>

(* reject_current: one that does not continue what is held, ...            *)
IngestOld(i) ==
    /\ i \in DOMAIN ledger
    /\ ~Continues(ledger[i])
    /\ Rejects

(* ... or whose envelope, identity, generations or totals are not right.   *)
IngestWrong == Rejects

EnergyNext ==
    \/ Publishes
    \/ \E up \in BOOLEAN : SetReady(up)
    \/ \E i \in 1 .. MaxPublications : Ingest(i) \/ IngestOld(i)
    \/ IngestWrong

EnergySpec == EnergyInit /\ [][EnergyNext]_energyVars

----------------------------------------------------------------------------
(* What is shown follows the ledger: it never returns to an earlier        *)
(* publication, a total falls only where the ledger started over, and what *)
(* the ledger has published last would always be accepted.                 *)
LedgerNeverRewinds ==
    [][ /\ heldIs' >= heldIs
        /\ \A f \in Meters :
              held'.totals[f] < held.totals[f] =>
                 \E i \in (heldIs + 1) .. heldIs' : ledger[i].totals = NoTotals.totals
        /\ Continues(Last(ledger)) ]_energyVars

=============================================================================
