---------------------------- MODULE StoresProofs ----------------------------
(***************************************************************************)
(* Proofs about the parts of the stores run, each for every value of its   *)
(* constants: the totals of a bridge's ledger (LocalEnergy), the           *)
(* integrated meter (EnergyMeter), the plain entities (EntityCommands),    *)
(* the pins of the full read (ReadConsumer), the options of the Local      *)
(* bindings (LocalOptions), and the energy history (EnergyHistory).        *)
(***************************************************************************)
EXTENDS MCStores, SequenceTheorems, FiniteSetTheorems, WellFoundedInduction, TLAPS

----------------------------------------------------------------------------
(* The ledger.  A publication has its generations and a total per meter,   *)
(* and one comes before another if it is of an older connection, or of an  *)
(* older generation of the same, and no total fell between them unless the *)
(* totals started over.                                                    *)
Publication == [binding : Nat, baseline : Nat, counted : Nat, totals : [Meters -> Nat]]

Earlier(p, q) ==
    \/ p.binding < q.binding
    \/ /\ p.binding = q.binding /\ p.counted < q.counted /\ p.baseline <= q.baseline
       /\ p.baseline = q.baseline => \A f \in Meters : p.totals[f] <= q.totals[f]

LedgerTypes ==
    /\ ledger \in Seq(Publication) /\ ledger # <<>>
    /\ ready \in BOOLEAN /\ valid \in BOOLEAN
    /\ heldIs \in 0 .. Len(ledger)

InOrder ==
    /\ \A i \in 1 .. Len(ledger) :
          ledger[i].binding # 0 /\ ledger[i].baseline <= ledger[i].counted
    /\ \A i, j \in 1 .. Len(ledger) : i < j =>
          /\ Earlier(ledger[i], ledger[j])
          /\ \A f \in Meters :
                ledger[j].totals[f] < ledger[i].totals[f] =>
                   \E k \in (i + 1) .. j : ledger[k].totals = NoTotals.totals

HeldIsPublished == held = IF heldIs = 0 THEN NoTotals ELSE ledger[heldIs]

EnergyInv == LedgerTypes /\ InOrder /\ HeldIsPublished

LEMMA NothingIsAPublication ==
  /\ NoTotals \in Publication /\ NoTotals.binding = 0 /\ NoTotals.baseline = 0 /\ NoTotals.counted = 0
  /\ NoTotals.totals \in [Meters -> Nat] /\ \A f \in Meters : NoTotals.totals[f] = 0
  BY DEF NoTotals, Publication

LEMMA PublicationFields ==
  ASSUME NEW p \in Publication
  PROVE  /\ p.binding \in Nat /\ p.baseline \in Nat /\ p.counted \in Nat
         /\ p.totals \in [Meters -> Nat]
  BY DEF Publication

LEMMA LastIsOne ==
  ASSUME LedgerTypes
  PROVE  /\ Len(ledger) \in Nat /\ Len(ledger) \in 1 .. Len(ledger)
         /\ Last(ledger) = ledger[Len(ledger)] /\ Last(ledger) \in Publication
         /\ \A i \in 1 .. Len(ledger) : ledger[i] \in Publication
  <1>1. ledger \in Seq(Publication) /\ ledger # <<>>
    BY DEF LedgerTypes
  <1>2. Len(ledger) \in Nat /\ Len(ledger) # 0 /\ \A i \in 1 .. Len(ledger) : ledger[i] \in Publication
    BY <1>1, LenProperties, EmptySeq, ElementOfSeq
  <1> QED
    BY <1>2 DEF Last

(* Earlier is an order.                                                    *)
LEMMA EarlierIsTransitive ==
  ASSUME NEW p \in Publication, NEW q \in Publication, NEW r \in Publication,
         Earlier(p, q), Earlier(q, r)
  PROVE  Earlier(p, r)
  <1>1. /\ p.binding \in Nat /\ p.baseline \in Nat /\ p.counted \in Nat
        /\ q.binding \in Nat /\ q.baseline \in Nat /\ q.counted \in Nat
        /\ r.binding \in Nat /\ r.baseline \in Nat /\ r.counted \in Nat
        /\ \A f \in Meters : p.totals[f] \in Nat /\ q.totals[f] \in Nat /\ r.totals[f] \in Nat
    BY PublicationFields
  <1>2. CASE p.binding < r.binding
    BY <1>2 DEF Earlier
  <1>3. CASE ~(p.binding < r.binding)
    <2>1. p.binding = q.binding /\ q.binding = r.binding
      BY <1>1, <1>3 DEF Earlier
    <2>2. p.counted < r.counted /\ p.baseline <= r.baseline
      BY <1>1, <2>1 DEF Earlier
    <2>3. ASSUME p.baseline = r.baseline, NEW f \in Meters
          PROVE  p.totals[f] <= r.totals[f]
      <3>1. p.totals[f] <= q.totals[f] /\ q.totals[f] <= r.totals[f]
        BY <1>1, <2>1, <2>3 DEF Earlier
      <3> QED
        BY <1>1, <3>1
    <2> QED
      BY <2>1, <2>2, <2>3 DEF Earlier
  <1> QED
    BY <1>2, <1>3

(* What the bridge may publish next.                                       *)
LEMMA NextGenerationFollows ==
  ASSUME LedgerTypes, NEW f \in Meters, NEW n \in {0, 1}, Last(ledger).baseline <= Last(ledger).counted
  PROVE  /\ NextGeneration(f, n) \in Publication /\ NextGeneration(f, n).binding = Last(ledger).binding
         /\ Earlier(Last(ledger), NextGeneration(f, n))
         /\ \A g \in Meters : NextGeneration(f, n).totals[g] >= Last(ledger).totals[g]
         /\ NextGeneration(f, n).baseline <= NextGeneration(f, n).counted
  <1> DEFINE l == Last(ledger)
             c == [l EXCEPT !.counted = @ + 1]
             p == [c EXCEPT !.totals[f] = @ + n]
  <1>1. l \in Publication
    BY LastIsOne
  <1>2. NextGeneration(f, n) = p
    BY DEF NextGeneration
  <1>3. l.baseline <= l.counted
    OBVIOUS
  <1> HIDE DEF l
  <1>4. /\ l.binding \in Nat /\ l.baseline \in Nat /\ l.counted \in Nat /\ l.totals \in [Meters -> Nat]
    BY <1>1, PublicationFields
  <1>5. /\ c \in Publication /\ c.binding = l.binding /\ c.baseline = l.baseline
        /\ c.counted = l.counted + 1 /\ c.totals = l.totals
    BY <1>1, <1>4 DEF Publication
  <1> HIDE DEF c
  <1> DEFINE t == [c.totals EXCEPT ![f] = @ + n]
  <1>6. t \in [Meters -> Nat] /\ \A g \in Meters : t[g] >= l.totals[g]
    BY <1>4, <1>5
  <1>7. p = [c EXCEPT !.totals = t]
    OBVIOUS
  <1> HIDE DEF t
  <1>8. /\ p \in Publication /\ p.binding = l.binding /\ p.baseline = l.baseline
        /\ p.counted = l.counted + 1 /\ p.totals = t
    BY <1>5, <1>6, <1>7 DEF Publication
  <1> HIDE DEF p
  <1>9. Earlier(l, p)
    BY <1>4, <1>6, <1>8 DEF Earlier
  <1>10. p.baseline <= p.counted
    BY <1>3, <1>4, <1>8
  <1> QED
    BY <1>2, <1>6, <1>8, <1>9, <1>10 DEF l

LEMMA StartsOverFollows ==
  ASSUME LedgerTypes, Last(ledger).baseline <= Last(ledger).counted
  PROVE  /\ StartsOver \in Publication /\ StartsOver.binding = Last(ledger).binding
         /\ Earlier(Last(ledger), StartsOver)
         /\ StartsOver.totals = NoTotals.totals
         /\ StartsOver.baseline <= StartsOver.counted
  <1> DEFINE l == Last(ledger)
             v == l.counted + 1
             b == [l EXCEPT !.baseline = v]
             c == [b EXCEPT !.counted = @ + 1]
             p == [c EXCEPT !.totals = NoTotals.totals]
  <1>1. l \in Publication /\ l.baseline <= l.counted
    BY LastIsOne
  <1>2. StartsOver = p
    BY DEF StartsOver
  <1> HIDE DEF l
  <1>3. /\ l.binding \in Nat /\ l.baseline \in Nat /\ l.counted \in Nat /\ l.totals \in [Meters -> Nat]
        /\ v \in Nat
    BY <1>1, PublicationFields
  <1> HIDE DEF v
  <1>4. b \in Publication /\ b.binding = l.binding /\ b.baseline = v /\ b.counted = l.counted
    BY <1>1, <1>3 DEF Publication
  <1> HIDE DEF b
  <1>5. c \in Publication /\ c.binding = l.binding /\ c.baseline = v /\ c.counted = l.counted + 1
    BY <1>3, <1>4 DEF Publication
  <1> HIDE DEF c
  <1>6. /\ p \in Publication /\ p.binding = l.binding /\ p.baseline = v /\ p.counted = l.counted + 1
        /\ p.totals = NoTotals.totals
    BY <1>3, <1>5, NothingIsAPublication DEF Publication
  <1> HIDE DEF p
  <1>7. Earlier(l, p) /\ p.baseline <= p.counted
    BY <1>1, <1>3, <1>6 DEF Earlier, v
  <1> QED
    BY <1>2, <1>6, <1>7 DEF l

LEMMA ReboundFollows ==
  ASSUME LedgerTypes
  PROVE  /\ Rebound \in Publication /\ Rebound.binding # 0
         /\ Earlier(Last(ledger), Rebound)
         /\ Rebound.totals = NoTotals.totals
         /\ Rebound.baseline <= Rebound.counted
  <1>1. Last(ledger).binding \in Nat
    BY LastIsOne, PublicationFields
  <1>2. Rebound \in Publication /\ Rebound.binding = Last(ledger).binding + 1
    BY <1>1, NothingIsAPublication DEF Rebound, Publication
  <1>3. Rebound.totals = NoTotals.totals /\ Rebound.baseline = 0 /\ Rebound.counted = 0
    BY NothingIsAPublication DEF Rebound, Publication
  <1> QED
    BY <1>1, <1>2, <1>3 DEF Earlier

LEMMA PublishingKeeps ==
  ASSUME EnergyInv, NEW p \in Publication, p.binding # 0, p.baseline <= p.counted,
         Earlier(Last(ledger), p),
         \A f \in Meters : p.totals[f] < Last(ledger).totals[f] => p.totals = NoTotals.totals,
         ledger' = Append(ledger, p), UNCHANGED <<ready, valid, held, heldIs>>
  PROVE  EnergyInv'
  <1> DEFINE n == Len(ledger)
  <1>0. LedgerTypes /\ InOrder /\ HeldIsPublished
    BY DEF EnergyInv
  <1>1. /\ n \in Nat /\ n \in 1 .. n /\ Last(ledger) = ledger[n]
        /\ \A i \in 1 .. n : ledger[i] \in Publication
    BY <1>0, LastIsOne
  <1>2. /\ ledger' \in Seq(Publication) /\ Len(ledger') = n + 1 /\ ledger'[n + 1] = p
        /\ \A i \in 1 .. n : ledger'[i] = ledger[i]
    BY <1>0, AppendProperties DEF LedgerTypes
  <1>3. \A i \in 1 .. n + 1 : i \in 1 .. n \/ i = n + 1
    BY <1>1
  <1>4. LedgerTypes'
    <2>1. ledger' # <<>>
      BY <1>1, <1>2, EmptySeq
    <2> QED
      BY <1>0, <1>1, <1>2, <2>1 DEF LedgerTypes
  <1>5. InOrder'
    <2>1. \A i \in 1 .. n + 1 : ledger'[i].binding # 0 /\ ledger'[i].baseline <= ledger'[i].counted
      BY <1>0, <1>2, <1>3 DEF InOrder
    <2>2. ASSUME NEW i \in 1 .. n + 1, NEW j \in 1 .. n + 1, i < j
          PROVE  /\ Earlier(ledger'[i], ledger'[j])
                 /\ \A f \in Meters :
                       ledger'[j].totals[f] < ledger'[i].totals[f] =>
                          \E k \in (i + 1) .. j : ledger'[k].totals = NoTotals.totals
      <3>1. i \in 1 .. n
        BY <1>1, <1>3, <2>2
      <3>2. CASE j \in 1 .. n
        <4>1. \A k \in (i + 1) .. j : k \in 1 .. n
          BY <1>1, <3>1, <3>2
        <4> QED
          BY <1>0, <1>2, <2>2, <3>1, <3>2, <4>1 DEF InOrder
      <3>3. CASE j = n + 1
        <4>1. Earlier(ledger[i], p)
          <5>1. CASE i = n
            BY <1>1, <5>1
          <5>2. CASE i # n
            <6>1. Earlier(ledger[i], ledger[n])
              BY <1>0, <1>1, <3>1, <5>2 DEF InOrder
            <6> QED
              BY <1>1, <3>1, <6>1, EarlierIsTransitive
          <5> QED
            BY <5>1, <5>2
        <4>2. ASSUME NEW f \in Meters, p.totals[f] < ledger[i].totals[f]
              PROVE  \E k \in (i + 1) .. j : ledger'[k].totals = NoTotals.totals
          <5>1. /\ p.totals[f] \in Nat /\ ledger[i].totals[f] \in Nat /\ ledger[n].totals[f] \in Nat
            BY <1>1, <3>1, PublicationFields
          <5>2. CASE p.totals[f] < ledger[n].totals[f]
            <6>1. ledger'[j].totals = NoTotals.totals /\ j \in (i + 1) .. j
              BY <1>1, <1>2, <3>1, <3>3, <5>2
            <6> QED
              BY <6>1
          <5>3. CASE ~(p.totals[f] < ledger[n].totals[f])
            <6>1. ledger[n].totals[f] < ledger[i].totals[f] /\ i # n
              BY <4>2, <5>1, <5>3
            <6>2. i < n
              BY <1>1, <3>1, <6>1
            <6>3. PICK k \in (i + 1) .. n : ledger[k].totals = NoTotals.totals
              BY <1>0, <1>1, <3>1, <6>1, <6>2 DEF InOrder
            <6>4. k \in (i + 1) .. j /\ k \in 1 .. n
              BY <1>1, <3>1, <3>3
            <6> QED
              BY <1>2, <6>3, <6>4
          <5> QED
            BY <5>2, <5>3
        <4> QED
          BY <1>2, <3>1, <3>3, <4>1, <4>2
      <3> QED
        BY <1>3, <3>2, <3>3
    <2> QED
      BY <1>2, <2>1, <2>2 DEF InOrder
  <1>6. HeldIsPublished'
    BY <1>0, <1>1, <1>2 DEF HeldIsPublished, LedgerTypes
  <1> QED
    BY <1>4, <1>5, <1>6 DEF EnergyInv

(* A message is taken exactly if it is no older than what is held.         *)
LEMMA NewIsTaken ==
  ASSUME EnergyInv, NEW i \in 1 .. Len(ledger), heldIs <= i
  PROVE  Continues(ledger[i])
  <1>0. LedgerTypes /\ InOrder /\ HeldIsPublished
    BY DEF EnergyInv
  <1>1. CASE heldIs = 0
    BY <1>0, <1>1, NothingIsAPublication DEF HeldIsPublished, Continues, Heard
  <1>2. CASE heldIs # 0
    <2>1. /\ held = ledger[heldIs] /\ heldIs \in 1 .. Len(ledger)
          /\ held \in Publication /\ ledger[i] \in Publication
      BY <1>0, <1>2, LastIsOne DEF HeldIsPublished, LedgerTypes
    <2>2. /\ held.binding \in Nat /\ held.baseline \in Nat /\ held.counted \in Nat
          /\ held.totals \in [Meters -> Nat]
          /\ ledger[i].binding \in Nat /\ ledger[i].baseline \in Nat /\ ledger[i].counted \in Nat
          /\ ledger[i].totals \in [Meters -> Nat]
      BY <2>1, PublicationFields
    <2>3. CASE i = heldIs
      BY <2>1, <2>2, <2>3 DEF Continues, Newer
    <2>4. CASE i # heldIs
      <3>1. Earlier(held, ledger[i])
        BY <1>0, <2>1, <2>4 DEF InOrder, LedgerTypes
      <3> HIDE <2>1
      <3>2. CASE held.binding < ledger[i].binding
        BY <2>2, <3>2 DEF Continues, Newer
      <3>3. CASE ~(held.binding < ledger[i].binding)
        BY <2>2, <3>1, <3>3 DEF Continues, Newer, Earlier
      <3> QED
        BY <3>2, <3>3
    <2> QED
      BY <2>3, <2>4
  <1> QED
    BY <1>1, <1>2

LEMMA OldIsRefused ==
  ASSUME EnergyInv, NEW i \in 1 .. Len(ledger), i < heldIs
  PROVE  ~Continues(ledger[i])
  <1>0. LedgerTypes /\ InOrder /\ HeldIsPublished
    BY DEF EnergyInv
  <1>1. /\ heldIs \in 1 .. Len(ledger) /\ heldIs # 0
    BY <1>0, LastIsOne DEF LedgerTypes
  <1>2. /\ held = ledger[heldIs] /\ held \in Publication /\ ledger[i] \in Publication
        /\ held.binding # 0
    BY <1>0, <1>1, LastIsOne DEF HeldIsPublished, InOrder
  <1>3. Earlier(ledger[i], held)
    BY <1>0, <1>1, <1>2 DEF InOrder
  <1>4. /\ held.binding \in Nat /\ held.counted \in Nat
        /\ ledger[i].binding \in Nat /\ ledger[i].counted \in Nat
    BY <1>2, PublicationFields
  <1> QED
    BY <1>2, <1>3, <1>4 DEF Continues, Heard, Earlier

LEMMA EnergyStarts ==
  ASSUME EnergyInit
  PROVE  EnergyInv
  <1> DEFINE p == [NoTotals EXCEPT !.binding = 1]
  <1>1. p \in Publication /\ p.binding = 1 /\ p.baseline = 0 /\ p.counted = 0
    BY NothingIsAPublication DEF Publication
  <1> HIDE DEF p
  <1>2. ledger = <<p>> /\ ready = FALSE /\ valid = FALSE /\ held = NoTotals /\ heldIs = 0
    BY DEF EnergyInit, p
  <1>3. Len(ledger) = 1 /\ ledger[1] = p /\ ledger \in Seq(Publication) /\ ledger # <<>>
    BY <1>1, <1>2
  <1>4. LedgerTypes
    <2>1. ready \in BOOLEAN /\ valid \in BOOLEAN
      BY <1>2
    <2>2. 0 \in 0 .. 1
      OBVIOUS
    <2>3. heldIs \in 0 .. Len(ledger)
      BY <1>2, <1>3, <2>2
    <2> QED
      BY <1>3, <2>1, <2>3 DEF LedgerTypes
  <1>5. InOrder
    BY <1>1, <1>3 DEF InOrder
  <1> QED
    BY <1>2, <1>4, <1>5 DEF EnergyInv, HeldIsPublished

LEMMA EnergyKeeps ==
  ASSUME EnergyInv, EnergyNext
  PROVE  EnergyInv'
  <1>0. LedgerTypes /\ InOrder /\ HeldIsPublished
    BY DEF EnergyInv
  <1>1. CASE Publishes
    <2> DEFINE l == Last(ledger)
    <2>1. /\ l \in Publication /\ l.binding # 0 /\ l.baseline <= l.counted
      BY <1>0, LastIsOne DEF InOrder
    <2>2. PICK p \in {NextGeneration(f, n) : f \in Meters, n \in {0, 1}} \cup {StartsOver, Rebound} :
             ledger' = Append(ledger, p)
      BY <1>1 DEF Publishes
    <2>3. UNCHANGED <<ready, valid, held, heldIs>>
      BY <1>1 DEF Publishes
    <2>4. CASE p \in {NextGeneration(f, n) : f \in Meters, n \in {0, 1}}
      <3>1. PICK f \in Meters, n \in {0, 1} : p = NextGeneration(f, n)
        BY <2>4
      <3>2. /\ p \in Publication /\ p.binding = l.binding /\ Earlier(l, p)
            /\ \A g \in Meters : p.totals[g] >= l.totals[g]
            /\ p.baseline <= p.counted
        BY <1>0, <2>1, <3>1, NextGenerationFollows
      <3>3. \A g \in Meters : p.totals[g] \in Nat /\ l.totals[g] \in Nat
        BY <2>1, <3>2, PublicationFields
      <3>4. \A g \in Meters : ~(p.totals[g] < l.totals[g])
        BY <3>2, <3>3
      <3> QED
        BY <2>1, <2>2, <2>3, <3>2, <3>4, PublishingKeeps
    <2>5. CASE p = StartsOver
      BY <1>0, <2>1, <2>2, <2>3, <2>5, StartsOverFollows, PublishingKeeps
    <2>6. CASE p = Rebound
      BY <1>0, <2>2, <2>3, <2>6, ReboundFollows, PublishingKeeps
    <2> QED
      BY <2>4, <2>5, <2>6
  <1>2. ASSUME NEW up \in BOOLEAN, SetReady(up) PROVE EnergyInv'
    BY <1>0, <1>2 DEF SetReady, EnergyInv, LedgerTypes, InOrder, HeldIsPublished
  <1>3. ASSUME NEW i \in 1 .. MaxPublications, Ingest(i) PROVE EnergyInv'
    <2>1. /\ i \in 1 .. Len(ledger) /\ UNCHANGED <<ledger, ready>> /\ valid' = TRUE
          /\ held' = ledger[i] /\ heldIs' = i /\ i # 0
      BY <1>0, <1>3, LenProperties DEF Ingest, Adopts, LedgerTypes
    <2> QED
      BY <1>0, <2>1 DEF EnergyInv, LedgerTypes, InOrder, HeldIsPublished
  <1>4. ASSUME NEW i \in 1 .. MaxPublications, IngestOld(i) PROVE EnergyInv'
    BY <1>0, <1>4 DEF IngestOld, Rejects, EnergyInv, LedgerTypes, InOrder, HeldIsPublished
  <1>5. CASE IngestWrong
    BY <1>0, <1>5 DEF IngestWrong, Rejects, EnergyInv, LedgerTypes, InOrder, HeldIsPublished
  <1> QED
    BY <1>1, <1>2, <1>3, <1>4, <1>5 DEF EnergyNext

(* What is held is always a publication of the ledger, in whose order they *)
(* came (CumulativeEnergyShadowProvider).                                  *)
THEOREM EnergyInvariant == EnergySpec => []EnergyInv
  <1>1. EnergyInv /\ [EnergyNext]_energyVars => EnergyInv'
    <2> SUFFICES ASSUME EnergyInv, UNCHANGED energyVars PROVE EnergyInv'
      BY EnergyKeeps
    <2> QED
      BY DEF energyVars, EnergyInv, LedgerTypes, InOrder, HeldIsPublished
  <1> QED
    BY <1>1, EnergyStarts, PTL DEF EnergySpec

(* Whatever the broker repeats or delays: what is shown never returns to an*)
(* earlier publication, a total falls only where the ledger started over,  *)
(* and its last publication is always accepted (ingest).                   *)
THEOREM TotalsFollowTheLedger == EnergySpec => LedgerNeverRewinds
  <1> DEFINE Follows == /\ heldIs' >= heldIs
                        /\ \A f \in Meters :
                              held'.totals[f] < held.totals[f] =>
                                 \E i \in (heldIs + 1) .. heldIs' : ledger[i].totals = NoTotals.totals
                        /\ Continues(Last(ledger))
  <1>1. EnergyInv /\ [EnergyNext]_energyVars => [Follows]_energyVars
    <2> SUFFICES ASSUME EnergyInv, EnergyNext PROVE Follows
      OBVIOUS
    <2>0. LedgerTypes /\ InOrder /\ HeldIsPublished
      BY DEF EnergyInv
    <2>1. Continues(Last(ledger))
      BY <2>0, LastIsOne, NewIsTaken DEF LedgerTypes
    <2>2. held \in Publication /\ \A f \in Meters : held.totals[f] \in Nat
      <3>1. held \in Publication
        BY <2>0, LastIsOne, NothingIsAPublication DEF HeldIsPublished, LedgerTypes
      <3> QED
        BY <3>1, PublicationFields
    <2>3. CASE UNCHANGED <<held, heldIs>>
      BY <2>0, <2>1, <2>2, <2>3 DEF LedgerTypes
    <2>4. ASSUME NEW i \in 1 .. MaxPublications, Ingest(i) PROVE Follows
      <3>1. /\ i \in 1 .. Len(ledger) /\ held' = ledger[i] /\ heldIs' = i /\ Continues(ledger[i])
        BY <2>0, <2>4, LenProperties DEF Ingest, Adopts, LedgerTypes
      <3>2. heldIs \in Nat /\ i \in Nat /\ heldIs <= i
        BY <2>0, <3>1, OldIsRefused DEF LedgerTypes
      <3>3. ASSUME NEW f \in Meters, ledger[i].totals[f] < held.totals[f]
            PROVE  \E k \in (heldIs + 1) .. i : ledger[k].totals = NoTotals.totals
        <4>1. CASE heldIs = 0
          <5>1. held.totals[f] = 0 /\ ledger[i].totals[f] \in Nat
            BY <2>0, <3>1, <4>1, LastIsOne, NothingIsAPublication, PublicationFields DEF HeldIsPublished
          <5> QED
            BY <3>3, <5>1
        <4>2. CASE heldIs # 0
          <5>1. held = ledger[heldIs] /\ heldIs \in 1 .. Len(ledger)
            BY <2>0, <4>2 DEF HeldIsPublished, LedgerTypes
          <5>2. heldIs < i
            <6>1. heldIs # i
              BY <2>2, <3>3, <5>1
            <6> QED
              BY <3>2, <6>1
          <5> QED
            BY <2>0, <3>1, <3>3, <5>1, <5>2 DEF InOrder
        <4> QED
          BY <4>1, <4>2
      <3> QED
        BY <2>1, <3>1, <3>2, <3>3
    <2>5. ASSUME \A i \in 1 .. MaxPublications : ~Ingest(i) PROVE UNCHANGED <<held, heldIs>>
      BY <2>5 DEF EnergyNext, Publishes, SetReady, IngestOld, IngestWrong, Rejects
    <2> QED
      BY <2>3, <2>4, <2>5
  <1> QED
    BY <1>1, EnergyInvariant, PTL DEF EnergySpec, LedgerNeverRewinds

----------------------------------------------------------------------------
(* The integrated meter.  A total is sound if it counts nothing twice and  *)
(* nothing that was not seen; what the sensor holds will keep it sound: an *)
(* anchor that every interval and every cut lies before, or marks that the *)
(* next anchor must lie after.                                             *)
Intervals == [from : Nat, to : Nat, first : Powers \cup {0}, last : Powers \cup {0}]
MeterStates == [total : SUBSET Intervals, valid : BOOLEAN, at : Nat, watts : Powers \cup {0},
                high : Nat, blocked : Nat, resume : Nat]
Readings == [at : Nat, published : Nat, watts : Powers \cup {0}]

Sound(T, C, t) ==
    /\ T \in SUBSET Intervals
    /\ \A x \in T : /\ x.from < x.to /\ x.to <= t /\ x.to - x.from <= MaxGap
                    /\ \A c \in C : c <= x.from \/ x.to <= c
    /\ \A x, y \in T : /\ x # y => x.to <= y.from \/ y.to <= x.from
                       /\ x.to = y.from /\ x.to \notin C => x.last = y.first

Anchor(m, C) ==
    /\ m.high = m.at
    /\ \A x \in m.total : x.to <= m.at /\ (x.to = m.at /\ m.at \notin C => x.last = m.watts)
    /\ \A c \in C : c <= m.at

Fenced(m, C) ==
    /\ \A x \in m.total : x.to <= m.blocked \/ x.to <= m.resume
    /\ \A c \in C : c <= m.blocked \/ c <= m.resume

Good(m, C, t) ==
    /\ m \in MeterStates /\ Sound(m.total, C, t)
    /\ m.at <= t /\ m.resume \in C
    /\ m.at # 0 => Anchor(m, C)
    /\ m.at = 0 => Fenced(m, C)

MeterInv ==
    /\ now \in Nat /\ cuts \in SUBSET (0 .. now)
    /\ source \in [up : BOOLEAN, reading : Readings]
    /\ source.reading.at <= now
    /\ Good(sensor, cuts, now) /\ Sound(kept, cuts, now)

LEMMA MaxOfFour ==
  ASSUME NEW a \in Nat, NEW b \in Nat, NEW c \in Nat, NEW d \in Nat
  PROVE  /\ Max({a, b, c, d}) \in Nat
         /\ Max({a, b, c, d}) >= a /\ Max({a, b, c, d}) >= b
         /\ Max({a, b, c, d}) >= c /\ Max({a, b, c, d}) >= d
  <1> DEFINE S == {a, b, c, d}
  <1>1. \E x \in S : \A y \in S : y <= x
    <2>1. \E x \in {a, b} : a <= x /\ b <= x
      OBVIOUS
    <2>2. PICK x \in {a, b} : a <= x /\ b <= x
      BY <2>1
    <2>3. \E z \in {x, c} : x <= z /\ c <= z
      OBVIOUS
    <2>4. PICK z \in {x, c} : x <= z /\ c <= z
      BY <2>3
    <2>5. \E w \in {z, d} : z <= w /\ d <= w
      OBVIOUS
    <2>6. PICK w \in {z, d} : z <= w /\ d <= w
      BY <2>5
    <2>7. w \in S /\ a <= w /\ b <= w /\ c <= w /\ d <= w
      BY <2>2, <2>4, <2>6
    <2> QED
      BY <2>7
  <1>2. Max(S) \in S /\ \A y \in S : Max(S) >= y
    BY <1>1 DEF Max
  <1> QED
    BY <1>2

(* More cuts, and later, leave a total sound.                              *)
LEMMA SoundLater ==
  ASSUME NEW t \in Nat, NEW u \in Nat, t <= u, NEW C, NEW T, Sound(T, C, t)
  PROVE  Sound(T, C, u) /\ Sound(T, C \cup {t}, t)
  <1>1. \A x \in T : x.from \in Nat /\ x.to \in Nat
    BY DEF Sound, Intervals
  <1>2. Sound(T, C, u)
    BY <1>1 DEF Sound
  <1>3. Sound(T, C \cup {t}, t)
    BY <1>1 DEF Sound
  <1> QED
    BY <1>2, <1>3

LEMMA MeterFields ==
  ASSUME NEW m \in MeterStates
  PROVE  /\ m.total \in SUBSET Intervals /\ m.valid \in BOOLEAN /\ m.at \in Nat
         /\ m.watts \in Powers \cup {0} /\ m.high \in Nat /\ m.blocked \in Nat /\ m.resume \in Nat
         /\ \A x \in m.total : x.from \in Nat /\ x.to \in Nat
  BY DEF MeterStates, Intervals

LEMMA BrokenIsGood ==
  ASSUME NEW t \in Nat, t = now, NEW C \in SUBSET (0 .. t), NEW m, Good(m, C, t),
         NEW src, src.reading \in Readings
  PROVE  Good(Broken(m, src), C, t) /\ Good(Broken(m, src), C \cup {t}, t)
  <1> DEFINE b == Max({now, m.high, m.blocked, src.reading.published})
  <1>0. m \in MeterStates /\ Sound(m.total, C, t) /\ m.resume \in C
    BY DEF Good
  <1>1. /\ m.total \in SUBSET Intervals /\ m.at \in Nat
        /\ m.high \in Nat /\ m.blocked \in Nat /\ m.resume \in Nat
        /\ \A x \in m.total : x.from \in Nat /\ x.to \in Nat
    BY <1>0, MeterFields
  <1>2. b \in Nat /\ b >= t /\ b >= m.high /\ b >= m.blocked
    <2>1. src.reading.published \in Nat
      BY DEF Readings
    <2> QED
      BY <1>1, <2>1, MaxOfFour
  <1> HIDE DEF b
  <1> DEFINE n == [m EXCEPT !.at = 0, !.watts = 0, !.blocked = b]
  <1>3. Broken(m, src) = n
    BY DEF Broken, b
  <1>4. /\ n \in MeterStates /\ n.at = 0 /\ n.total = m.total /\ n.blocked = b /\ n.resume = m.resume
    <2> DEFINE n1 == [m EXCEPT !.at = 0]
               n2 == [n1 EXCEPT !.watts = 0]
    <2>1. n1 \in MeterStates /\ n1.at = 0 /\ n1.total = m.total /\ n1.resume = m.resume
      BY <1>0 DEF MeterStates
    <2>2. n = [n2 EXCEPT !.blocked = b]
      OBVIOUS
    <2> HIDE DEF n1
    <2>3. n2 \in MeterStates /\ n2.at = 0 /\ n2.total = m.total /\ n2.resume = m.resume
      BY <2>1 DEF MeterStates
    <2> HIDE DEF n2, n
    <2> QED
      BY <1>2, <2>2, <2>3 DEF MeterStates
  <1> HIDE DEF n
  <1>5. \A x \in m.total : x.to <= t
    BY <1>0 DEF Sound
  <1>6. Fenced(n, C \cup {t}) /\ Fenced(n, C)
    BY <1>1, <1>2, <1>4, <1>5 DEF Fenced
  <1>7. Sound(m.total, C \cup {t}, t)
    BY <1>0, SoundLater
  <1> QED
    BY <1>0, <1>3, <1>4, <1>6, <1>7 DEF Good

LEMMA AnchoredIsGood ==
  ASSUME NEW t \in Nat, NEW C \in SUBSET (0 .. t), NEW m, Good(m, C, t),
         NEW r \in Readings, r.at # 0, r.at <= t, ~Awaited(m, r), m.at # 0 => r.at > m.at
  PROVE  Good(Anchored(m, r), C, t)
  <1>0. m \in MeterStates /\ Sound(m.total, C, t) /\ m.resume \in C
    BY DEF Good
  <1>1. /\ m.total \in SUBSET Intervals /\ m.at \in Nat
        /\ m.high \in Nat /\ m.blocked \in Nat /\ m.resume \in Nat
        /\ \A x \in m.total : x.from \in Nat /\ x.to \in Nat
        /\ r.at \in Nat /\ r.watts \in Powers \cup {0}
    BY <1>0, MeterFields DEF Readings
  <1> DEFINE n == Anchored(m, r)
  <1>2. /\ n \in MeterStates /\ n.at = r.at /\ n.watts = r.watts /\ n.high = r.at
        /\ n.total = m.total /\ n.resume = m.resume
    <2> DEFINE n1 == [m EXCEPT !.at = r.at]
               n2 == [n1 EXCEPT !.watts = r.watts]
    <2>1. n1 \in MeterStates /\ n1.at = r.at /\ n1.total = m.total /\ n1.resume = m.resume
      BY <1>0, <1>1 DEF MeterStates
    <2>2. n = [n2 EXCEPT !.high = r.at]
      BY DEF Anchored
    <2> HIDE DEF n1
    <2>3. /\ n2 \in MeterStates /\ n2.at = r.at /\ n2.watts = r.watts /\ n2.total = m.total
          /\ n2.resume = m.resume
      BY <1>1, <2>1 DEF MeterStates
    <2> HIDE DEF n2, n
    <2> QED
      BY <1>1, <2>2, <2>3 DEF MeterStates
  <1> HIDE DEF n
  <1>3. r.at >= m.resume /\ r.at > m.blocked
    BY <1>1 DEF Awaited
  <1>4. C \subseteq Nat
    OBVIOUS
  <1>5. Anchor(n, C)
    <2>1. CASE m.at = 0
      <3>1. Fenced(m, C)
        BY <2>1 DEF Good
      <3>2. \A x \in m.total : x.to <= r.at /\ (x.to = r.at => r.at = m.resume)
        BY <1>1, <1>3, <3>1 DEF Fenced
      <3>3. \A c \in C : c <= r.at
        BY <1>1, <1>3, <1>4, <3>1 DEF Fenced
      <3> QED
        BY <1>0, <1>2, <3>2, <3>3 DEF Anchor
    <2>2. CASE m.at # 0
      <3>1. Anchor(m, C) /\ r.at > m.at
        BY <2>2 DEF Good
      <3>2. \A x \in m.total : x.to <= r.at /\ x.to # r.at
        BY <1>1, <3>1 DEF Anchor
      <3>3. \A c \in C : c <= r.at
        BY <1>1, <1>4, <3>1 DEF Anchor
      <3> QED
        BY <1>2, <3>2, <3>3 DEF Anchor
    <2> QED
      BY <2>1, <2>2
  <1> QED
    BY <1>0, <1>2, <1>5 DEF Good, n

LEMMA ExtendedIsGood ==
  ASSUME NEW t \in Nat, NEW C \in SUBSET (0 .. t), NEW m, Good(m, C, t), m.at # 0,
         NEW r \in Readings, r.at <= t, ~Awaited(m, r), Extends(m, r)
  PROVE  Good([Anchored(m, r) EXCEPT !.total = @ \cup {Interval(m, r)}], C, t)
  <1> DEFINE n == Anchored(m, r)
             i == Interval(m, r)
             e == [n EXCEPT !.total = @ \cup {i}]
  <1>0. m \in MeterStates /\ Sound(m.total, C, t) /\ m.resume \in C /\ Anchor(m, C)
    BY DEF Good
  <1>1. /\ m.total \in SUBSET Intervals /\ m.at \in Nat /\ m.watts \in Powers \cup {0}
        /\ \A x \in m.total : x.from \in Nat /\ x.to \in Nat
        /\ r.at \in Nat /\ r.watts \in Powers \cup {0}
    BY <1>0, MeterFields DEF Readings
  <1>2. m.at < r.at /\ r.at - m.at <= MaxGap /\ MaxGap \in Nat
    BY MeterAssumption DEF Extends
  <1>3. Good(n, C, t)
    BY <1>1, <1>2, AnchoredIsGood
  <1>4. i \in Intervals /\ i.from = m.at /\ i.to = r.at /\ i.first = m.watts /\ i.last = r.watts
    BY <1>1 DEF Interval, Intervals
  <1>5. n \in MeterStates /\ n.at = r.at /\ n.watts = r.watts /\ n.total = m.total /\ n.high = r.at
    BY <1>0, <1>3 DEF Anchored, Good, MeterStates
  <1> HIDE DEF n, i
  <1>6. /\ e \in MeterStates /\ e.at = r.at /\ e.watts = r.watts /\ e.high = n.high
        /\ e.total = m.total \cup {i} /\ e.resume = n.resume
    BY <1>4, <1>5 DEF MeterStates
  <1> HIDE DEF e
  <1>7. \A c \in C : c \in Nat /\ c <= m.at
    BY <1>0 DEF Anchor
  <1>8. \A x \in m.total : x.to <= m.at /\ (x.to = m.at /\ m.at \notin C => x.last = m.watts) /\ x.from < x.to
    BY <1>0 DEF Anchor, Sound
  <1>9. Sound(e.total, C, t)
    <2>1. \A x \in e.total : x \in m.total \/ x = i
      BY <1>6
    <2>2. ASSUME NEW x \in e.total
          PROVE  /\ x.from < x.to /\ x.to <= t /\ x.to - x.from <= MaxGap
                 /\ \A c \in C : c <= x.from \/ x.to <= c
      <3>1. CASE x \in m.total
        BY <1>0, <3>1 DEF Sound
      <3>2. CASE x = i
        BY <1>1, <1>2, <1>4, <1>7, <3>2
      <3> QED
        BY <2>1, <3>1, <3>2
    <2>3. ASSUME NEW x \in e.total, NEW y \in e.total
          PROVE  /\ x # y => x.to <= y.from \/ y.to <= x.from
                 /\ x.to = y.from /\ x.to \notin C => x.last = y.first
      <3>1. CASE x \in m.total /\ y \in m.total
        BY <1>0, <3>1 DEF Sound
      <3>2. CASE x \in m.total /\ y = i
        BY <1>4, <1>8, <3>2
      <3>3. CASE x = i /\ y \in m.total
        <4>1. y.to <= m.at /\ y.from < y.to /\ y.to \in Nat /\ y.from \in Nat
          BY <1>1, <1>8, <3>3
        <4> QED
          BY <1>1, <1>2, <1>4, <3>3, <4>1
      <3>4. CASE x = i /\ y = i
        BY <1>1, <1>2, <1>4, <3>4
      <3> QED
        BY <2>1, <3>1, <3>2, <3>3, <3>4
    <2>4. e.total \in SUBSET Intervals
      BY <1>1, <1>4, <1>6
    <2> QED
      BY <2>2, <2>3, <2>4 DEF Sound
  <1>10. Anchor(e, C)
    <2>1. \A x \in e.total : x.to <= r.at /\ (x.to = r.at => x.last = r.watts)
      BY <1>1, <1>2, <1>4, <1>6, <1>8
    <2>2. ASSUME NEW c \in C PROVE c <= r.at
      <3>1. c \in Nat /\ c <= m.at
        BY <1>7
      <3> QED
        BY <1>1, <1>2, <3>1
    <2> QED
      BY <1>5, <1>6, <2>1, <2>2 DEF Anchor
  <1>11. e.resume \in C /\ e.at <= t /\ e.at # 0
    BY <1>1, <1>2, <1>3, <1>6 DEF Good
  <1> QED
    BY <1>6, <1>9, <1>10, <1>11 DEF Good, e, n, i

(* Whatever the source shows, what the sensor makes of it is good.         *)
LEMMA ConsumedIsGood ==
  ASSUME NEW t \in Nat, t = now, NEW C \in SUBSET (0 .. t), NEW m, Good(m, C, t),
         NEW src, src.reading \in Readings, src.reading.at <= t
  PROVE  /\ Good(Consumed(m, src), IF Sampled(src) THEN C ELSE C \cup {t}, t)
         /\ t \in C => Good(Consumed(m, src), C, t)
  <1> DEFINE r == src.reading
  <1>0. m \in MeterStates /\ r \in Readings
    BY DEF Good
  <1>1. m.at \in Nat /\ m.high \in Nat /\ r.at \in Nat
    BY <1>0, MeterFields DEF Readings
  <1>2. CASE ~Sampled(src)
    BY <1>2, BrokenIsGood DEF Consumed
  <1>3. CASE Sampled(src)
    <2>0. r.at # 0 /\ Consumed(m, src) = Measured(m, src)
      BY <1>3 DEF Sampled, Consumed
    <2>1. CASE Awaited(m, r)
      <3>1. Measured(m, src) = m
        BY <2>1 DEF Measured
      <3> QED
        BY <1>3, <2>0, <3>1
    <2>2. CASE ~Awaited(m, r) /\ r.at < m.high
      <3>0. ~(r.at >= m.high)
        BY <1>1, <2>2
      <3>1. Measured(m, src) = Broken(m, src)
        BY <2>2, <3>0 DEF Measured
      <3> QED
        BY <1>3, <2>0, <3>1, BrokenIsGood
    <2>3. CASE ~Awaited(m, r) /\ r.at >= m.high /\ m.at = 0
      <3> DEFINE n == Anchored(m, r)
                 v == [n EXCEPT !.valid = TRUE]
      <3>1. Measured(m, src) = v
        BY <1>1, <2>3 DEF Measured
      <3>2. Good(n, C, t)
        BY <2>0, <2>3, AnchoredIsGood
      <3> HIDE DEF n
      <3>3. /\ v \in MeterStates /\ v.total = n.total /\ v.at = n.at /\ v.watts = n.watts
            /\ v.high = n.high /\ v.blocked = n.blocked /\ v.resume = n.resume
        BY <3>2 DEF Good, MeterStates
      <3> HIDE DEF v
      <3>4. Good(v, C, t)
        BY <3>2, <3>3 DEF Good, Anchor, Fenced
      <3> QED
        BY <1>3, <2>0, <3>1, <3>4
    <2>4. CASE ~Awaited(m, r) /\ r.at >= m.high /\ m.at # 0 /\ r.at = m.at
      <3>1. Measured(m, src) = m \/ Measured(m, src) = Broken(m, src)
        BY <1>1, <2>4 DEF Measured
      <3> QED
        BY <1>3, <2>0, <3>1, BrokenIsGood
    <2>5. CASE ~Awaited(m, r) /\ r.at >= m.high /\ m.at # 0 /\ r.at # m.at
      <3>1. Measured(m, src) = IF Extends(m, r)
                               THEN [Anchored(m, r) EXCEPT !.total = @ \cup {Interval(m, r)}]
                               ELSE Anchored(m, r)
        BY <1>1, <2>5 DEF Measured
      <3>2. r.at > m.at
        <4>1. m.high = m.at
          BY <2>5 DEF Good, Anchor
        <4> QED
          BY <1>1, <2>5, <4>1
      <3>3. Good(Anchored(m, r), C, t)
        BY <2>0, <2>5, <3>2, AnchoredIsGood
      <3>4. Extends(m, r) => Good([Anchored(m, r) EXCEPT !.total = @ \cup {Interval(m, r)}], C, t)
        BY <2>0, <2>5, ExtendedIsGood
      <3> QED
        BY <1>3, <2>0, <3>1, <3>3, <3>4
    <2> QED
      BY <1>1, <2>1, <2>2, <2>3, <2>4, <2>5
  <1> QED
    BY <1>2, <1>3

LEMMA MeterStarts ==
  ASSUME MeterInit
  PROVE  MeterInv
  <1>1. /\ now = 1 /\ cuts = {1} /\ kept = {} /\ source = [up |-> FALSE, reading |-> NoReading]
        /\ sensor = [NewMeter(1) EXCEPT !.blocked = 1]
    BY DEF MeterInit
  <1>2. NoReading \in Readings /\ NoReading.at = 0
    BY DEF NoReading, Readings
  <1>3. /\ sensor \in MeterStates /\ sensor.total = {} /\ sensor.at = 0 /\ sensor.resume = 1
    BY <1>1 DEF NewMeter, MeterStates
  <1>4. Sound({}, cuts, now)
    BY DEF Sound
  <1>5. Fenced(sensor, cuts)
    BY <1>1, <1>3 DEF Fenced
  <1>6. Good(sensor, cuts, now)
    BY <1>1, <1>3, <1>4, <1>5 DEF Good
  <1> QED
    BY <1>1, <1>2, <1>4, <1>6 DEF MeterInv

LEMMA TellingKeepsMeter ==
  ASSUME MeterInv, NEW src \in [up : BOOLEAN, reading : Readings], src.reading.at <= now, Told(src)
  PROVE  MeterInv'
  <1>1. /\ source' = src /\ UNCHANGED <<now, kept>>
        /\ sensor' = Consumed(sensor, src)
        /\ cuts' = IF Sampled(src) THEN cuts ELSE cuts \cup {now}
    BY DEF Told, Consumes
  <1>2. now \in Nat /\ cuts \in SUBSET (0 .. now) /\ Good(sensor, cuts, now) /\ Sound(kept, cuts, now)
    BY DEF MeterInv
  <1>3. Good(sensor', cuts', now)
    BY <1>1, <1>2, ConsumedIsGood
  <1>4. Sound(kept, cuts', now)
    BY <1>1, <1>2, SoundLater
  <1>5. cuts' \in SUBSET (0 .. now)
    BY <1>1, <1>2
  <1> QED
    BY <1>1, <1>2, <1>3, <1>4, <1>5 DEF MeterInv

(* The sensor comes back with a total, and without an anchor.              *)
LEMMA ReturningKeepsMeter ==
  ASSUME MeterInv, NEW T, Sound(T, cuts, now), NEW usable \in BOOLEAN, Returns(T, usable),
         source' \in [up : BOOLEAN, reading : Readings], source'.reading.at <= now,
         kept' \in {T, kept}
  PROVE  MeterInv'
  <1> DEFINE m == Added(T, usable)
             C == cuts \cup {now}
  <1>1. /\ sensor' = Consumed(m, source') /\ cuts' = C /\ UNCHANGED now
    BY DEF Returns
  <1>2. now \in Nat /\ cuts \in SUBSET (0 .. now) /\ Sound(kept, cuts, now)
    BY DEF MeterInv
  <1>3. Sound(T, C, now) /\ Sound(kept, C, now) /\ C \in SUBSET (0 .. now) /\ now \in C
    BY <1>2, SoundLater
  <1>4. /\ m \in MeterStates /\ m.total = T /\ m.at = 0 /\ m.resume = now
    <2>1. T \in SUBSET Intervals
      BY DEF Sound
    <2> DEFINE n == NewMeter(now)
               n1 == [n EXCEPT !.total = T]
    <2>2. n \in MeterStates /\ n.at = 0 /\ n.resume = now
      BY <1>2 DEF NewMeter, MeterStates
    <2>3. m = [n1 EXCEPT !.valid = usable]
      BY DEF Added
    <2> HIDE DEF n
    <2>4. n1 \in MeterStates /\ n1.at = 0 /\ n1.resume = now /\ n1.total = T
      BY <2>1, <2>2 DEF MeterStates
    <2> HIDE DEF n1, m
    <2> QED
      BY <2>3, <2>4 DEF MeterStates
  <1> HIDE DEF m, C
  <1>5. Fenced(m, C)
    <2>1. \A x \in T : x.to <= now
      BY <1>3 DEF Sound
    <2>2. \A c \in C : c <= now
      BY <1>3
    <2> QED
      BY <1>4, <2>1, <2>2 DEF Fenced
  <1>6. Good(m, C, now)
    BY <1>2, <1>3, <1>4, <1>5 DEF Good
  <1>7. source'.reading \in Readings
    OBVIOUS
  <1>8. Good(sensor', C, now)
    BY <1>1, <1>2, <1>3, <1>6, <1>7, ConsumedIsGood
  <1> QED
    BY <1>1, <1>2, <1>3, <1>8 DEF MeterInv

LEMMA MeterKeeps ==
  ASSUME MeterInv, MeterNext
  PROVE  MeterInv'
  <1>0. /\ now \in Nat /\ cuts \in SUBSET (0 .. now) /\ Good(sensor, cuts, now) /\ Sound(kept, cuts, now)
        /\ source \in [up : BOOLEAN, reading : Readings] /\ source.reading.at <= now
        /\ Sound(sensor.total, cuts, now)
    BY DEF MeterInv, Good
  <1>1. CASE Reports
    <2>1. PICK at \in 1 .. now, published \in 1 .. now, w \in Powers :
             Told([up |-> TRUE, reading |-> [at |-> at, published |-> published, watts |-> w]])
      BY <1>1 DEF Reports
    <2> DEFINE r == [at |-> at, published |-> published, watts |-> w]
               src == [up |-> TRUE, reading |-> r]
    <2>2. r \in Readings /\ r.at = at
      BY DEF Readings
    <2> HIDE DEF r
    <2>3. src \in [up : BOOLEAN, reading : Readings] /\ src.reading = r
      BY <2>2
    <2>4. Told(src) /\ src.reading.at <= now
      BY <1>0, <2>1, <2>2 DEF r
    <2> QED
      BY <2>3, <2>4, TellingKeepsMeter
  <1>2. CASE Repeats
    BY <1>0, <1>2, TellingKeepsMeter DEF Repeats
  <1>3. CASE GoesAway
    <2> DEFINE src == [source EXCEPT !.up = FALSE]
    <2>1. src \in [up : BOOLEAN, reading : Readings] /\ src.reading = source.reading
      BY <1>0
    <2> QED
      BY <1>0, <1>3, <2>1, TellingKeepsMeter DEF GoesAway
  <1>4. CASE ComesBack
    <2> DEFINE src == [source EXCEPT !.up = TRUE]
    <2>1. src \in [up : BOOLEAN, reading : Readings] /\ src.reading = source.reading
      BY <1>0
    <2> QED
      BY <1>0, <1>4, <2>1, TellingKeepsMeter DEF ComesBack
  <1>5. CASE Rebuilt
    BY <1>0, <1>5, ReturningKeepsMeter DEF Rebuilt
  <1>6. CASE StartsAgain
    <2> DEFINE src == [up |-> FALSE, reading |-> NoReading]
    <2>1. NoReading \in Readings /\ NoReading.at = 0
      BY DEF NoReading, Readings
    <2>2. source' = src /\ src \in [up : BOOLEAN, reading : Readings] /\ src.reading.at <= now
      BY <1>0, <1>6, <2>1 DEF StartsAgain
    <2>3. Sound({}, cuts, now)
      BY DEF Sound
    <2>4. CASE kept' = sensor.total /\ Returns(sensor.total, TRUE)
      BY <1>0, <2>2, <2>4, ReturningKeepsMeter
    <2>5. CASE UNCHANGED kept /\ Returns(kept, TRUE)
      BY <1>0, <2>2, <2>5, ReturningKeepsMeter
    <2>6. CASE kept' = {} /\ Returns({}, FALSE)
      BY <1>0, <2>2, <2>3, <2>6, ReturningKeepsMeter
    <2> QED
      BY <1>6, <2>4, <2>5, <2>6 DEF StartsAgain
  <1>7. CASE Saves
    BY <1>0, <1>7 DEF Saves, MeterInv
  <1>8. CASE Passes
    <2>1. now' = now + 1 /\ UNCHANGED <<source, sensor, kept, cuts>>
      BY <1>8 DEF Passes
    <2>2. Sound(sensor.total, cuts, now + 1) /\ Sound(kept, cuts, now + 1)
      <3>1. now + 1 \in Nat /\ now <= now + 1
        BY <1>0
      <3> QED
        BY <1>0, <3>1, SoundLater
    <2>3. Good(sensor, cuts, now + 1)
      <3>1. sensor.at \in Nat
        BY <1>0, MeterFields DEF Good
      <3> QED
        BY <1>0, <2>2, <3>1 DEF Good
    <2>4. source.reading.at <= now + 1
      BY <1>0 DEF Readings
    <2> QED
      BY <1>0, <2>1, <2>2, <2>3, <2>4 DEF MeterInv
  <1> QED
    BY <1>1, <1>2, <1>3, <1>4, <1>5, <1>6, <1>7, <1>8 DEF MeterNext

(* The integrated meter counts no moment twice and none it did not see,    *)
(* whatever readings are late or repeated, through outages of the source,  *)
(* live edits and restarts (TlvIntegratedEnergySensor).                    *)
THEOREM EnergyIsCountedOnce == MeterSpec => []MeterCountsOnce
  <1>1. MeterInv /\ [MeterNext]_meterVars => MeterInv'
    <2> SUFFICES ASSUME MeterInv, UNCHANGED meterVars PROVE MeterInv'
      BY MeterKeeps
    <2> QED
      BY DEF meterVars, MeterInv, Good, Sound, Anchor, Fenced
  <1>2. MeterInv => MeterCountsOnce
    BY DEF MeterInv, Good, Sound, MeterCountsOnce
  <1> QED
    BY <1>1, <1>2, MeterStarts, PTL DEF MeterSpec

(* The two meters together, as the run checks them.                        *)
THEOREM EnergyStaysHonest == EnergySpec /\ MeterSpec => EnergyIsHonest
  BY TotalsFollowTheLedger, EnergyIsCountedOnce, PTL DEF EnergyIsHonest

----------------------------------------------------------------------------
(* The plain entities.  A call that is under way has left by no transport  *)
(* yet; one that was served left by one.                                   *)
Calls == [at : {"free", "local", "native", "cloud"}, want : Reading, more : BOOLEAN,
          sent : SUBSET {"local", "cloud"}]
Flags == [cache : Reading, pending : Reading, restored : BOOLEAN, disk : Reading, due : BOOLEAN]

CardTypes ==
    /\ card.owned \in BOOLEAN /\ card.shows \in {"data", "nothing", "saver"}
    /\ card.form = "fan" => ~card.owned
    /\ card.shows = "saver" => card.by = "wideq"
    /\ card.by \in {"pat", "wideq"}
    /\ orders \in [Orders -> Calls]
    /\ appliance \in OnOff /\ cloudData \in Reading
    /\ pollRead \in Reading \cup {"idle"} /\ newest \in Reading
    /\ saver \in Flags /\ dropped \in BOOLEAN

CallsAreSingle ==
    \A o \in Orders :
        /\ orders[o].at # "free" => orders[o].sent = {} /\ orders[o].want \in OnOff
        /\ orders[o].sent # {"local", "cloud"}
        /\ orders[o].more => ~card.owned
        /\ card.owned => orders[o].at \in {"free", "local"} /\ "cloud" \notin orders[o].sent

(* The power-save layers: the live snapshot is the newest or nothing, but  *)
(* for a poll that broke after it was read.                                *)
Layers ==
    /\ saver.restored <=> newest = "absent" /\ saver.cache # "absent"
    /\ newest # "absent" => saver.cache = newest
    /\ newest = "absent" => saver.pending = "absent" /\ cloudData = "absent"
    /\ saver.pending \in {"absent", newest}
    /\ pollRead \in {"idle", "absent", newest}
    /\ ~dropped /\ pollRead = "idle" /\ saver.pending = "absent" => cloudData \in {"absent", newest}

CardInv ==
    /\ CardTypes /\ CallsAreSingle
    /\ card.shows = "saver" => Layers
    /\ card.shows = "data" /\ card.by = "wideq" => cloudData = newest

LEMMA CardsAreKnown ==
  ASSUME NEW may, NEW c \in Cards(may)
  PROVE  /\ c.owned \in BOOLEAN /\ c.shows \in {"data", "nothing", "saver"}
         /\ c.form = "fan" => ~c.owned
         /\ c.shows = "saver" => c.by = "wideq"
         /\ c.by \in {"pat", "wideq"}
  <1> DEFINE Known(x) == /\ x.by = "pat" \/ x.by = "wideq"
                         /\ x.owned = TRUE \/ x.owned = FALSE
                         /\ \/ x.shows = "data" \/ x.shows = "nothing"
                            \/ x.shows = "saver" /\ x.by = "wideq"
                         /\ x.form # "fan" \/ x.owned = FALSE
  <1>1. \A x \in PatSwitches \cup WideqSwitches : Known(x)
    BY DEF PatSwitches, WideqSwitches, Special, Card
  <1>2. \A x \in WideqSelects \cup CatalogSelects \cup CatalogNumbers : Known(x)
    BY DEF WideqSelects, CatalogSelects, CatalogNumbers, CatalogRisks, Special, Card
  <1>3. \A x \in ActionButtons \cup OperationButtons \cup TimerClears : Known(x)
    BY DEF ActionButtons, OperationButtons, TimerClears, Special, Card
  <1>4. \A x \in Humidifiers \cup PurifierFans : Known(x)
    BY DEF Humidifiers, PurifierFans, Special, Card
  <1>5. \A x \in FridgeTargets \cup WideqNumbers \cup PatRanges \cup CooktopZones : Known(x)
    BY DEF FridgeTargets, WideqNumbers, PatRanges, TimerClears, CooktopZones, Special, Card
  <1>6. \/ c \in PatSwitches \cup WideqSwitches
        \/ c \in WideqSelects \cup CatalogSelects \cup CatalogNumbers
        \/ c \in ActionButtons \cup OperationButtons \cup TimerClears
        \/ c \in Humidifiers \cup PurifierFans
        \/ c \in FridgeTargets \cup WideqNumbers \cup PatRanges \cup CooktopZones
    BY DEF Cards, BuiltSwitches, BuiltSelects, BuiltNumbers, BuiltButtons
  <1>7. Known(c)
    BY <1>1, <1>2, <1>3, <1>4, <1>5, <1>6
  <1> QED
    BY <1>7

LEMMA CardStarts ==
  ASSUME CardInit
  PROVE  CardInv
  <1>1. /\ authorised \in SUBSET OnOff /\ card \in Cards(authorised)
        /\ appliance = "off" /\ cloudData = "absent" /\ saver = RestoredSaver("absent")
        /\ pollRead = "idle" /\ orders = [o \in Orders |-> Free] /\ newest = "absent" /\ dropped = FALSE
    BY DEF CardInit
  <1>2. Free \in Calls /\ Free.at = "free" /\ Free.sent = {} /\ Free.more = FALSE
    BY DEF Free, Calls, Reading
  <1>3. /\ saver \in Flags /\ saver.cache = "absent" /\ saver.pending = "absent"
        /\ saver.restored = FALSE
    BY <1>1 DEF RestoredSaver, Flags, Reading
  <1>4. CardTypes
    BY <1>1, <1>2, <1>3, CardsAreKnown DEF CardTypes, OnOff, Reading
  <1>5. CallsAreSingle
    BY <1>1, <1>2 DEF CallsAreSingle
  <1>6. Layers
    BY <1>1, <1>3 DEF Layers
  <1> QED
    BY <1>1, <1>4, <1>5, <1>6 DEF CardInv

(* One call changes; the others stay.                                      *)
LEMMA OneCallMoves ==
  ASSUME CardTypes, CallsAreSingle, NEW o \in Orders, NEW r \in Calls, orders' = [orders EXCEPT ![o] = r],
         UNCHANGED card,
         r.at # "free" => r.sent = {} /\ r.want \in OnOff,
         r.sent # {"local", "cloud"}, r.more => ~card.owned,
         card.owned => r.at \in {"free", "local"} /\ "cloud" \notin r.sent
  PROVE  orders' \in [Orders -> Calls] /\ CallsAreSingle'
  BY DEF CardTypes, CallsAreSingle

(* A call was served by one transport, or goes on to the preset.           *)
LEMMA ServedIsSingle ==
  ASSUME CardTypes, CallsAreSingle, NEW o \in Orders, NEW by \in {"local", "cloud"},
         orders[o].at # "free", orders' = ServedOrder(o, by), UNCHANGED card,
         by = "cloud" => ~card.owned
  PROVE  orders' \in [Orders -> Calls] /\ CallsAreSingle'
  <1> DEFINE c == orders[o]
  <1>1. c \in Calls /\ c.sent = {} /\ c.want \in OnOff /\ (c.more => ~card.owned)
    BY DEF CardTypes, CallsAreSingle
  <1>2. CASE c.more
    <2> DEFINE r == [c EXCEPT !.more = FALSE, !.at = "native", !.sent = {}]
    <2>1. orders' = [orders EXCEPT ![o] = r]
      BY <1>2 DEF ServedOrder, CardTypes
    <2> HIDE DEF c
    <2>2. r \in Calls /\ r.at = "native" /\ r.sent = {} /\ r.more = FALSE /\ r.want = c.want
      BY <1>1 DEF Calls
    <2> HIDE DEF r
    <2> QED
      BY <1>1, <1>2, <2>1, <2>2, OneCallMoves
  <1>3. CASE ~c.more
    <2> DEFINE s == c.sent \cup {by}
               r == [c EXCEPT !.at = "free", !.sent = s]
    <2>1. orders' = [orders EXCEPT ![o] = r]
      BY <1>3 DEF ServedOrder, CardTypes
    <2> HIDE DEF c
    <2>2. s = {by}
      BY <1>1
    <2> HIDE DEF s
    <2>3. r \in Calls /\ r.at = "free" /\ r.sent = s /\ r.more = c.more
      BY <1>1, <2>2 DEF Calls
    <2> HIDE DEF r
    <2>4. s # {"local", "cloud"} /\ (card.owned => "cloud" \notin s)
      BY <2>2
    <2>5. c.more => ~card.owned
      BY <1>1
    <2> QED
      BY <2>1, <2>3, <2>4, <2>5, OneCallMoves
  <1> QED
    BY <1>2, <1>3

LEMMA SentIsSingle ==
  ASSUME CardTypes, CallsAreSingle, NEW o \in Orders, NEW by \in {"local", "cloud"},
         orders[o].at # "free", UNCHANGED card, by = "cloud" => ~card.owned,
         orders' = [orders EXCEPT ![o].at = "free", ![o].sent = @ \cup {by}]
  PROVE  orders' \in [Orders -> Calls] /\ CallsAreSingle'
  <1> DEFINE c == orders[o]
             s == c.sent \cup {by}
             r == [c EXCEPT !.at = "free", !.sent = s]
  <1>1. c \in Calls /\ c.sent = {} /\ (c.more => ~card.owned)
    BY DEF CardTypes, CallsAreSingle
  <1>2. orders' = [orders EXCEPT ![o] = r]
    BY DEF CardTypes
  <1> HIDE DEF c
  <1>3. s = {by}
    BY <1>1
  <1> HIDE DEF s
  <1>4. r \in Calls /\ r.at = "free" /\ r.sent = s /\ r.more = c.more
    BY <1>1, <1>3 DEF Calls
  <1> HIDE DEF r
  <1>5. s # {"local", "cloud"} /\ (card.owned => "cloud" \notin s)
    BY <1>3
  <1> QED
    BY <1>1, <1>2, <1>4, <1>5, OneCallMoves

LEMMA RefusedIsSingle ==
  ASSUME CardTypes, CallsAreSingle, NEW o \in Orders, orders[o].at \in {"local", "native"}, UNCHANGED card,
         orders' = [orders EXCEPT ![o].at = IF orders[o].at = "native" THEN "cloud" ELSE "free"]
  PROVE  orders' \in [Orders -> Calls] /\ CallsAreSingle'
  <1> DEFINE c == orders[o]
             v == IF c.at = "native" THEN "cloud" ELSE "free"
             r == [c EXCEPT !.at = v]
  <1>1. /\ c \in Calls /\ c.sent = {} /\ c.want \in OnOff /\ (c.more => ~card.owned)
        /\ card.owned => c.at # "native"
    BY DEF CardTypes, CallsAreSingle
  <1>2. orders' = [orders EXCEPT ![o] = r]
    BY DEF CardTypes
  <1>3. v \in {"cloud", "free"} /\ (c.at # "native" => v = "free")
    OBVIOUS
  <1> HIDE DEF c, v
  <1>4. r \in Calls /\ r.at = v /\ r.sent = {} /\ r.more = c.more /\ r.want = c.want
    BY <1>1, <1>3 DEF Calls
  <1> HIDE DEF r
  <1> QED
    BY <1>1, <1>2, <1>3, <1>4, OneCallMoves

(* The flags after an acknowledged command, and after a poll's reading.    *)
LEMMA FlagTypes ==
  ASSUME saver \in Flags, NEW w \in Reading
  PROVE  /\ Acknowledged(w) \in Flags /\ Acknowledged(w).cache = w /\ Acknowledged(w).pending = w
         /\ Acknowledged(w).restored = FALSE
         /\ UpdatedCache(w) \in Flags
         /\ w = "absent" => UpdatedCache(w) = saver
         /\ w # "absent" => /\ UpdatedCache(w).cache = w /\ UpdatedCache(w).pending = "absent"
                            /\ UpdatedCache(w).restored = FALSE
         /\ RestoredSaver(w) \in Flags /\ RestoredSaver(w).cache = w
         /\ RestoredSaver(w).pending = "absent" /\ (RestoredSaver(w).restored <=> w # "absent")
  <1>1. /\ Acknowledged(w) \in Flags /\ Acknowledged(w).cache = w /\ Acknowledged(w).pending = w
        /\ Acknowledged(w).restored = FALSE
    BY DEF Acknowledged, Flags
  <1>2. w = "absent" => UpdatedCache(w) = saver
    BY DEF UpdatedCache
  <1>3. ASSUME w # "absent"
        PROVE  /\ UpdatedCache(w) \in Flags
               /\ UpdatedCache(w).cache = w /\ UpdatedCache(w).pending = "absent"
               /\ UpdatedCache(w).restored = FALSE
    <2> DEFINE d == saver.due \/ saver.cache # w
               f1 == [saver EXCEPT !.cache = w]
               f2 == [f1 EXCEPT !.pending = "absent"]
               f3 == [f2 EXCEPT !.restored = FALSE]
               f == [f3 EXCEPT !.due = d]
    <2>1. UpdatedCache(w) = f
      BY <1>3 DEF UpdatedCache, Flags
    <2>2. d \in BOOLEAN
      OBVIOUS
    <2> HIDE DEF d
    <2>3. f1 \in Flags /\ f1.cache = w
      BY DEF Flags
    <2> HIDE DEF f1
    <2>4. f2 \in Flags /\ f2.cache = w /\ f2.pending = "absent"
      BY <2>3 DEF Flags, Reading
    <2> HIDE DEF f2
    <2>5. f3 \in Flags /\ f3.cache = w /\ f3.pending = "absent" /\ f3.restored = FALSE
      BY <2>4 DEF Flags
    <2> HIDE DEF f3
    <2>6. f \in Flags /\ f.cache = w /\ f.pending = "absent" /\ f.restored = FALSE
      BY <2>2, <2>5 DEF Flags
    <2> QED
      BY <1>3, <2>1, <2>6
  <1>4. /\ RestoredSaver(w) \in Flags /\ RestoredSaver(w).cache = w
        /\ RestoredSaver(w).pending = "absent" /\ (RestoredSaver(w).restored <=> w # "absent")
    BY DEF RestoredSaver, Flags, Reading
  <1> QED
    BY <1>1, <1>2, <1>3, <1>4

LEMMA CardKeeps ==
  ASSUME CardInv, CardNext
  PROVE  CardInv'
  <1>0. CardTypes /\ CallsAreSingle
    BY DEF CardInv
  <1>1. ASSUME NEW o \in Orders, NEW w \in OnOff, Place(o, w) PROVE CardInv'
    <2>1. PICK more \in IF card.form = "fan" /\ w = "on" THEN BOOLEAN ELSE {FALSE} :
             orders' = [orders EXCEPT ![o] = [at |-> FirstStop(w), want |-> w, more |-> more, sent |-> {}]]
      BY <1>1 DEF Place
    <2>2. /\ UNCHANGED <<card, authorised, appliance, cloudData, saver, pollRead, newest, dropped>>
      BY <1>1 DEF Place
    <2> DEFINE r == [at |-> FirstStop(w), want |-> w, more |-> more, sent |-> {}]
    <2>3. FirstStop(w) \in {"local", "native", "cloud"} /\ (card.owned => FirstStop(w) = "local")
      BY <1>0 DEF FirstStop, CardTypes
    <2>4. more \in BOOLEAN /\ (more => card.form = "fan")
      BY <2>1
    <2>5. r \in Calls /\ r.at = FirstStop(w) /\ r.want = w /\ r.more = more /\ r.sent = {}
      BY <2>3, <2>4 DEF Calls, Reading
    <2> HIDE DEF r
    <2>6. orders' = [orders EXCEPT ![o] = r]
      BY <2>1 DEF r
    <2>7. orders' \in [Orders -> Calls] /\ CallsAreSingle'
      BY <1>0, <2>2, <2>3, <2>4, <2>5, <2>6, OneCallMoves DEF CardTypes
    <2> QED
      BY <1>0, <2>2, <2>7 DEF CardInv, CardTypes, Layers
  <1>2. ASSUME NEW o \in Orders, RouterAnswers(o) PROVE CardInv'
    <2>1. /\ UNCHANGED <<card, authorised, cloudData, saver, pollRead, newest, dropped>>
          /\ orders[o].at \in {"local", "native"}
      BY <1>2 DEF RouterAnswers
    <2>2. PICK answer \in {"confirmed", "uncertain", "refused"} :
             /\ answer = "confirmed" => appliance' = orders[o].want /\ orders' = ServedOrder(o, "local")
             /\ answer = "uncertain" =>
                   /\ appliance' \in {appliance, orders[o].want}
                   /\ orders' = [orders EXCEPT ![o].at = "free", ![o].sent = @ \cup {"local"}]
             /\ answer = "refused" =>
                   /\ orders' = [orders EXCEPT ![o].at =
                                    IF orders[o].at = "native" THEN "cloud" ELSE "free"]
                   /\ UNCHANGED appliance
      BY <1>2 DEF RouterAnswers
    <2>3. orders[o].want \in OnOff /\ appliance \in OnOff
      BY <1>0, <2>1 DEF CallsAreSingle, CardTypes
    <2>4. appliance' \in OnOff
      BY <2>2, <2>3
    <2>5. orders' \in [Orders -> Calls] /\ CallsAreSingle'
      BY <1>0, <2>1, <2>2, ServedIsSingle, SentIsSingle, RefusedIsSingle
    <2> QED
      BY <1>0, <2>1, <2>4, <2>5 DEF CardInv, CardTypes, Layers
  <1>3. ASSUME NEW o \in Orders, CloudAccepts(o) PROVE CardInv'
    <2> DEFINE w == orders[o].want
    <2>1. /\ orders[o].at = "cloud" /\ appliance' = w /\ orders' = ServedOrder(o, "cloud")
          /\ card.by = "wideq" => pollRead = "idle"
          /\ cloudData' = IF card.shows = "data" THEN w ELSE cloudData
          /\ saver' = IF card.shows = "saver" THEN Acknowledged(w) ELSE saver
          /\ newest' = IF card.shows # "nothing" THEN w ELSE newest
          /\ dropped' = FALSE /\ UNCHANGED <<card, pollRead>>
      BY <1>3 DEF CloudAccepts
    <2>2. w \in OnOff /\ w \in Reading /\ ~card.owned /\ w # "absent"
      BY <1>0, <2>1 DEF CallsAreSingle, Reading, OnOff
    <2>3. orders' \in [Orders -> Calls] /\ CallsAreSingle'
      BY <1>0, <2>1, <2>2, ServedIsSingle
    <2>4. saver' \in Flags
      BY <1>0, <2>1, <2>2, FlagTypes DEF CardTypes
    <2> HIDE DEF w
    <2>5. CardTypes'
      BY <1>0, <2>1, <2>2, <2>3, <2>4 DEF CardTypes
    <2>6. card.shows = "saver" => Layers'
      BY <1>0, <2>1, <2>2, FlagTypes DEF CardTypes, Layers
    <2> QED
      BY <2>1, <2>3, <2>5, <2>6 DEF CardInv
  <1>4. ASSUME NEW o \in Orders, CloudFails(o) PROVE CardInv'
    <2>1. /\ orders[o].at = "cloud" /\ appliance' \in {appliance, orders[o].want}
          /\ orders' = [orders EXCEPT ![o].at = "free", ![o].sent = @ \cup {"cloud"}]
          /\ UNCHANGED <<card, cloudData, saver, pollRead, newest, dropped>>
      BY <1>4 DEF CloudFails
    <2>2. appliance' \in OnOff /\ ~card.owned
      BY <1>0, <2>1 DEF CallsAreSingle, CardTypes
    <2>3. orders' \in [Orders -> Calls] /\ CallsAreSingle'
      BY <1>0, <2>1, <2>2, SentIsSingle
    <2> QED
      BY <1>0, <2>1, <2>2, <2>3 DEF CardInv, CardTypes, Layers
  <1>5. CASE PollTakesLock
    <2>1. PICK read \in {appliance, "absent"} :
             /\ pollRead' = read
             /\ saver' = IF card.shows = "saver" THEN UpdatedCache(read) ELSE saver
             /\ newest' = IF card.shows = "saver" /\ read # "absent" THEN read ELSE newest
      BY <1>5 DEF PollTakesLock
    <2>2. UNCHANGED <<card, appliance, cloudData, orders, dropped>>
      BY <1>5 DEF PollTakesLock
    <2>3. read \in Reading /\ read # "idle"
      BY <1>0, <2>1 DEF CardTypes, Reading, OnOff
    <2>4. saver' \in Flags
      BY <1>0, <2>1, <2>3, FlagTypes DEF CardTypes
    <2>5. CardTypes' /\ CallsAreSingle'
      BY <1>0, <2>1, <2>2, <2>3, <2>4 DEF CardTypes, CallsAreSingle
    <2>6. card.shows = "saver" => Layers'
      <3> SUFFICES ASSUME card.shows = "saver" PROVE Layers'
        OBVIOUS
      <3>1. Layers
        BY DEF CardInv
      <3>2. CASE read = "absent"
        BY <1>0, <2>1, <2>2, <2>3, <3>1, <3>2, FlagTypes DEF CardTypes, Layers
      <3>3. CASE read # "absent"
        BY <1>0, <2>1, <2>2, <2>3, <3>1, <3>3, FlagTypes DEF CardTypes, Layers
      <3> QED
        BY <3>2, <3>3
    <2> QED
      BY <2>1, <2>2, <2>5, <2>6 DEF CardInv
  <1>6. CASE PollCompletes
    <2>1. /\ pollRead # "idle" /\ cloudData' = pollRead /\ pollRead' = "idle"
          /\ newest' = IF card.shows = "saver" THEN newest ELSE pollRead
          /\ dropped' = FALSE
          /\ UNCHANGED <<card, appliance, saver, orders>>
      BY <1>6 DEF PollCompletes
    <2>2. CardTypes' /\ CallsAreSingle'
      BY <1>0, <2>1 DEF CardTypes, CallsAreSingle
    <2>3. card.shows = "saver" => Layers'
      BY <2>1 DEF CardInv, Layers
    <2> QED
      BY <2>1, <2>2, <2>3 DEF CardInv
  <1>7. CASE PollBreaks
    <2>1. /\ pollRead # "idle" /\ pollRead' = "idle" /\ dropped' = (cloudData # "absent" \/ dropped)
          /\ UNCHANGED <<card, appliance, cloudData, saver, orders, newest>>
      BY <1>7 DEF PollBreaks
    <2>2. CardTypes' /\ CallsAreSingle'
      BY <1>0, <2>1 DEF CardTypes, CallsAreSingle
    <2>3. card.shows = "saver" => Layers'
      BY <2>1 DEF CardInv, Layers
    <2> QED
      BY <2>1, <2>2, <2>3 DEF CardInv
  <1>8. CASE Pushed
    <2>1. /\ card.by = "pat" /\ cloudData' = appliance /\ newest' = appliance
          /\ UNCHANGED <<card, appliance, saver, pollRead, orders, dropped>>
      BY <1>8 DEF Pushed
    <2>2. CardTypes' /\ CallsAreSingle'
      BY <1>0, <2>1 DEF CardTypes, CallsAreSingle, Reading
    <2>3. card.shows # "saver"
      BY <1>0, <2>1 DEF CardTypes
    <2> QED
      BY <2>1, <2>2, <2>3 DEF CardInv
  <1>9. CASE LocalReports
    <2>1. UNCHANGED <<card, appliance, cloudData, saver, pollRead, orders, newest, dropped>>
      BY <1>9 DEF LocalReports
    <2> QED
      BY <2>1 DEF CardInv, CardTypes, CallsAreSingle, Layers
  <1>10. CASE AtTheAppliance
    <2>1. /\ UNCHANGED <<card, cloudData, saver, pollRead, orders, newest, dropped>>
          /\ appliance' \in OnOff \/ UNCHANGED appliance
      BY <1>10 DEF AtTheAppliance
    <2> QED
      BY <2>1 DEF CardInv, CardTypes, CallsAreSingle, Layers
  <1>11. CASE FlagsSaved
    <2> DEFINE f1 == [saver EXCEPT !.disk = saver.cache]
               f == [f1 EXCEPT !.due = FALSE]
    <2>1. saver' = f /\ UNCHANGED <<card, appliance, cloudData, pollRead, orders, newest, dropped>>
      BY <1>11 DEF FlagsSaved
    <2>2. f1 \in Flags /\ f1.cache = saver.cache /\ f1.pending = saver.pending /\ f1.restored = saver.restored
      BY <1>0 DEF CardTypes, Flags
    <2> HIDE DEF f1
    <2>3. f \in Flags /\ f.cache = saver.cache /\ f.pending = saver.pending /\ f.restored = saver.restored
      BY <2>2 DEF Flags
    <2> HIDE DEF f
    <2> QED
      BY <2>1, <2>3 DEF CardInv, CardTypes, CallsAreSingle, Layers
  <1>12. CASE Restarts
    <2>1. PICK k \in {saver.cache, saver.disk} :
             saver' = IF card.shows = "saver" THEN RestoredSaver(k) ELSE saver
      BY <1>12 DEF Restarts
    <2>2. /\ cloudData' = "absent" /\ pollRead' = "idle" /\ newest' = "absent" /\ dropped' = FALSE
          /\ UNCHANGED <<card, appliance, orders>>
      BY <1>12 DEF Restarts
    <2>3. k \in Reading
      BY <1>0, <2>1 DEF CardTypes, Flags
    <2>4. /\ saver' \in Flags
          /\ card.shows = "saver" => /\ saver'.cache = k /\ saver'.pending = "absent"
                                     /\ saver'.restored <=> k # "absent"
      BY <1>0, <2>1, <2>3, FlagTypes DEF CardTypes
    <2>5. CardTypes' /\ CallsAreSingle'
      BY <1>0, <2>2, <2>4 DEF CardTypes, CallsAreSingle, Reading
    <2>6. card.shows = "saver" => Layers'
      BY <2>2, <2>4 DEF Layers
    <2> QED
      BY <2>2, <2>5, <2>6 DEF CardInv
  <1> QED
    BY <1>1, <1>2, <1>3, <1>4, <1>5, <1>6, <1>7, <1>8, <1>9, <1>10, <1>11, <1>12 DEF CardNext

(* A plain entity's command leaves by one transport, the one that owns its *)
(* field, whatever becomes of the contract meanwhile; and it shows what was*)
(* learnt last (async_turn_on of the platforms, power_save_snapshot_for).  *)
THEOREM EntitiesAreHonest == CardSpec => []EntityIsHonest
  <1>1. CardInv /\ [CardNext]_cardVars => CardInv'
    <2> SUFFICES ASSUME CardInv, UNCHANGED cardVars PROVE CardInv'
      BY CardKeeps
    <2> QED
      BY DEF cardVars, CardInv, CardTypes, CallsAreSingle, Layers
  <1>2. CardInv => EntityIsHonest
    <2> SUFFICES ASSUME CardInv PROVE EntityIsHonest
      OBVIOUS
    <2>1. LocalStaysLocal
      <3> SUFFICES ASSUME NEW o \in Orders
                   PROVE  /\ "local" \in orders[o].sent =>
                                "cloud" \notin orders[o].sent /\ orders[o].at # "cloud"
                          /\ card.owned => orders[o].at # "cloud" /\ "cloud" \notin orders[o].sent
        BY DEF LocalStaysLocal
      <3>1. orders[o].sent \in SUBSET {"local", "cloud"}
        BY DEF CardInv, CardTypes, Calls
      <3> QED
        BY <3>1 DEF CardInv, CallsAreSingle
    <2>2. ShowsTheNewest
      <3>1. CASE card.shows = "saver"
        BY <3>1 DEF CardInv, CardTypes, Layers, ShowsTheNewest, CardShows, SaverShows
      <3>2. CASE card.shows = "data"
        BY <3>2 DEF CardInv, CardTypes, ShowsTheNewest, CardShows
      <3>3. CASE card.shows = "nothing"
        BY <3>3 DEF ShowsTheNewest
      <3> QED
        BY <3>1, <3>2, <3>3 DEF CardInv, CardTypes
    <2> QED
      BY <2>1, <2>2 DEF EntityIsHonest
  <1> QED
    BY <1>1, <1>2, CardStarts, PTL DEF CardSpec

----------------------------------------------------------------------------
(* The pins.  What a row may hold, and what the named transitions make of  *)
(* it.                                                                     *)
ValidRows == {r \in Rows : ValidRow(r)}
Stored == ValidRows \cup {NoRow}

LEMMA RowFields ==
  ASSUME NEW r \in ValidRows
  PROVE  /\ r.adopted \in Pins /\ r.accepted \in Seq(Pins) /\ r.predecessor \in Pins \cup {NoPin}
         /\ r.adopted \in Accepted(r) /\ Accepted(r) \subseteq Pins /\ ValidPins(r.accepted)
         /\ ValidRow(r)
  <1>1. /\ r.adopted \in Pins /\ r.accepted \in Seq(Pins) /\ r.predecessor \in Pins \cup {NoPin}
        /\ ValidRow(r)
    BY DEF ValidRows, Rows
  <1>2. \A i \in DOMAIN r.accepted : r.accepted[i] \in Pins
    BY <1>1, ElementOfSeq, LenProperties
  <1> QED
    BY <1>1, <1>2 DEF ValidRow, Accepted

LEMMA PinVersions ==
  ASSUME NEW p \in Pins
  PROVE  p.version \in {1, 2} /\ p.gen \in Nat
  BY DEF Pins

LEMMA BuiltIsValid ==
  ASSUME NEW adopted \in Pins, NEW accepted \in Seq(Pins), NEW predecessor \in Pins \cup {NoPin},
         Built(adopted, accepted, predecessor) # Refused
  PROVE  /\ Built(adopted, accepted, predecessor) \in ValidRows
         /\ Built(adopted, accepted, predecessor).adopted = adopted
         /\ Built(adopted, accepted, predecessor).accepted = accepted
         /\ Built(adopted, accepted, predecessor).predecessor = predecessor
  <1> DEFINE row == [adopted |-> adopted, accepted |-> accepted, predecessor |-> predecessor]
  <1>1. Built(adopted, accepted, predecessor) = row /\ ValidRow(row)
    BY DEF Built
  <1>2. row \in Rows
    BY DEF Rows
  <1> QED
    BY <1>1, <1>2 DEF ValidRows

LEMMA OneIsASequence ==
  ASSUME NEW p \in Pins
  PROVE  <<p>> \in Seq(Pins) /\ Len(<<p>>) = 1 /\ <<p>>[1] = p /\ DOMAIN <<p>> = {1}
  OBVIOUS

LEMMA SingleIsValid ==
  ASSUME NEW p \in Pins
  PROVE  /\ Single(p) \in ValidRows /\ Single(p).adopted = p /\ Single(p).accepted = <<p>>
         /\ Single(p).predecessor = NoPin
  <1> DEFINE row == [adopted |-> p, accepted |-> <<p>>, predecessor |-> NoPin]
  <1>1. row.adopted = p /\ row.accepted = <<p>> /\ row.predecessor = NoPin
    OBVIOUS
  <1>2. row \in Rows
    BY OneIsASequence DEF Rows
  <1> HIDE DEF row
  <1>3. ValidPins(row.accepted)
    BY <1>1, OneIsASequence DEF ValidPins
  <1>4. row.adopted \in Accepted(row)
    BY <1>1, OneIsASequence DEF Accepted
  <1>5. ValidRow(row)
    BY <1>1, <1>3, <1>4 DEF ValidRow
  <1>6. Single(p) = row
    BY <1>5 DEF Single, Built, row
  <1> QED
    BY <1>1, <1>2, <1>5, <1>6 DEF ValidRows

LEMMA AdoptIsValid ==
  ASSUME NEW row \in ValidRows, NEW pin, Adopt(row, pin) # Refused
  PROVE  /\ Adopt(row, pin) \in ValidRows /\ pin \in Accepted(row) /\ Adopt(row, pin).adopted = pin
         /\ Adopt(row, pin).accepted = row.accepted
         /\ pin.version >= row.adopted.version
  <1>1. pin \in Accepted(row) /\ pin \in Pins /\ ~(pin.version < row.adopted.version)
    BY RowFields DEF Adopt
  <1>2. CASE pin = row.adopted
    BY <1>1, <1>2, RowFields, PinVersions DEF Adopt
  <1>3. CASE pin # row.adopted
    <2>1. Adopt(row, pin) = Built(pin, row.accepted, NoPin)
      BY <1>1, <1>3 DEF Adopt
    <2> QED
      BY <1>1, <2>1, RowFields, BuiltIsValid, PinVersions
  <1> QED
    BY <1>2, <1>3

LEMMA SuccessorIsValid ==
  ASSUME NEW row \in ValidRows, NEW pin \in Pins, AdoptSuccessor(row, pin) # Refused
  PROVE  /\ AdoptSuccessor(row, pin) \in ValidRows
         /\ AdoptSuccessor(row, pin) # row => AdoptSuccessor(row, pin).predecessor = row.adopted
  <1>1. CASE row.predecessor # NoPin /\ row.adopted = pin
    BY <1>1 DEF AdoptSuccessor
  <1>2. CASE ~(row.predecessor # NoPin /\ row.adopted = pin)
    <2> DEFINE alone == <<pin>>
    <2>1. AdoptSuccessor(row, pin) = Built(pin, alone, row.adopted)
      BY <1>2 DEF AdoptSuccessor
    <2>2. alone \in Seq(Pins)
      BY OneIsASequence
    <2> HIDE DEF alone
    <2>3. Built(pin, alone, row.adopted) # Refused /\ row.adopted \in Pins
      BY <2>1, RowFields
    <2> QED
      BY <2>1, <2>2, <2>3, BuiltIsValid
  <1> QED
    BY <1>1, <1>2

LEMMA PinOfIsAPin ==
  ASSUME NEW version \in {1, 2}, NEW gen \in Nat, NEW contract \in Contracts \cup {NoContract},
         PinOf(version, gen, contract) # Refused
  PROVE  /\ PinOf(version, gen, contract) \in Pins
         /\ PinOf(version, gen, contract).version = version
         /\ version = 2 => PinOf(version, gen, contract).contract = contract
  <1>1. CASE version = 1
    BY <1>1 DEF PinOf, Pins
  <1>2. CASE version = 2
    <2>1. PinOf(version, gen, contract) = [version |-> 2, gen |-> gen, contract |-> contract]
          /\ contract \in Contracts
      BY <1>2 DEF PinOf
    <2> QED
      BY <1>2, <2>1 DEF Pins
  <1> QED
    BY <1>1, <1>2

(* A row that may take the place of another is one step from it.           *)
LEMMA ReplacingIsOneStep ==
  ASSUME NEW before \in ValidRows, NEW after \in ValidRows, Replaces(before, after)
  PROVE  OneStep(before, after)
  <1>1. /\ before.adopted \in Pins /\ after.adopted \in Pins
        /\ before.predecessor \in Pins \cup {NoPin}
        /\ before.adopted.version \in {1, 2} /\ after.adopted.version \in {1, 2}
    BY RowFields, PinVersions
  <1>2. before.predecessor # NoPin => Single(before.predecessor).adopted = before.predecessor
    BY <1>1, SingleIsValid
  <1> QED
    BY <1>1, <1>2 DEF Replaces, OneStep

(* What an operation leads to is a row.                                    *)
LEMMA StageIsValid ==
  ASSUME NEW row \in ValidRows, NEW pin \in Pins, Stage(row, pin) # Refused
  PROVE  Stage(row, pin) \in ValidRows
  <1>1. CASE pin \in Accepted(row)
    BY <1>1 DEF Stage
  <1>2. CASE pin \notin Accepted(row)
    <2> DEFINE both == <<row.adopted, pin>>
    <2>1. Stage(row, pin) = Built(row.adopted, both, NoPin)
      BY <1>2 DEF Stage
    <2>2. row.adopted \in Pins /\ both \in Seq(Pins)
      BY RowFields
    <2> HIDE DEF both
    <2> QED
      BY <2>1, <2>2, BuiltIsValid
  <1> QED
    BY <1>1, <1>2

LEMMA TargetIsValid ==
  ASSUME NEW operation \in Operations, NEW row \in Stored, NEW pins, pins.v1 \in Pins,
         operation \in {"stage-v2", "adopt-successor-v2", "retire-predecessor-v2"} => pins.v2 \in Pins,
         operation = "restore-predecessor-v2" => pins.predecessor \in Pins,
         Target(operation, row, pins) # Refused
  PROVE  Target(operation, row, pins) \in ValidRows
  <1>1. CASE operation = "bootstrap-v1"
    BY <1>1, SingleIsValid DEF Target
  <1>2. CASE operation # "bootstrap-v1" /\ row = NoRow
    BY <1>2 DEF Target
  <1>3. ASSUME operation # "bootstrap-v1", row # NoRow PROVE Target(operation, row, pins) \in ValidRows
    <2>0. row \in ValidRows
      BY <1>3 DEF Stored
    <2>1. CASE operation = "stage-v2"
      <3>1. Target(operation, row, pins) = Observed(Stage(row, pins.v2), pins.observed)
        BY <1>3, <2>1 DEF Target
      <3>2. Stage(row, pins.v2) # Refused /\ Stage(row, pins.v2) \in ValidRows
        BY <2>0, <2>1, <3>1, StageIsValid DEF Observed
      <3> QED
        BY <3>1, <3>2, AdoptIsValid DEF Observed
    <2>2. CASE operation = "restore-staged-v1"
      BY <1>3, <2>0, <2>2, RowFields, SingleIsValid DEF Target, RestoreStaged
    <2>3. CASE operation = "adopt-v2"
      BY <1>3, <2>0, <2>3, AdoptIsValid DEF Target
    <2>4. CASE operation = "retire-v1"
      BY <1>3, <2>0, <2>4, RowFields, SingleIsValid DEF Target, RetireSource
    <2>5. CASE operation = "adopt-successor-v2"
      BY <1>3, <2>0, <2>5, SuccessorIsValid DEF Target
    <2>6. CASE operation = "restore-predecessor-v2"
      BY <1>3, <2>0, <2>6, RowFields, SingleIsValid DEF Target, RestorePredecessor
    <2>7. CASE operation = "retire-predecessor-v2"
      BY <1>3, <2>0, <2>7, RowFields, SingleIsValid DEF Target, RetirePredecessor
    <2> QED
      BY <1>3, <2>1, <2>2, <2>3, <2>4, <2>5, <2>6, <2>7 DEF Operations
  <1> QED
    BY <1>1, <1>2, <1>3

----------------------------------------------------------------------------
(* The callers of the pins.  A caller that waits has a row to save; the    *)
(* one at the head of the queue saves it over the rows of the process,     *)
(* and until it has pushed that row the file is what it saves, or what     *)
(* was there before.                                                       *)
SavesOne(b, next) ==
    /\ next \in [Bindings -> Stored] /\ next[b] \in ValidRows
    /\ \A x \in Bindings \ {b} : next[x] = rows[x]
    /\ rows[b] # NoRow => Replaces(rows[b], next[b])

CallFits(c) ==
    /\ calls[c].step \in {"idle", "asked", "waiting", "saving", "saved"}
    /\ calls[c].step # "idle" => calls[c].binding \in Bindings
    /\ calls[c].step = "waiting" => calls[c].target \in ValidRows
    /\ calls[c].step = "saving" => DOMAIN calls[c] = {"step", "binding", "token", "next"}
    /\ calls[c].step \in {"saving", "saved"} => SavesOne(calls[c].binding, calls[c].next)

Distinct(q) == \A i, j \in 1 .. Len(q) : i # j => q[i] # q[j]
In(c, q) == \E i \in 1 .. Len(q) : q[i] = c

ConsumerTypes ==
    /\ file \in [Bindings -> Stored] /\ rows \in [Bindings -> Stored]
    /\ live \in [Bindings -> Stored \cup {Detached}]
    /\ release \in DOMAIN Authority /\ loaded \in BOOLEAN
    /\ DOMAIN calls = Callers /\ queue \in Seq(Callers)

QueueFits ==
    /\ Distinct(queue)
    /\ \A c \in Callers : In(c, queue) <=> calls[c].step \in {"waiting", "saving", "saved"}
    /\ \A c \in Callers : calls[c].step \in {"saving", "saved"} => c = Head(queue)

FileFits ==
    loaded => /\ \A c \in Callers : calls[c].step = "saved" => file = calls[c].next
              /\ (\A c \in Callers : calls[c].step # "saved") => file = rows

ConsumerInv ==
    /\ ConsumerTypes /\ QueueFits /\ FileFits
    /\ \A c \in Callers : CallFits(c)
    /\ LiveFollowsStore

LEMMA Joining ==
  ASSUME NEW S, NEW q \in Seq(S), NEW c \in S, Distinct(q), ~In(c, q)
  PROVE  /\ Append(q, c) \in Seq(S) /\ Distinct(Append(q, c))
         /\ \A x : In(x, Append(q, c)) <=> In(x, q) \/ x = c
         /\ q # <<>> => Head(Append(q, c)) = Head(q)
  <1> DEFINE e == Append(q, c)
  <1>1. /\ e \in Seq(S) /\ Len(e) = Len(q) + 1 /\ Len(q) \in Nat /\ e[Len(q) + 1] = c
        /\ \A i \in 1 .. Len(q) : e[i] = q[i]
    BY AppendProperties, LenProperties
  <1> HIDE DEF e
  <1>2. Distinct(e)
    BY <1>1 DEF Distinct, In
  <1>3. \A x : In(x, e) <=> In(x, q) \/ x = c
    <2> TAKE x
    <2>1. In(x, e) => In(x, q) \/ x = c
      BY <1>1 DEF In
    <2>2. In(x, q) => In(x, e)
      BY <1>1 DEF In
    <2>3. In(c, e)
      <3>1. Len(q) + 1 \in 1 .. Len(e)
        BY <1>1
      <3> QED
        BY <1>1, <3>1 DEF In
    <2> QED
      BY <2>1, <2>2, <2>3
  <1>4. q # <<>> => Head(e) = Head(q)
    <2>1. e # <<>>
      BY <1>1, EmptySeq
    <2> QED
      BY <1>1, <2>1, EmptySeq, HeadTailProperties
  <1> QED
    BY <1>1, <1>2, <1>3, <1>4 DEF e

LEMMA Leaving ==
  ASSUME NEW S, NEW q \in Seq(S), q # <<>>, Distinct(q)
  PROVE  /\ Tail(q) \in Seq(S) /\ Distinct(Tail(q)) /\ Head(q) \in S
         /\ In(Head(q), q)
         /\ \A x : In(x, Tail(q)) <=> In(x, q) /\ x # Head(q)
  <1> DEFINE t == Tail(q)
  <1>1. /\ t \in Seq(S) /\ Len(q) \in Nat /\ Len(q) > 0 /\ Len(t) = Len(q) - 1 /\ Head(q) = q[1]
        /\ Head(q) \in S /\ \A i \in 1 .. Len(t) : t[i] = q[i + 1]
    BY HeadTailProperties, LenProperties, EmptySeq
  <1> HIDE DEF t
  <1>2. Distinct(t)
    BY <1>1 DEF Distinct
  <1>3. In(Head(q), q)
    BY <1>1 DEF In
  <1>4. \A x : In(x, t) <=> In(x, q) /\ x # Head(q)
    <2> TAKE x
    <2>1. ASSUME In(x, t) PROVE In(x, q) /\ x # Head(q)
      <3>1. PICK i \in 1 .. Len(t) : t[i] = x
        BY <2>1 DEF In
      <3>2. i + 1 \in 1 .. Len(q) /\ q[i + 1] = x /\ i + 1 # 1 /\ 1 \in 1 .. Len(q)
        BY <1>1, <3>1
      <3> QED
        BY <1>1, <3>2 DEF In, Distinct
    <2>2. ASSUME In(x, q), x # Head(q) PROVE In(x, t)
      <3>1. PICK i \in 1 .. Len(q) : q[i] = x
        BY <2>2 DEF In
      <3>2. i # 1
        BY <1>1, <2>2, <3>1
      <3>3. i - 1 \in 1 .. Len(t) /\ (i - 1) + 1 = i
        BY <1>1, <3>1, <3>2
      <3> QED
        BY <1>1, <3>1, <3>3 DEF In
    <2> QED
      BY <2>1, <2>2
  <1> QED
    BY <1>1, <1>2, <1>3, <1>4 DEF t

LEMMA ContractIsKnown ==
  ASSUME ConsumerTypes, NEW b \in Bindings
  PROVE  Contract(b) \in Contracts \cup {NoContract}
  <1>1. Authority[release] \in [Bindings -> Contracts \cup {NoContract}]
    BY ConsumerAssumption, ElementOfSeq, LenProperties DEF ConsumerTypes
  <1> QED
    BY <1>1 DEF Contract

LEMMA ConsumerStarts ==
  ASSUME Init
  PROVE  ConsumerInv
  <1>1. /\ file = [b \in Bindings |-> NoRow] /\ rows = file /\ release = 1 /\ loaded = TRUE
        /\ calls = [c \in Callers |-> Idle] /\ queue = <<>>
        /\ live \in [Bindings -> {NoRow, Detached}]
    BY DEF Init
  <1>2. Idle.step = "idle"
    BY DEF Idle
  <1>3. 1 \in DOMAIN Authority
    BY ConsumerAssumption, EmptySeq, LenProperties
  <1>4. queue \in Seq(Callers) /\ Len(queue) = 0
    BY <1>1
  <1>5. ConsumerTypes
    BY <1>1, <1>3, <1>4 DEF ConsumerTypes, Stored
  <1>6. QueueFits
    BY <1>1, <1>2, <1>4 DEF QueueFits, Distinct, In
  <1>7. FileFits /\ \A c \in Callers : CallFits(c)
    BY <1>1, <1>2 DEF FileFits, CallFits
  <1>8. LiveFollowsStore
    BY <1>1 DEF LiveFollowsStore, Attached, FromRow
  <1> QED
    BY <1>5, <1>6, <1>7, <1>8 DEF ConsumerInv

(* The head of the queue that saves or has saved is alone in that.         *)
LEMMA OneSaves ==
  ASSUME ConsumerInv, NEW c \in Callers, calls[c].step \in {"saving", "saved"}
  PROVE  /\ queue # <<>> /\ c = Head(queue)
         /\ \A d \in Callers \ {c} : calls[d].step \notin {"saving", "saved"}
  <1>1. In(c, queue) /\ c = Head(queue) /\ \A d \in Callers : calls[d].step \in {"saving", "saved"} => d = Head(queue)
    BY DEF ConsumerInv, QueueFits
  <1>2. queue # <<>>
    BY <1>1 DEF In
  <1> QED
    BY <1>1, <1>2

(* The caller at the head leaves the queue.                                *)
LEMMA HeadLeaves ==
  ASSUME ConsumerTypes, QueueFits, NEW c \in Callers, queue # <<>>, c = Head(queue),
         calls' = [calls EXCEPT ![c] = Idle], queue' = Tail(queue)
  PROVE  /\ DOMAIN calls' = Callers /\ queue' \in Seq(Callers) /\ QueueFits'
         /\ calls'[c].step = "idle" /\ \A d \in Callers \ {c} : calls'[d] = calls[d]
  <1>1. /\ calls'[c].step = "idle" /\ \A d \in Callers \ {c} : calls'[d] = calls[d]
        /\ DOMAIN calls' = Callers
    BY DEF ConsumerTypes, Idle
  <1>2. /\ queue' \in Seq(Callers) /\ Distinct(queue')
        /\ \A x : In(x, queue') <=> In(x, queue) /\ x # c
    BY Leaving DEF ConsumerTypes, QueueFits
  <1>3. \A d \in Callers : In(d, queue') <=> calls'[d].step \in {"waiting", "saving", "saved"}
    BY <1>1, <1>2 DEF QueueFits
  <1>4. \A d \in Callers : calls'[d].step \notin {"saving", "saved"}
    BY <1>1 DEF QueueFits
  <1> QED
    BY <1>1, <1>2, <1>3, <1>4 DEF QueueFits

(* A call that concerns only its caller, outside the queue.                *)
LEMMA InspectKeeps ==
  ASSUME ConsumerInv, NEW c \in Callers, NEW b \in Bindings, Inspect(c, b)
  PROVE  ConsumerInv'
  <1> DEFINE r == [step |-> "asked", binding |-> b, token |-> rows[b]]
  <1>1. /\ calls[c] = Idle /\ calls' = [calls EXCEPT ![c] = r]
        /\ UNCHANGED <<file, rows, live, release, loaded, pushLost, queue>>
    BY DEF Inspect
  <1>2. calls[c].step = "idle" /\ r.step = "asked" /\ r.binding = b
    BY <1>1 DEF Idle
  <1> HIDE DEF r
  <1>3. ConsumerTypes /\ QueueFits /\ FileFits /\ LiveFollowsStore
    BY DEF ConsumerInv
  <1>4. /\ DOMAIN calls' = Callers /\ calls'[c] = r /\ \A d \in Callers \ {c} : calls'[d] = calls[d]
    BY <1>1, <1>3 DEF ConsumerTypes
  <1>5. ConsumerTypes'
    BY <1>1, <1>3, <1>4 DEF ConsumerTypes
  <1>6. QueueFits'
    BY <1>1, <1>2, <1>3, <1>4 DEF QueueFits
  <1>7. FileFits'
    BY <1>1, <1>2, <1>3, <1>4 DEF FileFits
  <1>8. ASSUME NEW d \in Callers PROVE CallFits(d)'
    <2>1. CallFits(d)
      BY DEF ConsumerInv
    <2> QED
      BY <1>1, <1>2, <1>4, <2>1 DEF CallFits, SavesOne
  <1>9. LiveFollowsStore'
    BY <1>1, <1>3 DEF LiveFollowsStore, Attached, FromRow, Contract
  <1> QED
    BY <1>5, <1>6, <1>7, <1>8, <1>9 DEF ConsumerInv

LEMMA DeriveKeeps ==
  ASSUME ConsumerInv, NEW c \in Callers, NEW operation \in Operations, NEW gen \in Generations,
         Derive(c, operation, gen)
  PROVE  ConsumerInv'
  <1> DEFINE b == calls[c].binding
             pins == Pinned(operation, b, gen)
             target == IF b \in known /\ Derivable(operation, b, gen)
                       THEN Transition(operation, rows[b], pins, calls[c].token)
                       ELSE Refused
             r == [step |-> "waiting", binding |-> b, token |-> rows[b], target |-> target]
  <1>1. ConsumerTypes /\ QueueFits /\ FileFits /\ LiveFollowsStore /\ CallFits(c)
    BY DEF ConsumerInv
  <1>2. /\ calls[c].step = "asked"
        /\ UNCHANGED <<file, rows, live, release, loaded, pushLost>>
        /\ \/ target = Refused /\ calls' = [calls EXCEPT ![c] = Idle] /\ UNCHANGED queue
           \/ target # Refused /\ calls' = [calls EXCEPT ![c] = r] /\ queue' = Append(queue, c)
    BY DEF Derive
  <1>3. b \in Bindings /\ ~In(c, queue)
    BY <1>1, <1>2 DEF CallFits, QueueFits
  <1>4. target # Refused => target \in ValidRows
    <2> SUFFICES ASSUME target # Refused PROVE target \in ValidRows
      OBVIOUS
    <2>1. /\ Derivable(operation, b, gen) /\ target = Target(operation, rows[b], pins)
      BY DEF Transition
    <2>2. Contract(b) \in Contracts \cup {NoContract} /\ gen \in Nat /\ rows[b] \in Stored
      BY <1>1, <1>3, ContractIsKnown, ConsumerAssumption DEF ConsumerTypes
    <2>3. /\ pins.v1 = PinOf(1, gen, NoContract) /\ pins.v2 = PinOf(2, gen, Contract(b))
          /\ pins.predecessor = ReviewedPredecessor(gen, Contract(b))
      BY DEF Pinned
    <2>4. pins.v1 \in Pins
      BY <2>2, <2>3 DEF PinOf, Pins
    <2>5. operation \in {"stage-v2", "adopt-successor-v2", "retire-predecessor-v2"} => pins.v2 \in Pins
      BY <2>1, <2>2, <2>3, PinOfIsAPin DEF Derivable, NeedsGeneration
    <2>6. operation = "restore-predecessor-v2" => pins.predecessor \in Pins
      BY <2>1, <2>2, <2>3, PinOfIsAPin, PinsAssumption DEF Derivable, ReviewedPredecessor
    <2> HIDE DEF pins, target
    <2> QED
      BY <2>1, <2>2, <2>4, <2>5, <2>6, TargetIsValid
  <1> HIDE DEF target
  <1>5. CASE target = Refused
    <2>1. /\ calls'[c].step = "idle" /\ \A d \in Callers \ {c} : calls'[d] = calls[d]
          /\ DOMAIN calls' = Callers /\ queue' = queue
      BY <1>1, <1>2, <1>5 DEF ConsumerTypes, Idle
    <2>2. ConsumerTypes'
      BY <1>1, <1>2, <2>1 DEF ConsumerTypes
    <2>3. QueueFits'
      BY <1>1, <1>2, <2>1 DEF QueueFits
    <2>4. FileFits'
      BY <1>1, <1>2, <2>1 DEF FileFits
    <2>5. ASSUME NEW d \in Callers PROVE CallFits(d)'
      <3>1. CallFits(d)
        BY DEF ConsumerInv
      <3> QED
        BY <1>2, <2>1, <3>1 DEF CallFits, SavesOne
    <2>6. LiveFollowsStore'
      BY <1>1, <1>2 DEF LiveFollowsStore, Attached, FromRow, Contract
    <2> QED
      BY <2>2, <2>3, <2>4, <2>5, <2>6 DEF ConsumerInv
  <1>6. CASE target # Refused
    <2>1. r.step = "waiting" /\ r.binding = b /\ r.target = target
      OBVIOUS
    <2> HIDE DEF b, r
    <2>2. /\ calls'[c] = r /\ \A d \in Callers \ {c} : calls'[d] = calls[d]
          /\ DOMAIN calls' = Callers
      BY <1>1, <1>2, <1>6 DEF ConsumerTypes
    <2>3. /\ queue' \in Seq(Callers) /\ Distinct(queue')
          /\ \A x : In(x, queue') <=> In(x, queue) \/ x = c
          /\ queue # <<>> => Head(queue') = Head(queue)
      <3>1. queue \in Seq(Callers) /\ Distinct(queue) /\ queue' = Append(queue, c)
        BY <1>1, <1>2, <1>6 DEF ConsumerTypes, QueueFits
      <3> QED
        BY <1>3, <3>1, Joining
    <2>4. ConsumerTypes'
      BY <1>1, <1>2, <2>2, <2>3 DEF ConsumerTypes
    <2>5. QueueFits'
      <3>1. \A d \in Callers : In(d, queue') <=> calls'[d].step \in {"waiting", "saving", "saved"}
        BY <1>1, <1>2, <2>1, <2>2, <2>3 DEF QueueFits
      <3>2. ASSUME NEW d \in Callers, calls'[d].step \in {"saving", "saved"} PROVE d = Head(queue')
        <4>1. calls[d].step \in {"saving", "saved"} /\ d # c
          BY <2>1, <2>2, <3>2
        <4> QED
          BY <2>3, <4>1, OneSaves
      <3> QED
        BY <2>3, <3>1, <3>2 DEF QueueFits
    <2>6. FileFits'
      BY <1>1, <1>2, <2>1, <2>2 DEF FileFits
    <2>7. ASSUME NEW d \in Callers PROVE CallFits(d)'
      <3>1. CallFits(d)
        BY DEF ConsumerInv
      <3> QED
        BY <1>2, <1>3, <1>4, <1>6, <2>1, <2>2, <3>1 DEF CallFits, SavesOne
    <2>8. LiveFollowsStore'
      BY <1>1, <1>2 DEF LiveFollowsStore, Attached, FromRow, Contract
    <2> QED
      BY <2>4, <2>5, <2>6, <2>7, <2>8 DEF ConsumerInv
  <1> QED
    BY <1>5, <1>6

LEMMA SaveKeeps ==
  ASSUME ConsumerInv, NEW c \in Callers, Save(c)
  PROVE  ConsumerInv'
  <1> DEFINE b == calls[c].binding
             row == calls[c].target
             next == [rows EXCEPT ![b] = row]
             r == [step |-> "saving", binding |-> b, token |-> calls[c].token, next |-> next]
  <1>1. ConsumerTypes /\ QueueFits /\ FileFits /\ LiveFollowsStore /\ CallFits(c)
    BY DEF ConsumerInv
  <1>2. /\ calls[c].step = "waiting" /\ queue # <<>> /\ c = Head(queue)
        /\ UNCHANGED <<file, rows, live, release, loaded, pushLost>>
        /\ \/ Fits(b, row) /\ calls' = [calls EXCEPT ![c] = r] /\ UNCHANGED queue
           \/ ~Fits(b, row) /\ calls' = [calls EXCEPT ![c] = Idle] /\ queue' = Tail(queue)
    BY DEF Save, Holds
  <1>3. b \in Bindings /\ row \in ValidRows
    BY <1>1, <1>2 DEF CallFits
  <1>4. \A d \in Callers : calls[d].step \notin {"saving", "saved"}
    BY <1>1, <1>2 DEF QueueFits
  <1>5. CASE ~Fits(b, row)
    <2>1. /\ DOMAIN calls' = Callers /\ queue' \in Seq(Callers) /\ QueueFits'
          /\ calls'[c].step = "idle" /\ \A d \in Callers \ {c} : calls'[d] = calls[d]
      BY <1>1, <1>2, <1>5, HeadLeaves
    <2>2. ConsumerTypes' /\ FileFits'
      BY <1>1, <1>2, <1>4, <2>1 DEF ConsumerTypes, FileFits
    <2>3. ASSUME NEW d \in Callers PROVE CallFits(d)'
      <3>1. CallFits(d)
        BY DEF ConsumerInv
      <3> QED
        BY <1>2, <2>1, <3>1 DEF CallFits, SavesOne
    <2>4. LiveFollowsStore'
      BY <1>1, <1>2 DEF LiveFollowsStore, Attached, FromRow, Contract
    <2> QED
      BY <2>1, <2>2, <2>3, <2>4 DEF ConsumerInv
  <1>6. CASE Fits(b, row)
    <2>1. SavesOne(b, next)
      <3>1. next[b] = row /\ next \in [Bindings -> Stored] /\ \A x \in Bindings \ {b} : next[x] = rows[x]
        BY <1>1, <1>3 DEF ConsumerTypes, Stored
      <3> QED
        BY <1>3, <1>6, <3>1 DEF SavesOne, Fits
    <2> HIDE DEF next
    <2>2. /\ r.step = "saving" /\ r.binding = b /\ r.next = next
          /\ DOMAIN r = {"step", "binding", "token", "next"}
      OBVIOUS
    <2> HIDE DEF b, row, r
    <2>3. /\ calls'[c] = r /\ \A d \in Callers \ {c} : calls'[d] = calls[d]
          /\ DOMAIN calls' = Callers /\ queue' = queue
      BY <1>1, <1>2, <1>6 DEF ConsumerTypes
    <2>4. ConsumerTypes'
      BY <1>1, <1>2, <2>3 DEF ConsumerTypes
    <2>5. QueueFits'
      BY <1>1, <1>2, <1>4, <2>2, <2>3 DEF QueueFits
    <2>6. FileFits'
      BY <1>1, <1>2, <1>4, <2>2, <2>3 DEF FileFits
    <2>7. CallFits(c)'
      BY <1>2, <1>3, <2>1, <2>2, <2>3 DEF CallFits, SavesOne
    <2>8. ASSUME NEW d \in Callers \ {c} PROVE CallFits(d)'
      <3>1. CallFits(d)
        BY DEF ConsumerInv
      <3> QED
        BY <1>2, <2>3, <3>1 DEF CallFits, SavesOne
    <2>9. LiveFollowsStore'
      BY <1>1, <1>2 DEF LiveFollowsStore, Attached, FromRow, Contract
    <2> QED
      BY <2>4, <2>5, <2>6, <2>7, <2>8, <2>9 DEF ConsumerInv
  <1> QED
    BY <1>5, <1>6

LEMMA WrittenKeeps ==
  ASSUME ConsumerInv, NEW c \in Callers, Written(c)
  PROVE  ConsumerInv'
  <1> DEFINE r == [calls[c] EXCEPT !.step = "saved"]
  <1>1. ConsumerTypes /\ QueueFits /\ FileFits /\ LiveFollowsStore /\ CallFits(c)
    BY DEF ConsumerInv
  <1>2. /\ calls[c].step = "saving" /\ file' = calls[c].next
        /\ calls' = [calls EXCEPT ![c] = r]
        /\ UNCHANGED <<rows, live, release, loaded, pushLost, queue>>
    BY <1>1 DEF Written, ConsumerTypes
  <1>3. \A d \in Callers \ {c} : calls[d].step \notin {"saving", "saved"}
    BY <1>2, OneSaves
  <1>4. r.step = "saved" /\ r.binding = calls[c].binding /\ r.next = calls[c].next
    BY <1>1, <1>2 DEF CallFits
  <1> HIDE DEF r
  <1>5. /\ calls'[c] = r /\ \A d \in Callers \ {c} : calls'[d] = calls[d]
        /\ DOMAIN calls' = Callers
    BY <1>1, <1>2 DEF ConsumerTypes
  <1>6. SavesOne(calls[c].binding, calls[c].next) /\ calls[c].binding \in Bindings
    BY <1>1, <1>2 DEF CallFits
  <1>7. ConsumerTypes'
    BY <1>1, <1>2, <1>5, <1>6 DEF ConsumerTypes, SavesOne
  <1>8. QueueFits'
    BY <1>1, <1>2, <1>4, <1>5 DEF QueueFits
  <1>9. FileFits'
    BY <1>1, <1>2, <1>3, <1>4, <1>5 DEF FileFits
  <1>10. CallFits(c)'
    BY <1>2, <1>4, <1>5, <1>6 DEF CallFits, SavesOne
  <1>11. ASSUME NEW d \in Callers \ {c} PROVE CallFits(d)'
    <2>1. CallFits(d)
      BY DEF ConsumerInv
    <2> QED
      BY <1>2, <1>5, <2>1 DEF CallFits, SavesOne
  <1>12. LiveFollowsStore'
    BY <1>1, <1>2 DEF LiveFollowsStore, Attached, FromRow, Contract
  <1> QED
    BY <1>7, <1>8, <1>9, <1>10, <1>11, <1>12 DEF ConsumerInv

LEMMA SaveFailsKeeps ==
  ASSUME ConsumerInv, NEW c \in Callers, SaveFails(c)
  PROVE  ConsumerInv'
  <1>1. ConsumerTypes /\ QueueFits /\ FileFits /\ LiveFollowsStore /\ CallFits(c)
    BY DEF ConsumerInv
  <1>2. /\ calls[c].step = "saving" /\ calls' = [calls EXCEPT ![c] = Idle] /\ queue' = Tail(queue)
        /\ UNCHANGED <<file, rows, live, release, loaded, pushLost>>
    BY DEF SaveFails
  <1>3. /\ queue # <<>> /\ c = Head(queue)
        /\ \A d \in Callers \ {c} : calls[d].step \notin {"saving", "saved"}
    BY <1>2, OneSaves
  <1>4. /\ DOMAIN calls' = Callers /\ queue' \in Seq(Callers) /\ QueueFits'
        /\ calls'[c].step = "idle" /\ \A d \in Callers \ {c} : calls'[d] = calls[d]
    BY <1>1, <1>2, <1>3, HeadLeaves
  <1>5. ConsumerTypes' /\ FileFits'
    BY <1>1, <1>2, <1>3, <1>4 DEF ConsumerTypes, FileFits
  <1>6. ASSUME NEW d \in Callers PROVE CallFits(d)'
    <2>1. CallFits(d)
      BY DEF ConsumerInv
    <2> QED
      BY <1>2, <1>4, <2>1 DEF CallFits, SavesOne
  <1>7. LiveFollowsStore'
    BY <1>1, <1>2 DEF LiveFollowsStore, Attached, FromRow, Contract
  <1> QED
    BY <1>4, <1>5, <1>6, <1>7 DEF ConsumerInv

LEMMA PushKeeps ==
  ASSUME ConsumerInv, NEW c \in Callers, Push(c)
  PROVE  ConsumerInv'
  <1> DEFINE b == calls[c].binding
             next == calls[c].next
  <1>1. ConsumerTypes /\ QueueFits /\ FileFits /\ LiveFollowsStore /\ CallFits(c)
    BY DEF ConsumerInv
  <1>2. /\ calls[c].step = "saved" /\ rows' = next
        /\ \/ Attached(b) /\ live' = [live EXCEPT ![b] = next[b]] /\ pushLost' = pushLost \ {b}
           \/ Attached(b) /\ pushLost' = pushLost \cup {b} /\ UNCHANGED live
           \/ ~Attached(b) /\ UNCHANGED <<pushLost, live>>
        /\ calls' = [calls EXCEPT ![c] = Idle] /\ queue' = Tail(queue)
        /\ UNCHANGED <<file, release, loaded>>
    BY DEF Push
  <1>3. /\ queue # <<>> /\ c = Head(queue)
        /\ \A d \in Callers \ {c} : calls[d].step \notin {"saving", "saved"}
    BY <1>2, OneSaves
  <1>4. /\ DOMAIN calls' = Callers /\ queue' \in Seq(Callers) /\ QueueFits'
        /\ calls'[c].step = "idle" /\ \A d \in Callers \ {c} : calls'[d] = calls[d]
    BY <1>1, <1>2, <1>3, HeadLeaves
  <1>5. b \in Bindings /\ SavesOne(b, next)
    BY <1>1, <1>2 DEF CallFits
  <1> HIDE DEF b
  <1>6. ConsumerTypes'
    <2>1. next[b] \in Stored
      BY <1>5 DEF SavesOne, Stored
    <2>2. live' \in [Bindings -> Stored \cup {Detached}]
      BY <1>1, <1>2, <1>5, <2>1 DEF ConsumerTypes
    <2> QED
      BY <1>1, <1>2, <1>4, <1>5, <2>2 DEF ConsumerTypes, SavesOne
  <1>7. FileFits'
    BY <1>1, <1>2, <1>3, <1>4 DEF FileFits
  <1>8. ASSUME NEW d \in Callers PROVE CallFits(d)'
    <2>1. CallFits(d)
      BY DEF ConsumerInv
    <2> QED
      BY <1>3, <1>4, <2>1 DEF CallFits
  <1>9. ASSUME NEW x \in Bindings \ pushLost', Attached(x)' PROVE FromRow(x, live[x])'
    <2>1. CASE x = b
      <3>1. live'[b] = rows'[b]
        BY <1>1, <1>2, <1>9, <2>1 DEF ConsumerTypes, Attached
      <3> QED
        BY <2>1, <3>1 DEF FromRow
    <2>2. CASE x # b
      <3>1. live'[x] = live[x] /\ x \notin pushLost
        BY <1>1, <1>2, <1>9, <2>2 DEF ConsumerTypes
      <3>2. rows'[x] = rows[x] /\ release' = release
        BY <1>2, <1>5, <1>9, <2>2 DEF SavesOne
      <3>3. FromRow(x, live[x])
        BY <1>1, <1>9, <3>1 DEF LiveFollowsStore, Attached
      <3> QED
        BY <3>1, <3>2, <3>3 DEF FromRow, Contract
    <2> QED
      BY <2>1, <2>2
  <1>10. LiveFollowsStore'
    BY <1>9 DEF LiveFollowsStore
  <1> QED
    BY <1>4, <1>6, <1>7, <1>8, <1>10 DEF ConsumerInv

(* What a provider makes of a publication, from a row of the Store or from *)
(* what it has already made of one.                                        *)
LEMMA PublishKeeps ==
  ASSUME ConsumerInv, NEW b \in Bindings, NEW version \in 1 .. 2, NEW gen \in Generations,
         NEW contract \in Contracts \cup {NoContract}, Publish(b, version, gen, contract)
  PROVE  ConsumerInv'
  <1> DEFINE pin == Shown(b, version, gen, contract)
             row == live[b]
             new == AdoptShown(b, pin)
  <1>1. ConsumerTypes /\ QueueFits /\ FileFits /\ LiveFollowsStore
    BY DEF ConsumerInv
  <1>2. /\ Attached(b) /\ row # NoRow /\ pin # Refused /\ new # Refused /\ new # row
        /\ live' = [live EXCEPT ![b] = new]
        /\ UNCHANGED <<file, rows, known, release, loaded, pushLost, calls, queue>>
    BY DEF Publish
  <1>3. row \in ValidRows /\ rows[b] \in Stored /\ gen \in Nat
    BY <1>1, <1>2, ConsumerAssumption DEF ConsumerTypes, Attached, Stored
  <1>4. \E said \in Contracts \cup {NoContract} : pin = PinOf(version, gen, said)
    <2> DEFINE said == IF version = 1 THEN NoContract ELSE MessageContract(row, Contract(b), contract)
    <2>1. said \in Contracts \cup {NoContract}
      BY <1>1, ContractIsKnown DEF MessageContract
    <2>2. pin = PinOf(version, gen, said)
      BY <1>2 DEF Shown
    <2> QED
      BY <2>1, <2>2
  <1>5. /\ pin \in Pins /\ pin.version \in {1, 2}
        /\ pin.version = 2 /\ pin.contract = Contract(b) => pin = PinOf(2, gen, Contract(b))
    <2>1. PICK said \in Contracts \cup {NoContract} : pin = PinOf(version, gen, said)
      BY <1>4
    <2> HIDE DEF pin
    <2>2. version \in {1, 2}
      OBVIOUS
    <2> QED
      BY <1>2, <1>3, <2>1, <2>2, PinOfIsAPin
  <1>6. row.adopted \in Pins /\ row.adopted.version \in {1, 2}
    BY <1>3, RowFields, PinVersions
  <1> HIDE DEF pin
  <1>7. \/ /\ pin.version = 2 /\ row.adopted.version = 1 /\ new = Adopt(row, pin)
        \/ /\ pin.version = 2 /\ pin.contract = Contract(b) /\ new = AdoptSuccessor(row, pin)
           /\ row = Single(row.adopted) /\ row.adopted.version = 2
    BY <1>2, <1>5, <1>6 DEF AdoptShown, DurablePredecessor
  <1>8. new \in ValidRows
    BY <1>2, <1>3, <1>5, <1>7, AdoptIsValid, SuccessorIsValid
  <1>9. ConsumerTypes'
    BY <1>1, <1>2, <1>8 DEF ConsumerTypes, Stored
  <1>10. \A d \in Callers : CallFits(d)'
    BY <1>2 DEF ConsumerInv, CallFits, SavesOne
  <1>11. QueueFits' /\ FileFits'
    BY <1>1, <1>2 DEF QueueFits, FileFits
  <1>12. ASSUME b \notin pushLost PROVE FromRow(b, new)
    <2>1. FromRow(b, row)
      BY <1>1, <1>2, <1>12 DEF LiveFollowsStore
    <2>2. CASE row = rows[b]
      <3>1. ASSUME pin.version = 2, new = Adopt(row, pin) PROVE FromRow(b, new)
        <4>1. pin \in Accepted(row)
          BY <1>2, <1>3, <3>1, AdoptIsValid
        <4> QED
          BY <1>2, <2>2, <3>1, <4>1 DEF FromRow, AcceptedV2
      <3>2. ASSUME pin.version = 2, pin.contract = Contract(b), new = AdoptSuccessor(row, pin)
            PROVE FromRow(b, new)
        BY <1>2, <1>5, <2>2, <3>2 DEF FromRow
      <3> QED
        BY <1>7, <3>1, <3>2
    <2>3. ASSUME row # rows[b], rows[b] # NoRow,
                 NEW p \in AcceptedV2(rows[b]), row = Adopt(rows[b], p)
          PROVE  FALSE
      <3>1. rows[b] \in ValidRows /\ Adopt(rows[b], p) # Refused
        BY <1>3, <2>3, PinsAssumption DEF Stored, ValidRows
      <3>2. row.adopted = p /\ row.accepted = rows[b].accepted /\ p.version = 2 /\ p \in Pins
        BY <2>3, <3>1, AdoptIsValid, RowFields DEF AcceptedV2
      <3>3. row = Single(p)
        BY <1>7, <3>2
      <3>4. rows[b].accepted = <<p>> /\ rows[b].adopted \in Accepted(rows[b])
        BY <3>1, <3>2, <3>3, SingleIsValid, RowFields
      <3>5. rows[b].adopted = p
        BY <3>2, <3>4, OneIsASequence DEF Accepted
      <3> QED
        BY <2>3, <3>1, <3>5 DEF Adopt
    <2>4. ASSUME row # rows[b], rows[b] # NoRow, NEW other, row = AdoptSuccessor(rows[b], other)
          PROVE  FALSE
      <3>1. rows[b] \in ValidRows /\ AdoptSuccessor(rows[b], other) # Refused
        BY <1>3, <2>4, PinsAssumption DEF Stored, ValidRows
      <3>2. row.predecessor = rows[b].adopted
        BY <2>4, <3>1 DEF AdoptSuccessor, Built
      <3>3. rows[b].adopted \in Pins /\ ValidRow(row)
        BY <1>3, <3>1, RowFields
      <3>4. row.predecessor # NoPin /\ row.adopted.version = 2
        BY <3>2, <3>3, PinsAssumption DEF ValidRow
      <3>5. row = Single(row.adopted)
        BY <1>7, <3>4
      <3> QED
        BY <1>6, <3>4, <3>5, SingleIsValid
    <2> QED
      BY <2>1, <2>2, <2>3, <2>4 DEF FromRow
  <1>13. LiveFollowsStore'
    BY <1>1, <1>2, <1>12 DEF LiveFollowsStore, ConsumerTypes, Attached, FromRow, Contract
  <1> QED
    BY <1>9, <1>10, <1>11, <1>13 DEF ConsumerInv

LEMMA RestartKeeps ==
  ASSUME ConsumerInv, Restart
  PROVE  ConsumerInv'
  <1>1. PICK readable \in BOOLEAN : Start(readable)
    BY DEF Restart
  <1>2. /\ release' \in DOMAIN Authority
        /\ calls' = [c \in Callers |-> Idle] /\ queue' = <<>> /\ pushLost' = {} /\ file' = file
    BY DEF Restart
  <1> DEFINE row == ReadRows(readable)
  <1>3. /\ rows' = row /\ loaded' = readable
        /\ \E on \in SUBSET known' : live' = [b \in Bindings |-> IF b \in on THEN row[b] ELSE Detached]
    BY <1>1 DEF Start
  <1>4. row \in [Bindings -> Stored] /\ (readable => row = file)
    BY DEF ConsumerInv, ConsumerTypes, ReadRows, Stored
  <1> HIDE DEF row
  <1>5. Idle.step = "idle"
    BY DEF Idle
  <1>6. queue' \in Seq(Callers) /\ Len(queue') = 0
    BY <1>2
  <1>7. \A b \in Bindings : live'[b] \in {row[b], Detached}
    BY <1>3
  <1>8. live' \in [Bindings -> Stored \cup {Detached}]
    BY <1>3, <1>4
  <1>9. ConsumerTypes'
    BY <1>2, <1>3, <1>4, <1>6, <1>8 DEF ConsumerInv, ConsumerTypes
  <1>10. QueueFits'
    BY <1>2, <1>5, <1>6 DEF QueueFits, Distinct, In
  <1>11. FileFits' /\ \A c \in Callers : CallFits(c)'
    BY <1>2, <1>3, <1>4, <1>5 DEF FileFits, CallFits
  <1>12. LiveFollowsStore'
    BY <1>3, <1>7 DEF LiveFollowsStore, Attached, FromRow
  <1> QED
    BY <1>9, <1>10, <1>11, <1>12 DEF ConsumerInv

LEMMA ConsumerKeeps ==
  ASSUME ConsumerInv, [Next]_vars
  PROVE  ConsumerInv'
  <1>1. CASE \E c \in Callers, b \in Bindings : Inspect(c, b)
    BY <1>1, InspectKeeps
  <1>2. CASE \E c \in Callers, operation \in Operations, gen \in Generations : Derive(c, operation, gen)
    BY <1>2, DeriveKeeps
  <1>3. CASE \E c \in Callers : Save(c)
    BY <1>3, SaveKeeps
  <1>4. CASE \E c \in Callers : Written(c)
    BY <1>4, WrittenKeeps
  <1>5. CASE \E c \in Callers : SaveFails(c)
    BY <1>5, SaveFailsKeeps
  <1>6. CASE \E c \in Callers : Push(c)
    BY <1>6, PushKeeps
  <1>7. CASE \E b \in Bindings, version \in 1 .. 2, gen \in Generations, contract \in Contracts \cup {NoContract} :
                Publish(b, version, gen, contract)
    BY <1>7, PublishKeeps
  <1>8. CASE Restart
    BY <1>8, RestartKeeps
  <1>9. CASE UNCHANGED vars
    BY <1>9 DEF vars, ConsumerInv, ConsumerTypes, QueueFits, FileFits, CallFits, SavesOne,
                LiveFollowsStore, Attached, FromRow, Contract
  <1> QED
    BY <1>1, <1>2, <1>3, <1>4, <1>5, <1>6, <1>7, <1>8, <1>9 DEF Next

(* The invariant of the pins holds of every behaviour: one caller saves at *)
(* a time, and the file is what it saves or what was there before.         *)
THEOREM ConsumerInvariant == Spec => []ConsumerInv
  BY ConsumerStarts, ConsumerKeeps, PTL DEF Spec

(* Every provider goes by the row that was saved for its binding, or by    *)
(* what a publication has made of that row, unless a push was reported as  *)
(* lost: through concurrent installer calls, failed saves, publications    *)
(* between a save and its push, and restarts with another release.         *)
THEOREM ProvidersFollowTheStore == Spec => []LiveFollowsStore
  <1>1. ConsumerInv => LiveFollowsStore
    BY DEF ConsumerInv
  <1> QED
    BY <1>1, ConsumerInvariant, PTL

(* A save changes the row of its own binding only, and moves it by one     *)
(* named transition: callers who inspected the same rows cannot undo each  *)
(* other, and a projection never falls (async_transition).                 *)
THEOREM SavesAreExact == Spec => StoreIsExact
  <1> DEFINE Exact == loaded =>
                /\ \A c \in Callers : file' # file /\ calls[c].step = "saving" => RowsAreKept(c)
                /\ \A b \in Bindings : file[b] # NoRow /\ file'[b] # NoRow => OneStep(file[b], file'[b])
  <1>1. ConsumerInv /\ [Next]_vars => [Exact]_vars
    <2> SUFFICES ASSUME ConsumerInv, Next, loaded PROVE Exact
      OBVIOUS
    <2>1. ConsumerTypes
      BY DEF ConsumerInv
    <2>2. CASE file' = file
      <3>1. ASSUME NEW b \in Bindings, file[b] # NoRow PROVE OneStep(file[b], file[b])
        <4>1. file[b] \in ValidRows
          BY <2>1, <3>1 DEF ConsumerTypes, Stored
        <4> QED
          BY <4>1, ReplacingIsOneStep DEF Replaces
      <3> QED
        BY <2>2, <3>1
    <2>3. CASE \E c \in Callers : Written(c)
      <3>1. PICK c \in Callers : Written(c)
        BY <2>3
      <3>2. calls[c].step = "saving" /\ file' = calls[c].next
        BY <3>1 DEF Written
      <3>3. \A d \in Callers \ {c} : calls[d].step \notin {"saving", "saved"}
        BY <3>2, OneSaves
      <3>4. file = rows
        BY <3>2, <3>3 DEF ConsumerInv, FileFits
      <3>5. SavesOne(calls[c].binding, calls[c].next) /\ calls[c].binding \in Bindings
        BY <3>2 DEF ConsumerInv, CallFits
      <3>6. RowsAreKept(c)
        BY <3>2, <3>4, <3>5 DEF RowsAreKept, SavesOne
      <3>7. ASSUME NEW b \in Bindings, file[b] # NoRow PROVE OneStep(file[b], file'[b])
        <4>1. file[b] \in ValidRows
          BY <2>1, <3>7 DEF ConsumerTypes, Stored
        <4>2. file'[b] \in ValidRows /\ Replaces(file[b], file'[b])
          BY <3>2, <3>4, <3>5, <3>7, <4>1 DEF SavesOne, Replaces
        <4> QED
          BY <4>1, <4>2, ReplacingIsOneStep
      <3> QED
        BY <3>3, <3>6, <3>7
    <2>4. file' = file \/ \E c \in Callers : Written(c)
      BY DEF Next, Inspect, Derive, Save, SaveFails, Push, Publish, Restart
    <2> QED
      BY <2>2, <2>3, <2>4
  <1> QED
    BY <1>1, ConsumerInvariant, PTL DEF StoreIsExact, Spec

----------------------------------------------------------------------------
(* The options of the Local bindings.  A password is known of options that *)
(* are a configuration and of what is being merged, never of a list that   *)
(* is not one to one; what a form works on has the gate of the entry.      *)

OptionSets == [legacy : Binding \cup {NoBinding}, list : Seq(Binding) \cup {Invalid},
               gate : {"none", "set"}]
FormStates == [at : {"shut", "open", "merging"}, shows : Seq(Binding), opts : OptionSets]

OptionTypes ==
    /\ options \in OptionSets
    /\ forms \in [Editors -> FormStates]

KnownIsTyped(opts) ==
    Configurations(opts) # Invalid => TypedIn(Configurations(opts)) \subseteq typed

FormIsTyped(e) ==
    forms[e].at # "shut" =>
        /\ forms[e].opts.gate = options.gate
        /\ KnownIsTyped(forms[e].opts)
        /\ forms[e].at = "merging" => TypedIn(forms[e].shows) \subseteq typed

OptionsInv == OptionTypes /\ KnownIsTyped(options) /\ \A e \in Editors : FormIsTyped(e)

(* A configuration is a list of bindings with their passwords, one to one. *)
LEMMA ConfigurationsAreLists ==
  ASSUME NEW opts \in OptionSets, Configurations(opts) # Invalid
  PROVE  /\ Configurations(opts) \in Seq(Binding)
         /\ \A i \in DOMAIN Configurations(opts) : IsConfiguration(Configurations(opts)[i])
         /\ OneToOne(Configurations(opts))
<1>1. CASE opts.list # Invalid
  <2>1. Configurations(opts) = opts.list /\ AreConfigurations(opts.list) /\ OneToOne(opts.list)
    BY <1>1 DEF Configurations
  <2>2. opts.list \in Seq(Binding)
    BY <1>1 DEF OptionSets
  <2> QED
    BY <2>1, <2>2 DEF AreConfigurations, BindingsIn
<1>2. CASE opts.list = Invalid /\ opts.legacy = NoBinding
  <2>1. Configurations(opts) = <<>>
    BY <1>2 DEF Configurations, FromLegacy
  <2> DEFINE none == Configurations(opts)
  <2>2. none \in Seq(Binding) /\ DOMAIN none = {}
    BY <2>1
  <2> QED
    BY <2>2 DEF OneToOne
<1>3. CASE opts.list = Invalid /\ opts.legacy # NoBinding
  <2>1. IsConfiguration(opts.legacy) /\ Configurations(opts) = <<opts.legacy>>
    BY <1>3 DEF Configurations, FromLegacy
  <2>2. opts.legacy \in Binding
    BY <1>3 DEF OptionSets
  <2> DEFINE one == Configurations(opts)
  <2>3. one \in Seq(Binding) /\ DOMAIN one = {1} /\ one[1] = opts.legacy
    BY <2>1, <2>2
  <2> QED
    BY <2>1, <2>3 DEF OneToOne
<1> QED
  BY <1>1, <1>2, <1>3

(* A list made binding by binding is a list.                               *)
LEMMA MergedIsAList ==
  ASSUME NEW opts \in OptionSets, NEW list \in Seq(Binding)
  PROVE  /\ MergedList(opts, list) \in Seq(Binding)
         /\ DOMAIN MergedList(opts, list) = DOMAIN list
<1>1. ASSUME NEW i \in DOMAIN list
      PROVE  Unmasked(opts, list[i]) \in Binding
  <2>1. list[i] \in Binding
    BY <1>1, LenProperties, ElementOfSeq
  <2>2. CASE list[i].secret = NoSecret /\ KnownSecret(opts, list[i].id) # {}
    <3> DEFINE s == CHOOSE s \in KnownSecret(opts, list[i].id) : TRUE
    <3>1. s \in KnownSecret(opts, list[i].id)
      BY <2>2
    <3>2. Configurations(opts) # Invalid
      BY <3>1 DEF KnownSecret
    <3>3. PICK b \in BindingsIn(Configurations(opts)) : b.secret = s
      BY <3>1, <3>2 DEF KnownSecret
    <3>4. b \in Binding
      BY <3>2, <3>3, ConfigurationsAreLists, LenProperties, ElementOfSeq DEF BindingsIn
    <3>5. s \in Secrets \cup {NoSecret}
      BY <3>3, <3>4 DEF Binding
    <3>6. Unmasked(opts, list[i]) = [list[i] EXCEPT !.secret = s]
      BY <2>2 DEF Unmasked
    <3> HIDE DEF s
    <3> QED
      BY <2>1, <3>5, <3>6 DEF Binding
  <2>3. CASE ~(list[i].secret = NoSecret /\ KnownSecret(opts, list[i].id) # {})
    BY <2>1, <2>3 DEF Unmasked
  <2> QED
    BY <2>2, <2>3
<1>2. DOMAIN list = 1 .. Len(list) /\ Len(list) \in Nat
  BY LenProperties
<1>3. MergedList(opts, list) \in [1 .. Len(list) -> Binding]
  BY <1>1, <1>2 DEF MergedList
<1> QED
  BY <1>2, <1>3, SeqDef DEF MergedList

(* What is shown of options is a list, without a password.                 *)
LEMMA ShownIsAList ==
  ASSUME NEW opts \in OptionSets
  PROVE  MaskedList(opts) \in Seq(Binding)
<1>1. CASE Configurations(opts) = Invalid
  BY <1>1 DEF MaskedList
<1>2. CASE Configurations(opts) # Invalid
  <2> DEFINE c == Configurations(opts)
  <2>1. c \in Seq(Binding)
    BY <1>2, ConfigurationsAreLists
  <2>2. DOMAIN c = 1 .. Len(c) /\ Len(c) \in Nat /\ \A i \in DOMAIN c : c[i] \in Binding
    BY <2>1, LenProperties, ElementOfSeq
  <2>3. \A i \in DOMAIN c : Masked(c[i]) \in Binding
    BY <2>2 DEF Masked, Binding
  <2>4. MaskedList(opts) = [i \in DOMAIN c |-> Masked(c[i])]
    BY <1>2 DEF MaskedList
  <2> HIDE DEF c
  <2>5. MaskedList(opts) \in [1 .. Len(c) -> Binding]
    BY <2>2, <2>3, <2>4
  <2> QED
    BY <2>2, <2>5, SeqDef
<1> QED
  BY <1>1, <1>2

(* An edited list is a list.                                               *)
LEMMA EditsAreLists ==
  ASSUME NEW list \in Seq(Binding), NEW edit \in Edits(list)
  PROVE  edit \in Seq(Binding)
<1>0. DOMAIN list = 1 .. Len(list) /\ Len(list) \in Nat /\ \A i \in DOMAIN list : list[i] \in Binding
  BY LenProperties, ElementOfSeq
<1>1. ASSUME NEW i \in DOMAIN list
      PROVE  SubSeq(list, 1, i - 1) \o SubSeq(list, i + 1, Len(list)) \in Seq(Binding)
  <2> DEFINE before == SubSeq(list, 1, i - 1)
             after == SubSeq(list, i + 1, Len(list))
  <2>1. before \in Seq(Binding)
    BY <1>0, SubSeqProperties
  <2>2. after \in Seq(Binding)
    BY <1>0, SubSeqProperties
  <2> HIDE DEF before, after
  <2>3. before \o after \in Seq(Binding)
    BY <2>1, <2>2, ConcatProperties
  <2> QED
    BY <2>3 DEF before, after
<1>2. ASSUME NEW i \in DOMAIN list, NEW id \in BindingIds
      PROVE  [list EXCEPT ![i].id = id] \in Seq(Binding)
  <2> DEFINE b == [list[i] EXCEPT !.id = id]
  <2>1. b \in Binding
    BY <1>0 DEF Binding
  <2>2. [list EXCEPT ![i].id = id] = [list EXCEPT ![i] = b]
    OBVIOUS
  <2> HIDE DEF b
  <2> QED
    BY <1>0, <2>1, <2>2, ExceptSeq
<1>3. ASSUME NEW i \in DOMAIN list, NEW s \in Secrets
      PROVE  [list EXCEPT ![i].secret = s] \in Seq(Binding)
  <2> DEFINE b == [list[i] EXCEPT !.secret = s]
  <2>1. b \in Binding
    BY <1>0 DEF Binding
  <2>2. [list EXCEPT ![i].secret = s] = [list EXCEPT ![i] = b]
    OBVIOUS
  <2> HIDE DEF b
  <2> QED
    BY <1>0, <2>1, <2>2, ExceptSeq
<1> DEFINE cut == {SubSeq(list, 1, i - 1) \o SubSeq(list, i + 1, Len(list)) : i \in DOMAIN list}
           moved == {[list EXCEPT ![i].id = id] : i \in DOMAIN list, id \in BindingIds}
           changed == {[list EXCEPT ![i].secret = s] : i \in DOMAIN list, s \in Secrets}
           new == IF Len(list) < 2 THEN {c \in Binding : ~c.strict} ELSE {}
           added == {Append(list, b) : b \in new}
<1>4. cut \subseteq Seq(Binding)
  BY <1>1
<1>5. moved \subseteq Seq(Binding)
  BY <1>2
<1>6. changed \subseteq Seq(Binding)
  BY <1>3
<1>7. added \subseteq Seq(Binding)
  <2>1. new \subseteq Binding
    OBVIOUS
  <2> HIDE DEF new
  <2> QED
    BY <2>1, AppendProperties
<1>8. Edits(list) = {list} \cup cut \cup moved \cup changed \cup added
  BY DEF Edits
<1> HIDE DEF cut, moved, changed, added
<1> QED
  BY <1>4, <1>5, <1>6, <1>7, <1>8

(* A password that is put in is one the options hold for that id; so a     *)
(* merged list has only passwords somebody gave for their binding.         *)
LEMMA MergedIsTyped ==
  ASSUME NEW opts \in OptionSets, NEW list \in Seq(Binding), NEW given,
         TypedIn(list) \subseteq given,
         Configurations(opts) # Invalid => TypedIn(Configurations(opts)) \subseteq given
  PROVE  TypedIn(MergedList(opts, list)) \subseteq given
<1> SUFFICES ASSUME NEW i \in DOMAIN list, Unmasked(opts, list[i]).secret # NoSecret
             PROVE  <<Unmasked(opts, list[i]).id, Unmasked(opts, list[i]).secret>> \in given
  BY DEF TypedIn, BindingsIn, MergedList
<1>1. list[i] \in Binding
  BY LenProperties, ElementOfSeq
<1>2. CASE list[i].secret # NoSecret
  <2>1. Unmasked(opts, list[i]) = list[i]
    BY <1>2 DEF Unmasked
  <2> QED
    BY <1>2, <2>1 DEF TypedIn, BindingsIn
<1>3. CASE list[i].secret = NoSecret
  <2>1. KnownSecret(opts, list[i].id) # {}
    BY <1>3 DEF Unmasked
  <2> DEFINE s == CHOOSE s \in KnownSecret(opts, list[i].id) : TRUE
  <2>2. s \in KnownSecret(opts, list[i].id)
    BY <2>1
  <2>3. Unmasked(opts, list[i]) = [list[i] EXCEPT !.secret = s]
    BY <1>3, <2>1 DEF Unmasked
  <2> HIDE DEF s
  <2>4. Unmasked(opts, list[i]).id = list[i].id /\ Unmasked(opts, list[i]).secret = s
    BY <1>1, <2>3 DEF Binding
  <2>5. Configurations(opts) # Invalid
    BY <2>2 DEF KnownSecret
  <2>6. PICK b \in BindingsIn(Configurations(opts)) : b.id = list[i].id /\ b.secret = s
    BY <2>2, <2>5 DEF KnownSecret
  <2>7. <<b.id, b.secret>> \in TypedIn(Configurations(opts))
    BY <2>4, <2>6 DEF TypedIn
  <2> QED
    BY <2>4, <2>5, <2>6, <2>7
<1> QED
  BY <1>2, <1>3

(* What is shown and comes back as it was is what it was: the only password *)
(* the options have for an id is that of its binding.                       *)
LEMMA UneditedComesBack ==
  ASSUME NEW opts \in OptionSets, Configurations(opts) # Invalid
  PROVE  MergedList(opts, MaskedList(opts)) = Configurations(opts)
<1> DEFINE c == Configurations(opts)
<1>1. c \in Seq(Binding) /\ OneToOne(c)
  BY ConfigurationsAreLists
<1>2. DOMAIN c = 1 .. Len(c) /\ \A i \in DOMAIN c : c[i] \in Binding
  BY <1>1, LenProperties, ElementOfSeq
<1>3. MaskedList(opts) = [i \in DOMAIN c |-> Masked(c[i])]
  BY DEF MaskedList
<1>4. ASSUME NEW i \in DOMAIN c
      PROVE  Unmasked(opts, Masked(c[i])) = c[i]
  <2> DEFINE b == c[i]
  <2>1. b \in Binding
    BY <1>2
  <2>2. Masked(b).secret = NoSecret /\ Masked(b).id = b.id
    BY <2>1 DEF Masked, Binding
  <2>3. KnownSecret(opts, b.id) = {d.secret : d \in {e \in BindingsIn(c) : e.id = b.id}}
    BY DEF KnownSecret
  <2>4. {e \in BindingsIn(c) : e.id = b.id} = {b}
    BY <1>1 DEF OneToOne, BindingsIn
  <2>5. KnownSecret(opts, b.id) = {b.secret}
    BY <2>3, <2>4
  <2>6. (CHOOSE s \in KnownSecret(opts, b.id) : TRUE) = b.secret
    BY <2>5
  <2> HIDE DEF b, c
  <2>7. Unmasked(opts, Masked(b)) = [Masked(b) EXCEPT !.secret = b.secret]
    BY <2>2, <2>5, <2>6 DEF Unmasked
  <2>8. [[b EXCEPT !.secret = NoSecret] EXCEPT !.secret = b.secret] = b
    BY <2>1 DEF Binding
  <2> QED
    BY <2>7, <2>8 DEF Masked, b
<1>5. MergedList(opts, MaskedList(opts)) = [i \in DOMAIN c |-> Unmasked(opts, Masked(c[i]))]
  BY <1>3 DEF MergedList
<1> HIDE DEF c
<1>6. c = [i \in DOMAIN c |-> c[i]]
  BY <1>1, LenProperties
<1> QED
  BY <1>4, <1>5, <1>6 DEF c


LEMMA OptionsStart == OptionsInit => OptionsInv
<1> SUFFICES ASSUME OptionsInit PROVE OptionsInv
  OBVIOUS
<1>1. options \in OptionSets
  <2>1. \A n \in 0 .. 2 : [1 .. n -> Binding] \subseteq Seq(Binding)
    BY SeqDef
  <2>2. Lists \subseteq Seq(Binding)
    BY <2>1 DEF Lists
  <2> QED
    BY <2>2 DEF OptionsInit, OptionSets
<1>2. ShutForm \in FormStates
  <2>1. NoOptions \in OptionSets
    BY DEF NoOptions, OptionSets
  <2>2. <<>> \in Seq(Binding)
    OBVIOUS
  <2> QED
    BY <2>1, <2>2 DEF ShutForm, FormStates
<1>3. OptionTypes
  BY <1>1, <1>2 DEF OptionsInit, OptionTypes
<1>4. KnownIsTyped(options)
  BY DEF OptionsInit, KnownIsTyped
<1>5. \A e \in Editors : FormIsTyped(e)
  BY DEF OptionsInit, ShutForm, FormIsTyped
<1> QED
  BY <1>3, <1>4, <1>5 DEF OptionsInv

(* What a save makes of its form: with the entry's gate, and with the      *)
(* merged list as its configuration if it is one.                          *)
LEMMA ResultFields ==
  ASSUME NEW opts \in OptionSets, NEW list \in Seq(Binding)
  PROVE  /\ Result(opts, list) \in OptionSets
         /\ Result(opts, list).list = MergedList(opts, list)
         /\ Result(opts, list).gate = opts.gate
         /\ Configurations(Result(opts, list)) # Invalid =>
               Configurations(Result(opts, list)) = MergedList(opts, list)
<1> DEFINE merged == MergedList(opts, list)
           result == Result(opts, list)
<1>1. merged \in Seq(Binding)
  BY MergedIsAList
<1>2. result = [opts EXCEPT !.list = merged, !.legacy = NoBinding]
  BY DEF Result, Versioned
<1> HIDE DEF merged, result
<1>3. result \in OptionSets /\ result.list = merged /\ result.gate = opts.gate
  BY <1>1, <1>2 DEF OptionSets
<1>4. result.list # Invalid
  BY <1>1, <1>3, OptionsAssumption
<1>5. Configurations(result) # Invalid => Configurations(result) = merged
  BY <1>3, <1>4 DEF Configurations
<1> QED
  BY <1>3, <1>5 DEF merged, result

LEMMA OptionsKeep ==
  ASSUME OptionsInv, [OptionsNext]_optionVars
  PROVE  /\ OptionsInv'
         /\ \A e \in Editors : forms[e].at = "merging" /\ forms'[e].at = "shut" =>
               /\ TypedIn(options'.list) \subseteq typed
               /\ Unedited(e) => Configurations(options') = Configurations(forms[e].opts)
               /\ options'.gate = options.gate
<1> DEFINE Kept == \A e \in Editors : forms[e].at = "merging" /\ forms'[e].at = "shut" =>
               /\ TypedIn(options'.list) \subseteq typed
               /\ Unedited(e) => Configurations(options') = Configurations(forms[e].opts)
               /\ options'.gate = options.gate
<1> USE DEF OptionsInv
<1>0. OptionTypes /\ options \in OptionSets /\ forms \in [Editors -> FormStates]
  BY DEF OptionTypes
<1>1. CASE UNCHANGED optionVars
  <2>1. OptionsInv'
    BY <1>1 DEF optionVars, OptionTypes, KnownIsTyped, FormIsTyped
  <2>2. Kept
    BY <1>1 DEF optionVars
  <2> QED
    BY <2>1, <2>2
<1>2. ASSUME NEW e \in Editors, OpenForm(e)
      PROVE  OptionsInv' /\ Kept
  <2> DEFINE form == [at |-> "open", shows |-> MaskedList(options), opts |-> options]
  <2>1. forms' = [forms EXCEPT ![e] = form] /\ options' = options /\ typed' = typed
    BY <1>2 DEF OpenForm
  <2>2. MaskedList(options) \in Seq(Binding)
    BY <1>0, ShownIsAList
  <2>3. form \in FormStates /\ form.at = "open" /\ form.opts = options
    BY <1>0, <2>2 DEF FormStates
  <2> HIDE DEF form
  <2>4. \A f \in Editors : forms'[f] = IF f = e THEN form ELSE forms[f]
    BY <1>0, <2>1
  <2>5. OptionTypes'
    BY <1>0, <2>1, <2>3 DEF OptionTypes
  <2>6. KnownIsTyped(options)'
    BY <2>1 DEF KnownIsTyped
  <2>7. ASSUME NEW f \in Editors
        PROVE  FormIsTyped(f)'
    BY <2>1, <2>3, <2>4 DEF FormIsTyped, KnownIsTyped
  <2>8. Kept
    BY <2>3, <2>4
  <2> QED
    BY <2>5, <2>6, <2>7, <2>8
<1>3. ASSUME NEW e \in Editors, Submit(e)
      PROVE  OptionsInv' /\ Kept
  <2>1. PICK list \in Edits(forms[e].shows) :
           /\ forms' = [forms EXCEPT ![e] = [at |-> "merging", shows |-> list, opts |-> options]]
           /\ typed' = typed \cup TypedIn(list)
    BY <1>3 DEF Submit
  <2> DEFINE form == [at |-> "merging", shows |-> list, opts |-> options]
  <2>2. forms[e].shows \in Seq(Binding)
    BY <1>0 DEF FormStates
  <2>3. list \in Seq(Binding)
    BY <2>2, EditsAreLists
  <2>4. form \in FormStates /\ form.at = "merging" /\ form.opts = options /\ form.shows = list
    BY <1>0, <2>3 DEF FormStates
  <2>5. forms' = [forms EXCEPT ![e] = form] /\ options' = options
    BY <1>3, <2>1 DEF Submit
  <2> HIDE DEF form
  <2>6. \A f \in Editors : forms'[f] = IF f = e THEN form ELSE forms[f]
    BY <1>0, <2>5
  <2>7. OptionTypes'
    BY <1>0, <2>4, <2>5 DEF OptionTypes
  <2>8. typed \subseteq typed' /\ TypedIn(list) \subseteq typed'
    BY <2>1
  <2>9. KnownIsTyped(options)'
    BY <2>5, <2>8 DEF KnownIsTyped
  <2>10. ASSUME NEW f \in Editors
         PROVE  FormIsTyped(f)'
    <3>1. CASE f = e
      BY <2>4, <2>5, <2>6, <2>8, <3>1 DEF FormIsTyped, KnownIsTyped
    <3>2. CASE f # e
      <4>1. FormIsTyped(f) /\ forms'[f] = forms[f]
        BY <2>6, <3>2
      <4> QED
        BY <2>5, <2>8, <4>1 DEF FormIsTyped, KnownIsTyped
    <3> QED
      BY <3>1, <3>2
  <2>11. Kept
    BY <2>4, <2>6
  <2> QED
    BY <2>7, <2>9, <2>10, <2>11
<1>4. ASSUME NEW e \in Editors, SaveOptions(e)
      PROVE  OptionsInv' /\ Kept
  <2> DEFINE opts == forms[e].opts
             list == forms[e].shows
             result == Result(opts, list)
  <2>0. forms[e].at = "merging" /\ typed' = typed
    BY <1>4 DEF SaveOptions
  <2>1. opts \in OptionSets /\ list \in Seq(Binding)
    BY <1>0 DEF FormStates
  <2>2. FormIsTyped(e)
    OBVIOUS
  <2>3. opts.gate = options.gate /\ KnownIsTyped(opts) /\ TypedIn(list) \subseteq typed
    BY <2>0, <2>2 DEF FormIsTyped
  <2>4. TypedIn(MergedList(opts, list)) \subseteq typed
    BY <2>1, <2>3, MergedIsTyped DEF KnownIsTyped
  <2>5. CASE Configurations(result) # Invalid
    <3>1. options' = result /\ forms' = [forms EXCEPT ![e] = ShutForm]
      BY <1>4, <2>5 DEF SaveOptions
    <3>2. /\ result \in OptionSets
          /\ result.list = MergedList(opts, list)
          /\ result.gate = opts.gate
          /\ Configurations(result) = MergedList(opts, list)
      BY <2>1, <2>5, ResultFields
    <3> HIDE DEF result
    <3>3. ShutForm \in FormStates /\ ShutForm.at = "shut"
      <4>1. NoOptions \in OptionSets
        BY DEF NoOptions, OptionSets
      <4>2. <<>> \in Seq(Binding)
        OBVIOUS
      <4> QED
        BY <4>1, <4>2 DEF ShutForm, FormStates
    <3>4. \A f \in Editors : forms'[f] = IF f = e THEN ShutForm ELSE forms[f]
      BY <1>0, <3>1
    <3>5. OptionTypes'
      BY <1>0, <3>1, <3>2, <3>3 DEF OptionTypes
    <3>6. KnownIsTyped(options)'
      BY <2>0, <2>4, <3>1, <3>2 DEF KnownIsTyped
    <3>7. ASSUME NEW f \in Editors
          PROVE  FormIsTyped(f)'
      <4>1. CASE f = e
        BY <3>3, <3>4, <4>1 DEF FormIsTyped
      <4>2. CASE f # e
        <5>1. FormIsTyped(f) /\ forms'[f] = forms[f]
          BY <3>4, <4>2
        <5>2. options'.gate = options.gate
          BY <2>3, <3>1, <3>2
        <5> QED
          BY <2>0, <5>1, <5>2 DEF FormIsTyped, KnownIsTyped
      <4> QED
        BY <4>1, <4>2
    <3>8. Unedited(e) => Configurations(options') = Configurations(opts)
      <4>1. SUFFICES ASSUME Configurations(opts) # Invalid, list = MaskedList(opts)
                     PROVE  Configurations(options') = Configurations(opts)
        BY DEF Unedited
      <4> QED
        BY <2>1, <3>1, <3>2, <4>1, UneditedComesBack
    <3>9. Kept
      <4> SUFFICES ASSUME NEW f \in Editors, forms[f].at = "merging", forms'[f].at = "shut"
                   PROVE  /\ TypedIn(options'.list) \subseteq typed
                          /\ Unedited(f) =>
                                Configurations(options') = Configurations(forms[f].opts)
                          /\ options'.gate = options.gate
        OBVIOUS
      <4>1. f = e
        BY <3>4
      <4> QED
        BY <2>3, <2>4, <3>1, <3>2, <3>8, <4>1
    <3> QED
      BY <3>5, <3>6, <3>7, <3>9
  <2>6. CASE Configurations(result) = Invalid
    <3> DEFINE form == [at |-> "open", shows |-> MaskedList(opts), opts |-> opts]
    <3>1. options' = options /\ forms' = [forms EXCEPT ![e] = form]
      BY <1>4, <2>6 DEF SaveOptions
    <3>2. MaskedList(opts) \in Seq(Binding)
      BY <2>1, ShownIsAList
    <3> HIDE DEF result, list
    <3>3. form \in FormStates /\ form.at = "open" /\ form.opts = opts
      BY <2>1, <3>2 DEF FormStates
    <3> HIDE DEF form
    <3>4. \A f \in Editors : forms'[f] = IF f = e THEN form ELSE forms[f]
      BY <1>0, <3>1
    <3>5. OptionTypes'
      BY <1>0, <3>1, <3>3 DEF OptionTypes
    <3>6. KnownIsTyped(options)'
      BY <2>0, <3>1 DEF KnownIsTyped
    <3>7. ASSUME NEW f \in Editors
          PROVE  FormIsTyped(f)'
      BY <2>0, <2>3, <3>1, <3>3, <3>4 DEF FormIsTyped, KnownIsTyped
    <3>8. Kept
      BY <3>3, <3>4
    <3> QED
      BY <3>5, <3>6, <3>7, <3>8
  <2> QED
    BY <2>5, <2>6
<1>5. ASSUME NEW e \in Editors, CloseForm(e)
      PROVE  OptionsInv' /\ Kept
  <2>1. forms' = [forms EXCEPT ![e] = ShutForm] /\ options' = options /\ typed' = typed
        /\ forms[e].at = "open"
    BY <1>5 DEF CloseForm
  <2>2. ShutForm \in FormStates /\ ShutForm.at = "shut"
    <3>1. NoOptions \in OptionSets
      BY DEF NoOptions, OptionSets
    <3>2. <<>> \in Seq(Binding)
      OBVIOUS
    <3> QED
      BY <3>1, <3>2 DEF ShutForm, FormStates
  <2>3. \A f \in Editors : forms'[f] = IF f = e THEN ShutForm ELSE forms[f]
    BY <1>0, <2>1
  <2>4. OptionTypes'
    BY <1>0, <2>1, <2>2 DEF OptionTypes
  <2>5. KnownIsTyped(options)'
    BY <2>1 DEF KnownIsTyped
  <2>6. ASSUME NEW f \in Editors
        PROVE  FormIsTyped(f)'
    BY <2>1, <2>2, <2>3 DEF FormIsTyped, KnownIsTyped
  <2>7. Kept
    BY <2>1, <2>3
  <2> QED
    BY <2>4, <2>5, <2>6, <2>7
<1> QED
  BY <1>1, <1>2, <1>3, <1>4, <1>5 DEF OptionsNext

(* Forms side by side never give a binding a password that nobody gave for *)
(* its id, never change what was not edited, and keep the private gate.    *)
THEOREM BindingsStayTheirs == OptionsSpec => BindingsKeepTheirs
<1>1. OptionsInv /\ [OptionsNext]_optionVars => OptionsInv'
  BY OptionsKeep
<1>2. OptionsInv /\ [OptionsNext]_optionVars =>
         [\A e \in Editors : forms[e].at = "merging" /\ forms'[e].at = "shut" =>
             /\ TypedIn(options'.list) \subseteq typed
             /\ Unedited(e) => Configurations(options') = Configurations(forms[e].opts)
             /\ options'.gate = options.gate]_optionVars
  BY OptionsKeep
<1> QED
  BY OptionsStart, <1>1, <1>2, PTL DEF OptionsSpec, BindingsKeepTheirs

----------------------------------------------------------------------------
(* The energy history.  A sum over the days of a month is what its         *)
(* recursive definition gives, and a least day where two sums are out of   *)
(* order is the contradiction.  From that follow what an answer, a store   *)
(* and the older stores hold, and that no count by LG makes it too much.   *)

(* What holds of 0, and of each number's successor, holds of every number  *)
(* up to n: the least counterexample would be a successor.                 *)
LEMMA UpTo ==
    ASSUME NEW n \in Nat, NEW S, 0 \in S, \A e \in 0 .. n : e \in S /\ e # n => e + 1 \in S
    PROVE  0 .. n \subseteq S
<1> DEFINE R == {p \in Nat \X Nat : p[1] < p[2]}
           Bad == {e \in 0 .. n : e \notin S}
<1> SUFFICES ASSUME Bad # {} PROVE FALSE
  OBVIOUS
<1>1. IsWellFoundedOn(R, Nat)
  BY NatLessThanWellFounded DEF OpToRel
<1>2. Bad \in SUBSET Nat
  OBVIOUS
<1>3. PICK x \in Bad : \A y \in Bad : ~(<<y, x>> \in R)
  BY <1>1, <1>2, WFMin
<1>4. x \in 1 .. n /\ x - 1 \in 0 .. n /\ x - 1 # n
  OBVIOUS
<1>5. x - 1 \notin S
  BY <1>4
<1>6. <<x - 1, x>> \in R /\ x - 1 \in Bad
  BY <1>4, <1>5
<1> QED
  BY <1>3, <1>6

LastDay == Cardinality(Days)

LEMMA DaysAre == LastDay \in Nat /\ LastDay # 0 /\ Days = 1 .. LastDay /\ {0} \cup Days = 0 .. LastDay
<1>1. LastDay \in Nat /\ Days = 1 .. LastDay /\ Days # {}
  BY HistoryAssumption, FS_CardinalityType DEF HistoryAssumption, LastDay
<1> QED
  BY <1>1

(* One meter's rows, day by day.                                           *)
DayRows == [Days -> Nat \cup {NoData}]
Term(counts, d, e) == IF e \in Counted(counts, d) THEN counts[e] ELSE 0
IsSum(s, counts, d) == s = [e \in {0} \cup Days |-> IF e = 0 THEN 0 ELSE s[e - 1] + Term(counts, d, e)]

LEMMA TermsAre ==
    ASSUME NEW counts \in DayRows, NEW d, NEW e \in Days
    PROVE  Term(counts, d, e) \in Nat
BY DEF DayRows, Term, Counted

(* The sum over the days exists, ...                                       *)
LEMMA SumExists ==
    ASSUME NEW counts \in DayRows, NEW d
    PROVE  \E s : IsSum(s, counts, d)
<1> DEFINE Adds(s, n) == /\ s \in [0 .. n -> Nat] /\ s[0] = 0
                         /\ \A e \in 1 .. n : s[e] = s[e - 1] + Term(counts, d, e)
           S == {n \in Nat : \E s : Adds(s, n)}
<1>1. 0 \in S
  <2>1. Adds([e \in 0 .. 0 |-> 0], 0)
    OBVIOUS
  <2> QED
    BY <2>1
<1>2. ASSUME NEW n \in 0 .. LastDay, n \in S, n # LastDay PROVE n + 1 \in S
  <2>1. PICK s : Adds(s, n)
    BY <1>2
  <2>2. n \in Nat /\ n + 1 \in Days
    BY <1>2, DaysAre
  <2>3. PICK x \in Nat : x = s[n] + Term(counts, d, n + 1)
    BY <2>1, <2>2, TermsAre
  <2>4. PICK r : r = [e \in 0 .. (n + 1) |-> IF e = n + 1 THEN x ELSE s[e]]
    OBVIOUS
  <2>5. r \in [0 .. (n + 1) -> Nat] /\ r[0] = 0
    BY <2>1, <2>2, <2>4
  <2>6. ASSUME NEW e \in 1 .. (n + 1) PROVE r[e] = r[e - 1] + Term(counts, d, e)
    <3>1. CASE e = n + 1
      BY <2>2, <2>3, <2>4, <3>1
    <3>2. CASE e # n + 1
      <4>1. e \in 1 .. n /\ e - 1 \in 0 .. (n + 1) /\ e - 1 # n + 1
        BY <2>2, <3>2
      <4>2. r[e] = s[e] /\ r[e - 1] = s[e - 1]
        BY <2>4, <3>2, <4>1
      <4> QED
        BY <2>1, <4>1, <4>2
    <3> QED
      BY <3>1, <3>2
  <2>7. Adds(r, n + 1)
    BY <2>5, <2>6
  <2>8. \E z : Adds(z, n + 1)
    BY <2>7
  <2> HIDE DEF Adds
  <2> QED
    BY <2>2, <2>8
<1>3. LastDay \in S
  <2> HIDE DEF S
  <2>1. 0 .. LastDay \subseteq S
    BY <1>1, <1>2, DaysAre, UpTo
  <2> QED
    BY <2>1, DaysAre
<1>4. PICK s : Adds(s, LastDay)
  BY <1>3
<1>5. DOMAIN s = {0} \cup Days
  BY <1>4, DaysAre
<1>6. s = [e \in {0} \cup Days |-> s[e]]
  BY <1>4, <1>5
<1>7. \A e \in {0} \cup Days : s[e] = IF e = 0 THEN 0 ELSE s[e - 1] + Term(counts, d, e)
  BY <1>4, DaysAre
<1>8. IsSum(s, counts, d)
  BY <1>6, <1>7 DEF IsSum
<1> QED
  BY <1>8

(* ... and is what SumUpTo is.                                             *)
LEMMA SumIs ==
    ASSUME NEW counts \in DayRows, NEW d
    PROVE  \E s : IsSum(s, counts, d) /\ SumUpTo(counts, d) = s[LastDay]
<1>1. PICK s : s = CHOOSE t : IsSum(t, counts, d)
  OBVIOUS
<1>2. IsSum(s, counts, d)
  BY <1>1, SumExists
<1>3. SumUpTo(counts, d) = s[LastDay]
  BY <1>1 DEF SumUpTo, IsSum, Term, LastDay
<1> QED
  BY <1>2, <1>3

(* A number that is no larger, or none.                                    *)
AtMost(v, w) == v = NoData \/ (v \in Nat /\ w \in Nat /\ v <= w)

(* Rows with as many numbers, none of them smaller.                        *)
Below(counts, more) == \A e \in Days : AtMost(counts[e], more[e])

LEMMA TermsGrow ==
    ASSUME NEW counts \in DayRows, NEW more \in DayRows, Below(counts, more), NEW d, NEW e \in Days
    PROVE  Term(counts, d, e) <= Term(more, d, e)
<1>1. CASE e \in Counted(counts, d)
  <2>1. counts[e] \in Nat /\ more[e] \in Nat /\ counts[e] <= more[e]
    BY <1>1 DEF Counted, Below, AtMost, DayRows
  <2>2. e \in Counted(more, d)
    BY <1>1, <2>1, HistoryAssumption DEF Counted, DayRows, HistoryAssumption
  <2> QED
    BY <1>1, <2>1, <2>2 DEF Term
<1>2. CASE e \notin Counted(counts, d)
  <2>1. Term(more, d, e) \in Nat
    BY TermsAre
  <2> QED
    BY <1>2, <2>1 DEF Term
<1> QED
  BY <1>1, <1>2

(* So is their sum.                                                        *)
LEMMA SumsGrow ==
    ASSUME NEW counts \in DayRows, NEW more \in DayRows, Below(counts, more), NEW d
    PROVE  SumUpTo(counts, d) \in Nat /\ SumUpTo(more, d) \in Nat /\ SumUpTo(counts, d) <= SumUpTo(more, d)
<1>1. PICK s : IsSum(s, counts, d) /\ SumUpTo(counts, d) = s[LastDay]
  BY SumIs
<1>2. PICK r : IsSum(r, more, d) /\ SumUpTo(more, d) = r[LastDay]
  BY SumIs
<1> DEFINE S == {n \in 0 .. LastDay : s[n] \in Nat /\ r[n] \in Nat /\ s[n] <= r[n]}
<1>3. \A n \in 0 .. LastDay : /\ s[n] = IF n = 0 THEN 0 ELSE s[n - 1] + Term(counts, d, n)
                              /\ r[n] = IF n = 0 THEN 0 ELSE r[n - 1] + Term(more, d, n)
  BY <1>1, <1>2, DaysAre DEF IsSum
<1>4. 0 \in S
  BY <1>3, DaysAre
<1>5. ASSUME NEW n \in 0 .. LastDay, n \in S, n # LastDay PROVE n + 1 \in S
  <2>1. n + 1 \in 0 .. LastDay /\ n + 1 # 0 /\ (n + 1) - 1 = n /\ n + 1 \in Days
    BY <1>5, DaysAre
  <2>2. PICK x, y : x = Term(counts, d, n + 1) /\ y = Term(more, d, n + 1)
    OBVIOUS
  <2>3. x \in Nat /\ y \in Nat /\ x <= y
    BY <2>1, <2>2, TermsAre, TermsGrow
  <2>4. s[n + 1] = s[n] + x /\ r[n + 1] = r[n] + y
    BY <1>3, <2>1, <2>2
  <2>5. s[n] \in Nat /\ r[n] \in Nat /\ s[n] <= r[n]
    BY <1>5
  <2> QED
    BY <2>1, <2>3, <2>4, <2>5
<1>6. LastDay \in S
  <2> HIDE DEF S
  <2>1. 0 .. LastDay \subseteq S
    BY <1>4, <1>5, DaysAre, UpTo
  <2> QED
    BY <2>1, DaysAre
<1> QED
  BY <1>1, <1>2, <1>6

(* What an answer says grows with the rows, and is a number or none; of a  *)
(* month it says the same on each day of it.                               *)
LEMMA UsageGrows ==
    ASSUME NEW counts \in DayRows, NEW more \in DayRows, Below(counts, more), NEW d \in Days, NEW k \in Keys
    PROVE  AtMost(Usage(counts, d)[k], Usage(more, d)[k])
<1>1. CASE k = "today"
  <2>1. Usage(counts, d)[k] = counts[d] /\ Usage(more, d)[k] = more[d]
    BY <1>1 DEF Usage, Keys
  <2> QED
    BY <2>1 DEF Below
<1>2. CASE k = "month"
  <2>1. Usage(counts, d)[k] = MonthTotal(counts, d) /\ Usage(more, d)[k] = MonthTotal(more, d)
    BY <1>2 DEF Usage, Keys
  <2>2. CASE Counted(counts, d) = {}
    BY <2>1, <2>2 DEF MonthTotal, AtMost
  <2>3. CASE Counted(counts, d) # {}
    <3>1. PICK e \in Days : e \in Counted(counts, d)
      BY <2>3 DEF Counted, DayRows
    <3>2. counts[e] # NoData /\ MonthOf[e] = MonthOf[d]
      BY <3>1 DEF Counted
    <3>3. more[e] \in Nat
      BY <3>2 DEF Below, AtMost
    <3>4. Counted(more, d) # {}
      BY <3>2, <3>3, HistoryAssumption DEF Counted, DayRows, HistoryAssumption
    <3>5. AtMost(SumUpTo(counts, d), SumUpTo(more, d))
      BY SumsGrow DEF AtMost
    <3> QED
      BY <2>1, <2>3, <3>4, <3>5 DEF MonthTotal
  <2> QED
    BY <2>2, <2>3
<1> QED
  BY <1>1, <1>2 DEF Keys

LEMMA UsageOfPeriod ==
    ASSUME NEW counts \in DayRows, NEW d \in Days, NEW e \in Days, NEW k \in Keys, Period(k, d) = Period(k, e)
    PROVE  Usage(counts, d)[k] = Usage(counts, e)[k]
<1>1. CASE k = "today"
  BY <1>1 DEF Period
<1>2. CASE k = "month"
  <2>1. MonthOf[d] = MonthOf[e]
    BY <1>2 DEF Period
  <2>2. Counted(counts, d) = Counted(counts, e)
    BY <2>1 DEF Counted
  <2>3. SumUpTo(counts, d) = SumUpTo(counts, e)
    BY <2>2 DEF SumUpTo
  <2>4. MonthTotal(counts, d) = MonthTotal(counts, e)
    BY <2>2, <2>3 DEF MonthTotal
  <2> QED
    BY <1>2, <2>4 DEF Usage, Keys
<1> QED
  BY <1>1, <1>2 DEF Keys

(* A number an answer says was counted on a day of the period.             *)
LEMMA UsageWasCounted ==
    ASSUME NEW counts \in DayRows, NEW d \in Days, NEW k \in Keys, Usage(counts, d)[k] # NoData
    PROVE  \E e \in Days : counts[e] # NoData /\ Period(k, e) = Period(k, d)
<1>1. CASE k = "today"
  BY <1>1 DEF Usage, Keys, Period
<1>2. CASE k = "month"
  <2>1. Counted(counts, d) # {}
    BY <1>2 DEF Usage, Keys, MonthTotal
  <2>2. PICK e \in Counted(counts, d) : TRUE
    BY <2>1
  <2>3. e \in Days /\ counts[e] # NoData /\ MonthOf[e] = MonthOf[d]
    BY DEF Counted, DayRows
  <2> QED
    BY <1>2, <2>3 DEF Period
<1> QED
  BY <1>1, <1>2 DEF Keys

LEMMA BelowItself ==
    ASSUME NEW counts \in DayRows
    PROVE  Below(counts, counts) /\ \A d \in Days, k \in Keys : AtMost(Usage(counts, d)[k], Usage(counts, d)[k])
<1>1. Below(counts, counts)
  BY DEF Below, AtMost, DayRows
<1> QED
  BY <1>1, UsageGrows

LEMMA AtMostGoesOn ==
    ASSUME NEW u, NEW v, NEW w, AtMost(u, v), AtMost(v, w), u # NoData
    PROVE  AtMost(u, w)
<1>1. u \in Nat /\ v \in Nat /\ u <= v
  BY DEF AtMost
<1>2. w \in Nat /\ v <= w
  BY <1>1, HistoryAssumption DEF AtMost, HistoryAssumption
<1> QED
  BY <1>1, <1>2 DEF AtMost

(* A cached field is of a day and a kind, and no more than LG counted.     *)
FieldOf(counts, k, f) ==
    f.value # NoData => \E e \in Days : f.period = Period(k, e) /\ AtMost(f.value, Usage(counts, e)[k])
FieldsOf(counts, g) == \A k \in Keys : FieldOf(counts, k, g[k])
Books(h, m) == h = [t \in Targets |-> h[t]] /\ \A t \in Targets : FieldsOf(m[t], h[t])

(* An item of an older store, but for its zeros.                           *)
ItemOf(counts, i) ==
    \A k \in Keys : i.day # 0 /\ i.used[k] # 0 =>
        i.day \in Days /\ AtMost(i.used[k], Usage(counts, i.day)[k])

LEMMA FieldsStay ==
    ASSUME NEW counts \in DayRows, NEW more \in DayRows, Below(counts, more), NEW g, FieldsOf(counts, g)
    PROVE  FieldsOf(more, g)
<1>1. SUFFICES ASSUME NEW k \in Keys, g[k].value # NoData
               PROVE  \E e \in Days : g[k].period = Period(k, e) /\ AtMost(g[k].value, Usage(more, e)[k])
  BY DEF FieldsOf, FieldOf
<1>2. PICK e \in Days : g[k].period = Period(k, e) /\ AtMost(g[k].value, Usage(counts, e)[k])
  BY <1>1 DEF FieldsOf, FieldOf
<1>3. AtMost(Usage(counts, e)[k], Usage(more, e)[k])
  BY UsageGrows
<1>4. AtMost(g[k].value, Usage(more, e)[k])
  BY <1>1, <1>2, <1>3, AtMostGoesOn
<1> QED
  BY <1>2, <1>4

LEMMA ItemsStay ==
    ASSUME NEW counts \in DayRows, NEW more \in DayRows, Below(counts, more), NEW i, ItemOf(counts, i)
    PROVE  ItemOf(more, i)
<1>1. SUFFICES ASSUME NEW k \in Keys, i.day # 0, i.used[k] # 0
               PROVE  i.day \in Days /\ AtMost(i.used[k], Usage(more, i.day)[k])
  BY DEF ItemOf
<1>2. i.day \in Days /\ AtMost(i.used[k], Usage(counts, i.day)[k])
  BY <1>1 DEF ItemOf
<1>3. AtMost(Usage(counts, i.day)[k], Usage(more, i.day)[k])
  BY <1>2, UsageGrows
<1>4. CASE i.used[k] = NoData
  BY <1>2, <1>4 DEF AtMost
<1>5. CASE i.used[k] # NoData
  BY <1>2, <1>3, <1>5, AtMostGoesOn
<1> QED
  BY <1>4, <1>5

(* What a start makes of a store and of the older ones.                    *)
LEMMA VerifiedIs ==
    ASSUME NEW counts, NEW g, FieldsOf(counts, g), NEW d
    PROVE  FieldsOf(counts, Verified(g, d))
<1>1. ASSUME NEW k \in Keys PROVE FieldOf(counts, k, Verified(g, d)[k])
  <2>1. Verified(g, d)[k] = g[k] \/ Verified(g, d)[k].value = NoData
    BY DEF Verified, None
  <2> QED
    BY <2>1 DEF FieldsOf, FieldOf
<1> QED
  BY <1>1 DEF FieldsOf

LEMMA MigratedIs ==
    ASSUME NEW counts, NEW g, FieldsOf(counts, g), NEW i, ItemOf(counts, i), NEW d
    PROVE  FieldsOf(counts, Migrated(g, i, d))
<1>1. ASSUME NEW k \in Keys PROVE FieldOf(counts, k, Migrated(g, i, d)[k])
  <2>1. PICK f : f = Migrated(g, i, d)[k]
    OBVIOUS
  <2>2. CASE f = g[k] \/ f = None
    BY <2>1, <2>2 DEF FieldsOf, FieldOf, None
  <2>3. CASE ~(f = g[k] \/ f = None)
    <3>1. /\ i.day # 0 /\ Period(k, i.day) = Period(k, d) /\ i.used[k] # 0
          /\ f = [value |-> i.used[k], period |-> Period(k, d)]
      BY <2>1, <2>3 DEF Migrated, LegacyField
    <3>2. i.day \in Days /\ AtMost(i.used[k], Usage(counts, i.day)[k])
      BY <3>1 DEF ItemOf
    <3>3. f.value = i.used[k] /\ f.period = Period(k, i.day)
      BY <3>1
    <3> QED
      BY <2>1, <3>2, <3>3 DEF FieldOf
  <2> QED
    BY <2>2, <2>3
<1> QED
  BY <1>1 DEF FieldsOf

(* Today's, and what they say.                                             *)
HistoryTypes == day \in Days /\ meter \in [Targets -> DayRows]
LegacyIsRight == \A t \in Targets : ItemOf(meter[t], legacy.byId[t]) /\ ItemOf(meter[t], ItemByAlias(t))
BooksAreRight == Books(history, meter) /\ Books(stored, meter)

LEMMA RestoredIs ==
    ASSUME LegacyIsRight, NEW h, NEW m, m = meter, Books(h, m), NEW d, NEW g, g = Restored(h, d)
    PROVE  Books(g, m)
<1>1. ASSUME NEW t \in Targets PROVE FieldsOf(m[t], g[t])
  <2>1. PICK i, j : i = legacy.byId[t] /\ j = ItemByAlias(t)
    OBVIOUS
  <2>2. ItemOf(m[t], i) /\ ItemOf(m[t], j)
    BY <2>1 DEF LegacyIsRight, ItemOf
  <2>3. FieldsOf(m[t], Verified(h[t], d))
    BY VerifiedIs DEF Books
  <2>4. FieldsOf(m[t], Migrated(Migrated(Verified(h[t], d), i, d), j, d))
    BY <2>2, <2>3, MigratedIs
  <2>5. g[t] = Migrated(Migrated(Verified(h[t], d), i, d), j, d)
    BY <2>1 DEF Restored, Migrated, LegacyField
  <2> QED
    BY <2>4, <2>5
<1>2. g = [t \in Targets |-> g[t]]
  BY DEF Restored
<1> QED
  BY <1>1, <1>2 DEF Books

LEMMA BooksStay ==
    ASSUME NEW h, NEW m \in [Targets -> DayRows], NEW n \in [Targets -> DayRows],
           \A t \in Targets : Below(m[t], n[t]), Books(h, m)
    PROVE  Books(h, n)
<1>1. ASSUME NEW t \in Targets PROVE FieldsOf(n[t], h[t])
  <2>1. m[t] \in DayRows /\ n[t] \in DayRows /\ Below(m[t], n[t]) /\ FieldsOf(m[t], h[t])
    BY DEF Books
  <2> QED
    BY <2>1, FieldsStay
<1> QED
  BY <1>1 DEF Books

LEMMA BooksTake ==
    ASSUME NEW h, NEW m, Books(h, m), NEW t \in Targets, NEW f, FieldsOf(m[t], f),
           NEW g, g = [h EXCEPT ![t] = f]
    PROVE  Books(g, m)
<1>1. g = [u \in Targets |-> IF u = t THEN f ELSE h[u]]
  BY DEF Books
<1>2. g = [u \in Targets |-> g[u]]
  BY <1>1
<1>3. ASSUME NEW u \in Targets PROVE FieldsOf(m[u], g[u])
  <2>1. CASE u = t
    BY <1>1, <2>1
  <2>2. CASE u # t
    BY <1>1, <2>2 DEF Books
  <2> QED
    BY <2>1, <2>2
<1> QED
  BY <1>2, <1>3 DEF Books

(* A poll: what it has left is read in order, and the first half of what   *)
(* it reads is no more than LG has.                                        *)
PollIsRight ==
    /\ poll = [on |-> poll.on, day |-> poll.day, left |-> poll.left, changed |-> poll.changed,
               half |-> poll.half, first |-> poll.first, read |-> poll.read]
    /\ poll.left \subseteq Targets
    /\ poll.on \/ (poll.left = {} /\ poll.read = {})
    /\ poll.on => poll.day \in Days
    /\ \A t \in poll.left : poll.half /\ Reads(t) => AtMost(poll.first, meter[t][poll.day])

(* What is not sure to be marked was read.                                 *)
Doubted(t, k) ==
    \/ <<t, k>> \in restored
    \/ t \in failing
    \/ k \in missing[t]
    \/ history[t][k].value = NoData
FreshOrDoubted ==
    /\ missing = [t \in Targets |-> missing[t]]
    /\ \A t \in Targets, k \in Keys : Doubted(t, k) \/ <<t, k>> \in heard \cup poll.read
    /\ poll.on => \A t \in Targets \ poll.left, k \in Keys : Doubted(t, k) \/ <<t, k>> \in poll.read
    /\ \A t \in Targets \cap refused, k \in Keys : history[t][k].value = NoData

HistoryInv == HistoryTypes /\ LegacyIsRight /\ BooksAreRight /\ PollIsRight /\ FreshOrDoubted

Quiet == UNCHANGED <<day, meter>>

LEMMA MostAreQuiet ==
    ASSUME [HistoryNext]_historyVars
    PROVE  Quiet \/ Midnight \/ \E t \in Targets, d \in Days : Counts(t, d)
<1>1. ASSUME NEW t \in Targets, Resolves(t) \/ ReadStep(t) PROVE Quiet
  BY <1>1 DEF Quiet, Resolves, ReadStep, PassesRefused, MissesIdentity, ReadsHours, Answers, AnswersInPart,
              IsRefused, ReadFails, ServerIsDown, Fails, service
<1>2. ASSUME PollBegins \/ PollEnds \/ PollCancelled \/ SaveDue \/ Crash \/ Reload PROVE Quiet
  BY <1>2 DEF Quiet, PollBegins, PollEnds, PollCancelled, SaveDue, Crash, Reload, Restore, service
<1>3. ASSUME UNCHANGED historyVars PROVE Quiet
  BY <1>3 DEF Quiet, historyVars, service
<1> QED
  BY <1>1, <1>2, <1>3 DEF HistoryNext

(* LG only adds.                                                           *)
LEMMA MeterGrows ==
    ASSUME HistoryTypes, [HistoryNext]_historyVars, NEW m, m = meter, NEW n, n = meter'
    PROVE  /\ HistoryTypes' /\ m \in [Targets -> DayRows] /\ n \in [Targets -> DayRows]
           /\ \A t \in Targets : Below(m[t], n[t])
<1>1. day \in Days /\ m \in [Targets -> DayRows]
  BY DEF HistoryTypes
<1>2. CASE day' \in Days /\ n = m
  <2>1. HistoryTypes'
    BY <1>1, <1>2 DEF HistoryTypes
  <2>2. \A t \in Targets : m[t] \in DayRows
    BY <1>1
  <2> QED
    BY <1>1, <1>2, <2>1, <2>2, BelowItself
<1>3. CASE Quiet
  BY <1>1, <1>2, <1>3 DEF Quiet
<1>4. CASE Midnight
  BY <1>1, <1>2, <1>4 DEF Midnight
<1>5. ASSUME NEW t \in Targets, NEW d \in Days, Counts(t, d)
      PROVE  /\ HistoryTypes' /\ n \in [Targets -> DayRows]
             /\ \A u \in Targets : Below(m[u], n[u])
  <2>1. PICK x : x = IF m[t][d] = NoData THEN 0 ELSE m[t][d] + 1
    OBVIOUS
  <2>2. m[t] \in DayRows /\ m[t][d] \in Nat \cup {NoData}
    BY <1>1 DEF DayRows
  <2>3. x \in Nat /\ AtMost(m[t][d], x)
    BY <2>1, <2>2 DEF AtMost
  <2>4. PICK row : row = [m[t] EXCEPT ![d] = x]
    OBVIOUS
  <2>5. n = [m EXCEPT ![t] = row]
    BY <1>5, <2>1, <2>4 DEF Counts
  <2>6. row \in DayRows
    BY <2>2, <2>3, <2>4 DEF DayRows
  <2>7. n \in [Targets -> DayRows] /\ day' = day
    BY <1>1, <1>5, <2>5, <2>6 DEF Counts
  <2>8. HistoryTypes'
    BY <1>1, <2>7 DEF HistoryTypes
  <2>9. ASSUME NEW u \in Targets PROVE Below(m[u], n[u])
    <3>1. CASE u # t
      <4>1. n[u] = m[u] /\ m[u] \in DayRows
        BY <1>1, <2>5, <3>1
      <4> QED
        BY <4>1, BelowItself
    <3>2. CASE u = t
      <4>1. n[u] = row
        BY <1>1, <2>5, <3>2
      <4>2. ASSUME NEW e \in Days PROVE AtMost(m[t][e], row[e])
        <5>1. CASE e = d
          BY <2>2, <2>3, <2>4, <5>1 DEF DayRows
        <5>2. CASE e # d
          <6>1. row[e] = m[t][e] /\ m[t][e] \in Nat \cup {NoData}
            BY <2>2, <2>4, <5>2 DEF DayRows
          <6> QED
            BY <6>1 DEF AtMost
        <5> QED
          BY <5>1, <5>2
      <4> QED
        BY <3>2, <4>1, <4>2 DEF Below
    <3> QED
      BY <3>1, <3>2
  <2> QED
    BY <2>7, <2>8, <2>9
<1> QED
  BY <1>1, <1>3, <1>4, <1>5, MostAreQuiet

(* The older stores are what they were.                                    *)
LEMMA LegacyStep ==
    ASSUME HistoryInv, [HistoryNext]_historyVars
    PROVE  LegacyIsRight'
<1>1. legacy' = legacy
  <2>1. ASSUME NEW t \in Targets, Resolves(t) \/ ReadStep(t) PROVE legacy' = legacy
    BY <2>1 DEF Resolves, ReadStep, PassesRefused, MissesIdentity, ReadsHours, Answers, AnswersInPart,
                IsRefused, ReadFails, ServerIsDown, Fails, disk
  <2>2. ASSUME PollBegins \/ PollEnds \/ PollCancelled \/ SaveDue \/ Crash \/ Reload \/ Midnight
        PROVE  legacy' = legacy
    BY <2>2 DEF PollBegins, PollEnds, PollCancelled, SaveDue, Crash, Reload, Restore, Midnight, disk
  <2>3. ASSUME NEW t \in Targets, NEW d \in Days, Counts(t, d) PROVE legacy' = legacy
    BY <2>3 DEF Counts, disk
  <2>4. ASSUME UNCHANGED historyVars PROVE legacy' = legacy
    BY <2>4 DEF historyVars, disk
  <2> QED
    BY <2>1, <2>2, <2>3, <2>4 DEF HistoryNext
<1>2. PICK m, n : m = meter /\ n = meter'
  OBVIOUS
<1>3. m \in [Targets -> DayRows] /\ n \in [Targets -> DayRows] /\ \A t \in Targets : Below(m[t], n[t])
  BY <1>2, MeterGrows DEF HistoryInv
<1>4. ASSUME NEW t \in Targets PROVE (ItemOf(meter[t], legacy.byId[t]) /\ ItemOf(meter[t], ItemByAlias(t)))'
  <2>1. PICK i, j : i = legacy.byId[t] /\ j = ItemByAlias(t)
    OBVIOUS
  <2>2. ItemOf(m[t], i) /\ ItemOf(m[t], j)
    BY <1>2, <2>1 DEF HistoryInv, LegacyIsRight, ItemOf
  <2>3. ItemOf(n[t], i) /\ ItemOf(n[t], j)
    BY <1>3, <2>2, ItemsStay
  <2>4. i = legacy'.byId[t] /\ j = ItemByAlias(t)'
    BY <1>1, <2>1 DEF ItemByAlias
  <2> QED
    BY <1>2, <2>3, <2>4 DEF ItemOf
<1> QED
  BY <1>4 DEF LegacyIsRight

(* What an answer says is no more than LG has, of the poll's day.          *)
LEMMA AnswerIs ==
    ASSUME HistoryTypes, PollIsRight, NEW t \in Targets, LastRequest(t),
           NEW counts \in DayRows, Below(counts, meter[t]), NEW k \in Keys
    PROVE  AtMost(Answer(t, counts)[k], Usage(meter[t], poll.day)[k])
<1>1. poll.on /\ poll.day \in Days /\ t \in poll.left /\ Reads(t)
  BY DEF LastRequest, Requested, Reads, PollIsRight
<1>2. meter[t] \in DayRows
  BY DEF HistoryTypes
<1>3. CASE t \in Hourly /\ k = "today"
  <2>1. Answer(t, counts)[k] = poll.first
    BY <1>3 DEF Answer, Keys
  <2>2. AtMost(poll.first, meter[t][poll.day])
    BY <1>1, <1>3 DEF PollIsRight, LastRequest
  <2>3. Usage(meter[t], poll.day)[k] = meter[t][poll.day]
    BY <1>3 DEF Usage, Keys
  <2> QED
    BY <2>1, <2>2, <2>3
<1>4. CASE ~(t \in Hourly /\ k = "today")
  <2>1. PICK d \in Days, more \in DayRows : d = poll.day /\ more = meter[t]
    BY <1>1, <1>2
  <2>2. AtMost(Usage(counts, d)[k], Usage(more, d)[k])
    BY <2>1, UsageGrows
  <2>3. Answer(t, counts)[k] = Usage(counts, d)[k]
    BY <1>4, <2>1 DEF Answer, Usage, Keys
  <2>4. Usage(meter[t], poll.day)[k] = Usage(more, d)[k]
    BY <2>1 DEF Usage, Keys
  <2> QED
    BY <2>2, <2>3, <2>4
<1> QED
  BY <1>3, <1>4

(* What an answer puts in the place of a field.                            *)
LEMMA TakenIs ==
    ASSUME HistoryTypes, PollIsRight, BooksAreRight, NEW t \in Targets, LastRequest(t),
           NEW counts \in DayRows, Below(counts, meter[t]), NEW answer, answer = Answer(t, counts),
           TakesValues(t, answer), NEW m, m = meter, NEW h, h = history'
    PROVE  Books(h, m)
<1>1. PICK g, d : g = history /\ d = poll.day
  OBVIOUS
<1>2. PICK f : f = [k \in Keys |-> IF k \in Valid(answer) THEN Field(answer[k], k) ELSE g[t][k]]
  OBVIOUS
<1>3. Books(g, m)
  BY <1>1 DEF BooksAreRight, Books, FieldsOf, FieldOf
<1>4. h = [g EXCEPT ![t] = f]
  BY <1>1, <1>2 DEF TakesValues
<1>5. d \in Days
  BY <1>1 DEF PollIsRight, LastRequest, Requested, Reads
<1>6. ASSUME NEW k \in Keys PROVE FieldOf(m[t], k, f[k])
  <2>1. CASE k \in Valid(answer)
    <3>1. f[k] = [value |-> answer[k], period |-> Period(k, d)]
      BY <1>1, <1>2, <2>1 DEF Field
    <3>2. AtMost(answer[k], Usage(m[t], d)[k])
      <4>1. AtMost(Answer(t, counts)[k], Usage(meter[t], poll.day)[k])
        BY AnswerIs
      <4>2. Usage(meter[t], poll.day)[k] = Usage(m[t], d)[k]
        BY <1>1
      <4> QED
        BY <4>1, <4>2
    <3>3. f[k].value = answer[k] /\ f[k].period = Period(k, d)
      BY <3>1
    <3> QED
      BY <1>5, <3>2, <3>3 DEF FieldOf
  <2>2. CASE k \notin Valid(answer)
    <3>1. f[k] = g[t][k]
      BY <1>2, <2>2
    <3> QED
      BY <1>3, <3>1 DEF Books, FieldsOf
  <2> QED
    BY <2>1, <2>2
<1>7. FieldsOf(m[t], f)
  BY <1>6 DEF FieldsOf
<1> QED
  BY <1>3, <1>4, <1>7, BooksTake

LEMMA PartsAreBelow ==
    ASSUME HistoryTypes, NEW t \in Targets
    PROVE  /\ meter[t] \in DayRows /\ Below(meter[t], meter[t])
           /\ WithoutTheDay(t) \in DayRows /\ Below(WithoutTheDay(t), meter[t])
<1>1. PICK counts \in DayRows : counts = meter[t]
  BY DEF HistoryTypes
<1>2. PICK d : d = poll.day
  OBVIOUS
<1>3. PICK without : without = [counts EXCEPT ![d] = NoData]
  OBVIOUS
<1>4. without \in DayRows
  BY <1>3 DEF DayRows
<1>5. Below(counts, counts)
  BY BelowItself
<1>6. Below(without, counts)
  BY <1>3 DEF Below, AtMost, DayRows
<1>7. without = WithoutTheDay(t)
  BY <1>1, <1>2, <1>3 DEF WithoutTheDay
<1> QED
  BY <1>1, <1>4, <1>5, <1>6, <1>7

(* What is cached and stored stays within what LG has counted.             *)
LEMMA BooksStep ==
    ASSUME HistoryInv, [HistoryNext]_historyVars
    PROVE  BooksAreRight'
<1> USE DEF HistoryInv
<1>1. PICK m, n, g, h, s, r : /\ m = meter /\ n = meter' /\ g = history /\ h = history'
                              /\ s = stored /\ r = stored'
  OBVIOUS
<1>2. m \in [Targets -> DayRows] /\ n \in [Targets -> DayRows] /\ \A t \in Targets : Below(m[t], n[t])
  BY <1>1, MeterGrows
<1>3. Books(g, m) /\ Books(s, m)
  BY <1>1 DEF BooksAreRight, Books, FieldsOf, FieldOf
<1>4. SUFFICES Books(h, m) /\ Books(r, m)
  <2>1. ASSUME Books(h, m), Books(r, m) PROVE BooksAreRight'
    <3>1. Books(h, n) /\ Books(r, n)
      BY <1>2, <2>1, BooksStay
    <3> QED
      BY <1>1, <3>1 DEF BooksAreRight, Books, FieldsOf, FieldOf
  <2> QED
    BY <2>1
<1>5. CASE h = g /\ r = s
  BY <1>3, <1>5
<1>6. ASSUME NEW t \in Targets, LastRequest(t), NEW counts \in DayRows, Below(counts, meter[t]),
             NEW answer, answer = Answer(t, counts), TakesValues(t, answer) \/ TakesNothing(t, answer), r = s
      PROVE  Books(h, m) /\ Books(r, m)
  <2>1. CASE TakesValues(t, answer)
    BY <1>1, <1>3, <1>6, <2>1, TakenIs
  <2>2. CASE TakesNothing(t, answer)
    BY <1>1, <1>5, <1>6, <2>2 DEF TakesNothing
  <2> QED
    BY <1>6, <2>1, <2>2
<1>7. ASSUME NEW t \in Targets, Answers(t) PROVE Books(h, m) /\ Books(r, m)
  <2>1. PICK counts \in DayRows : counts = meter[t] /\ Below(counts, meter[t])
    BY PartsAreBelow
  <2>2. PICK answer : answer = Answer(t, meter[t])
    OBVIOUS
  <2>3. answer = Answer(t, counts)
    BY <2>1, <2>2 DEF Answer, Usage
  <2>4. TakesValues(t, answer) \/ TakesNothing(t, answer)
    BY <1>7, <2>2 DEF Answers, TakesValues, TakesNothing, Valid, Field, Done
  <2>5. LastRequest(t) /\ r = s
    BY <1>1, <1>7 DEF Answers, disk
  <2> QED
    BY <1>6, <2>1, <2>3, <2>4, <2>5
<1>8. ASSUME NEW t \in Targets, AnswersInPart(t) PROVE Books(h, m) /\ Books(r, m)
  <2>1. PICK counts \in DayRows : counts = WithoutTheDay(t) /\ Below(counts, meter[t])
    BY PartsAreBelow
  <2>2. PICK answer : answer = Answer(t, WithoutTheDay(t))
    OBVIOUS
  <2>3. answer = Answer(t, counts)
    BY <2>1, <2>2 DEF Answer, Usage
  <2>4. TakesValues(t, answer) \/ TakesNothing(t, answer)
    BY <1>8, <2>2 DEF AnswersInPart, TakesValues, TakesNothing, Valid, Field, Done
  <2>5. LastRequest(t) /\ r = s
    BY <1>1, <1>8 DEF AnswersInPart, disk
  <2> QED
    BY <1>6, <2>1, <2>3, <2>4, <2>5
<1>9. ASSUME NEW t \in Targets, IsRefused(t) PROVE Books(h, m) /\ Books(r, m)
  <2>1. PICK f : f = NoHistory
    OBVIOUS
  <2>2. FieldsOf(m[t], f)
    BY <2>1 DEF NoHistory, None, FieldsOf, FieldOf
  <2>3. h = [g EXCEPT ![t] = f] /\ r = s
    BY <1>1, <1>9, <2>1 DEF IsRefused, Fails, disk
  <2> QED
    BY <1>3, <2>2, <2>3, BooksTake
<1>10. ASSUME NEW t \in Targets, Resolves(t) \/ PassesRefused(t) \/ MissesIdentity(t) \/ ReadsHours(t)
                                 \/ ReadFails(t) \/ ServerIsDown(t)
       PROVE  Books(h, m) /\ Books(r, m)
  BY <1>1, <1>5, <1>10 DEF Resolves, PassesRefused, MissesIdentity, ReadsHours, ReadFails, ServerIsDown,
                           Fails, cache, disk
<1>11. ASSUME NEW t \in Targets, NEW d \in Days, Counts(t, d) PROVE Books(h, m) /\ Books(r, m)
  BY <1>1, <1>5, <1>11 DEF Counts, cache, disk
<1>12. CASE Midnight \/ PollBegins \/ PollEnds \/ PollCancelled
  BY <1>1, <1>5, <1>12 DEF Midnight, PollBegins, PollEnds, PollCancelled, cache, disk
<1>13. CASE SaveDue
  BY <1>1, <1>3, <1>13 DEF SaveDue, cache
<1>14. ASSUME NEW c, Books(c, m), Restore(c) PROVE Books(h, m) /\ Books(r, m)
  <2>1. PICK d : d = day
    OBVIOUS
  <2>2. h = Restored(c, d)
    BY <1>1, <1>14, <2>1 DEF Restore, Restored
  <2>3. Books(h, m)
    BY <1>1, <1>14, <2>2, RestoredIs
  <2>4. r = h \/ r = c
    BY <1>1, <1>14 DEF Restore
  <2> QED
    BY <1>14, <2>3, <2>4
<1>15. CASE Crash
  <2>1. Restore(s)
    BY <1>1, <1>15 DEF Crash, Restore, Restored, Complete
  <2> QED
    BY <1>3, <1>14, <2>1
<1>16. CASE Reload
  <2>1. Restore(g)
    BY <1>1, <1>16 DEF Reload, Restore, Restored, Complete
  <2> QED
    BY <1>3, <1>14, <2>1
<1>17. CASE UNCHANGED historyVars
  BY <1>1, <1>5, <1>17 DEF historyVars, cache, disk
<1> QED
  BY <1>7, <1>8, <1>9, <1>10, <1>11, <1>12, <1>13, <1>15, <1>16, <1>17 DEF HistoryNext, ReadStep

(* Done with one appliance, the poll turns to the next, with no half.      *)
LEMMA DoneIs ==
    ASSUME PollIsRight, NEW t \in Targets, Reads(t), NEW ks, NEW b, Done(t, ks, b), UNCHANGED meter
    PROVE  /\ PollIsRight'
           /\ poll.on /\ poll'.on /\ poll'.left = poll.left \ {t} /\ poll'.read = poll.read \cup ({t} \X ks)
<1>1. PICK q : q = poll
  OBVIOUS
<1>2. PICK c : c = (q.changed \/ b)
  OBVIOUS
<1>3. poll' = [on |-> q.on, day |-> q.day, left |-> q.left \ {t}, changed |-> poll'.changed, half |-> FALSE,
               first |-> NoData, read |-> q.read \cup ({t} \X ks)]
  BY <1>1 DEF Done, PollIsRight
<1>4. /\ poll'.on = q.on /\ poll'.day = q.day /\ poll'.left = q.left \ {t} /\ ~poll'.half
      /\ poll'.first = NoData /\ poll'.read = q.read \cup ({t} \X ks)
  BY <1>3
<1>5. q.on /\ q.left \subseteq Targets /\ q.day \in Days
  BY <1>1 DEF PollIsRight, Reads
<1>6. PollIsRight'
  BY <1>3, <1>4, <1>5 DEF PollIsRight
<1> QED
  BY <1>1, <1>4, <1>5, <1>6

LEMMA PollStep ==
    ASSUME HistoryInv, [HistoryNext]_historyVars
    PROVE  PollIsRight'
<1>1. PollIsRight /\ HistoryTypes
  BY DEF HistoryInv
<1>2. PICK m, n : m = meter /\ n = meter'
  OBVIOUS
<1>3. m \in [Targets -> DayRows] /\ n \in [Targets -> DayRows] /\ \A t \in Targets : Below(m[t], n[t])
  BY <1>1, <1>2, MeterGrows
<1>4. CASE UNCHANGED poll
  <2>1. ASSUME NEW t \in poll.left, poll.half, Reads(t) PROVE AtMost(poll.first, n[t][poll.day])
    <3>1. t \in Targets /\ poll.day \in Days
      BY <1>1, <2>1 DEF PollIsRight, Reads
    <3>2. PICK u, d : u = poll.first /\ d = poll.day
      OBVIOUS
    <3>3. AtMost(u, m[t][d])
      BY <1>1, <1>2, <2>1, <3>2 DEF PollIsRight, AtMost
    <3>4. AtMost(m[t][d], n[t][d])
      BY <1>3, <3>1, <3>2 DEF Below
    <3>5. AtMost(u, n[t][d])
      BY <3>3, <3>4, AtMostGoesOn DEF AtMost
    <3> QED
      BY <3>2, <3>5 DEF AtMost
  <2> QED
    BY <1>1, <1>2, <1>4, <2>1 DEF PollIsRight, Reads, AtMost
<1>5. ASSUME NEW t \in Targets, NEW d \in Days, Counts(t, d) PROVE PollIsRight'
  BY <1>4, <1>5 DEF Counts
<1>6. CASE Midnight \/ SaveDue \/ UNCHANGED historyVars \/ \E t \in Targets : Resolves(t)
  BY <1>4, <1>6 DEF Midnight, SaveDue, historyVars, Resolves
<1>7. CASE PollEnds \/ PollCancelled \/ Crash \/ Reload
  <2>1. poll' = NoPoll
    BY <1>7 DEF PollEnds, PollCancelled, Crash, Reload, Restore
  <2> QED
    BY <2>1 DEF NoPoll, PollIsRight
<1>8. CASE PollBegins
  <2>1. poll' = [on |-> TRUE, day |-> day, left |-> Targets, changed |-> FALSE, half |-> FALSE,
                 first |-> NoData, read |-> {}]
    BY <1>8 DEF PollBegins, NoPoll
  <2> QED
    BY <1>1, <2>1 DEF PollIsRight, HistoryTypes
<1>9. ASSUME NEW t \in Targets, ReadsHours(t) PROVE PollIsRight'
  <2>1. PICK u : u = meter[t][poll.day]
    OBVIOUS
  <2>2. poll' = [on |-> poll.on, day |-> poll.day, left |-> poll.left, changed |-> poll.changed, half |-> TRUE,
                 first |-> u, read |-> poll.read]
    BY <1>1, <1>9, <2>1 DEF ReadsHours, PollIsRight
  <2>3. /\ poll'.on = poll.on /\ poll'.day = poll.day /\ poll'.left = poll.left /\ poll'.half
        /\ poll'.first = u /\ meter' = meter
    <3>1. meter' = meter
      BY <1>9 DEF ReadsHours, service
    <3> QED
      BY <2>2, <3>1
  <2>4. Reads(t) /\ poll.on /\ poll.day \in Days
    BY <1>1, <1>9 DEF ReadsHours, Requested, Reads, PollIsRight
  <2>5. AtMost(u, u)
    BY <1>1, <2>1, <2>4 DEF HistoryTypes, DayRows, AtMost
  <2>6. ASSUME NEW v \in poll'.left, Reads(v)' PROVE v = t
    <3>1. v \in poll.left /\ t \in poll.left /\ t <= v /\ v <= t
      BY <2>3, <2>4, <2>6 DEF Reads
    <3>2. v \in Nat /\ t \in Nat
      BY <1>1, <3>1, HistoryAssumption DEF PollIsRight, HistoryAssumption
    <3> QED
      BY <3>1, <3>2
  <2>7. \A v \in poll'.left : Reads(v)' => AtMost(poll'.first, meter'[v][poll'.day])
    BY <2>1, <2>3, <2>5, <2>6 DEF AtMost
  <2> QED
    BY <1>1, <2>2, <2>3, <2>7 DEF PollIsRight, Reads
<1>10. ASSUME NEW t \in Targets, PassesRefused(t) \/ MissesIdentity(t) \/ Answers(t) \/ AnswersInPart(t)
                                 \/ IsRefused(t) \/ ReadFails(t)
       PROVE  PollIsRight'
  <2>1. Reads(t) /\ UNCHANGED meter
    BY <1>10 DEF PassesRefused, MissesIdentity, Answers, AnswersInPart, IsRefused, ReadFails, Fails, LastRequest,
                 Requested, service
  <2>2. \E ks, b : Done(t, ks, b)
    BY <1>10 DEF PassesRefused, MissesIdentity, Answers, AnswersInPart, TakesValues, TakesNothing, IsRefused,
                 ReadFails
  <2> QED
    BY <1>1, <2>1, <2>2, DoneIs
<1>11. ASSUME NEW t \in Targets, ServerIsDown(t) PROVE PollIsRight'
  <2>1. poll' = [on |-> poll.on, day |-> poll.day, left |-> {}, changed |-> poll.changed, half |-> poll.half,
                 first |-> poll.first, read |-> poll.read]
    BY <1>1, <1>11 DEF ServerIsDown, PollIsRight
  <2> QED
    BY <1>1, <2>1 DEF PollIsRight
<1> QED
  BY <1>5, <1>6, <1>7, <1>8, <1>9, <1>10, <1>11 DEF HistoryNext, ReadStep

(* Nothing changes of the cache, and what was read stays read.             *)
LEMMA FreshStays ==
    ASSUME FreshOrDoubted, UNCHANGED cache, heard \cup poll.read \subseteq (heard \cup poll.read)',
           poll'.on => \/ poll.on /\ poll'.left = poll.left /\ poll'.read = poll.read
                       \/ poll'.left = Targets
    PROVE  FreshOrDoubted'
<1>1. UNCHANGED <<history, restored, refused, failing, missing>>
  BY DEF cache
<1>2. \A t \in Targets, k \in Keys : Doubted(t, k) <=> Doubted(t, k)'
  BY <1>1 DEF Doubted
<1>3. missing' = [t \in Targets |-> missing'[t]] /\ \A t \in Targets \cap refused', k \in Keys : history'[t][k].value = NoData
  BY <1>1 DEF FreshOrDoubted
<1>4. \A t \in Targets, k \in Keys : (Doubted(t, k) \/ <<t, k>> \in heard \cup poll.read)'
  BY <1>2 DEF FreshOrDoubted
<1>5. ASSUME poll'.on, NEW t \in Targets \ poll'.left, NEW k \in Keys PROVE (Doubted(t, k) \/ <<t, k>> \in poll.read)'
  BY <1>2, <1>5 DEF FreshOrDoubted
<1> QED
  BY <1>3, <1>4, <1>5 DEF FreshOrDoubted

(* One appliance was dealt with: its fields are doubted or were read.      *)
LEMMA FreshDone ==
    ASSUME FreshOrDoubted, PollIsRight, NEW t \in Targets, Reads(t), NEW ks, NEW b, Done(t, ks, b),
           UNCHANGED <<meter, heard>>,
           \A k \in Keys : Doubted(t, k)' \/ k \in ks,
           \A u \in Targets, k \in Keys : u # t => (Doubted(u, k) => Doubted(u, k)'),
           missing' = [u \in Targets |-> missing'[u]],
           \A u \in Targets \cap refused', k \in Keys : history'[u][k].value = NoData
    PROVE  FreshOrDoubted'
<1>1. poll.on /\ poll'.on /\ poll'.left = poll.left \ {t} /\ poll'.read = poll.read \cup ({t} \X ks)
  BY DoneIs
<1>2. \A k \in Keys : Doubted(t, k)' \/ <<t, k>> \in poll'.read
  BY <1>1
<1>3. ASSUME NEW u \in Targets, NEW k \in Keys PROVE (Doubted(u, k) \/ <<u, k>> \in heard \cup poll.read)'
  <2>1. CASE u = t
    BY <1>2, <2>1 DEF Doubted
  <2>2. CASE u # t
    BY <1>1, <2>2 DEF FreshOrDoubted
  <2> QED
    BY <2>1, <2>2
<1>4. ASSUME NEW u \in Targets \ poll'.left, NEW k \in Keys PROVE (Doubted(u, k) \/ <<u, k>> \in poll.read)'
  <2>1. CASE u = t
    BY <1>2, <2>1 DEF Doubted
  <2>2. CASE u # t
    <3>1. u \in Targets \ poll.left
      BY <1>1, <2>2
    <3> QED
      BY <1>1, <2>2, <3>1 DEF FreshOrDoubted
  <2> QED
    BY <2>1, <2>2
<1> QED
  BY <1>3, <1>4 DEF FreshOrDoubted

LEMMA FreshAnswered ==
    ASSUME FreshOrDoubted, PollIsRight, BooksAreRight, NEW t \in Targets, LastRequest(t), NEW answer,
           TakesValues(t, answer) \/ TakesNothing(t, answer), UNCHANGED <<meter, heard, refused>>
    PROVE  FreshOrDoubted'
<1>1. Reads(t) /\ t \notin refused
  BY DEF LastRequest, Requested
<1>2. missing = [u \in Targets |-> missing[u]] /\ history = [u \in Targets |-> history[u]]
  BY DEF FreshOrDoubted, BooksAreRight, Books
<1>3. CASE TakesValues(t, answer)
  <2>1. PICK ks : ks = Valid(answer)
    OBVIOUS
  <2>2. PICK f : f = [k \in Keys |-> IF k \in Valid(answer) THEN Field(answer[k], k) ELSE history[t][k]]
    OBVIOUS
  <2>3. history' = [history EXCEPT ![t] = f]
    BY <1>3, <2>2 DEF TakesValues
  <2>4. /\ restored' = restored \ ({t} \X ks) /\ missing' = [missing EXCEPT ![t] = Keys \ ks]
        /\ failing' = failing \ {t} /\ Done(t, ks, TRUE)
    BY <1>3, <2>1 DEF TakesValues, Done
  <2>5. \A k \in Keys : Doubted(t, k)' \/ k \in ks
    BY <1>2, <2>4 DEF Doubted
  <2>6. ASSUME NEW u \in Targets, NEW k \in Keys, u # t, Doubted(u, k) PROVE Doubted(u, k)'
    <3>1. missing'[u] = missing[u] /\ history'[u] = history[u]
      BY <1>2, <2>3, <2>4, <2>6
    <3> QED
      BY <2>4, <2>6, <3>1 DEF Doubted
  <2>7. missing' = [u \in Targets |-> missing'[u]]
    <3>1. missing' = [u \in Targets |-> IF u = t THEN Keys \ ks ELSE missing[u]]
      BY <1>2, <2>4
    <3> QED
      BY <3>1
  <2>8. ASSUME NEW u \in Targets \cap refused', NEW k \in Keys PROVE history'[u][k].value = NoData
    <3>1. u # t /\ u \in Targets \cap refused
      BY <1>1, <2>8
    <3>2. history'[u] = history[u]
      BY <1>2, <2>3, <3>1
    <3> QED
      BY <3>1, <3>2 DEF FreshOrDoubted
  <2> QED
    BY <1>1, <2>4, <2>5, <2>6, <2>7, <2>8, FreshDone
<1>4. CASE TakesNothing(t, answer)
  <2>1. /\ failing' = failing \cup {t} /\ missing' = [missing EXCEPT ![t] = Keys]
        /\ Done(t, {}, FALSE) /\ UNCHANGED <<history, restored>>
    BY <1>4 DEF TakesNothing
  <2>2. \A k \in Keys : Doubted(t, k)'
    BY <2>1 DEF Doubted
  <2>3. ASSUME NEW u \in Targets, NEW k \in Keys, u # t, Doubted(u, k) PROVE Doubted(u, k)'
    <3>1. missing'[u] = missing[u]
      BY <1>2, <2>1, <2>3
    <3> QED
      BY <2>1, <2>3, <3>1 DEF Doubted
  <2>4. missing' = [u \in Targets |-> missing'[u]]
    <3>1. missing' = [u \in Targets |-> IF u = t THEN Keys ELSE missing[u]]
      BY <1>2, <2>1
    <3> QED
      BY <3>1
  <2>5. \A u \in Targets \cap refused', k \in Keys : history'[u][k].value = NoData
    BY <2>1 DEF FreshOrDoubted
  <2> QED
    BY <1>1, <2>1, <2>2, <2>3, <2>4, <2>5, FreshDone
<1> QED
  BY <1>3, <1>4

LEMMA FreshFailed ==
    ASSUME FreshOrDoubted, PollIsRight, BooksAreRight, NEW t \in Targets,
           PassesRefused(t) \/ MissesIdentity(t) \/ ReadFails(t)
    PROVE  FreshOrDoubted'
<1>1. /\ Reads(t) /\ Done(t, {}, FALSE) /\ UNCHANGED <<meter, heard, history, restored, refused, missing>>
      /\ failing \subseteq failing' /\ t \in failing' \cup refused
  BY DEF PassesRefused, MissesIdentity, ReadFails, Fails, Requested, service, cache
<1>2. \A u \in Targets, k \in Keys : Doubted(u, k) => Doubted(u, k)'
  BY <1>1 DEF Doubted
<1>3. \A k \in Keys : Doubted(t, k)'
  BY <1>1 DEF Doubted, FreshOrDoubted
<1>4. missing' = [u \in Targets |-> missing'[u]] /\ \A u \in Targets \cap refused', k \in Keys : history'[u][k].value = NoData
  BY <1>1 DEF FreshOrDoubted
<1> QED
  BY <1>1, <1>2, <1>3, <1>4, FreshDone

LEMMA FreshRefused ==
    ASSUME FreshOrDoubted, PollIsRight, BooksAreRight, NEW t \in Targets, IsRefused(t)
    PROVE  FreshOrDoubted'
<1>1. PICK f, b : f = NoHistory /\ b = (history[t] # NoHistory)
  OBVIOUS
<1>2. \A k \in Keys : f[k].value = NoData
  BY <1>1 DEF NoHistory, None
<1>3. /\ Reads(t) /\ Done(t, {}, b) /\ UNCHANGED <<meter, heard>> /\ refused' = refused \cup {t}
      /\ failing' = failing \ {t} /\ missing' = [missing EXCEPT ![t] = Keys]
      /\ history' = [history EXCEPT ![t] = f] /\ restored' = {g \in restored : g[1] # t}
  BY <1>1 DEF IsRefused, Fails, Requested, service, Done
<1>4. missing = [u \in Targets |-> missing[u]] /\ history = [u \in Targets |-> history[u]]
  BY DEF FreshOrDoubted, BooksAreRight, Books
<1>5. \A k \in Keys : Doubted(t, k)'
  BY <1>3, <1>4 DEF Doubted
<1>6. ASSUME NEW u \in Targets, NEW k \in Keys, u # t, Doubted(u, k) PROVE Doubted(u, k)'
  <2>1. missing'[u] = missing[u] /\ history'[u] = history[u]
    BY <1>3, <1>4, <1>6
  <2>2. <<u, k>>[1] = u
    OBVIOUS
  <2> QED
    BY <1>3, <1>6, <2>1, <2>2 DEF Doubted
<1>7. missing' = [u \in Targets |-> missing'[u]]
  <2>1. missing' = [u \in Targets |-> IF u = t THEN Keys ELSE missing[u]]
    BY <1>3, <1>4
  <2> QED
    BY <2>1
<1>8. ASSUME NEW u \in Targets \cap refused', NEW k \in Keys PROVE history'[u][k].value = NoData
  <2>1. CASE u = t
    BY <1>2, <1>3, <1>4, <2>1
  <2>2. CASE u # t
    <3>1. history'[u] = history[u] /\ u \in Targets \cap refused
      BY <1>3, <1>4, <1>8, <2>2
    <3> QED
      BY <3>1 DEF FreshOrDoubted
  <2> QED
    BY <2>1, <2>2
<1> QED
  BY <1>3, <1>5, <1>6, <1>7, <1>8, FreshDone

(* LG is down.                                                             *)
LEMMA FreshDown ==
    ASSUME FreshOrDoubted, PollIsRight, NEW t \in Targets, ServerIsDown(t)
    PROVE  FreshOrDoubted'
<1>1. /\ poll.on /\ UNCHANGED <<heard, history, restored, refused, missing>>
      /\ failing' = failing \cup {t} \cup (poll.left \ refused)
  BY DEF ServerIsDown, Fails, Requested, Reads, PollIsRight
<1>2. poll' = [on |-> poll.on, day |-> poll.day, left |-> {}, changed |-> poll.changed, half |-> poll.half,
               first |-> poll.first, read |-> poll.read]
  BY DEF ServerIsDown, PollIsRight
<1>3. poll'.left = {} /\ poll'.read = poll.read
  BY <1>2
<1>4. \A u \in Targets, k \in Keys : Doubted(u, k) => Doubted(u, k)'
  BY <1>1 DEF Doubted
<1>5. \A u \in poll.left \cap Targets, k \in Keys : Doubted(u, k)'
  BY <1>1 DEF Doubted, FreshOrDoubted
<1>6. \A u \in Targets, k \in Keys : Doubted(u, k)' \/ <<u, k>> \in poll'.read
  BY <1>1, <1>3, <1>4, <1>5 DEF FreshOrDoubted
<1>7. missing' = [u \in Targets |-> missing'[u]] /\ \A u \in Targets \cap refused', k \in Keys : history'[u][k].value = NoData
  BY <1>1 DEF FreshOrDoubted
<1> QED
  BY <1>6, <1>7 DEF FreshOrDoubted

(* A start: what it found is marked as restored.                           *)
LEMMA FreshRestored ==
    ASSUME NEW c, Restore(c)
    PROVE  FreshOrDoubted'
<1>1. /\ restored' = {f \in Targets \X Keys : history'[f[1]][f[2]] # None}
      /\ refused' = {} /\ missing' = [t \in Targets |-> {}] /\ poll' = NoPoll
  BY DEF Restore
<1>2. ~poll'.on
  BY <1>1 DEF NoPoll
<1>3. ASSUME NEW t \in Targets, NEW k \in Keys PROVE Doubted(t, k)'
  <2>1. CASE history'[t][k] = None
    BY <2>1 DEF Doubted, None
  <2>2. CASE history'[t][k] # None
    <3>1. <<t, k>> \in restored'
      BY <1>1, <2>2
    <3> QED
      BY <3>1 DEF Doubted
  <2> QED
    BY <2>1, <2>2
<1> QED
  BY <1>1, <1>2, <1>3 DEF FreshOrDoubted

(* Every step keeps what is not doubted among what was read.               *)
LEMMA FreshStep ==
    ASSUME HistoryInv, [HistoryNext]_historyVars
    PROVE  FreshOrDoubted'
<1>1. FreshOrDoubted /\ PollIsRight /\ BooksAreRight /\ HistoryTypes
  BY DEF HistoryInv
<1>2. ASSUME NEW t \in Targets, Answers(t) \/ AnswersInPart(t) PROVE FreshOrDoubted'
  <2>1. LastRequest(t) /\ UNCHANGED <<meter, heard, refused>>
    BY <1>2 DEF Answers, AnswersInPart, service
  <2>2. \E answer : TakesValues(t, answer) \/ TakesNothing(t, answer)
    BY <1>2 DEF Answers, AnswersInPart
  <2> QED
    BY <1>1, <2>1, <2>2, FreshAnswered
<1>3. ASSUME NEW t \in Targets, NEW d \in Days, Counts(t, d) PROVE FreshOrDoubted'
  BY <1>1, <1>3, FreshStays DEF Counts
<1>4. CASE Midnight \/ SaveDue \/ UNCHANGED historyVars \/ \E t \in Targets : Resolves(t)
  <2>1. UNCHANGED <<cache, poll, heard>>
    BY <1>4 DEF Midnight, SaveDue, historyVars, Resolves
  <2> QED
    BY <1>1, <2>1, FreshStays
<1>5. ASSUME NEW t \in Targets, ReadsHours(t) PROVE FreshOrDoubted'
  <2>1. UNCHANGED <<cache, heard>>
    BY <1>5 DEF ReadsHours
  <2>2. poll'.on = poll.on /\ poll'.left = poll.left /\ poll'.read = poll.read
    BY <1>1, <1>5 DEF ReadsHours, PollIsRight
  <2> QED
    BY <1>1, <2>1, <2>2, FreshStays
<1>6. CASE PollBegins
  <2>1. UNCHANGED <<cache, heard>> /\ ~poll.on
    BY <1>6 DEF PollBegins
  <2>2. poll' = [on |-> TRUE, day |-> day, left |-> Targets, changed |-> FALSE, half |-> FALSE,
                 first |-> NoData, read |-> {}]
    BY <1>6 DEF PollBegins, NoPoll
  <2>3. poll'.on /\ poll'.left = Targets /\ poll'.read = {}
    BY <2>2
  <2> QED
    <3>1. poll.read = {}
      BY <1>1, <2>1 DEF PollIsRight
    <3> QED
      BY <1>1, <2>1, <2>3, <3>1, FreshStays
<1>7. CASE PollEnds
  <2>1. /\ UNCHANGED cache /\ poll.on /\ poll.left = {} /\ heard' = poll.read /\ poll' = NoPoll
    BY <1>7 DEF PollEnds
  <2> QED
    BY <1>1, <2>1 DEF FreshOrDoubted, Doubted, cache, NoPoll
<1>8. CASE PollCancelled
  <2>1. UNCHANGED cache /\ heard' = heard \cup poll.read /\ poll' = NoPoll
    BY <1>8 DEF PollCancelled
  <2>2. ~poll'.on /\ poll'.read = {}
    BY <2>1 DEF NoPoll
  <2> QED
    BY <1>1, <2>1, <2>2, FreshStays
<1>9. CASE Crash \/ Reload
  <2>1. \E c : Restore(c)
    BY <1>9 DEF Crash, Reload
  <2> QED
    BY <2>1, FreshRestored
<1>10. ASSUME NEW t \in Targets, ReadStep(t) PROVE FreshOrDoubted'
  BY <1>1, <1>2, <1>5, <1>10, FreshFailed, FreshRefused, FreshDown DEF ReadStep
<1> QED
  BY <1>3, <1>4, <1>6, <1>7, <1>8, <1>9, <1>10 DEF HistoryNext

(* What an old version stored on the first day, but for its zeros, is what *)
(* LG had counted.                                                         *)
LEMMA OldItemIs ==
    ASSUME NEW counts \in DayRows
    PROVE  ItemOf(counts, OldItem(counts)) /\ ItemOf(counts, NoItem)
<1>1. 1 \in Days
  BY DaysAre
<1>2. OldItem(counts).day = 1
  BY DEF OldItem
<1>3. ASSUME NEW k \in Keys, OldItem(counts).used[k] # 0
      PROVE  AtMost(OldItem(counts).used[k], Usage(counts, 1)[k])
  <2>1. OldItem(counts).used[k] = Usage(counts, 1)[k]
    BY <1>3 DEF OldItem
  <2> QED
    BY <1>1, <2>1, BelowItself
<1>4. ItemOf(counts, OldItem(counts))
  BY <1>1, <1>2, <1>3 DEF ItemOf
<1>5. ItemOf(counts, NoItem)
  BY DEF ItemOf, NoItem
<1> QED
  BY <1>4, <1>5

LEMMA LegacyStarts ==
    ASSUME HistoryInit
    PROVE  HistoryTypes /\ LegacyIsRight
<1>1. HistoryTypes
  <2>1. day \in Days
    BY DaysAre DEF HistoryInit
  <2>2. PICK m : m = meter
    OBVIOUS
  <2>3. m \in [Targets -> {[d \in Days |-> IF d = 1 THEN v ELSE NoData] : v \in {NoData, 0, 1}}]
    BY <2>2 DEF HistoryInit
  <2>4. m = [t \in Targets |-> m[t]]
    BY <2>3
  <2>5. ASSUME NEW t \in Targets PROVE m[t] \in DayRows
    <3>1. PICK v \in {NoData, 0, 1} : m[t] = [d \in Days |-> IF d = 1 THEN v ELSE NoData]
      BY <2>3
    <3> QED
      BY <3>1 DEF DayRows
  <2> QED
    BY <2>1, <2>2, <2>4, <2>5 DEF HistoryTypes
<1>2. PICK old \in [Targets -> {TRUE, FALSE}], alias \in [Targets -> Aliases],
           writer \in [Aliases -> Targets \cup {NoData}] :
          /\ \A a \in Aliases : writer[a] # NoData => alias[writer[a]] = a
          /\ legacy = [alias |-> alias,
                       byId |-> [t \in Targets |-> IF old[t] THEN OldItem(meter[t]) ELSE NoItem],
                       byAlias |-> [a \in Aliases |->
                           IF writer[a] = NoData THEN NoItem ELSE OldItem(meter[writer[a]])]]
  BY DEF HistoryInit
<1>3. /\ legacy.alias = alias
      /\ legacy.byId = [t \in Targets |-> IF old[t] THEN OldItem(meter[t]) ELSE NoItem]
      /\ legacy.byAlias = [a \in Aliases |->
             IF writer[a] = NoData THEN NoItem ELSE OldItem(meter[writer[a]])]
  BY <1>2
<1>4. ASSUME NEW t \in Targets
      PROVE  ItemOf(meter[t], legacy.byId[t]) /\ ItemOf(meter[t], ItemByAlias(t))
  <2>1. PICK counts \in DayRows : counts = meter[t]
    BY <1>1 DEF HistoryTypes
  <2>2. PICK o, i, j : o = OldItem(counts) /\ i = legacy.byId[t] /\ j = ItemByAlias(t)
    OBVIOUS
  <2>3. ItemOf(counts, o) /\ ItemOf(counts, NoItem)
    BY <2>2, OldItemIs
  <2>4. o = OldItem(meter[t])
    BY <2>1, <2>2 DEF OldItem, Usage
  <2>5. i = o \/ i = NoItem
    BY <1>3, <2>2, <2>4
  <2>6. j = o \/ j = NoItem
    <3>1. CASE \E u \in Targets \ {t} : legacy.alias[u] = legacy.alias[t]
      BY <2>2, <3>1 DEF ItemByAlias
    <3>2. CASE ~\E u \in Targets \ {t} : legacy.alias[u] = legacy.alias[t]
      <4>1. j = legacy.byAlias[alias[t]] /\ alias[t] \in Aliases
        BY <1>3, <2>2, <3>2 DEF ItemByAlias
      <4>2. CASE writer[alias[t]] = NoData
        BY <1>3, <4>1, <4>2
      <4>3. CASE writer[alias[t]] # NoData
        <5>1. writer[alias[t]] \in Targets /\ alias[writer[alias[t]]] = alias[t]
          BY <1>2, <4>1, <4>3
        <5>2. writer[alias[t]] = t
          BY <1>3, <3>2, <5>1
        <5>3. j = OldItem(meter[t])
          BY <1>3, <4>1, <4>3, <5>2
        <5> QED
          BY <2>4, <5>3
      <4> QED
        BY <4>2, <4>3
    <3> QED
      BY <3>1, <3>2
  <2>7. ItemOf(counts, i) /\ ItemOf(counts, j)
    BY <2>3, <2>5, <2>6
  <2> QED
    BY <2>1, <2>2, <2>7 DEF ItemOf
<1> QED
  BY <1>1, <1>4 DEF LegacyIsRight

LEMMA HistoryStarts == HistoryInit => HistoryInv
<1> SUFFICES ASSUME HistoryInit PROVE HistoryInv
  OBVIOUS
<1>1. HistoryTypes /\ LegacyIsRight
  BY LegacyStarts
<1>2. BooksAreRight
  <2>1. PICK h, m, g : h = [t \in Targets |-> NoHistory] /\ m = meter /\ g = Restored(h, 1)
    OBVIOUS
  <2>2. h = [t \in Targets |-> h[t]] /\ \A t \in Targets, k \in Keys : h[t][k].value = NoData
    BY <2>1 DEF NoHistory, None
  <2>3. Books(h, m)
    BY <2>2 DEF Books, FieldsOf, FieldOf
  <2>4. Books(g, m)
    BY <1>1, <2>1, <2>3, RestoredIs
  <2>5. history = g /\ stored = g
    BY <2>1 DEF HistoryInit, Restored
  <2> QED
    BY <2>1, <2>4, <2>5 DEF BooksAreRight, Books, FieldsOf, FieldOf
<1>3. PollIsRight
  BY DEF HistoryInit, NoPoll, PollIsRight
<1>4. FreshOrDoubted
  <2>1. /\ restored = {f \in Targets \X Keys : history[f[1]][f[2]] # None}
        /\ refused = {} /\ missing = [t \in Targets |-> {}] /\ ~poll.on
    BY DEF HistoryInit, NoPoll
  <2>2. ASSUME NEW t \in Targets, NEW k \in Keys PROVE Doubted(t, k)
    <3>1. CASE history[t][k] = None
      BY <3>1 DEF Doubted, None
    <3>2. CASE history[t][k] # None
      BY <2>1, <3>2 DEF Doubted
    <3> QED
      BY <3>1, <3>2
  <2> QED
    BY <2>1, <2>2 DEF FreshOrDoubted
<1> QED
  BY <1>1, <1>2, <1>3, <1>4 DEF HistoryInv

(* The invariant of the energy history: what is cached, stored or was left *)
(* by an older version is no more than LG has counted of that period, and  *)
(* what is not marked was read (the polls of coordinator_wideq.py, their   *)
(* failures, restarts).                                                    *)
THEOREM HistoryInvariant == HistorySpec => []HistoryInv
<1>1. HistoryInv /\ [HistoryNext]_historyVars => HistoryInv'
  <2> SUFFICES ASSUME HistoryInv, [HistoryNext]_historyVars PROVE HistoryInv'
    OBVIOUS
  <2>1. HistoryTypes'
    BY MeterGrows DEF HistoryInv
  <2> QED
    BY <2>1, LegacyStep, BooksStep, PollStep, FreshStep DEF HistoryInv
<1> QED
  BY <1>1, HistoryStarts, PTL DEF HistorySpec

(* The history shows only what was measured in the period it is shown for, *)
(* and what it does not mark as stale was read since the last failure      *)
(* (energy_history_value, energy_history_attributes).                      *)
THEOREM HistoryStaysHonest == HistorySpec => []HistoryIsHonest
<1>1. HistoryInv => HistoryIsHonest
  <2> SUFFICES ASSUME HistoryInv PROVE ShownWasMeasured /\ UnmarkedIsFresh
    BY DEF HistoryIsHonest
  <2>1. ASSUME NEW t \in Targets, NEW k \in Keys, Displayed(t, k) # NoData
        PROVE  /\ \E e \in Days : meter[t][e] # NoData /\ Period(k, e) = Period(k, day)
               /\ Displayed(t, k) <= Usage(meter[t], day)[k]
    <3>0. PICK d \in Days, counts \in DayRows : d = day /\ counts = meter[t]
      BY DEF HistoryInv, HistoryTypes
    <3>f. PICK f : f = history[t][k]
      OBVIOUS
    <3>1. d = day /\ counts = meter[t] /\ f = history[t][k]
      BY <3>0, <3>f
    <3>2. f.value # NoData /\ f.period = Period(k, d) /\ Displayed(t, k) = f.value
      BY <2>1, <3>1 DEF Displayed, ShownOn
    <3>3. FieldOf(counts, k, f)
      BY <3>1 DEF HistoryInv, BooksAreRight, Books, FieldsOf, FieldOf
    <3>4. PICK e \in Days : f.period = Period(k, e) /\ AtMost(f.value, Usage(counts, e)[k])
      BY <3>2, <3>3 DEF FieldOf
    <3>5. Usage(counts, e)[k] = Usage(counts, d)[k]
      BY <3>2, <3>4, UsageOfPeriod
    <3>6. Usage(counts, d)[k] \in Nat /\ f.value <= Usage(counts, d)[k]
      BY <3>2, <3>4, <3>5 DEF AtMost
    <3>7. \E c \in Days : counts[c] # NoData /\ Period(k, c) = Period(k, d)
      <4>1. Usage(counts, d)[k] # NoData
        BY <3>6, HistoryAssumption
      <4> QED
        BY <4>1, UsageWasCounted
    <3>8. Usage(meter[t], day)[k] = Usage(counts, d)[k]
      BY <3>1, Zenon
    <3> QED
      BY <3>1, <3>2, <3>6, <3>7, <3>8
  <2>2. ASSUME NEW t \in Targets, NEW k \in Keys, ~Stale(t, k)
        PROVE  <<t, k>> \in heard \cup poll.read
    <3>1. ~Doubted(t, k)
      BY <2>2 DEF Stale, Doubted, Displayed, ShownOn
    <3> QED
      BY <3>1 DEF HistoryInv, FreshOrDoubted
  <2> QED
    BY <2>1, <2>2 DEF ShownWasMeasured, UnmarkedIsFresh
<1> QED
  BY <1>1, HistoryInvariant, PTL

=============================================================================
