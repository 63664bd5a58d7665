---------------------------- MODULE DevicesProofs ----------------------------
(***************************************************************************)
(* Proofs about the parts of the devices run: the pairing of PAT and WideQ *)
(* devices (DeviceIdentity), for any devices, names and stored map; the    *)
(* composite commands (CompositeControl), for any operations and values;   *)
(* the start of the entry (Startup), for any devices, inventory and        *)
(* bounds; a device's status and the push client (PatDevice), for any      *)
(* fields, clients, refreshes and pauses: what a pause has stopped stays   *)
(* silent, and no old value is left but where refreshes cross.             *)
(***************************************************************************)
EXTENDS DeviceIdentity, PatDevice, CompositeControl, Startup, SequenceTheorems, TLAPS

----------------------------------------------------------------------------
(* The pairing of devices.                                                 *)
Maps == [PatIds -> WideqIds \cup {NoId}]
Lists == [PatIds -> Names \cup {NoName}]
Snapshots == [WideqIds -> Names \cup {NoName}]

(* A match is one device that is offered: to an unpaired device of its name*)
(* that no other unpaired device has.                                      *)
LEMMA MatchIsOffered ==
    ASSUME NEW pats \in Lists, NEW pairs \in Maps, NEW listing \in Snapshots,
           NEW p \in Matched(pats, pairs, listing)
    PROVE  LET w == PatToWideq(pats, pairs, listing)[p] IN
           /\ w \in WideqIds
           /\ listing[w] # NoName /\ listing[w] = pats[p]
           /\ \A q \in Persisted(pats, pairs) : pairs[q] # w
           /\ p \in Unpaired(pats, pairs)
<1> DEFINE Fits(w) == Offered(pats, pairs, listing, p) = {w}
           v == CHOOSE w \in WideqIds : Fits(w)
<1>1. p \in PatIds /\ p \in Unpaired(pats, pairs) /\ p \notin OneToOne(pats, pairs)
  BY DEF Matched, Unpaired, OneToOne
<1>2. \E w \in WideqIds : Fits(w)
  BY DEF Matched
<1>3. v \in WideqIds /\ Fits(v)
  BY <1>2
<1>4. PatToWideq(pats, pairs, listing)[p] = v
  BY <1>1 DEF PatToWideq
<1>5. v \in Offered(pats, pairs, listing, p)
  BY <1>3
<1> QED
  BY <1>1, <1>3, <1>4, <1>5 DEF Offered

(* What resolve_wideq_devices makes of a device: its persisted pair if that*)
(* is its own, a match, or nothing.                                        *)
LEMMA ThreeWays ==
    ASSUME NEW pats \in Lists, NEW pairs \in Maps, NEW listing \in Snapshots,
           NEW p \in PatIds
    PROVE  LET w == PatToWideq(pats, pairs, listing)[p] IN
           \/ p \in OneToOne(pats, pairs) /\ w = pairs[p]
           \/ p \notin OneToOne(pats, pairs) /\ p \in Matched(pats, pairs, listing)
           \/ /\ p \notin OneToOne(pats, pairs) /\ p \notin Matched(pats, pairs, listing)
              /\ w = NoId
BY DEF PatToWideq

(* The new map has its type, and pairs known devices only.                 *)
LEMMA ResolvedTypes ==
    ASSUME NEW pats \in Lists, NEW pairs \in Maps, NEW listing \in Snapshots
    PROVE  /\ PatToWideq(pats, pairs, listing) \in Maps
           /\ \A p \in PatIds : PatToWideq(pats, pairs, listing)[p] # NoId => pats[p] # NoName
           /\ Ambiguous(pats, pairs, listing) \in SUBSET PatIds
           /\ \A p \in Ambiguous(pats, pairs, listing) :
                 PatToWideq(pats, pairs, listing)[p] = NoId
<1> DEFINE new == PatToWideq(pats, pairs, listing)
<1>1. ASSUME NEW p \in PatIds
      PROVE  new[p] \in WideqIds \cup {NoId} /\ (new[p] # NoId => pats[p] # NoName)
  <2>1. CASE p \in OneToOne(pats, pairs)
    BY <2>1, ThreeWays DEF OneToOne, Persisted, Maps
  <2>2. CASE p \in Matched(pats, pairs, listing)
    BY <2>2, MatchIsOffered DEF Unpaired
  <2>3. CASE p \notin OneToOne(pats, pairs) /\ p \notin Matched(pats, pairs, listing)
    BY <2>3, ThreeWays
  <2> QED
    BY <2>1, <2>2, <2>3
<1>2. new \in Maps
  BY <1>1 DEF PatToWideq, Maps
<1>3. ASSUME NEW p \in Ambiguous(pats, pairs, listing)
      PROVE  p \in PatIds /\ new[p] = NoId
  <2>1. p \in PatIds /\ p \notin OneToOne(pats, pairs) /\ p \notin Matched(pats, pairs, listing)
    BY <1>3 DEF Ambiguous, Persisted, OneToOne, Unpaired, Matched
  <2> QED
    BY <2>1, ThreeWays
<1> QED
  BY <1>1, <1>2, <1>3

(* resolve_wideq_devices pairs no two devices with one appliance, whatever *)
(* map it is given.                                                        *)
LEMMA ResolvedOneToOne ==
    ASSUME NEW pats \in Lists, NEW pairs \in Maps, NEW listing \in Snapshots,
           NEW p \in PatIds, NEW q \in PatIds,
           PatToWideq(pats, pairs, listing)[p] = PatToWideq(pats, pairs, listing)[q],
           PatToWideq(pats, pairs, listing)[p] # NoId
    PROVE  p = q
<1> DEFINE new == PatToWideq(pats, pairs, listing)
           Own == OneToOne(pats, pairs)
           Met == Matched(pats, pairs, listing)
<1>1. /\ p \in Own \/ p \in Met
      /\ q \in Own \/ q \in Met
  BY ThreeWays
<1>2. CASE p \in Own /\ q \in Own
  BY <1>2, ThreeWays DEF OneToOne
<1>3. ASSUME NEW r \in PatIds, r \in Own, NEW s \in Met, new[r] = new[s]
      PROVE  FALSE
  <2>1. r \in Persisted(pats, pairs) /\ new[r] = pairs[r]
    BY <1>3, ThreeWays DEF OneToOne
  <2>2. \A d \in Persisted(pats, pairs) : pairs[d] # new[s]
    BY MatchIsOffered
  <2> QED
    BY <1>3, <2>1, <2>2
<1>4. CASE p \in Met /\ q \in Met
  <2>1. pats[p] = pats[q] /\ q \in Unpaired(pats, pairs)
    BY <1>4, MatchIsOffered
  <2> QED
    BY <1>4, <2>1 DEF Matched
<1> QED
  BY <1>1, <1>2, <1>3, <1>4

(* Without a snapshot it only drops pairs.                                 *)
LEMMA RestoredPairs ==
    ASSUME NEW pats \in Lists, NEW pairs \in Maps, NEW p \in PatIds
    PROVE  /\ Nothing \in Snapshots
           /\ PatToWideq(pats, pairs, Nothing)[p] \in {pairs[p], NoId}
<1>1. Nothing \in Snapshots
  BY DEF Nothing, Snapshots
<1>2. p \notin Matched(pats, pairs, Nothing)
  <2>1. \A w \in WideqIds : w \notin Offered(pats, pairs, Nothing, p)
    BY DEF Offered, Nothing
  <2> QED
    BY <2>1 DEF Matched
<1> QED
  BY <1>1, <1>2, ThreeWays

----------------------------------------------------------------------------
(* A pair is of a known device, ...                                        *)
PairsAreKnown == \A p \in PatIds : paired[p] # NoId => known[p] # NoName

(* ... and every pair, also of the stored map, is right but for those of   *)
(* devices that were misled.                                               *)
RightSoFar == \A p \in PatIds \ misled : IsRight(p, paired[p]) /\ IsRight(p, store[p])

IInv == TypeOK /\ NoSharedAppliance /\ PairsAreKnown /\ RightSoFar

(* A snapshot lists appliances by what they are called.                    *)
LEMMA ListedAsCalled ==
    ASSUME TypeOK, NEW there \in SUBSET PatIds
    PROVE  /\ Listing(there) \in Snapshots
           /\ \A w \in WideqIds : Listing(there)[w] # NoName =>
                 \E r \in there : Same[r] = w /\ Listing(there)[w] = called[r]
<1>1. ASSUME NEW w \in WideqIds
      PROVE  \/ Listing(there)[w] = NoName
             \/ \E r \in there : Same[r] = w /\ Listing(there)[w] = called[r]
  <2>1. CASE \E p \in there : Same[p] = w
    <3> DEFINE r == CHOOSE p \in there : Same[p] = w
    <3>1. r \in there /\ Same[r] = w
      BY <2>1
    <3> QED
      BY <2>1, <3>1 DEF Listing
  <2>2. CASE ~ \E p \in there : Same[p] = w
    BY <2>2 DEF Listing
  <2> QED
    BY <2>1, <2>2
<1>2. \A w \in WideqIds : Listing(there)[w] \in Names \cup {NoName}
  BY <1>1 DEF TypeOK
<1>3. Listing(there) \in Snapshots
  BY <1>2 DEF Listing, Snapshots
<1> QED
  BY <1>1, <1>3

(* The pairs a snapshot makes are right, but where it misleads: who else   *)
(* has the name is known by it, and if it is paired its appliance is not   *)
(* offered.                                                                *)
LEMMA MatchesAreRight ==
    ASSUME IInv, NEW there \in SUBSET PatIds, NEW p \in PatIds \ (misled \cup Misleads(there))
    PROVE  IsRight(p, PatToWideq(known, paired, Listing(there))[p])
<1> DEFINE new == PatToWideq(known, paired, Listing(there))
<1>1. known \in Lists /\ paired \in Maps /\ Listing(there) \in Snapshots
  BY ListedAsCalled DEF IInv, TypeOK, Lists, Maps
<1>2. CASE p \in OneToOne(known, paired)
  BY <1>1, <1>2, ThreeWays DEF IInv, RightSoFar
<1>3. CASE p \in Matched(known, paired, Listing(there))
  <2>1. /\ new[p] \in WideqIds
        /\ Listing(there)[new[p]] # NoName /\ Listing(there)[new[p]] = known[p]
        /\ \A q \in Persisted(known, paired) : paired[q] # new[p]
    BY <1>1, <1>3, MatchIsOffered
  <2>2. PICK r \in there : Same[r] = new[p] /\ known[p] = called[r]
    BY <2>1, ListedAsCalled DEF IInv
  <2>3. ASSUME r # p PROVE FALSE
    <3>1. known[r] = called[r] /\ r \notin misled /\ r \in PatIds
      BY <1>3, <2>2, <2>3 DEF Misleads
    <3>2. known[r] = known[p] /\ known[r] # NoName
      BY <2>1, <2>2, <3>1
    <3>3. r \notin Persisted(known, paired)
      BY <2>1, <2>2, <3>1 DEF IInv, RightSoFar, IsRight, Persisted
    <3>4. r \in Unpaired(known, paired)
      BY <3>1, <3>2, <3>3 DEF Unpaired
    <3> QED
      BY <1>3, <2>3, <3>2, <3>4 DEF Matched
  <2> QED
    BY <2>2, <2>3 DEF IsRight
<1>4. CASE p \notin OneToOne(known, paired) /\ p \notin Matched(known, paired, Listing(there))
  BY <1>1, <1>4, ThreeWays DEF IsRight
<1> QED
  BY <1>2, <1>3, <1>4

----------------------------------------------------------------------------
(* What a restored map satisfies.                                          *)
LEMMA RestoredInv ==
    ASSUME NEW pats \in Lists, NEW pairs \in Maps
    PROVE  LET new == PatToWideq(pats, pairs, Nothing) IN
           /\ new \in Maps
           /\ Ambiguous(pats, pairs, Nothing) \in SUBSET PatIds
           /\ \A p \in Ambiguous(pats, pairs, Nothing) : new[p] = NoId
           /\ \A p, q \in PatIds : new[p] = new[q] /\ new[p] # NoId => p = q
           /\ \A p \in PatIds : new[p] # NoId => pats[p] # NoName
           /\ \A p \in PatIds : IsRight(p, pairs[p]) => IsRight(p, new[p])
<1>1. Nothing \in Snapshots
  BY DEF Nothing, Snapshots
<1>2. \A p \in PatIds : IsRight(p, pairs[p]) => IsRight(p, PatToWideq(pats, pairs, Nothing)[p])
  BY RestoredPairs DEF IsRight
<1> HIDE DEF Nothing
<1> QED
  BY <1>1, <1>2, ResolvedTypes, ResolvedOneToOne

LEMMA InitIInv == Init => IInv
<1> SUFFICES ASSUME Init PROVE IInv
  OBVIOUS
<1>1. called \in Lists /\ known \in Lists /\ store \in Maps
  BY DEF Init, Lists, Maps
<1>2. TypeOK
  <2>1. misled \in SUBSET PatIds
    BY DEF Init
  <2>2. /\ paired \in Maps /\ ambiguous \in SUBSET PatIds
        /\ \A p \in ambiguous : paired[p] = NoId
    BY <1>1, RestoredInv DEF Init
  <2> QED
    BY <1>1, <2>1, <2>2 DEF TypeOK, Maps, Lists
<1>3. NoSharedAppliance /\ PairsAreKnown
  BY <1>1, RestoredInv DEF Init, NoSharedAppliance, PairsAreKnown
<1>4. RightSoFar
  <2>1. \A p \in PatIds \ misled : IsRight(p, store[p])
    BY DEF Init
  <2> QED
    BY <1>1, <2>1, RestoredInv DEF Init, RightSoFar
<1> QED
  BY <1>2, <1>3, <1>4 DEF IInv

LEMMA StepIInv == IInv /\ [Next]_vars => IInv'
<1> SUFFICES ASSUME IInv, [Next]_vars PROVE IInv'
  OBVIOUS
<1> USE DEF IInv
<1>1. ASSUME NEW p \in PatIds, NEW s \in Names, Call(p, s)
      PROVE  IInv'
  BY <1>1 DEF Call, map, TypeOK, NoSharedAppliance, PairsAreKnown, RightSoFar, IsRight
<1>2. ASSUME NEW p \in PatIds, Remove(p)
      PROVE  IInv'
  BY <1>2 DEF Remove, map, TypeOK, NoSharedAppliance, PairsAreKnown, RightSoFar, IsRight
<1>3. CASE AddPatDevices
  BY <1>3 DEF AddPatDevices, map, TypeOK, NoSharedAppliance, PairsAreKnown, RightSoFar, IsRight
<1>4. ASSUME NEW there \in SUBSET PatIds, Resolve(there)
      PROVE  IInv'
  <2>1. /\ paired' = PatToWideq(known, paired, Listing(there))
        /\ ambiguous' = Ambiguous(known, paired, Listing(there))
        /\ misled' = misled \cup Misleads(there)
        /\ UNCHANGED <<called, known, store>>
    BY <1>4 DEF Resolve
  <2>2. known \in Lists /\ paired \in Maps /\ Listing(there) \in Snapshots
    BY ListedAsCalled DEF TypeOK, Lists, Maps
  <2>3. TypeOK'
    <3>1. misled' \in SUBSET PatIds
      BY <2>1 DEF TypeOK, Misleads, Matched, Unpaired
    <3> QED
      BY <2>1, <2>2, <3>1, ResolvedTypes DEF TypeOK, Maps
  <2>4. NoSharedAppliance' /\ PairsAreKnown'
    BY <2>1, <2>2, ResolvedTypes, ResolvedOneToOne DEF NoSharedAppliance, PairsAreKnown
  <2>5. RightSoFar'
    <3>1. ASSUME NEW p \in PatIds \ misled'
          PROVE  IsRight(p, paired'[p]) /\ IsRight(p, store'[p])
      <4>1. p \in PatIds \ (misled \cup Misleads(there)) /\ p \in PatIds \ misled
        BY <2>1, <3>1
      <4>2. IsRight(p, PatToWideq(known, paired, Listing(there))[p])
        BY <4>1, MatchesAreRight
      <4> QED
        BY <2>1, <4>1, <4>2 DEF RightSoFar
    <3> QED
      BY <3>1 DEF RightSoFar, IsRight
  <2> QED
    BY <2>3, <2>4, <2>5
<1>5. CASE Save
  BY <1>5 DEF Save, TypeOK, NoSharedAppliance, PairsAreKnown, RightSoFar, IsRight
<1>6. CASE Restart
  <2>1. /\ known' \in Lists /\ store \in Maps
        /\ paired' = PatToWideq(known', store, Nothing)
        /\ ambiguous' = Ambiguous(known', store, Nothing)
        /\ UNCHANGED <<called, store, misled>>
    BY <1>6 DEF Restart, TypeOK, Lists, Maps
  <2>2. TypeOK'
    BY <2>1, RestoredInv DEF TypeOK, Maps, Lists
  <2>3. NoSharedAppliance' /\ PairsAreKnown'
    BY <2>1, RestoredInv DEF NoSharedAppliance, PairsAreKnown
  <2>4. RightSoFar'
    <3>1. ASSUME NEW p \in PatIds \ misled
          PROVE  IsRight(p, paired'[p]) /\ IsRight(p, store'[p])
      <4>1. IsRight(p, store[p])
        BY DEF RightSoFar
      <4>2. IsRight(p, PatToWideq(known', store, Nothing)[p])
        BY <2>1, <4>1, RestoredInv
      <4> QED
        BY <2>1, <4>1, <4>2
    <3> QED
      BY <2>1, <3>1 DEF RightSoFar, IsRight
  <2> QED
    BY <2>2, <2>3, <2>4
<1>7. CASE UNCHANGED vars
  BY <1>7 DEF vars, map, TypeOK, NoSharedAppliance, PairsAreKnown, RightSoFar, IsRight
<1> QED
  BY <1>1, <1>2, <1>3, <1>4, <1>5, <1>6, <1>7 DEF Next

LEMMA Inductive == Spec => []IInv
BY InitIInv, StepIInv, PTL DEF Spec

----------------------------------------------------------------------------
(* The map keeps its type, and ambiguous devices stay unpaired.            *)
THEOREM IdentityTypes == Spec => []TypeOK
<1>1. IInv => TypeOK
  BY DEF IInv
<1> QED
  BY <1>1, Inductive, PTL

(* No two PAT devices are ever paired with one WideQ device, whatever the  *)
(* store held.                                                             *)
THEOREM AppliancesAreNotShared == Spec => []NoSharedAppliance
<1>1. IInv => NoSharedAppliance
  BY DEF IInv
<1> QED
  BY <1>1, Inductive, PTL

(* However appliances are named and renamed, every pair is the appliance's *)
(* own, but for devices the first stored map was wrong about and those     *)
(* matched by a name that another listed appliance has and PAT has not     *)
(* listed it by.                                                           *)
THEOREM PairsAreRight == Spec => []RightAppliance
<1>1. IInv => RightAppliance
  BY DEF IInv, RightSoFar, RightAppliance
<1> QED
  BY <1>1, Inductive, PTL

(* Only a new start may change a pair.                                     *)
THEOREM PairsAreKept == Spec => PairsLast
<1> DEFINE Lasts == \A p \in PatIds : paired[p] # NoId /\ ~Restart => paired'[p] = paired[p]
<1>1. ASSUME IInv, [Next]_vars
      PROVE  [Lasts]_vars
  <2> SUFFICES ASSUME NEW p \in PatIds, paired[p] # NoId, ~Restart, Next
               PROVE  paired'[p] = paired[p]
    BY <1>1
  <2>1. CASE UNCHANGED paired
    BY <2>1
  <2>2. ASSUME NEW there \in SUBSET PatIds, Resolve(there)
        PROVE  paired'[p] = paired[p]
    <3>1. paired' = PatToWideq(known, paired, Listing(there))
      BY <2>2 DEF Resolve
    <3>2. known \in Lists /\ paired \in Maps /\ Listing(there) \in Snapshots
      BY <1>1, ListedAsCalled DEF IInv, TypeOK, Lists, Maps
    <3>3. p \in Persisted(known, paired)
      BY <1>1 DEF IInv, PairsAreKnown, Persisted
    <3>4. p \in OneToOne(known, paired)
      BY <1>1, <3>3 DEF IInv, NoSharedAppliance, OneToOne, Persisted
    <3> QED
      BY <3>1, <3>2, <3>4, ThreeWays
  <2> QED
    BY <2>1, <2>2 DEF Next, Call, Remove, AddPatDevices, Save, map
<1> QED
  BY <1>1, Inductive, PTL DEF Spec, PairsLast

----------------------------------------------------------------------------
(* The lock of composite commands: leaving it keeps its holder, unless that*)
(* is who leaves.                                                          *)
LEMMA RemoveFromKeepsHead ==
  ASSUME NEW S, NEW q \in Seq(S), NEW i \in 1 .. Len(q)
  PROVE  /\ RemoveFrom(q, i) \in Seq(S)
         /\ i > 1 => RemoveFrom(q, i) # <<>> /\ Head(RemoveFrom(q, i)) = Head(q)
  <1>0. Len(q) \in Nat /\ \A j \in 1 .. Len(q) : q[j] \in S
    BY LenProperties, ElementOfSeq
  <1> DEFINE a == SubSeq(q, 1, i - 1)
             b == SubSeq(q, i + 1, Len(q))
  <1>1. a \in Seq(S) /\ (i > 1 => Len(a) = i - 1 /\ a[1] = q[1])
    BY <1>0, SubSeqProperties
  <1>2. b \in Seq(S)
    BY <1>0, SubSeqProperties
  <1> HIDE DEF a, b
  <1>3. RemoveFrom(q, i) = a \o b
    BY DEF RemoveFrom, a, b
  <1>4. /\ a \o b \in Seq(S)
        /\ Len(a \o b) = Len(a) + Len(b)
        /\ \A j \in 1 .. Len(a) + Len(b) :
              (a \o b)[j] = IF j <= Len(a) THEN a[j] ELSE b[j - Len(a)]
    BY <1>1, <1>2, ConcatProperties
  <1>5. ASSUME i > 1
        PROVE  a \o b # <<>> /\ Head(a \o b) = Head(q)
    <2>1. Len(a) >= 1 /\ Len(b) \in Nat /\ Len(a) \in Nat
      BY <1>0, <1>1, <1>2, <1>5, LenProperties
    <2>2. Len(a \o b) # 0 /\ (a \o b)[1] = q[1]
      BY <1>1, <1>4, <1>5, <2>1
    <2> QED
      BY <1>4, <2>2
  <1> QED
    BY <1>3, <1>4, <1>5

LEMMA LeavingKeepsHolder ==
  ASSUME NEW S, NEW q \in Seq(S), NEW o
  PROVE  /\ Without(q, o) \in Seq(S)
         /\ q # <<>> /\ Head(q) # o => Without(q, o) # <<>> /\ Head(Without(q, o)) = Head(q)
  <1>1. CASE \E i \in 1 .. Len(q) : q[i] = o
    <2> DEFINE i == CHOOSE i \in 1 .. Len(q) : q[i] = o
    <2>1. i \in 1 .. Len(q) /\ q[i] = o
      BY <1>1
    <2>2. Without(q, o) = RemoveFrom(q, i)
      BY <1>1 DEF Without
    <2> HIDE DEF i
    <2>3. Len(q) \in Nat
      BY LenProperties
    <2>4. Head(q) # o => i > 1
      BY <2>1, <2>3
    <2> QED
      BY <2>1, <2>2, <2>4, RemoveFromKeepsHead
  <1>2. CASE ~ \E i \in 1 .. Len(q) : q[i] = o
    BY <1>2 DEF Without
  <1> QED
    BY <1>1, <1>2

LEMMA QueueingKeepsHolder ==
  ASSUME NEW S, NEW q \in Seq(S), NEW e \in S
  PROVE  /\ Append(q, e) \in Seq(S)
         /\ q # <<>> => Append(q, e) # <<>> /\ Head(Append(q, e)) = Head(q)
  <1>1. q # <<>> => Len(q) \in Nat \ {0}
    BY EmptySeq
  <1>2. Append(q, e) \in Seq(S) /\ Len(Append(q, e)) = Len(q) + 1 /\ Len(q) \in Nat
    OBVIOUS
  <1>3. q # <<>> => Append(q, e)[1] = q[1]
    BY <1>1
  <1> QED
    BY <1>1, <1>2, <1>3

----------------------------------------------------------------------------
(* The composite commands: their types, ...                                *)
Said == Values \cup {Unknown}
Partial == UNION {[S -> Said] : S \in SUBSET Template}
CallsInHand == [at : {"idle", "queued", "limiter"}, values : Partial, request : Partial]

CompositeTypes ==
    /\ control.shape \in {"template", "dataset"}
    /\ setting \in [Template -> Said]
    /\ snapshot \in [Template -> Said]
    /\ holders \in Seq(Calls \cup {Poll})
    /\ call \in [Calls -> CallsInHand]

(* ... and who waits for the limiter holds the lock.                       *)
OnlyHolderAsks == \A c \in Calls : call[c].at = "limiter" => Holds(c)

CompositeInv == CompositeTypes /\ OnlyHolderAsks /\ PreservesTheLatest

(* The snapshot is only replaced by the lock's holder, who is not asking.  *)
LEMMA NobodyElseAsks ==
  ASSUME CompositeInv, NEW w, Holds(w), \A c \in Calls : c = w => call[c].at # "limiter"
  PROVE  \A c \in Calls : call[c].at # "limiter"
  BY DEF CompositeInv, OnlyHolderAsks, Holds

LEMMA SnapshotTypes ==
  ASSUME CompositeTypes, \/ UNCHANGED lastRead
                         \/ \E there \in BOOLEAN : Snapshot(there)
  PROVE  snapshot' \in [Template -> Said]
  BY DEF CompositeTypes, Snapshot, lastRead, NoSnapshot, Said

LEMMA UnsetIsPartial == Unset \in Partial
  BY DEF Unset, Partial

LEMMA RequestFacts ==
  ASSUME CompositeTypes, NEW values \in Partial
  PROVE  /\ Request(values) \in Partial
         /\ \A f \in DOMAIN Request(values) \ DOMAIN values : Request(values)[f] = snapshot[f]
  <1> DEFINE D == IF control.shape = "template" THEN Template ELSE DOMAIN values
  <1>1. PICK S \in SUBSET Template : values \in [S -> Said]
    BY DEF Partial
  <1>2. D \subseteq Template
    BY <1>1
  <1>3. \A f \in D : f \in DOMAIN values => values[f] \in Said
    BY <1>1
  <1>4. \A f \in D : snapshot[f] \in Said
    BY <1>2 DEF CompositeTypes
  <1>5. Request(values) = [f \in D |-> IF f \in DOMAIN values THEN values[f] ELSE snapshot[f]]
    BY DEF Request, Preserved
  <1> HIDE DEF D
  <1>6. Request(values) \in [D -> Said]
    BY <1>3, <1>4, <1>5
  <1> QED
    BY <1>2, <1>5, <1>6 DEF Partial

(* A call that leaves takes nothing along.                                 *)
LEMMA LeavesKeeps ==
  ASSUME CompositeInv, NEW c \in Calls, Leaves(c), UNCHANGED <<control, snapshot>>,
         setting' \in [Template -> Said]
  PROVE  CompositeInv'
  <1>1. CompositeTypes /\ OnlyHolderAsks /\ PreservesTheLatest
    BY DEF CompositeInv
  <1>2. NoCall \in CallsInHand
    BY UnsetIsPartial DEF NoCall, CallsInHand
  <1>3. /\ holders' = Without(holders, c)
        /\ holders' \in Seq(Calls \cup {Poll})
        /\ holders # <<>> /\ Head(holders) # c => holders' # <<>> /\ Head(holders') = Head(holders)
    BY <1>1, LeavingKeepsHolder DEF Leaves, CompositeTypes
  <1>4. /\ call' \in [Calls -> CallsInHand]
        /\ call'[c].at = "idle" /\ \A d \in Calls \ {c} : call'[d] = call[d]
    BY <1>1, <1>2 DEF Leaves, CompositeTypes, NoCall
  <1>5. CompositeTypes'
    BY <1>1, <1>3, <1>4 DEF CompositeTypes
  <1>6. OnlyHolderAsks' /\ PreservesTheLatest'
    BY <1>1, <1>3, <1>4 DEF OnlyHolderAsks, PreservesTheLatest, Holds
  <1> QED
    BY <1>5, <1>6 DEF CompositeInv

LEMMA CompositeStarts == CompositeInit => CompositeInv
  <1> SUFFICES ASSUME CompositeInit PROVE CompositeInv
    OBVIOUS
  <1>1. NoCall \in CallsInHand /\ NoCall.at = "idle"
    BY UnsetIsPartial DEF NoCall, CallsInHand
  <1>2. NoSnapshot \in [Template -> Said]
    BY DEF NoSnapshot, Said
  <1>3. /\ control.shape \in {"template", "dataset"}
        /\ setting \in [Template -> Said] /\ snapshot = NoSnapshot
        /\ holders = <<>> /\ call = [c \in Calls |-> NoCall]
    BY DEF CompositeInit, Said
  <1>4. CompositeTypes
    BY <1>1, <1>2, <1>3, EmptySeq DEF CompositeTypes
  <1>5. \A c \in Calls : call[c].at # "limiter"
    BY <1>1, <1>3
  <1> QED
    BY <1>4, <1>5 DEF CompositeInv, OnlyHolderAsks, PreservesTheLatest

LEMMA CompositeKeeps == ASSUME CompositeInv, [CompositeNext]_compositeVars PROVE CompositeInv'
  <1>1. /\ CompositeTypes /\ OnlyHolderAsks /\ PreservesTheLatest
        /\ holders \in Seq(Calls \cup {Poll}) /\ call \in [Calls -> CallsInHand]
    BY DEF CompositeInv, CompositeTypes
  <1>2. ASSUME NEW c \in Calls, Called(c) PROVE CompositeInv'
    <2>a. PICK fs \in SUBSET Template : \E values \in [fs -> Values] :
            /\ holders' = Append(holders, c)
            /\ call' = [call EXCEPT ![c] = [at |-> "queued", values |-> values, request |-> Unset]]
      BY <1>2 DEF Called
    <2>1. PICK values \in [fs -> Values] :
            /\ holders' = Append(holders, c)
            /\ call' = [call EXCEPT ![c] = [at |-> "queued", values |-> values, request |-> Unset]]
      BY <2>a
    <2>2. call[c].at = "idle" /\ UNCHANGED <<control, setting, snapshot>>
      BY <1>2 DEF Called, appliance, lastRead
    <2>3. values \in [fs -> Said]
      BY DEF Said
    <2>4. [at |-> "queued", values |-> values, request |-> Unset] \in CallsInHand
      BY <2>3, UnsetIsPartial DEF CallsInHand, Partial
    <2>5. /\ call' \in [Calls -> CallsInHand] /\ call'[c].at = "queued"
          /\ \A d \in Calls \ {c} : call'[d] = call[d]
      BY <1>1, <2>1, <2>4
    <2>6. holders' \in Seq(Calls \cup {Poll})
          /\ (holders # <<>> => holders' # <<>> /\ Head(holders') = Head(holders))
      BY <1>1, <2>1, QueueingKeepsHolder
    <2>7. CompositeTypes'
      BY <1>1, <2>2, <2>5, <2>6 DEF CompositeTypes
    <2>8. OnlyHolderAsks' /\ PreservesTheLatest'
      BY <1>1, <2>2, <2>5, <2>6 DEF OnlyHolderAsks, PreservesTheLatest, Holds
    <2> QED
      BY <2>7, <2>8 DEF CompositeInv
  <1>3. ASSUME NEW c \in Calls, Enters(c) PROVE CompositeInv'
    <2>1. call[c].at = "queued" /\ Holds(c) /\ UNCHANGED <<control, setting, snapshot>>
      BY <1>3 DEF Enters, appliance, lastRead
    <2>2. CASE Leaves(c)
      BY <1>1, <2>1, <2>2, LeavesKeeps DEF CompositeTypes
    <2>3. CASE call' = Builds(c) /\ holders' = holders
      <3> DEFINE req == Request(call[c].values)
                 n == [call[c] EXCEPT !.at = "limiter", !.request = req]
      <3>1. call[c] \in CallsInHand /\ call[c].values \in Partial
        BY <1>1 DEF CallsInHand
      <3>2. /\ req \in Partial
            /\ \A f \in DOMAIN req \ DOMAIN call[c].values : req[f] = snapshot[f]
        BY <1>1, <3>1, RequestFacts
      <3>3. call' = [call EXCEPT ![c] = n]
        BY <2>3 DEF Builds
      <3> HIDE DEF req
      <3>4. n \in CallsInHand /\ n.at = "limiter" /\ n.request = req /\ n.values = call[c].values
        BY <3>1, <3>2 DEF CallsInHand
      <3> HIDE DEF n
      <3>5. /\ call' \in [Calls -> CallsInHand] /\ call'[c] = n
            /\ \A d \in Calls \ {c} : call'[d] = call[d]
        BY <1>1, <3>3, <3>4
      <3>6. CompositeTypes'
        BY <1>1, <2>1, <2>3, <3>5 DEF CompositeTypes
      <3>7. OnlyHolderAsks'
        BY <1>1, <2>1, <2>3, <3>5 DEF OnlyHolderAsks, Holds
      <3>8. PreservesTheLatest'
        <4> SUFFICES ASSUME NEW d \in Calls, call'[d].at = "limiter",
                            NEW f \in DOMAIN call'[d].request \ DOMAIN call'[d].values
                     PROVE  call'[d].request[f] = snapshot[f]
          BY <2>1 DEF PreservesTheLatest
        <4>1. CASE d = c
          BY <3>2, <3>4, <3>5, <4>1
        <4>2. CASE d # c
          BY <1>1, <3>5, <4>2 DEF PreservesTheLatest
        <4> QED
          BY <4>1, <4>2
      <3> QED
        BY <3>6, <3>7, <3>8 DEF CompositeInv
    <2> QED
      BY <1>3, <2>2, <2>3 DEF Enters
  <1>4. ASSUME NEW c \in Calls, Resolves(c) PROVE CompositeInv'
    <2>1. call[c].at = "queued" /\ Holds(c) /\ UNCHANGED <<control, setting>>
      BY <1>4 DEF Resolves, appliance
    <2>2. CASE Leaves(c) /\ UNCHANGED lastRead
      BY <1>1, <2>1, <2>2, LeavesKeeps DEF CompositeTypes, lastRead
    <2>3. CASE Snapshot(TRUE) /\ UNCHANGED <<holders, call>>
      <3>1. \A d \in Calls : call[d].at # "limiter"
        BY <2>1, NobodyElseAsks
      <3>2. snapshot' \in [Template -> Said]
        BY <1>1, <2>3, SnapshotTypes
      <3> QED
        BY <1>1, <2>1, <2>3, <3>1, <3>2
        DEF CompositeInv, CompositeTypes, OnlyHolderAsks, PreservesTheLatest
    <2> QED
      BY <1>4, <2>2, <2>3 DEF Resolves
  <1>5. ASSUME NEW c \in Calls, Refused(c) PROVE CompositeInv'
    <2>1. Leaves(c) /\ UNCHANGED <<control, setting, snapshot>>
      BY <1>5 DEF Refused, appliance, lastRead
    <2> QED
      BY <1>1, <2>1, LeavesKeeps DEF CompositeTypes
  <1>6. ASSUME NEW c \in Calls, Sends(c) PROVE CompositeInv'
    <2> DEFINE told == call[c].request
    <2>1. /\ setting' = [f \in Template |-> IF f \in DOMAIN told THEN told[f] ELSE setting[f]]
          /\ Leaves(c) /\ UNCHANGED <<control, snapshot>>
      BY <1>6 DEF Sends, lastRead
    <2>2. told \in Partial
      BY <1>1 DEF CallsInHand
    <2>3. \A f \in Template : setting[f] \in Said /\ (f \in DOMAIN told => told[f] \in Said)
      BY <1>1, <2>2 DEF CompositeTypes, Partial
    <2> HIDE DEF told
    <2>4. setting' \in [Template -> Said]
      BY <2>1, <2>3
    <2> QED
      BY <2>1, <2>4, LeavesKeeps
  <1>7. CASE Polls
    <2>1. /\ holders' = Append(holders, Poll) /\ UNCHANGED <<control, setting, snapshot, call>>
      BY <1>7 DEF Polls, appliance, lastRead
    <2>2. holders' \in Seq(Calls \cup {Poll})
          /\ (holders # <<>> => holders' # <<>> /\ Head(holders') = Head(holders))
      BY <1>1, <2>1, QueueingKeepsHolder
    <2>3. CompositeTypes' /\ PreservesTheLatest'
      BY <1>1, <2>1, <2>2 DEF CompositeTypes, PreservesTheLatest
    <2>4. OnlyHolderAsks'
      BY <1>1, <2>1, <2>2 DEF OnlyHolderAsks, Holds
    <2> QED
      BY <2>3, <2>4 DEF CompositeInv
  <1>8. CASE PollAnswered
    <2>1. /\ Holds(Poll) /\ holders' = Tail(holders) /\ UNCHANGED <<control, setting, call>>
          /\ \/ \E there \in BOOLEAN : Snapshot(there)
             \/ UNCHANGED lastRead
      BY <1>8 DEF PollAnswered, appliance
    <2>2. \A d \in Calls : call[d].at # "limiter"
      BY <2>1, CompositeAssumption, NobodyElseAsks
    <2>3. snapshot' \in [Template -> Said]
      BY <1>1, <2>1, SnapshotTypes
    <2>4. holders' \in Seq(Calls \cup {Poll})
      BY <1>1, <2>1, HeadTailProperties DEF Holds
    <2> QED
      BY <1>1, <2>1, <2>2, <2>3, <2>4
      DEF CompositeInv, CompositeTypes, OnlyHolderAsks, PreservesTheLatest
  <1>9. ASSUME setting' \in [Template -> Said], UNCHANGED <<control, lastRead, holders, call>>
        PROVE  CompositeInv'
    BY <1>1, <1>9 DEF CompositeInv, CompositeTypes, OnlyHolderAsks, PreservesTheLatest, Holds, lastRead
  <1>10. CASE SetByUser \/ \E f \in PAT_PRIORITY_FIELDS, v \in Values : SetByPat(f, v)
    <2>1. setting' \in [Template -> Said]
      <3>1. /\ setting \in [Template -> Said] /\ Values \subseteq Said
            /\ PAT_PRIORITY_FIELDS \subseteq Template
        BY <1>1, CompositeAssumption DEF CompositeTypes, Said
      <3>2. \/ \E f \in Template, v \in Values : setting' = [setting EXCEPT ![f] = v]
            \/ setting' = setting
        BY <1>10, <3>1 DEF SetByUser, SetByPat
      <3> QED
        BY <3>1, <3>2
    <2>2. UNCHANGED <<control, lastRead, holders, call>>
      BY <1>10 DEF SetByUser, SetByPat
    <2> QED
      BY <1>9, <2>1, <2>2
  <1>11. CASE UNCHANGED compositeVars
    BY <1>1, <1>9, <1>11 DEF compositeVars, lastRead, CompositeTypes
  <1> QED
    BY <1>2, <1>3, <1>4, <1>5, <1>6, <1>7, <1>8, <1>10, <1>11 DEF CompositeNext

(* PreservesTheLatest, for any controls, fields and calls: what a command  *)
(* says again of the fields it does not set is the last snapshot's, since  *)
(* only the lock's holder replaces the snapshot and it is no one's turn.   *)
THEOREM LatestIsPreserved == CompositeSpec => []PreservesTheLatest
  <1>1. CompositeInv => PreservesTheLatest
    BY DEF CompositeInv
  <1> QED
    BY <1>1, CompositeStarts, CompositeKeeps, PTL DEF CompositeSpec

----------------------------------------------------------------------------
(* The start of the entry.  An inventory lists devices, and of some of them*)
(* a profile.                                                              *)
Inventories == {v \in [devices : SUBSET Supported, profiles : SUBSET Supported] :
                   v.profiles \subseteq v.devices}
Writes == [by : {"setup", "cloud", "first"}, what : Inventories]
Facts == SUBSET Both

StartupTypes ==
    /\ inventory \in Inventories /\ writes \in Seq(Writes)
    /\ stage \in {"off", "listing", "preparing", "saving", "forwarding", "running"}
    /\ have \in SUBSET Supported /\ answered \in SUBSET have /\ profiled \in SUBSET have
    /\ fan \in [Groups \X Supported -> {"none", "wait", "status", "profile"}]
    /\ holder \in {"none", "first", "resume"}
    /\ inside \in {"free", "listing", "preparing", "saving", "discovering", "connecting"}
    /\ first \in [at : {"none", "sleeping", "queued", "inside", "recovering", "saving", "done"},
                  tries : Nat, rounds : Nat]
    /\ resumes \in Nat
    /\ watched \in SUBSET Supported /\ observed \in [Supported -> Facts] /\ wanted \in BOOLEAN
    /\ menu \in [by : {"none", "cloud", "task"}, adds : [Supported -> Facts]]
    /\ offered \in [Supported -> Facts]
    /\ junked \in SUBSET Supported

(* Nothing of start_cloud or start_pat goes on before the entry runs.      *)
Calm ==
    /\ stage # "running" => /\ first.at = "none" /\ resumes = 0
                            /\ inside = "free" /\ holder = "none"
                            /\ watched = {} /\ observed = NothingOffered /\ ~wanted
                            /\ menu = NoMenu /\ offered = NothingOffered
    /\ stage = "off" => writes = <<>>
    /\ stage \in {"off", "listing"} => have = {}
    /\ holder = "none" => inside = "free"
    /\ holder = "first" => first.at = "inside"
    /\ menu.by = "none" => menu = NoMenu
    /\ menu.by = "cloud" => inside = "discovering"

(* Who is prepared is a device of the entry.                               *)
Fans ==
    \A d \in Supported :
        /\ fan[<<"start", d>>] # "none" =>
              d \in have /\ (stage = "preparing" \/ (stage = "running" /\ inside = "preparing"))
        /\ fan[<<"recover", d>>] # "none" => d \in have /\ stage = "running"

(* Each writer waits for its own save, and for one.                        *)
Writers ==
    /\ \A i \in 1 .. Len(writes) :
          /\ writes[i].by = "setup" => stage = "saving"
          /\ writes[i].by = "cloud" => inside = "saving"
          /\ writes[i].by = "first" => first.at = "saving"
    /\ \A i, j \in 1 .. Len(writes) : writes[i].by = writes[j].by => i = j

KeptBy(v, D, P) == v.devices \cap Named \subseteq D /\ v.profiles \cap Named \subseteq P \cup junked

(* What is stored, what is being written and what there is keep what was   *)
(* there before them.                                                      *)
Kept ==
    /\ \A i \in 1 .. Len(writes) : KeptBy(inventory, writes[i].what.devices, writes[i].what.profiles)
    /\ \A i, j \in 1 .. Len(writes) :
          i < j => KeptBy(writes[i].what, writes[j].what.devices, writes[j].what.profiles)
    /\ stage # "off" => /\ KeptBy(inventory, have, profiled)
                        /\ \A i \in 1 .. Len(writes) : KeptBy(writes[i].what, have, profiled)

(* A device is watched until it was seen whole; what its listener saw is   *)
(* offered, or about to be; and what it did not see, start_cloud will.     *)
Behind == inside \in {"preparing", "saving"} \/ (inside = "discovering" /\ menu.by # "cloud")
Watching ==
    /\ \A d \in Supported \ have : observed[d] = {}
    /\ stage = "running" => \A d \in have \ junked :
          /\ d \notin watched => observed[d] = Both
          /\ observed[d] \subseteq offered[d] \cup menu.adds[d] \/ wanted
          /\ observed[d] \subseteq offered[d] \cup Seen(d)
          /\ Seen(d) \subseteq observed[d] \cup offered[d] \cup menu.adds[d] \/ Behind

StartupInv == StartupTypes /\ Calm /\ Fans /\ Writers /\ Kept /\ Watching

----------------------------------------------------------------------------
(* What is seen of a device, and what its listener makes of being told.    *)
LEMMA SeenIsFacts ==
  ASSUME NEW d, NEW A, NEW P
  PROVE  SeenOf(d, A, P) \in Facts
  BY DEF SeenOf, Facts, Both

LEMMA SeenGrows ==
  ASSUME NEW d, NEW A, NEW P, NEW B, NEW Q, A \subseteq B, P \subseteq Q
  PROVE  SeenOf(d, A, P) \subseteq SeenOf(d, B, Q)
  BY DEF SeenOf

LEMMA Told ==
  ASSUME StartupTypes, NEW d \in Supported, NEW now \in Facts, Tell(d, now)
  PROVE  /\ watched' \in SUBSET Supported /\ observed' \in [Supported -> Facts] /\ wanted' \in BOOLEAN
         /\ d \notin watched => watched' = watched /\ observed' = observed /\ wanted' = wanted
         /\ d \in watched => observed'[d] = now /\ (now # observed[d] => wanted')
         /\ wanted => wanted'
         /\ \A e \in Supported \ {d} : observed'[e] = observed[e] /\ (e \in watched' <=> e \in watched)
         /\ watched' \subseteq watched
         /\ d \in watched /\ d \notin watched' => now = Both
  <1> DEFINE hears == d \in watched /\ now # observed[d]
  <1>1. /\ observed' = IF hears THEN [observed EXCEPT ![d] = now] ELSE observed
        /\ watched' = IF hears /\ now = Both THEN watched \ {d} ELSE watched
        /\ wanted' = (wanted \/ hears)
    BY DEF Tell
  <1>2. watched \in SUBSET Supported /\ observed \in [Supported -> Facts] /\ wanted \in BOOLEAN
    BY DEF StartupTypes
  <1>3. CASE hears
    BY <1>1, <1>2, <1>3
  <1>4. CASE ~hears
    <2>1. wanted' = wanted /\ observed' = observed /\ watched' = watched
      BY <1>1, <1>2, <1>4
    <2> QED
      BY <1>2, <1>4, <2>1
  <1> QED
    BY <1>3, <1>4

LEMMA InventoryIsOne ==
  ASSUME StartupTypes
  PROVE  Inventory \in Inventories /\ Inventory.devices = have /\ Inventory.profiles = have \cap profiled
  BY DEF StartupTypes, Inventory, Inventories

(* The queue of saves.                                                     *)
LEMMA WritesGrow ==
  ASSUME StartupTypes, NEW author \in {"setup", "cloud", "first"},
         writes' = Append(writes, [by |-> author, what |-> Inventory])
  PROVE  /\ writes' \in Seq(Writes) /\ Len(writes') = Len(writes) + 1 /\ Len(writes) \in Nat
         /\ \A i \in 1 .. Len(writes) : writes'[i] = writes[i]
         /\ writes'[Len(writes) + 1].by = author /\ writes'[Len(writes) + 1].what = Inventory
         /\ \A i \in 1 .. Len(writes') : i \in 1 .. Len(writes) \/ i = Len(writes) + 1
  <1> DEFINE w == [by |-> author, what |-> Inventory]
  <1>1. w \in Writes /\ w.by = author /\ w.what = Inventory
    BY InventoryIsOne DEF Writes
  <1>2. writes \in Seq(Writes) /\ writes' = Append(writes, w)
    BY DEF StartupTypes
  <1> HIDE DEF w
  <1>3. /\ writes' \in Seq(Writes) /\ Len(writes') = Len(writes) + 1
        /\ \A i \in 1 .. Len(writes) : writes'[i] = writes[i]
        /\ writes'[Len(writes) + 1] = w
    BY <1>1, <1>2, AppendProperties
  <1>4. Len(writes) \in Nat
    BY <1>2, LenProperties
  <1> QED
    BY <1>1, <1>3, <1>4

LEMMA WritesShrink ==
  ASSUME StartupTypes, writes # <<>>, writes' = Tail(writes)
  PROVE  /\ writes' \in Seq(Writes) /\ Len(writes') = Len(writes) - 1 /\ Len(writes) \in Nat
         /\ 1 \in 1 .. Len(writes) /\ Head(writes) = writes[1] /\ writes[1] \in Writes
         /\ \A i \in 1 .. Len(writes') : i + 1 \in 1 .. Len(writes) /\ writes'[i] = writes[i + 1]
  <1>1. writes \in Seq(Writes)
    BY DEF StartupTypes
  <1>2. /\ writes' \in Seq(Writes) /\ Len(writes') = Len(writes) - 1 /\ Len(writes) \in Nat
        /\ Len(writes) # 0
        /\ \A i \in 1 .. Len(writes') : writes'[i] = writes[i + 1]
    BY <1>1, HeadTailProperties, LenProperties, EmptySeq
  <1>3. 1 \in 1 .. Len(writes) /\ Head(writes) = writes[1]
    BY <1>1, <1>2
  <1>4. writes[1] \in Writes
    BY <1>1, <1>3, ElementOfSeq
  <1> QED
    BY <1>2, <1>3, <1>4

LEMMA WriteTypes ==
  ASSUME StartupTypes, NEW i \in 1 .. Len(writes)
  PROVE  writes[i] \in Writes /\ writes[i].what \in Inventories
  <1>1. writes[i] \in Writes
    BY ElementOfSeq DEF StartupTypes
  <1> QED
    BY <1>1 DEF Writes

(* What the steps of a fan-out, and of start_cloud's end, leave.           *)
LEMMA FanTypes ==
  ASSUME StartupTypes, NEW g \in Groups, NEW D \in SUBSET Supported, FanOut(g, D)
  PROVE  /\ fan' \in [Groups \X Supported -> {"none", "wait", "status", "profile"}]
         /\ \A h \in Groups, d \in Supported :
               fan'[<<h, d>>] = IF h = g /\ d \in D THEN "wait" ELSE fan[<<h, d>>]
  BY DEF FanOut, StartupTypes

LEMMA StepTypes ==
  ASSUME StartupTypes, NEW g \in Groups, NEW d \in Supported,
         NEW v \in {"none", "wait", "status", "profile"}, fan' = [fan EXCEPT ![<<g, d>>] = v]
  PROVE  /\ fan' \in [Groups \X Supported -> {"none", "wait", "status", "profile"}]
         /\ \A h \in Groups, e \in Supported :
               fan'[<<h, e>>] = IF h = g /\ e = d THEN v ELSE fan[<<h, e>>]
  <1>1. <<g, d>> \in Groups \X Supported /\ fan \in [Groups \X Supported -> {"none", "wait", "status", "profile"}]
    BY DEF StartupTypes
  <1> QED
    BY <1>1

LEMMA ReturnedTypes ==
  ASSUME StartupTypes, NEW who \in {"none", "first", "resume"}, NEW ok, Returned(who, ok)
  PROVE  /\ holder' = "none" /\ inside' = "free"
         /\ first' \in [at : {"none", "sleeping", "queued", "inside", "recovering", "saving", "done"},
                        tries : Nat, rounds : Nat]
         /\ who # "first" => first' = first
         /\ who = "first" => first'.at \in {"recovering", "sleeping"}
  <1>1. /\ holder' = "none" /\ inside' = "free"
        /\ first' = IF who # "first" THEN first
                    ELSE [first EXCEPT !.at = IF ok \/ first.tries + 1 = StartTries
                                              THEN "recovering" ELSE "sleeping",
                                       !.tries = @ + 1]
    BY DEF Returned
  <1>2. first \in [at : {"none", "sleeping", "queued", "inside", "recovering", "saving", "done"},
                   tries : Nat, rounds : Nat]
    BY DEF StartupTypes
  <1>3. CASE who # "first"
    BY <1>1, <1>2, <1>3
  <1>4. CASE who = "first"
    <2>1. PICK v \in {"recovering", "sleeping"} : first' = [first EXCEPT !.at = v, !.tries = @ + 1]
      BY <1>1, <1>4
    <2> DEFINE r == [first EXCEPT !.at = v]
    <2>2. /\ r \in [at : {"none", "sleeping", "queued", "inside", "recovering", "saving", "done"},
                    tries : Nat, rounds : Nat]
          /\ r.at = v
      BY <1>2, <2>1
    <2>3. first' = [r EXCEPT !.tries = @ + 1]
      BY <2>1
    <2> HIDE DEF r
    <2>4. r.tries + 1 \in Nat
      BY <2>2
    <2>5. /\ [r EXCEPT !.tries = @ + 1] \in
                [at : {"none", "sleeping", "queued", "inside", "recovering", "saving", "done"},
                 tries : Nat, rounds : Nat]
          /\ [r EXCEPT !.tries = @ + 1].at = r.at
      BY <2>2, <2>4
    <2> QED
      BY <1>1, <1>4, <2>1, <2>2, <2>3, <2>5
  <1> QED
    BY <1>3, <1>4

LEMMA FirstTypes ==
  ASSUME StartupTypes,
         NEW v \in {"none", "sleeping", "queued", "inside", "recovering", "saving", "done"}
  PROVE  /\ [first EXCEPT !.at = v] \in
               [at : {"none", "sleeping", "queued", "inside", "recovering", "saving", "done"},
                tries : Nat, rounds : Nat]
         /\ [first EXCEPT !.at = v].at = v
         /\ [first EXCEPT !.rounds = @ + 1] \in
               [at : {"none", "sleeping", "queued", "inside", "recovering", "saving", "done"},
                tries : Nat, rounds : Nat]
         /\ [first EXCEPT !.rounds = @ + 1].at = first.at
  BY DEF StartupTypes

LEMMA EmptyTypes ==
  /\ Asleep \in [at : {"none", "sleeping", "queued", "inside", "recovering", "saving", "done"},
                 tries : Nat, rounds : Nat]
  /\ Asleep.at = "none"
  /\ [Asleep EXCEPT !.at = "sleeping"] \in
        [at : {"none", "sleeping", "queued", "inside", "recovering", "saving", "done"},
         tries : Nat, rounds : Nat]
  /\ NoMenu \in [by : {"none", "cloud", "task"}, adds : [Supported -> Facts]]
  /\ NoMenu.by = "none" /\ \A d \in Supported : NoMenu.adds[d] = {}
  /\ NothingOffered \in [Supported -> Facts] /\ \A d \in Supported : NothingOffered[d] = {}
  /\ NoFan \in [Groups \X Supported -> {"none", "wait", "status", "profile"}]
  /\ \A g \in Groups, d \in Supported : NoFan[<<g, d>>] = "none"
  BY DEF Asleep, NoMenu, NothingOffered, NoFan, Facts

LEMMA BuiltTypes ==
  ASSUME StartupTypes, NEW author \in {"cloud", "task"}, Built(author)
  PROVE  /\ menu' \in [by : {"none", "cloud", "task"}, adds : [Supported -> Facts]]
         /\ menu'.by = author
         /\ \A d \in have : menu'.adds[d] = Seen(d)
  <1> DEFINE a == [d \in Supported |-> IF d \in have THEN Seen(d) ELSE {}]
  <1>1. a \in [Supported -> Facts]
    BY SeenIsFacts DEF Seen, Facts
  <1>2. \A d \in have : a[d] = Seen(d)
    BY DEF StartupTypes
  <1>3. menu' = [by |-> author, adds |-> a]
    BY DEF Built
  <1> HIDE DEF a
  <1> QED
    BY <1>1, <1>2, <1>3

----------------------------------------------------------------------------
(* Every step keeps the types.                                             *)
LEMMA StepKeepsTypes ==
  ASSUME StartupInv, StartupNext
  PROVE  StartupTypes'
  <1> USE DEF boot, progress, calls, cloud, listeners
  <1>0. StartupTypes /\ Calm /\ Fans
    BY DEF StartupInv
  <1>1. CASE Restore
    BY <1>0, <1>1 DEF Restore, StartupTypes, Calm, Inventories
  <1>2. CASE SetupListed
    <2>1. have' \in SUBSET Supported /\ answered = {} /\ profiled = {}
      BY <1>0, <1>2 DEF SetupListed, StartupTypes, Calm
    <2>2. fan' \in [Groups \X Supported -> {"none", "wait", "status", "profile"}]
      BY <1>0, <1>2, <2>1, FanTypes DEF SetupListed, Groups
    <2> QED
      BY <1>0, <1>2, <2>1, <2>2 DEF SetupListed, StartupTypes
  <1>3. CASE SetupPrepared
    <2>1. writes' \in Seq(Writes)
      BY <1>0, <1>3, WritesGrow DEF SetupPrepared
    <2> QED
      BY <1>0, <1>3, <2>1 DEF SetupPrepared, StartupTypes
  <1>4. CASE Forwarded
    <2> DEFINE o == [d \in Supported |-> IF d \in have THEN Seen(d) ELSE {}]
    <2>1. o \in [Supported -> Facts]
      BY SeenIsFacts DEF Seen, Facts
    <2>2. offered' = o /\ observed' = o /\ watched' \in SUBSET Supported
      BY <1>0, <1>4 DEF Forwarded, StartupTypes
    <2> HIDE DEF o
    <2>3. first' \in [at : {"none", "sleeping", "queued", "inside", "recovering", "saving", "done"},
                      tries : Nat, rounds : Nat]
      BY <1>4, EmptyTypes DEF Forwarded
    <2>4. stage' = "running" /\ UNCHANGED <<inventory, writes, have, answered, profiled, fan, holder, inside,
                                           resumes, wanted, menu, junked>>
      BY <1>4 DEF Forwarded
    <2> QED
      BY <1>0, <2>1, <2>2, <2>3, <2>4 DEF StartupTypes
  <1>5. CASE GoesDown
    <2>1. inventory' \in Inventories
      <3>1. \A i \in 1 .. Len(writes) : writes[i].what \in Inventories
        BY <1>0, WriteTypes
      <3>2. DOMAIN writes = 1 .. Len(writes)
        BY <1>0, LenProperties DEF StartupTypes
      <3> QED
        BY <1>0, <1>5, <3>1, <3>2 DEF GoesDown, StartupTypes
    <2>2. writes' \in Seq(Writes)
      BY <1>5 DEF GoesDown
    <2> QED
      BY <1>0, <1>5, <2>1, <2>2, EmptyTypes DEF GoesDown, StartupTypes
  <1>6. CASE StaysDown
    BY <1>0, <1>6 DEF StaysDown, startupVars, StartupTypes
  <1>7. ASSUME NEW g \in Groups, NEW d \in Supported, Turn(g, d) PROVE StartupTypes'
    <2>1. Begins(g, d) \in {"none", "wait", "status", "profile"}
      BY DEF Begins
    <2>2. fan' \in [Groups \X Supported -> {"none", "wait", "status", "profile"}]
      BY <1>0, <1>7, <2>1, StepTypes DEF Turn
    <2> QED
      BY <1>0, <1>7, <2>2 DEF Turn, StartupTypes
  <1>8. ASSUME NEW g \in Groups, NEW d \in Supported, StatusEnds(g, d) PROVE StartupTypes'
    <2>1. NextAfter(g, d, "status") \in {"none", "wait", "status", "profile"}
      BY DEF NextAfter
    <2>2. fan' \in [Groups \X Supported -> {"none", "wait", "status", "profile"}]
      BY <1>0, <1>8, <2>1, StepTypes DEF StatusEnds
    <2>3. d \in have
      BY <1>0, <1>8 DEF StatusEnds, Fans, Groups
    <2>4. Seen(d) \in Facts /\ SeenOf(d, answered \cup {d}, profiled) \in Facts
      BY SeenIsFacts DEF Seen
    <2>5. watched' \in SUBSET Supported /\ observed' \in [Supported -> Facts] /\ wanted' \in BOOLEAN
      BY <1>0, <1>8, <2>4, Told DEF StatusEnds, StartupTypes
    <2>6. answered' \in SUBSET have
      BY <1>0, <1>8, <2>3 DEF StatusEnds, StartupTypes
    <2> QED
      BY <1>0, <1>8, <2>2, <2>5, <2>6 DEF StatusEnds, StartupTypes
  <1>9. ASSUME NEW g \in Groups, NEW d \in Supported, ProfileEnds(g, d) PROVE StartupTypes'
    <2>1. NextAfter(g, d, "profile") \in {"none", "wait", "status", "profile"}
      BY DEF NextAfter
    <2>2. fan' \in [Groups \X Supported -> {"none", "wait", "status", "profile"}]
      BY <1>0, <1>9, <2>1, StepTypes DEF ProfileEnds
    <2>3. d \in have
      BY <1>0, <1>9 DEF ProfileEnds, Fans, Groups
    <2>4. SeenOf(d, answered, profiled \cup {d}) \in Facts
      BY SeenIsFacts
    <2>5. watched' \in SUBSET Supported /\ observed' \in [Supported -> Facts] /\ wanted' \in BOOLEAN
      BY <1>0, <1>9, <2>4, Told DEF ProfileEnds, StartupTypes
    <2>6. profiled' \in SUBSET have /\ junked' \in SUBSET Supported
      BY <1>0, <1>9, <2>3 DEF ProfileEnds, StartupTypes
    <2> QED
      BY <1>0, <1>9, <2>2, <2>5, <2>6 DEF ProfileEnds, StartupTypes
  <1>10. ASSUME NEW d \in Supported, Polled(d) PROVE StartupTypes'
    <2>4. SeenOf(d, answered \cup {d}, profiled) \in Facts
      BY SeenIsFacts
    <2>5. watched' \in SUBSET Supported /\ observed' \in [Supported -> Facts] /\ wanted' \in BOOLEAN
      BY <1>0, <1>10, <2>4, Told DEF Polled
    <2>6. answered' \in SUBSET have
      BY <1>0, <1>10 DEF Polled, StartupTypes
    <2> QED
      BY <1>0, <1>10, <2>5, <2>6 DEF Polled, StartupTypes
  <1>11. CASE FirstGoes
    <2>1. \E v \in {"done", "queued"} : first' = [first EXCEPT !.at = v]
      BY <1>11 DEF FirstGoes
    <2>2. first' \in [at : {"none", "sleeping", "queued", "inside", "recovering", "saving", "done"},
                      tries : Nat, rounds : Nat]
      BY <1>0, <2>1, FirstTypes
    <2> QED
      BY <1>0, <1>11, <2>2 DEF FirstGoes, StartupTypes
  <1>12. ASSUME NEW who \in {"first", "resume"}, CloudRefused(who) PROVE StartupTypes'
    <2>1. /\ holder' = "none" /\ inside' = "free"
          /\ first' \in [at : {"none", "sleeping", "queued", "inside", "recovering", "saving", "done"},
                         tries : Nat, rounds : Nat]
      BY <1>0, <1>12, ReturnedTypes DEF CloudRefused
    <2>2. resumes' \in Nat
      BY <1>0, <1>12 DEF CloudRefused, Claims, StartupTypes
    <2> QED
      BY <1>0, <1>12, <2>1, <2>2 DEF CloudRefused, StartupTypes
  <1>13. ASSUME NEW who \in {"first", "resume"}, CloudEnters(who) PROVE StartupTypes'
    <2>1. writes' \in Seq(Writes)
      <3>1. CASE fresh
        BY <1>0, <1>13, <3>1, WritesGrow DEF CloudEnters
      <3>2. CASE ~fresh
        BY <1>0, <1>13, <3>2 DEF CloudEnters, StartupTypes
      <3> QED
        BY <3>1, <3>2
    <2>2. resumes' \in Nat
      BY <1>0, <1>13 DEF CloudEnters, Claims, StartupTypes
    <2>3. first' \in [at : {"none", "sleeping", "queued", "inside", "recovering", "saving", "done"},
                      tries : Nat, rounds : Nat]
      BY <1>0, <1>13, FirstTypes DEF CloudEnters, StartupTypes
    <2> QED
      BY <1>0, <1>13, <2>1, <2>2, <2>3 DEF CloudEnters, StartupTypes
  <1>14. CASE CloudListed
    <2>1. have' \in SUBSET Supported /\ have \subseteq have' /\ watched' \in SUBSET Supported
      BY <1>0, <1>14 DEF CloudListed, StartupTypes
    <2>2. fan' \in [Groups \X Supported -> {"none", "wait", "status", "profile"}]
      BY <1>0, <1>14, <2>1, FanTypes DEF CloudListed, Groups
    <2> QED
      BY <1>0, <1>14, <2>1, <2>2 DEF CloudListed, StartupTypes
  <1>15. CASE CloudListFails
    <2>1. /\ holder' = "none" /\ inside' = "free"
          /\ first' \in [at : {"none", "sleeping", "queued", "inside", "recovering", "saving", "done"},
                         tries : Nat, rounds : Nat]
      BY <1>0, <1>15, ReturnedTypes DEF CloudListFails, StartupTypes
    <2> QED
      BY <1>0, <1>15, <2>1 DEF CloudListFails, StartupTypes
  <1>16. CASE CloudPrepared
    <2>1. writes' \in Seq(Writes)
      BY <1>0, <1>16, WritesGrow DEF CloudPrepared
    <2> QED
      BY <1>0, <1>16, <2>1 DEF CloudPrepared, StartupTypes
  <1>17. CASE Written
    <2>1. writes' \in Seq(Writes) /\ Head(writes).what \in Inventories
      BY <1>0, <1>17, WritesShrink DEF Written, Writes
    <2>2. first' \in [at : {"none", "sleeping", "queued", "inside", "recovering", "saving", "done"},
                      tries : Nat, rounds : Nat]
      BY <1>0, <1>17, FirstTypes DEF Written, StartupTypes
    <2> QED
      BY <1>0, <1>17, <2>1, <2>2 DEF Written, StartupTypes
  <1>18. CASE CloudDiscovers
    <2>1. menu' \in [by : {"none", "cloud", "task"}, adds : [Supported -> Facts]]
      BY <1>0, <1>18, BuiltTypes DEF CloudDiscovers
    <2> QED
      BY <1>0, <1>18, <2>1 DEF CloudDiscovers, StartupTypes
  <1>19. CASE TaskDiscovers
    <2>1. menu' \in [by : {"none", "cloud", "task"}, adds : [Supported -> Facts]]
      BY <1>0, <1>19, BuiltTypes DEF TaskDiscovers
    <2> QED
      BY <1>0, <1>19, <2>1 DEF TaskDiscovers, StartupTypes
  <1>20. CASE Added
    <2>1. offered' \in [Supported -> Facts]
      <3>1. \A d \in Supported : offered[d] \cup menu.adds[d] \in Facts
        BY <1>0 DEF StartupTypes, Facts
      <3> QED
        BY <1>20, <3>1 DEF Added
    <2>2. menu' \in [by : {"none", "cloud", "task"}, adds : [Supported -> Facts]]
      BY <1>20, EmptyTypes DEF Added
    <2> QED
      BY <1>0, <1>20, <2>1, <2>2 DEF Added, StartupTypes
  <1>21. CASE CloudConnects
    <2>1. /\ holder' = "none" /\ inside' = "free"
          /\ first' \in [at : {"none", "sleeping", "queued", "inside", "recovering", "saving", "done"},
                         tries : Nat, rounds : Nat]
      BY <1>0, <1>21, ReturnedTypes DEF CloudConnects, StartupTypes
    <2> QED
      BY <1>0, <1>21, <2>1 DEF CloudConnects, StartupTypes
  <1>22. CASE RecoverRound
    <2> DEFINE M == {d \in have : Seen(d) # Both}
    <2>1. M \in SUBSET Supported /\ FanOut("recover", M)
      BY <1>0, <1>22 DEF RecoverRound, StartupTypes
    <2> HIDE DEF M
    <2>2. fan' \in [Groups \X Supported -> {"none", "wait", "status", "profile"}]
      BY <1>0, <2>1, FanTypes DEF Groups
    <2>3. first' \in [at : {"none", "sleeping", "queued", "inside", "recovering", "saving", "done"},
                      tries : Nat, rounds : Nat]
      BY <1>0, <1>22, FirstTypes DEF RecoverRound
    <2> QED
      BY <1>0, <1>22, <2>2, <2>3 DEF RecoverRound, StartupTypes
  <1>23. CASE RecoverEnds
    <2>1. writes' \in Seq(Writes)
      BY <1>0, <1>23, WritesGrow DEF RecoverEnds
    <2>2. first' \in [at : {"none", "sleeping", "queued", "inside", "recovering", "saving", "done"},
                      tries : Nat, rounds : Nat]
      BY <1>0, <1>23, FirstTypes DEF RecoverEnds
    <2> QED
      BY <1>0, <1>23, <2>1, <2>2 DEF RecoverEnds, StartupTypes
  <1>24. CASE PatPaused
    BY <1>0, <1>24 DEF PatPaused, StartupTypes
  <1>25. CASE PatResumed
    BY <1>0, <1>25 DEF PatResumed, StartupTypes
  <1> QED
    BY <1>1, <1>2, <1>3, <1>4, <1>5, <1>6, <1>7, <1>8, <1>9, <1>10, <1>11, <1>12, <1>13, <1>14,
       <1>15, <1>16, <1>17, <1>18, <1>19, <1>20, <1>21, <1>22, <1>23, <1>24, <1>25 DEF StartupNext

(* Every step keeps what is not running still.                             *)
LEMMA StepKeepsCalm ==
  ASSUME StartupInv, StartupNext
  PROVE  Calm'
  <1> USE DEF boot, progress, calls, cloud, listeners
  <1>0. StartupTypes /\ Calm /\ Fans /\ Writers
    BY DEF StartupInv
  <1>1. CASE Restore
    BY <1>0, <1>1 DEF Restore, Calm
  <1>2. CASE SetupListed \/ SetupPrepared
    BY <1>0, <1>2 DEF SetupListed, SetupPrepared, Calm
  <1>4. CASE Forwarded
    BY <1>0, <1>4 DEF Forwarded, Calm
  <1>5. CASE GoesDown
    BY <1>0, <1>5, EmptyTypes DEF GoesDown, Calm
  <1>6. CASE StaysDown
    BY <1>0, <1>6 DEF StaysDown, startupVars, Calm
  <1>7. ASSUME NEW g \in Groups, NEW d \in Supported, Turn(g, d) PROVE Calm'
    BY <1>0, <1>7 DEF Turn, Calm
  <1>8. ASSUME NEW g \in Groups, NEW d \in Supported, StatusEnds(g, d) PROVE Calm'
    <2>1. stage # "running" => UNCHANGED <<watched, observed, wanted>>
      BY <1>0, <1>8 DEF StatusEnds, Tell, Calm, StartupTypes
    <2> QED
      BY <1>0, <1>8, <2>1 DEF StatusEnds, Calm
  <1>9. ASSUME NEW g \in Groups, NEW d \in Supported, ProfileEnds(g, d) PROVE Calm'
    <2>1. stage # "running" => UNCHANGED <<watched, observed, wanted>>
      BY <1>0, <1>9 DEF ProfileEnds, Tell, Calm, StartupTypes
    <2> QED
      BY <1>0, <1>9, <2>1 DEF ProfileEnds, Calm
  <1>10. ASSUME NEW d \in Supported, Polled(d) PROVE Calm'
    BY <1>0, <1>10 DEF Polled, Calm
  <1>11. CASE FirstGoes
    <2>1. first.at = "sleeping"
      BY <1>11 DEF FirstGoes
    <2> QED
      BY <1>0, <1>11, <2>1 DEF FirstGoes, Calm
  <1>12. ASSUME NEW who \in {"first", "resume"}, CloudRefused(who) PROVE Calm'
    <2>1. holder' = "none" /\ inside' = "free" /\ stage = "running" /\ inside = "free"
      BY <1>0, <1>12 DEF CloudRefused, Claims, Returned, Calm, StartupTypes
    <2> QED
      BY <1>0, <1>12, <2>1 DEF CloudRefused, Calm
  <1>13. ASSUME NEW who \in {"first", "resume"}, CloudEnters(who) PROVE Calm'
    <2>1. stage = "running" /\ inside = "free"
      BY <1>0, <1>13 DEF CloudEnters, Claims, Calm, StartupTypes
    <2>2. who = "first" => first'.at = "inside"
      BY <1>0, <1>13, FirstTypes DEF CloudEnters
    <2> QED
      BY <1>0, <1>13, <2>1, <2>2 DEF CloudEnters, Calm
  <1>14. CASE CloudListed \/ CloudPrepared
    BY <1>0, <1>14 DEF CloudListed, CloudPrepared, Calm
  <1>15. CASE CloudListFails
    BY <1>0, <1>15 DEF CloudListFails, Returned, Calm
  <1>17. CASE Written
    <2>1. /\ writes[1].by = "setup" => stage = "saving"
          /\ writes[1].by = "cloud" => inside = "saving"
          /\ writes[1].by = "first" => first.at = "saving"
          /\ Head(writes) = writes[1]
      BY <1>0, <1>17, WritesShrink DEF Written, Writers
    <2>2. stage # "off" /\ stage' # "off" /\ (stage' = "running" <=> stage = "running")
      BY <1>0, <1>17, <2>1 DEF Written, Calm
    <2>3. writes[1].by = "first" => first'.at = "done"
      BY <1>0, <1>17, <2>1, FirstTypes DEF Written
    <2> QED
      BY <1>0, <1>17, <2>1, <2>2, <2>3 DEF Written, Calm
  <1>18. CASE CloudDiscovers
    <2>1. menu'.by = "cloud"
      BY <1>0, <1>18, BuiltTypes DEF CloudDiscovers
    <2> QED
      BY <1>0, <1>18, <2>1 DEF CloudDiscovers, Calm
  <1>19. CASE TaskDiscovers
    <2>1. menu'.by = "task"
      BY <1>0, <1>19, BuiltTypes DEF TaskDiscovers
    <2> QED
      BY <1>0, <1>19, <2>1 DEF TaskDiscovers, Calm
  <1>20. CASE Added
    BY <1>0, <1>20, EmptyTypes DEF Added, Calm
  <1>21. CASE CloudConnects
    BY <1>0, <1>21 DEF CloudConnects, Returned, Calm
  <1>22. CASE RecoverRound
    <2>1. first'.at = first.at
      BY <1>0, <1>22, FirstTypes DEF RecoverRound
    <2> QED
      BY <1>0, <1>22, <2>1 DEF RecoverRound, Calm
  <1>23. CASE RecoverEnds
    BY <1>0, <1>23 DEF RecoverEnds, Calm
  <1>24. CASE PatPaused \/ PatResumed
    BY <1>0, <1>24 DEF PatPaused, PatResumed, Calm
  <1> QED
    BY <1>1, <1>2, <1>4, <1>5, <1>6, <1>7, <1>8, <1>9, <1>10, <1>11, <1>12, <1>13, <1>14,
       <1>15, <1>17, <1>18, <1>19, <1>20, <1>21, <1>22, <1>23, <1>24 DEF StartupNext

(* Every step keeps the fan-outs to the devices of the entry.              *)
LEMMA StepKeepsFans ==
  ASSUME StartupInv, StartupNext
  PROVE  Fans'
  <1> USE DEF boot, progress, calls, cloud, listeners
  <1>0. StartupTypes /\ Calm /\ Fans /\ Writers
    BY DEF StartupInv
  <1>1. CASE Restore \/ Forwarded
    BY <1>0, <1>1 DEF Restore, Forwarded, Fans
  <1>2. CASE SetupListed
    <2>1. \A h \in Groups, d \in Supported :
             fan'[<<h, d>>] = IF h = "start" /\ d \in have' THEN "wait" ELSE fan[<<h, d>>]
      BY <1>0, <1>2, FanTypes DEF SetupListed, StartupTypes, Groups
    <2> QED
      BY <1>0, <1>2, <2>1 DEF SetupListed, Fans, Groups
  <1>3. CASE SetupPrepared \/ CloudPrepared
    BY <1>0, <1>3 DEF SetupPrepared, CloudPrepared, FanDone, Fans, Calm
  <1>5. CASE GoesDown
    BY <1>5, EmptyTypes DEF GoesDown, Fans, Groups
  <1>6. CASE StaysDown
    BY <1>0, <1>6 DEF StaysDown, startupVars, Fans
  <1>7. ASSUME NEW g \in Groups, NEW d \in Supported, Turn(g, d) PROVE Fans'
    <2>1. Begins(g, d) \in {"none", "wait", "status", "profile"} /\ fan[<<g, d>>] # "none"
      BY <1>7 DEF Begins, Turn
    <2>2. \A h \in Groups, e \in Supported : fan'[<<h, e>>] # "none" => fan[<<h, e>>] # "none"
      BY <1>0, <1>7, <2>1, StepTypes DEF Turn
    <2> QED
      BY <1>0, <1>7, <2>2 DEF Turn, Fans, Groups
  <1>8. ASSUME NEW g \in Groups, NEW d \in Supported, StatusEnds(g, d) PROVE Fans'
    <2>1. NextAfter(g, d, "status") \in {"none", "wait", "status", "profile"} /\ fan[<<g, d>>] # "none"
      BY <1>8 DEF NextAfter, StatusEnds
    <2>2. \A h \in Groups, e \in Supported : fan'[<<h, e>>] # "none" => fan[<<h, e>>] # "none"
      BY <1>0, <1>8, <2>1, StepTypes DEF StatusEnds
    <2> QED
      BY <1>0, <1>8, <2>2 DEF StatusEnds, Fans, Groups
  <1>9. ASSUME NEW g \in Groups, NEW d \in Supported, ProfileEnds(g, d) PROVE Fans'
    <2>1. NextAfter(g, d, "profile") \in {"none", "wait", "status", "profile"} /\ fan[<<g, d>>] # "none"
      BY <1>9 DEF NextAfter, ProfileEnds
    <2>2. \A h \in Groups, e \in Supported : fan'[<<h, e>>] # "none" => fan[<<h, e>>] # "none"
      BY <1>0, <1>9, <2>1, StepTypes DEF ProfileEnds
    <2> QED
      BY <1>0, <1>9, <2>2 DEF ProfileEnds, Fans, Groups
  <1>10. ASSUME NEW d \in Supported, Polled(d) PROVE Fans'
    BY <1>0, <1>10 DEF Polled, Fans
  <1>11. CASE FirstGoes \/ RecoverEnds \/ CloudDiscovers \/ TaskDiscovers \/ PatPaused \/ PatResumed
    BY <1>0, <1>11 DEF FirstGoes, RecoverEnds, CloudDiscovers, TaskDiscovers, PatPaused, PatResumed, Fans
  <1>12. ASSUME NEW who \in {"first", "resume"}, CloudRefused(who) \/ CloudEnters(who) PROVE Fans'
    <2>0. Claims(who)
      BY <1>12 DEF CloudRefused, CloudEnters
    <2>1. inside = "free" /\ stage = "running"
      BY <1>0, <2>0 DEF Claims, Calm, StartupTypes
    <2> QED
      BY <1>0, <1>12, <2>1 DEF CloudRefused, CloudEnters, Fans
  <1>14. CASE CloudListed
    <2>1. \A h \in Groups, d \in Supported :
             fan'[<<h, d>>] = IF h = "start" /\ d \in have' THEN "wait" ELSE fan[<<h, d>>]
      BY <1>0, <1>14, FanTypes DEF CloudListed, StartupTypes, Groups
    <2>2. stage = "running" /\ have \subseteq have'
      BY <1>0, <1>14 DEF CloudListed, Calm
    <2> QED
      BY <1>0, <1>14, <2>1, <2>2 DEF CloudListed, Fans, Groups
  <1>15. CASE CloudListFails \/ CloudConnects
    BY <1>0, <1>15 DEF CloudListFails, CloudConnects, Fans, Calm
  <1>17. CASE Written
    <2>1. /\ writes[1].by = "setup" => stage = "saving"
          /\ writes[1].by = "cloud" => inside = "saving"
          /\ Head(writes) = writes[1]
      BY <1>0, <1>17, WritesShrink DEF Written, Writers
    <2> QED
      BY <1>0, <1>17, <2>1 DEF Written, Fans, Calm
  <1>20. CASE Added
    BY <1>0, <1>20 DEF Added, Fans, Calm
  <1>22. CASE RecoverRound
    <2> DEFINE M == {d \in have : Seen(d) # Both}
    <2>1. M \in SUBSET Supported /\ FanOut("recover", M) /\ M \subseteq have
      BY <1>0, <1>22 DEF RecoverRound, StartupTypes
    <2> HIDE DEF M
    <2>2. \A h \in Groups, d \in Supported :
             fan'[<<h, d>>] = IF h = "recover" /\ d \in M THEN "wait" ELSE fan[<<h, d>>]
      BY <1>0, <2>1, FanTypes DEF Groups
    <2>3. stage = "running"
      BY <1>0, <1>22 DEF RecoverRound, Calm
    <2> QED
      BY <1>0, <1>22, <2>1, <2>2, <2>3 DEF RecoverRound, Fans, Groups
  <1> QED
    BY <1>1, <1>2, <1>3, <1>5, <1>6, <1>7, <1>8, <1>9, <1>10, <1>11, <1>12, <1>14,
       <1>15, <1>17, <1>20, <1>22 DEF StartupNext

(* The queue of saves as its writers see it.                               *)
LEMMA WritersStay ==
  ASSUME Writers, UNCHANGED writes,
         stage = "saving" => stage' = "saving",
         inside = "saving" => inside' = "saving",
         first.at = "saving" => first'.at = "saving"
  PROVE  Writers'
  BY DEF Writers

LEMMA WritersGrow ==
  ASSUME StartupTypes, Writers, NEW author \in {"setup", "cloud", "first"},
         writes' = Append(writes, [by |-> author, what |-> Inventory]),
         stage = "saving" => stage' = "saving",
         inside = "saving" => inside' = "saving",
         first.at = "saving" => first'.at = "saving",
         author = "setup" => stage' = "saving" /\ stage # "saving",
         author = "cloud" => inside' = "saving" /\ inside # "saving",
         author = "first" => first'.at = "saving" /\ first.at # "saving"
  PROVE  Writers'
  <1>1. /\ \A i \in 1 .. Len(writes) : writes'[i] = writes[i] /\ writes[i].by # author
        /\ writes'[Len(writes) + 1].by = author
        /\ \A i \in 1 .. Len(writes') : i \in 1 .. Len(writes) \/ i = Len(writes) + 1
    BY WritesGrow DEF Writers
  <1>2. ASSUME NEW i \in 1 .. Len(writes')
        PROVE  /\ writes'[i].by = "setup" => stage' = "saving"
               /\ writes'[i].by = "cloud" => inside' = "saving"
               /\ writes'[i].by = "first" => first'.at = "saving"
    BY <1>1 DEF Writers
  <1>3. ASSUME NEW i \in 1 .. Len(writes'), NEW j \in 1 .. Len(writes'), writes'[i].by = writes'[j].by
        PROVE  i = j
    <2>1. CASE i \in 1 .. Len(writes) /\ j \in 1 .. Len(writes)
      BY <1>1, <1>3, <2>1 DEF Writers
    <2>2. CASE i = Len(writes) + 1 \/ j = Len(writes) + 1
      BY <1>1, <1>3, <2>2
    <2> QED
      BY <1>1, <2>1, <2>2
  <1> QED
    BY <1>2, <1>3 DEF Writers

(* Every step keeps one save for each writer.                              *)
LEMMA StepKeepsWriters ==
  ASSUME StartupInv, StartupNext
  PROVE  Writers'
  <1> USE DEF boot, progress, calls, cloud, listeners
  <1>0. StartupTypes /\ Calm /\ Writers
    BY DEF StartupInv
  <1>1. CASE Restore \/ SetupListed \/ Forwarded
    <2>1. \A i \in 1 .. Len(writes) : writes[i].by # "setup" /\ writes[i].by # "first"
      BY <1>0, <1>1 DEF Writers, Calm, Restore, SetupListed, Forwarded
    <2>2. UNCHANGED <<writes, inside>>
      BY <1>1 DEF Restore, SetupListed, Forwarded
    <2> QED
      BY <1>0, <2>1, <2>2 DEF Writers
  <1>3. CASE SetupPrepared
    <2>1. /\ writes' = Append(writes, [by |-> "setup", what |-> Inventory])
          /\ stage = "preparing" /\ stage' = "saving" /\ UNCHANGED <<inside, first>>
      BY <1>3 DEF SetupPrepared
    <2> QED
      BY <1>0, <2>1, WritersGrow
  <1>5. CASE GoesDown
    <2>1. writes' = <<>>
      BY <1>5 DEF GoesDown
    <2> QED
      BY <2>1 DEF Writers
  <1>6. CASE StaysDown \/ CloudListed \/ CloudDiscovers \/ TaskDiscovers \/ PatPaused \/ PatResumed
    <2>1. UNCHANGED <<writes, stage, first>> /\ (inside = "saving" => inside' = "saving")
      BY <1>6 DEF StaysDown, startupVars, CloudListed, CloudDiscovers, TaskDiscovers, PatPaused, PatResumed
    <2> QED
      BY <1>0, <2>1, WritersStay
  <1>7. ASSUME NEW g \in Groups, NEW d \in Supported,
               Turn(g, d) \/ StatusEnds(g, d) \/ ProfileEnds(g, d) \/ Polled(d)
        PROVE  Writers'
    <2>1. UNCHANGED <<writes, stage, inside, first>>
      BY <1>7 DEF Turn, StatusEnds, ProfileEnds, Polled
    <2> QED
      BY <1>0, <2>1, WritersStay
  <1>11. CASE FirstGoes
    <2>1. UNCHANGED <<writes, stage, inside>> /\ first.at = "sleeping"
      BY <1>11 DEF FirstGoes
    <2> QED
      BY <1>0, <2>1, WritersStay
  <1>12. ASSUME NEW who \in {"first", "resume"}, CloudRefused(who) PROVE Writers'
    <2>1. /\ UNCHANGED <<writes, stage>> /\ inside # "saving"
          /\ who = "first" => first.at = "queued"
          /\ who # "first" => first' = first
      BY <1>0, <1>12 DEF CloudRefused, Claims, Returned, Calm
    <2> QED
      BY <1>0, <2>1, WritersStay
  <1>13. ASSUME NEW who \in {"first", "resume"}, CloudEnters(who) PROVE Writers'
    <2>1. /\ UNCHANGED stage /\ inside = "free"
          /\ first.at = "saving" => first'.at = "saving"
      BY <1>0, <1>13 DEF CloudEnters, Claims, Calm
    <2>2. CASE fresh
      <3>1. inside' = "saving" /\ writes' = Append(writes, [by |-> "cloud", what |-> Inventory])
        BY <1>13, <2>2 DEF CloudEnters
      <3> QED
        BY <1>0, <2>1, <3>1, WritersGrow
    <2>3. CASE ~fresh
      <3>1. UNCHANGED writes
        BY <1>13, <2>3 DEF CloudEnters
      <3> QED
        BY <1>0, <2>1, <3>1, WritersStay
    <2> QED
      BY <2>2, <2>3
  <1>15. CASE CloudListFails \/ CloudConnects
    <2>1. /\ UNCHANGED <<writes, stage>> /\ inside # "saving"
          /\ holder = "first" => first.at = "inside"
          /\ holder # "first" => first' = first
      BY <1>0, <1>15 DEF CloudListFails, CloudConnects, Returned, Calm
    <2> QED
      BY <1>0, <2>1, WritersStay
  <1>16. CASE CloudPrepared
    <2>1. /\ writes' = Append(writes, [by |-> "cloud", what |-> Inventory])
          /\ inside = "preparing" /\ inside' = "saving" /\ UNCHANGED <<stage, first>>
      BY <1>16 DEF CloudPrepared
    <2> QED
      BY <1>0, <2>1, WritersGrow
  <1>17. CASE Written
    <2>1. /\ Head(writes) = writes[1] /\ 1 \in 1 .. Len(writes) /\ Len(writes) \in Nat
          /\ \A i \in 1 .. Len(writes') : i + 1 \in 1 .. Len(writes) /\ writes'[i] = writes[i + 1]
      BY <1>0, <1>17, WritesShrink DEF Written
    <2>2. /\ writes[1].by # "setup" => stage' = stage
          /\ writes[1].by # "cloud" => inside' = inside
          /\ writes[1].by # "first" => first' = first
      BY <1>17, <2>1 DEF Written
    <2>3. \A i \in 1 .. Len(writes') : writes'[i].by # writes[1].by
      BY <1>0, <2>1 DEF Writers
    <2>4. \A i \in 1 .. Len(writes') :
             /\ writes'[i].by = "setup" => stage' = "saving"
             /\ writes'[i].by = "cloud" => inside' = "saving"
             /\ writes'[i].by = "first" => first'.at = "saving"
      BY <1>0, <2>1, <2>2, <2>3 DEF Writers
    <2>5. ASSUME NEW i \in 1 .. Len(writes'), NEW j \in 1 .. Len(writes'), writes'[i].by = writes'[j].by
          PROVE  i = j
      BY <1>0, <2>1, <2>5 DEF Writers
    <2> QED
      BY <2>4, <2>5 DEF Writers
  <1>20. CASE Added
    <2>1. UNCHANGED <<writes, stage, first>> /\ (inside = "saving" => inside' = "saving")
      BY <1>0, <1>20 DEF Added, Calm
    <2> QED
      BY <1>0, <2>1, WritersStay
  <1>22. CASE RecoverRound
    <2>1. UNCHANGED <<writes, stage, inside>> /\ first.at # "saving"
      BY <1>22 DEF RecoverRound
    <2> QED
      BY <1>0, <2>1, WritersStay
  <1>23. CASE RecoverEnds
    <2>1. /\ writes' = Append(writes, [by |-> "first", what |-> Inventory])
          /\ first.at = "recovering" /\ UNCHANGED <<stage, inside>>
          /\ first' = [first EXCEPT !.at = "saving"]
      BY <1>23 DEF RecoverEnds
    <2>2. first'.at = "saving"
      BY <1>0, <2>1, FirstTypes
    <2> QED
      BY <1>0, <2>1, <2>2, WritersGrow
  <1> QED
    BY <1>1, <1>3, <1>5, <1>6, <1>7, <1>11, <1>12, <1>13, <1>15, <1>16, <1>17, <1>20,
       <1>22, <1>23 DEF StartupNext, Groups

(* What is stored and what is queued, as far as it is kept.                *)
LEMMA KeptStays ==
  ASSUME Kept, UNCHANGED <<inventory, writes>>, stage' # "off" => stage # "off",
         have \subseteq have', profiled \subseteq profiled' \cup junked', junked \subseteq junked'
  PROVE  Kept'
  BY DEF Kept, KeptBy

LEMMA KeptGrows ==
  ASSUME StartupTypes, Kept, stage # "off", NEW author \in {"setup", "cloud", "first"},
         writes' = Append(writes, [by |-> author, what |-> Inventory]),
         UNCHANGED <<inventory, have, profiled, junked>>
  PROVE  Kept'
  <1>1. /\ \A i \in 1 .. Len(writes) : writes'[i] = writes[i]
        /\ Len(writes) \in Nat /\ Len(writes') = Len(writes) + 1
        /\ writes'[Len(writes) + 1].what.devices = have
        /\ writes'[Len(writes) + 1].what.profiles = profiled
        /\ \A i \in 1 .. Len(writes') : i \in 1 .. Len(writes) \/ i = Len(writes) + 1
    <2>1. have \cap profiled = profiled
      BY DEF StartupTypes
    <2> QED
      BY <2>1, WritesGrow, InventoryIsOne
  <1>2. \A i \in 1 .. Len(writes') :
           KeptBy(inventory, writes'[i].what.devices, writes'[i].what.profiles)
    BY <1>1 DEF Kept, KeptBy
  <1>3. ASSUME NEW i \in 1 .. Len(writes'), NEW j \in 1 .. Len(writes'), i < j
        PROVE  KeptBy(writes'[i].what, writes'[j].what.devices, writes'[j].what.profiles)
    <2>1. i \in 1 .. Len(writes)
      BY <1>1, <1>3
    <2>2. CASE j \in 1 .. Len(writes)
      BY <1>1, <1>3, <2>1, <2>2 DEF Kept
    <2>3. CASE j = Len(writes) + 1
      BY <1>1, <2>1, <2>3 DEF Kept, KeptBy
    <2> QED
      BY <1>1, <2>2, <2>3
  <1>4. /\ KeptBy(inventory, have, profiled)
        /\ \A i \in 1 .. Len(writes') : KeptBy(writes'[i].what, have, profiled)
    BY <1>1 DEF Kept, KeptBy
  <1> QED
    BY <1>2, <1>3, <1>4 DEF Kept, KeptBy

(* Every step keeps what was known.                                        *)
LEMMA StepKeepsKept ==
  ASSUME StartupInv, StartupNext
  PROVE  Kept'
  <1> USE DEF boot, progress, calls, cloud, listeners
  <1>0. StartupTypes /\ Calm /\ Fans /\ Writers /\ Kept
    BY DEF StartupInv
  <1>1. CASE Restore
    <2>1. writes = <<>> /\ UNCHANGED <<writes, inventory, junked>>
      BY <1>0, <1>1 DEF Restore, Calm
    <2>2. KeptBy(inventory, have', profiled')
      BY <1>0, <1>1 DEF Restore, KeptBy, StartupTypes, Inventories
    <2> QED
      BY <2>1, <2>2 DEF Kept, KeptBy
  <1>2. CASE SetupListed
    BY <1>0, <1>2, KeptStays DEF SetupListed, Calm
  <1>3. CASE SetupPrepared
    BY <1>0, <1>3, KeptGrows DEF SetupPrepared
  <1>5. CASE GoesDown
    <2>1. writes' = <<>> /\ stage' = "off"
      BY <1>5 DEF GoesDown
    <2> QED
      BY <2>1 DEF Kept
  <1>6. CASE StaysDown \/ Forwarded \/ FirstGoes \/ CloudListFails \/ CloudDiscovers \/ TaskDiscovers
                  \/ Added \/ CloudConnects \/ RecoverRound \/ PatPaused \/ PatResumed
    <2>1. /\ UNCHANGED <<inventory, writes, have, profiled, junked>>
          /\ stage' # "off" => stage # "off"
      BY <1>6 DEF StaysDown, startupVars, Forwarded, FirstGoes, CloudListFails, CloudDiscovers,
         TaskDiscovers, Added, CloudConnects, RecoverRound, PatPaused, PatResumed
    <2> QED
      BY <1>0, <2>1, KeptStays
  <1>7. ASSUME NEW g \in Groups, NEW d \in Supported, Turn(g, d) \/ StatusEnds(g, d) \/ Polled(d)
        PROVE  Kept'
    <2>1. UNCHANGED <<inventory, writes, have, profiled, junked, stage>>
      BY <1>7 DEF Turn, StatusEnds, Polled
    <2> QED
      BY <1>0, <2>1, KeptStays
  <1>9. ASSUME NEW g \in Groups, NEW d \in Supported, ProfileEnds(g, d) PROVE Kept'
    <2>1. /\ UNCHANGED <<inventory, writes, have, stage>>
          /\ profiled \subseteq profiled' \cup junked' /\ junked \subseteq junked'
      BY <1>9 DEF ProfileEnds
    <2> QED
      BY <1>0, <2>1, KeptStays
  <1>12. ASSUME NEW who \in {"first", "resume"}, CloudRefused(who) PROVE Kept'
    <2>1. UNCHANGED <<inventory, writes, have, profiled, junked, stage>>
      BY <1>12 DEF CloudRefused
    <2> QED
      BY <1>0, <2>1, KeptStays
  <1>13. ASSUME NEW who \in {"first", "resume"}, CloudEnters(who) PROVE Kept'
    <2>1. UNCHANGED <<inventory, have, profiled, junked, stage>>
      BY <1>13 DEF CloudEnters
    <2>2. CASE fresh
      <3>1. writes' = Append(writes, [by |-> "cloud", what |-> Inventory])
        BY <1>13, <2>2 DEF CloudEnters
      <3>2. stage # "off"
        BY <1>0, <1>13 DEF CloudEnters, Claims, Calm
      <3> QED
        BY <1>0, <2>1, <3>1, <3>2, KeptGrows
    <2>3. CASE ~fresh
      <3>1. UNCHANGED writes
        BY <1>13, <2>3 DEF CloudEnters
      <3> QED
        BY <1>0, <2>1, <3>1, KeptStays
    <2> QED
      BY <2>2, <2>3
  <1>14. CASE CloudListed
    <2>1. UNCHANGED <<inventory, writes, profiled, junked, stage>> /\ have \subseteq have'
      BY <1>14 DEF CloudListed
    <2> QED
      BY <1>0, <2>1, KeptStays
  <1>16. CASE CloudPrepared
    <2>1. stage # "off"
      BY <1>0, <1>16 DEF CloudPrepared, Calm
    <2> QED
      BY <1>0, <1>16, <2>1, KeptGrows DEF CloudPrepared
  <1>17. CASE Written
    <2>1. /\ Head(writes) = writes[1] /\ 1 \in 1 .. Len(writes) /\ Len(writes) \in Nat
          /\ \A i \in 1 .. Len(writes') : i + 1 \in 1 .. Len(writes) /\ writes'[i] = writes[i + 1]
      BY <1>0, <1>17, WritesShrink DEF Written
    <2>2. inventory' = writes[1].what /\ UNCHANGED <<have, profiled, junked>> /\ stage # "off"
      BY <1>0, <1>17, <2>1 DEF Written, Calm
    <2>3. \A i \in 1 .. Len(writes') :
             KeptBy(inventory', writes'[i].what.devices, writes'[i].what.profiles)
      BY <1>0, <2>1, <2>2 DEF Kept
    <2>4. ASSUME NEW i \in 1 .. Len(writes'), NEW j \in 1 .. Len(writes'), i < j
          PROVE  KeptBy(writes'[i].what, writes'[j].what.devices, writes'[j].what.profiles)
      BY <1>0, <2>1, <2>4 DEF Kept
    <2>5. /\ KeptBy(inventory', have, profiled)
          /\ \A i \in 1 .. Len(writes') : KeptBy(writes'[i].what, have, profiled)
      BY <1>0, <2>1, <2>2 DEF Kept
    <2> QED
      BY <2>2, <2>3, <2>4, <2>5 DEF Kept, KeptBy
  <1>23. CASE RecoverEnds
    <2>1. stage # "off"
      BY <1>0, <1>23 DEF RecoverEnds, Calm
    <2> QED
      BY <1>0, <1>23, <2>1, KeptGrows DEF RecoverEnds
  <1> QED
    BY <1>1, <1>2, <1>3, <1>5, <1>6, <1>7, <1>9, <1>12, <1>13, <1>14, <1>16, <1>17, <1>23
    DEF StartupNext, Groups

(* What the listeners saw, while nothing of it changes.                    *)
LEMMA WatchingStays ==
  ASSUME Watching, stage' = "running" => stage = "running", Behind => Behind',
         UNCHANGED <<have, answered, profiled, junked, watched, observed, wanted, offered, menu>>
  PROVE  Watching'
  <1>1. \A d : Seen(d)' = Seen(d)
    BY DEF Seen, SeenOf
  <1> QED
    BY <1>1 DEF Watching

(* A device is known better, and its listener is told.                     *)
LEMMA TellingKeepsWatching ==
  ASSUME StartupTypes, Watching, NEW d \in have, Tell(d, Seen(d)'), answered \subseteq answered',
         profiled \subseteq profiled', answered' \subseteq answered \cup {d},
         profiled' \subseteq profiled \cup {d},
         UNCHANGED <<stage, have, junked, offered, menu, inside>>
  PROVE  Watching'
  <1>1. d \in Supported /\ Seen(d)' \in Facts
    BY SeenIsFacts DEF StartupTypes, Seen
  <1>2. /\ \A e \in Supported \ {d} : observed'[e] = observed[e] /\ (e \in watched' <=> e \in watched)
        /\ d \notin watched => watched' = watched /\ observed' = observed
        /\ d \in watched => observed'[d] = Seen(d)' /\ (Seen(d)' # observed[d] => wanted')
        /\ d \in watched /\ d \notin watched' => Seen(d)' = Both
        /\ wanted => wanted'
    BY <1>1, Told
  <1>3. \A e \in Supported : Seen(e) \subseteq Seen(e)'
    BY SeenGrows DEF Seen
  <1>4. \A e \in Supported \ {d} : Seen(e)' = Seen(e)
    BY DEF Seen, SeenOf
  <1>5. \A e \in Supported \ have' : observed'[e] = {}
    BY <1>1, <1>2 DEF Watching
  <1>6. ASSUME stage' = "running", NEW e \in have' \ junked'
        PROVE  /\ e \notin watched' => observed'[e] = Both
               /\ observed'[e] \subseteq offered'[e] \cup menu'.adds[e] \/ wanted'
               /\ observed'[e] \subseteq offered'[e] \cup Seen(e)'
               /\ Seen(e)' \subseteq observed'[e] \cup offered'[e] \cup menu'.adds[e] \/ Behind'
    <2>1. e \in Supported /\ e \in have \ junked /\ stage = "running" /\ (Behind => Behind')
      BY <1>6 DEF StartupTypes, Behind
    <2>2. CASE e # d
      BY <1>2, <1>4, <2>1, <2>2 DEF Watching
    <2>3. CASE e = d /\ d \in watched
      BY <1>2, <1>3, <2>1, <2>3 DEF Watching
    <2>4. CASE e = d /\ d \notin watched
      <3>1. observed'[e] = Both /\ observed[e] = Both /\ e \notin watched
        BY <1>2, <2>1, <2>4 DEF Watching
      <3>2. Seen(e)' \subseteq Both
        BY <1>1, <2>4 DEF Facts
      <3> QED
        BY <1>2, <1>3, <2>1, <2>4, <3>1, <3>2 DEF Watching
    <2> QED
      BY <2>2, <2>3, <2>4
  <1> QED
    BY <1>5, <1>6 DEF Watching

(* Every step keeps the listeners of what was not seen whole.              *)
LEMMA StepKeepsWatching ==
  ASSUME StartupInv, StartupNext
  PROVE  Watching'
  <1> USE DEF boot, progress, calls, cloud, listeners
  <1>0. StartupTypes /\ Calm /\ Fans /\ Writers /\ Watching
    BY DEF StartupInv
  <1>1. CASE Restore
    <2>1. stage' # "running" /\ observed' = NothingOffered
      BY <1>0, <1>1 DEF Restore, Calm
    <2> QED
      BY <2>1, EmptyTypes DEF Watching
  <1>2. CASE SetupListed
    <2>1. stage' # "running" /\ observed' = NothingOffered
      BY <1>0, <1>2 DEF SetupListed, Calm
    <2> QED
      BY <2>1, EmptyTypes DEF Watching
  <1>3. CASE SetupPrepared
    <2>1. /\ UNCHANGED <<have, answered, profiled, junked, watched, observed, wanted, offered, menu, inside>>
          /\ stage' = "saving"
      BY <1>3 DEF SetupPrepared
    <2> QED
      BY <1>0, <2>1, WatchingStays DEF Behind
  <1>4. CASE Forwarded
    <2>1. /\ offered' = [d \in Supported |-> IF d \in have THEN Seen(d) ELSE {}]
          /\ observed' = offered' /\ watched' = {d \in have : Seen(d) # Both}
          /\ UNCHANGED <<have, answered, profiled, menu, inside>>
      BY <1>4 DEF Forwarded
    <2>2. \A d \in Supported : Seen(d)' = Seen(d)
      BY <2>1 DEF Seen, SeenOf
    <2>3. \A d \in Supported \ have' : observed'[d] = {}
      BY <2>1
    <2>4. ASSUME NEW d \in have'
          PROVE  /\ observed'[d] = Seen(d)' /\ offered'[d] = Seen(d)'
                 /\ d \notin watched' => observed'[d] = Both
      BY <1>0, <2>1, <2>2 DEF StartupTypes
    <2> QED
      BY <2>3, <2>4 DEF Watching
  <1>5. CASE GoesDown
    <2>1. stage' = "off" /\ observed' = NothingOffered
      BY <1>5 DEF GoesDown
    <2> QED
      BY <2>1, EmptyTypes DEF Watching
  <1>6. CASE StaysDown \/ FirstGoes \/ RecoverRound \/ RecoverEnds \/ PatPaused \/ PatResumed
    <2>1. UNCHANGED <<stage, have, answered, profiled, junked, watched, observed, wanted, offered, menu, inside>>
      BY <1>6 DEF StaysDown, startupVars, FirstGoes, RecoverRound, RecoverEnds, PatPaused, PatResumed
    <2> QED
      BY <1>0, <2>1, WatchingStays DEF Behind
  <1>7. ASSUME NEW g \in Groups, NEW d \in Supported, Turn(g, d) PROVE Watching'
    <2>1. UNCHANGED <<stage, have, answered, profiled, junked, watched, observed, wanted, offered, menu, inside>>
      BY <1>7 DEF Turn
    <2> QED
      BY <1>0, <2>1, WatchingStays DEF Behind
  <1>8. ASSUME NEW g \in Groups, NEW d \in Supported, StatusEnds(g, d) PROVE Watching'
    <2>1. /\ d \in have /\ UNCHANGED <<stage, have, profiled, junked, offered, menu, inside>>
      BY <1>0, <1>8 DEF StatusEnds, Fans, Groups
    <2>2. CASE /\ answered' = answered \cup {d}
               /\ Tell(d, SeenOf(d, answered \cup {d}, profiled))
      <3>1. Tell(d, Seen(d)')
        BY <2>1, <2>2 DEF Seen
      <3> QED
        BY <1>0, <2>1, <2>2, <3>1, TellingKeepsWatching
    <2>3. CASE UNCHANGED answered /\ Tell(d, Seen(d))
      <3>1. Tell(d, Seen(d)')
        BY <2>1, <2>3 DEF Seen
      <3> QED
        BY <1>0, <2>1, <2>3, <3>1, TellingKeepsWatching
    <2>4. CASE UNCHANGED <<answered, watched, observed, wanted>>
      BY <1>0, <2>1, <2>4, WatchingStays DEF Behind
    <2> QED
      BY <1>8, <2>2, <2>3, <2>4 DEF StatusEnds
  <1>9. ASSUME NEW g \in Groups, NEW d \in Supported, ProfileEnds(g, d) PROVE Watching'
    <2>1. d \in have /\ UNCHANGED <<stage, have, answered, offered, menu, inside>>
      BY <1>0, <1>9 DEF ProfileEnds, Fans, Groups
    <2>2. CASE /\ profiled' = profiled \cup {d} /\ UNCHANGED junked
               /\ g = "recover" /\ Tell(d, SeenOf(d, answered, profiled \cup {d}))
      <3>1. Tell(d, Seen(d)')
        BY <2>1, <2>2 DEF Seen
      <3> QED
        BY <1>0, <2>1, <2>2, <3>1, TellingKeepsWatching
    <2>3. CASE profiled' = profiled \cup {d} /\ g = "start" /\ UNCHANGED <<junked, watched, observed, wanted>>
      <3>1. stage = "running" => Behind'
        <4>1. fan[<<"start", d>>] # "none" /\ d \in Supported /\ UNCHANGED inside
          BY <1>9, <2>1, <2>3 DEF ProfileEnds
        <4> QED
          BY <1>0, <4>1 DEF Fans, Behind
      <3>2. \A e \in Supported : Seen(e) \subseteq Seen(e)'
        BY <2>1, <2>3, SeenGrows DEF Seen
      <3>3. \A e \in have : e \in Supported
        BY <1>0 DEF StartupTypes
      <3> QED
        BY <1>0, <2>1, <2>3, <3>1, <3>2, <3>3 DEF Watching
    <2>4. CASE /\ profiled' = profiled \ {d} /\ junked' = junked \cup {d}
               /\ UNCHANGED <<watched, observed, wanted>>
      <3>1. \A e \in have' \ junked' : Seen(e)' = Seen(e) /\ e \in have \ junked
        BY <2>1, <2>4 DEF Seen, SeenOf
      <3>2. Behind' = Behind
        BY <2>1 DEF Behind
      <3> QED
        BY <1>0, <2>1, <2>4, <3>1, <3>2 DEF Watching
    <2>5. CASE UNCHANGED <<profiled, junked, watched, observed, wanted>>
      BY <1>0, <2>1, <2>5, WatchingStays DEF Behind
    <2> QED
      BY <1>9, <2>2, <2>3, <2>4, <2>5 DEF ProfileEnds, Groups
  <1>10. ASSUME NEW d \in Supported, Polled(d) PROVE Watching'
    <2>1. /\ d \in have /\ answered' = answered \cup {d}
          /\ UNCHANGED <<stage, have, profiled, junked, offered, menu, inside>>
          /\ Tell(d, SeenOf(d, answered \cup {d}, profiled))
      BY <1>10 DEF Polled
    <2>2. Tell(d, Seen(d)')
      BY <2>1 DEF Seen
    <2> QED
      BY <1>0, <2>1, <2>2, TellingKeepsWatching
  <1>12. ASSUME NEW who \in {"first", "resume"}, CloudRefused(who) \/ CloudEnters(who) PROVE Watching'
    <2>0. Claims(who)
      BY <1>12 DEF CloudRefused, CloudEnters
    <2>1. UNCHANGED <<stage, have, answered, profiled, junked, watched, observed, wanted, offered, menu>>
      BY <1>12 DEF CloudRefused, CloudEnters
    <2>2. ~Behind
      BY <1>0, <2>0 DEF Claims, Calm, Behind
    <2> QED
      BY <1>0, <2>1, <2>2, WatchingStays
  <1>14. CASE CloudListed
    <2>1. /\ have \subseteq have' /\ watched' = watched \cup (have' \ have) /\ inside' = "preparing"
          /\ UNCHANGED <<stage, answered, profiled, junked, observed, wanted, offered, menu>>
      BY <1>14 DEF CloudListed
    <2>2. Behind'
      BY <2>1 DEF Behind
    <2>3. \A d \in Supported \ have' : observed'[d] = {}
      BY <1>0, <2>1 DEF Watching
    <2>4. ASSUME stage' = "running", NEW d \in have' \ junked'
          PROVE  /\ d \notin watched' => observed'[d] = Both
                 /\ observed'[d] \subseteq offered'[d] \cup menu'.adds[d] \/ wanted'
                 /\ observed'[d] \subseteq offered'[d] \cup Seen(d)'
      <3>1. CASE d \in have
        <4>1. Seen(d)' = Seen(d)
          BY <2>1 DEF Seen, SeenOf
        <4> QED
          BY <1>0, <2>1, <2>4, <3>1, <4>1 DEF Watching
      <3>2. CASE d \notin have
        <4>1. d \in Supported /\ d \in watched'
          BY <1>0, <1>14, <2>1, <2>4, <3>2 DEF CloudListed, StartupTypes
        <4> QED
          BY <1>0, <2>1, <3>2, <4>1 DEF Watching
      <3> QED
        BY <3>1, <3>2
    <2> QED
      BY <2>2, <2>3, <2>4 DEF Watching
  <1>15. CASE CloudListFails \/ CloudConnects \/ CloudPrepared
    <2>1. /\ UNCHANGED <<stage, have, answered, profiled, junked, watched, observed, wanted, offered, menu>>
          /\ Behind => Behind'
      BY <1>15 DEF CloudListFails, CloudConnects, CloudPrepared, Behind
    <2> QED
      BY <1>0, <2>1, WatchingStays
  <1>17. CASE Written
    <2>1. /\ Head(writes) = writes[1]
          /\ writes[1].by = "setup" => stage = "saving"
          /\ writes[1].by = "cloud" => inside = "saving"
      BY <1>0, <1>17, WritesShrink DEF Written, Writers
    <2>2. stage' = "running" => stage = "running"
      BY <1>0, <1>17, <2>1 DEF Written
    <2>3. Behind => Behind'
      BY <1>0, <1>17, <2>1 DEF Written, Behind, Calm
    <2>4. UNCHANGED <<have, answered, profiled, junked, watched, observed, wanted, offered, menu>>
      BY <1>17 DEF Written
    <2> QED
      BY <1>0, <2>2, <2>3, <2>4, WatchingStays
  <1>18. CASE CloudDiscovers \/ TaskDiscovers
    <2>1. /\ menu.by = "none" /\ (wanted' => wanted)
          /\ UNCHANGED <<stage, have, answered, profiled, junked, watched, observed, offered>>
      BY <1>18 DEF CloudDiscovers, TaskDiscovers
    <2>2. /\ \A d \in have : menu'.adds[d] = Seen(d)
      BY <1>0, <1>18, BuiltTypes DEF CloudDiscovers, TaskDiscovers
    <2>3. \A d \in have : Seen(d)' = Seen(d)
      BY <2>1 DEF Seen, SeenOf
    <2> QED
      BY <1>0, <2>1, <2>2, <2>3 DEF Watching
  <1>20. CASE Added
    <2>1. /\ offered' = [d \in Supported |-> offered[d] \cup menu.adds[d]] /\ menu' = NoMenu
          /\ UNCHANGED <<stage, have, answered, profiled, junked, watched, observed, wanted>>
      BY <1>20 DEF Added
    <2>2. \A d \in have : d \in Supported /\ offered'[d] = offered[d] \cup menu.adds[d] /\ menu'.adds[d] = {}
      BY <1>0, <2>1, EmptyTypes DEF StartupTypes
    <2>3. \A d \in have : Seen(d)' = Seen(d)
      BY <2>1 DEF Seen, SeenOf
    <2>4. Behind => Behind'
      BY <1>0, <1>20, EmptyTypes DEF Added, Behind, Calm
    <2> QED
      BY <1>0, <2>1, <2>2, <2>3, <2>4 DEF Watching
  <1> QED
    BY <1>1, <1>2, <1>3, <1>4, <1>5, <1>6, <1>7, <1>8, <1>9, <1>10, <1>12, <1>14,
       <1>15, <1>17, <1>18, <1>20 DEF StartupNext

(* The states an entry begins in.                                          *)
LEMMA StartupBegins ==
  ASSUME StartupInit
  PROVE  StartupInv
  <1>1. /\ stage = "off" /\ have = {} /\ answered = {} /\ profiled = {} /\ fan = NoFan
        /\ holder = "none" /\ inside = "free" /\ first = Asleep /\ resumes = 0
        /\ watched = {} /\ observed = NothingOffered /\ wanted = FALSE
        /\ menu = NoMenu /\ offered = NothingOffered /\ writes = <<>> /\ junked = {}
    BY DEF StartupInit, Down
  <1>2. inventory \in Inventories
    BY DEF StartupInit, Inventories
  <1>3. StartupTypes
    <2>1. <<>> \in Seq(Writes)
      OBVIOUS
    <2>2. inventory \in Inventories /\ writes \in Seq(Writes)
      BY <1>1, <1>2, <2>1
    <2>3. /\ stage \in {"off"} /\ have \in SUBSET Supported /\ answered \in SUBSET have
          /\ profiled \in SUBSET have /\ resumes \in Nat /\ watched \in SUBSET Supported
          /\ wanted \in BOOLEAN /\ junked \in SUBSET Supported
      BY <1>1
    <2> QED
      BY <1>1, <2>2, <2>3, EmptyTypes DEF StartupTypes
  <1>4. Calm /\ Fans /\ Writers /\ Kept /\ Watching
    <2>1. Calm
      BY <1>1, EmptyTypes DEF Calm
    <2>2. Fans
      BY <1>1, EmptyTypes DEF Fans, Groups
    <2>3. Writers /\ Kept
      BY <1>1 DEF Writers, Kept
    <2>4. Watching
      BY <1>1, EmptyTypes DEF Watching
    <2> QED
      BY <2>1, <2>2, <2>3, <2>4
  <1> QED
    BY <1>3, <1>4 DEF StartupInv

(* The invariant of the start holds in every state of every entry.         *)
THEOREM StartupInvariant == StartupSpec => []StartupInv
  <1>1. StartupInit => StartupInv
    BY StartupBegins
  <1>2. StartupInv /\ [StartupNext]_startupVars => StartupInv'
    <2> SUFFICES ASSUME StartupInv, [StartupNext]_startupVars PROVE StartupInv'
      OBVIOUS
    <2>1. CASE StartupNext
      BY <2>1, StepKeepsTypes, StepKeepsCalm, StepKeepsFans, StepKeepsWriters, StepKeepsKept,
         StepKeepsWatching DEF StartupInv
    <2>2. CASE UNCHANGED startupVars
      BY <2>2 DEF StartupInv, StartupTypes, Calm, Fans, Writers, Kept, KeptBy, Watching, Behind, Seen,
         SeenOf, startupVars, boot, progress, calls, cloud, listeners
    <2> QED
      BY <2>1, <2>2
  <1> QED
    BY <1>1, <1>2, PTL DEF StartupSpec

(* What is known of a device is offered to Home Assistant once no          *)
(* discovery is left to run, whichever read came late (startup.py and      *)
(* async_discover).                                                        *)
THEOREM LateDevicesAreOffered == StartupSpec => []KnownIsOffered
  <1>1. StartupInv => KnownIsOffered
    <2> SUFFICES ASSUME StartupInv, stage = "running", ~Catching, NEW d \in have \ junked
                 PROVE  Seen(d) \subseteq offered[d]
      BY DEF KnownIsOffered
    <2>1. ~Behind /\ ~wanted /\ menu = NoMenu /\ d \in Supported
      BY DEF Catching, Behind, StartupInv, Calm, StartupTypes
    <2>2. menu.adds[d] = {}
      BY <2>1, EmptyTypes
    <2> QED
      BY <2>1, <2>2 DEF StartupInv, Watching
  <1> QED
    BY <1>1, StartupInvariant, PTL

(* The stored inventory never forgets a device it could identify, nor its  *)
(* profile: not when a set-up is cut short between two saves, and not when *)
(* a read fails (inventory.py's async_save_inventory).                     *)
THEOREM InventoryIsKept == StartupSpec => NothingVerifiedIsLost
  <1> DEFINE Keeps == /\ inventory.devices \cap Named \subseteq inventory'.devices
                      /\ inventory.profiles \cap Named \subseteq inventory'.profiles \cup junked'
  <1>1. StartupInv /\ [StartupNext]_startupVars => [Keeps]_startupVars
    <2> SUFFICES ASSUME StartupInv, StartupNext PROVE Keeps
      OBVIOUS
    <2> USE DEF boot, progress, calls, cloud, listeners
    <2>0. StartupTypes /\ Kept
      BY DEF StartupInv
    <2>1. CASE UNCHANGED inventory
      BY <2>1
    <2>2. CASE GoesDown
      <3>1. DOMAIN writes = 1 .. Len(writes)
        BY <2>0, LenProperties DEF StartupTypes
      <3>2. UNCHANGED junked
        BY <2>2 DEF GoesDown
      <3>3. inventory' = inventory \/ \E i \in 1 .. Len(writes) : inventory' = writes[i].what
        BY <2>2, <3>1 DEF GoesDown
      <3> QED
        BY <2>0, <3>2, <3>3 DEF Kept, KeptBy
    <2>3. CASE Written
      <3>1. inventory' = writes[1].what /\ 1 \in 1 .. Len(writes) /\ UNCHANGED junked
        BY <2>0, <2>3, WritesShrink DEF Written
      <3> QED
        BY <2>0, <3>1 DEF Kept, KeptBy
    <2>4. ASSUME ~GoesDown, ~Written PROVE UNCHANGED inventory
      BY <2>4 DEF StartupNext, Restore, SetupListed, SetupPrepared, Forwarded, StaysDown, startupVars,
         Turn, StatusEnds, ProfileEnds, Polled, FirstGoes, CloudRefused, CloudEnters, CloudListed,
         CloudListFails, CloudPrepared, CloudDiscovers, TaskDiscovers, Added, CloudConnects,
         RecoverRound, RecoverEnds, PatPaused, PatResumed
    <2> QED
      BY <2>1, <2>2, <2>3, <2>4
  <1> QED
    BY <1>1, StartupInvariant, PTL DEF StartupSpec, NothingVerifiedIsLost

----------------------------------------------------------------------------
(* The status of a device and the push client.                             *)

Reports == UNION {[S -> Nat] : S \in SUBSET Fields}

Client ==
    [start : {"new", "preparing", "subscribing", "connecting", "started", "failed"},
     client : BOOLEAN, stopping : BOOLEAN,
     shutdown : {"none", "created", "leaving", "done"},
     worker : {"none", "connecting", "returned", "raised", "connected", "failed"},
     connection : BOOLEAN, socket : {"none", "open", "closed"}]

PatTypes ==
    /\ listed \in BOOLEAN
    /\ data \in Reports /\ available \in BOOLEAN /\ marked \in BOOLEAN /\ ready \in BOOLEAN
    /\ active \in BOOLEAN /\ slot \in Reports
    /\ crossed \subseteq Refreshes /\ setBack \subseteq Fields
    /\ refresh \in [Refreshes -> [at : {"idle", "asked", "served"}, gen : Nat, reply : Reports]]
    /\ shut \in BOOLEAN /\ gen \in Nat
    /\ mqtt \in [Clients -> Client]
    /\ real \in [Fields -> Nat] /\ lost \in [Fields -> Nat]
    /\ posted \in Seq(Clients \X Reports)
    /\ current \in 0 .. MaxClients
    /\ starter \in {"idle", "replacing", "starting"}
    /\ pause \in {"none", "shut", "disconnecting", "acknowledged"}
    /\ closed \in BOOLEAN

(* Of one client: a connection is known before its thread is over; who has *)
(* been shut down keeps no socket that its thread is not about to close;   *)
(* and one whose SDK client is gone has no thread.                         *)
ClientOK(m) ==
    /\ m.shutdown # "none" => m.stopping
    /\ m.start \in {"new", "preparing", "subscribing"} => m.worker = "none"
    /\ m.worker = "none" => m.socket = "none" /\ ~m.connection
    /\ m.worker \in {"returned", "raised", "connected", "failed"} /\ m.socket = "open" => m.connection
    /\ m.shutdown = "done" /\ m.worker \in {"connected", "failed"} => m.socket # "open"
    /\ ~m.client /\ m.shutdown \in {"none", "created"} => m.worker = "none" /\ m.start \in {"new", "failed"}

(* Replaced clients are shut down, and the next ones not made yet.         *)
OneClient ==
    /\ \A c \in Clients : ClientOK(mqtt[c])
    /\ \A c \in Clients : c < current => mqtt[c].shutdown = "done"
    /\ \A c \in Clients : c > current => mqtt[c] = Unborn
    /\ starter = "replacing" => current < MaxClients
    /\ starter = "starting" => current # 0
    /\ \A i \in 1 .. Len(posted) : mqtt[posted[i][1]].worker # "none"

(* A pause marks the device and stops every client there is.               *)
PauseHolds ==
    /\ pause # "none" => shut
    /\ pause \in {"disconnecting", "acknowledged"} =>
          marked /\ \A c \in Clients : mqtt[c].shutdown # "none" \/ mqtt[c].worker = "none"
    /\ pause = "acknowledged" =>
          \A c \in Clients : mqtt[c].shutdown = "done" \/ mqtt[c].worker = "none"

PatInv == PatTypes /\ OneClient /\ PauseHolds

----------------------------------------------------------------------------
(* What one step of a client may do to it.                                 *)
Ages(m, n) ==
    /\ n \in Client /\ ClientOK(n)
    /\ m.stopping => n.stopping
    /\ m.shutdown = "done" => n.shutdown = "done"
    /\ m.shutdown # "none" => n.shutdown # "none"
    /\ m.worker # "none" => n.worker # "none"

(* A client becomes another; it may get a thread only if it may.           *)
Becomes(c, may) ==
    \E n : /\ mqtt' = [mqtt EXCEPT ![c] = n]
           /\ Ages(mqtt[c], n)
           /\ mqtt[c].worker = "none" /\ ~may => n.worker = "none"

LEMMA UnbornOK == Unborn \in Client /\ ClientOK(Unborn) /\ Unborn.worker = "none"
  BY DEF Unborn, Client, ClientOK

(* The thread and the shutdown of a client.                                *)
LEMMA ThreadSteps ==
  ASSUME NEW c \in Clients, mqtt \in [Clients -> Client], ClientOK(mqtt[c]),
         WorkerStep(c) \/ ShutdownStep(c)
  PROVE  Becomes(c, FALSE) /\ mqtt[c] # Unborn
  <1> DEFINE m == mqtt[c]
  <1>0. m \in Client /\ ClientOK(m)
    OBVIOUS
  <1>1. CASE WorkerOpens(c)
    <2> DEFINE n == [m EXCEPT !.socket = "open"]
    <2>1. Ages(m, n) /\ n.worker = m.worker /\ m # Unborn
      BY <1>0, <1>1 DEF WorkerOpens, Ages, Client, ClientOK, Unborn
    <2>2. mqtt' = [mqtt EXCEPT ![c] = n]
      BY <1>1 DEF WorkerOpens
    <2> QED
      BY <2>1, <2>2 DEF Becomes
  <1>2. CASE WorkerKnows(c)
    <2> DEFINE n == [m EXCEPT !.connection = TRUE]
    <2>a. m.worker = "connecting" /\ n \in Client
      BY <1>0, <1>2 DEF WorkerKnows, Client
    <2>b. ClientOK(n)
      BY <1>0, <2>a DEF Client, ClientOK
    <2>1. Ages(m, n) /\ n.worker = m.worker /\ m # Unborn
      BY <1>0, <2>a, <2>b DEF Ages, Client, Unborn
    <2>2. mqtt' = [mqtt EXCEPT ![c] = n]
      BY <1>2 DEF WorkerKnows
    <2> QED
      BY <2>1, <2>2 DEF Becomes
  <1>3. CASE WorkerReturns(c)
    <2>1. PICK w \in {"returned", "raised"} :
            mqtt' = [mqtt EXCEPT ![c].worker = w] /\ (m.socket = "open" => m.connection)
      BY <1>3 DEF WorkerReturns
    <2> DEFINE n == [m EXCEPT !.worker = w]
    <2>a. m.worker = "connecting" /\ n \in Client
      BY <1>0, <1>3 DEF WorkerReturns, Client
    <2>2. Ages(m, n) /\ m.worker # "none" /\ m # Unborn
      BY <1>0, <2>1, <2>a DEF Ages, Client, ClientOK, Unborn
    <2>3. mqtt' = [mqtt EXCEPT ![c] = n]
      BY <2>1
    <2> QED
      BY <2>2, <2>3 DEF Becomes
  <1>4. CASE WorkerEnds(c)
    <2> DEFINE n == IF m.stopping /\ m.connection
                    THEN [m EXCEPT !.worker = Outcome(c), !.socket = Closed(@)]
                    ELSE [m EXCEPT !.worker = Outcome(c)]
    <2>1. Outcome(c) \in {"connected", "failed"} /\ m.worker \in {"returned", "raised"}
      BY <1>4 DEF Outcome, WorkerEnds
    <2>2. Closed(m.socket) \in {"none", "closed"}
      BY <1>0 DEF Closed, Client
    <2>3. n \in Client
      BY <1>0, <2>1, <2>2 DEF Client
    <2>4. Ages(m, n) /\ m.worker # "none" /\ m # Unborn
      BY <1>0, <2>1, <2>2, <2>3 DEF Ages, Client, ClientOK, Unborn
    <2>5. mqtt' = [mqtt EXCEPT ![c] = n]
      BY <1>4 DEF WorkerEnds
    <2> QED
      BY <2>4, <2>5 DEF Becomes
  <1>5. CASE ShutdownRuns(c)
    <2> DEFINE n == [m EXCEPT !.client = FALSE,
                              !.shutdown = IF m.client THEN "leaving" ELSE "done"]
    <2>1. Ages(m, n) /\ n.worker = m.worker /\ m # Unborn
      BY <1>0, <1>5 DEF ShutdownRuns, Ages, Client, ClientOK, Unborn
    <2>2. mqtt' = [mqtt EXCEPT ![c] = n]
      BY <1>5 DEF ShutdownRuns
    <2> QED
      BY <2>1, <2>2 DEF Becomes
  <1>6. CASE ShutdownCloses(c)
    <2> DEFINE n == [m EXCEPT !.shutdown = "done",
                              !.socket = IF m.connection THEN Closed(@) ELSE @]
    <2>1. Closed(m.socket) \in {"none", "closed"}
      BY <1>0 DEF Closed, Client
    <2>2. n \in Client
      BY <1>0, <2>1 DEF Client
    <2>3. Ages(m, n) /\ n.worker = m.worker /\ m # Unborn
      BY <1>0, <1>6, <2>1, <2>2 DEF ShutdownCloses, Ages, Client, ClientOK, Unborn, Closed
    <2>4. mqtt' = [mqtt EXCEPT ![c] = n]
      BY <1>6 DEF ShutdownCloses
    <2> QED
      BY <2>3, <2>4 DEF Becomes
  <1> QED
    BY <1>1, <1>2, <1>3, <1>4, <1>5, <1>6 DEF WorkerStep, ShutdownStep

(* Its start.                                                              *)
LEMMA StartMakes ==
  ASSUME NEW c \in Clients, mqtt \in [Clients -> Client], mqtt[c] = Unborn, AsyncStart(c)
  PROVE  Becomes(c, FALSE)
  <1> DEFINE n == [Unborn EXCEPT !.start = "preparing", !.client = TRUE]
  <1>1. n \in Client /\ n.worker = "none" /\ Unborn.worker = "none"
    BY DEF Client, Unborn
  <1>2. ClientOK(n) /\ Ages(Unborn, n)
    BY <1>1 DEF Ages, ClientOK, Unborn
  <1>3. mqtt' = [mqtt EXCEPT ![c] = n]
    BY DEF AsyncStart
  <1> QED
    BY <1>1, <1>2, <1>3 DEF Becomes

LEMMA StartSteps ==
  ASSUME NEW c \in Clients, mqtt \in [Clients -> Client], ClientOK(mqtt[c]), shut \in BOOLEAN,
         Prepared(c) \/ Subscribed(c, shut) \/ Connected(c) \/ GivesUp(c)
  PROVE  Becomes(c, ~shut)
  <1> DEFINE m == mqtt[c]
  <1>0. m \in Client /\ ClientOK(m)
    OBVIOUS
  <1>1. ASSUME NEW n, mqtt' = [mqtt EXCEPT ![c] = n], n \in Client, ClientOK(n),
               m.stopping => n.stopping, n.shutdown = m.shutdown,
               n.worker = m.worker \/ (m.worker = "none" /\ ~shut)
        PROVE  Becomes(c, ~shut)
    BY <1>1 DEF Becomes, Ages
  <1>2. CASE Prepared(c)
    <2>1. CASE mqtt' = [mqtt EXCEPT ![c].start = "subscribing"] /\ m.client
      <3> DEFINE n == [m EXCEPT !.start = "subscribing"]
      <3>1. n \in Client /\ ClientOK(n) /\ n.stopping = m.stopping /\ n.shutdown = m.shutdown
            /\ n.worker = m.worker
        BY <1>0, <1>2, <2>1 DEF Client, ClientOK, Prepared
      <3>2. mqtt' = [mqtt EXCEPT ![c] = n]
        BY <2>1
      <3> HIDE DEF n
      <3> QED
        BY <1>1, <3>1, <3>2
    <2>2. CASE mqtt' = [mqtt EXCEPT ![c].start = "failed", ![c].client = FALSE]
      <3> DEFINE n == [m EXCEPT !.start = "failed", !.client = FALSE]
      <3>1. n \in Client /\ n.stopping = m.stopping /\ n.shutdown = m.shutdown
            /\ n.worker = m.worker /\ n.socket = m.socket /\ n.connection = m.connection
            /\ n.start = "failed"
        BY <1>0 DEF Client
      <3>2. ClientOK(n)
        BY <1>0, <1>2, <3>1 DEF ClientOK, Prepared
      <3>3. mqtt' = [mqtt EXCEPT ![c] = n]
        BY <2>2
      <3> HIDE DEF n
      <3> QED
        BY <1>1, <3>1, <3>2, <3>3
    <2> QED
      BY <1>2, <2>1, <2>2 DEF Prepared
  <1>3. CASE Subscribed(c, shut)
    <2>1. CASE m.stopping \/ shut
      <3> DEFINE n == [m EXCEPT !.start = "failed"]
      <3>1. n \in Client /\ ClientOK(n) /\ n.stopping = m.stopping /\ n.shutdown = m.shutdown
            /\ n.worker = m.worker
        BY <1>0 DEF Client, ClientOK
      <3>2. mqtt' = [mqtt EXCEPT ![c] = n]
        BY <1>3, <2>1 DEF Subscribed
      <3> HIDE DEF n
      <3> QED
        BY <1>1, <3>1, <3>2
    <2>2. CASE ~m.stopping /\ ~shut
      <3> DEFINE n == [m EXCEPT !.start = "connecting", !.worker = "connecting"]
      <3>1. m.start = "subscribing" /\ m.shutdown = "none"
        BY <1>0, <1>3, <2>2 DEF Subscribed, ClientOK
      <3>2. n \in Client /\ ClientOK(n) /\ n.stopping = m.stopping /\ n.shutdown = m.shutdown
            /\ n.worker = "connecting"
        BY <1>0, <2>2, <3>1 DEF Client, ClientOK
      <3>3. mqtt' = [mqtt EXCEPT ![c] = n]
        BY <1>3, <2>2 DEF Subscribed
      <3>4. Ages(m, n)
        BY <3>2 DEF Ages
      <3> HIDE DEF n
      <3> QED
        BY <2>2, <3>3, <3>4 DEF Becomes
    <2> QED
      BY <2>1, <2>2
  <1>4. CASE Connected(c)
    <2>1. CASE mqtt' = [mqtt EXCEPT ![c].start = "started"]
      <3> DEFINE n == [m EXCEPT !.start = "started"]
      <3>1. n \in Client /\ ClientOK(n) /\ n.stopping = m.stopping /\ n.shutdown = m.shutdown
            /\ n.worker = m.worker
        BY <1>0, <1>4 DEF Client, ClientOK, Connected
      <3>2. mqtt' = [mqtt EXCEPT ![c] = n]
        BY <2>1
      <3> HIDE DEF n
      <3> QED
        BY <1>1, <3>1, <3>2
    <2>2. CASE mqtt' = [mqtt EXCEPT ![c].start = "failed", ![c].stopping = TRUE]
      <3> DEFINE n == [m EXCEPT !.start = "failed", !.stopping = TRUE]
      <3>1. n \in Client /\ ClientOK(n) /\ n.stopping /\ n.shutdown = m.shutdown
            /\ n.worker = m.worker
        BY <1>0 DEF Client, ClientOK
      <3>2. mqtt' = [mqtt EXCEPT ![c] = n]
        BY <2>2
      <3> HIDE DEF n
      <3> QED
        BY <1>1, <3>1, <3>2
    <2> QED
      BY <1>4, <2>1, <2>2 DEF Connected
  <1>5. CASE GivesUp(c)
    <2> DEFINE n == [m EXCEPT !.start = "failed", !.stopping = @ \/ m.start = "connecting"]
    <2>1. n \in Client /\ ClientOK(n) /\ (m.stopping => n.stopping) /\ n.shutdown = m.shutdown
          /\ n.worker = m.worker
      BY <1>0 DEF Client, ClientOK
    <2>2. mqtt' = [mqtt EXCEPT ![c] = n]
      BY <1>5 DEF GivesUp
    <2> HIDE DEF n
    <2> QED
      BY <1>1, <2>1, <2>2
  <1> QED
    BY <1>2, <1>3, <1>4, <1>5

(* Who is asked to shut down will.                                         *)
LEMMA ShutdownIsAsked ==
  ASSUME NEW c \in Clients, mqtt \in [Clients -> Client], ClientOK(mqtt[c]), AsyncShutdown(c)
  PROVE  Becomes(c, FALSE) /\ mqtt'[c].shutdown # "none" /\ mqtt'[c].stopping
  <1> DEFINE m == mqtt[c]
             n == [m EXCEPT !.stopping = TRUE, !.shutdown = IF @ = "none" THEN "created" ELSE @]
  <1>0. m \in Client /\ ClientOK(m)
    OBVIOUS
  <1>1. n \in Client /\ ClientOK(n) /\ n.stopping /\ n.shutdown # "none" /\ n.worker = m.worker
        /\ (m.shutdown = "done" => n.shutdown = "done")
    BY <1>0 DEF Client, ClientOK
  <1>2. mqtt' = [mqtt EXCEPT ![c] = n]
    BY DEF AsyncShutdown
  <1>3. mqtt'[c] = n
    BY <1>2
  <1> HIDE DEF n
  <1> QED
    BY <1>1, <1>2, <1>3 DEF Becomes, Ages

----------------------------------------------------------------------------
LEMMA NoneIsFewer ==
  ASSUME NEW c, Becomes(c, FALSE)
  PROVE  Becomes(c, ~shut)
  BY DEF Becomes

(* What a step of one client leaves of the invariant.                      *)
LEMMA ClientMoves ==
  ASSUME PatInv, NEW c \in Clients, Becomes(c, ~shut), c <= current,
         starter' = "replacing" => current < MaxClients, starter' = "starting" => current # 0,
         UNCHANGED <<current, posted>>
  PROVE  /\ mqtt' \in [Clients -> Client] /\ OneClient'
         /\ \A d \in Clients : /\ mqtt[d].shutdown = "done" => mqtt'[d].shutdown = "done"
                               /\ mqtt[d].shutdown # "none" => mqtt'[d].shutdown # "none"
                               /\ mqtt[d].worker = "none" /\ shut => mqtt'[d].worker = "none"
  <1>1. PICK n : /\ mqtt' = [mqtt EXCEPT ![c] = n]
                 /\ Ages(mqtt[c], n)
                 /\ mqtt[c].worker = "none" /\ shut => n.worker = "none"
    BY DEF Becomes
  <1>2. /\ mqtt \in [Clients -> Client] /\ OneClient /\ PauseHolds
        /\ current \in 0 .. MaxClients
    BY DEF PatInv, PatTypes
  <1>3. /\ mqtt' \in [Clients -> Client]
        /\ mqtt'[c] = n
        /\ \A d \in Clients \ {c} : mqtt'[d] = mqtt[d]
    BY <1>1, <1>2 DEF Ages
  <1>4. \A d \in Clients : /\ ClientOK(mqtt'[d])
                           /\ mqtt[d].shutdown = "done" => mqtt'[d].shutdown = "done"
                           /\ mqtt[d].shutdown # "none" => mqtt'[d].shutdown # "none"
                           /\ mqtt[d].worker # "none" => mqtt'[d].worker # "none"
    BY <1>1, <1>2, <1>3 DEF Ages, OneClient
  <1>5. \A d \in Clients : d > current => mqtt'[d] = Unborn
    <2> SUFFICES ASSUME NEW d \in Clients, d > current
                 PROVE  mqtt'[d] = Unborn
      OBVIOUS
    <2>1. d # c
      BY <1>2 DEF Clients
    <2> QED
      BY <1>2, <1>3, <2>1 DEF OneClient
  <1>6. \A i \in 1 .. Len(posted) : mqtt'[posted[i][1]].worker # "none"
    <2> SUFFICES ASSUME NEW i \in 1 .. Len(posted)
                 PROVE  mqtt'[posted[i][1]].worker # "none"
      OBVIOUS
    <2>1. posted[i] \in Clients \X Reports
      BY ElementOfSeq DEF PatInv, PatTypes
    <2>2. posted[i][1] \in Clients /\ mqtt[posted[i][1]].worker # "none"
      BY <1>2, <2>1 DEF OneClient
    <2> QED
      BY <1>4, <2>2
  <1>7. OneClient'
    BY <1>2, <1>4, <1>5, <1>6 DEF OneClient
  <1>8. \A d \in Clients : mqtt[d].worker = "none" /\ shut => mqtt'[d].worker = "none"
    BY <1>1, <1>3
  <1> QED
    BY <1>3, <1>4, <1>7, <1>8

LEMMA ClientMovesOn ==
  ASSUME PatInv, NEW c \in Clients, Becomes(c, ~shut), c <= current,
         starter' = "replacing" => current < MaxClients, starter' = "starting" => current # 0,
         UNCHANGED <<current, posted, pause, shut, marked>>
  PROVE  mqtt' \in [Clients -> Client] /\ OneClient' /\ PauseHolds'
  <1>1. /\ mqtt' \in [Clients -> Client] /\ OneClient'
        /\ \A d \in Clients : /\ mqtt[d].shutdown = "done" => mqtt'[d].shutdown = "done"
                              /\ mqtt[d].shutdown # "none" => mqtt'[d].shutdown # "none"
                              /\ mqtt[d].worker = "none" /\ shut => mqtt'[d].worker = "none"
    BY ClientMoves
  <1> QED
    BY <1>1 DEF PatInv, PauseHolds

(* The clients and the pause do not notice what the coordinator does.      *)
LEMMA ClientsUntouched ==
  ASSUME PatInv, UNCHANGED <<mqtt, current, starter, pause, shut>>,
         marked' = marked \/ ~shut,
         posted' = posted \/ (posted # <<>> /\ posted' = Tail(posted))
  PROVE  OneClient' /\ PauseHolds'
  <1>1. posted \in Seq(Clients \X Reports)
    BY DEF PatInv, PatTypes
  <1>2. \A i \in 1 .. Len(posted') : mqtt[posted'[i][1]].worker # "none"
    <2>1. CASE posted' = posted
      BY <2>1 DEF PatInv, OneClient
    <2>2. CASE posted # <<>> /\ posted' = Tail(posted)
      <3>1. /\ Len(posted') = Len(posted) - 1 /\ Len(posted) \in Nat
            /\ \A i \in 1 .. Len(posted') : posted'[i] = posted[i + 1]
        BY <1>1, <2>2, HeadTailProperties, LenProperties
      <3> QED
        BY <3>1 DEF PatInv, OneClient
    <2> QED
      BY <2>1, <2>2
  <1>3. OneClient'
    BY <1>2 DEF PatInv, OneClient
  <1>4. PauseHolds'
    BY DEF PatInv, PauseHolds
  <1> QED
    BY <1>3, <1>4

----------------------------------------------------------------------------
(* Reports stay reports.                                                   *)
LEMMA NoReportIsReport == NoReport \in Reports /\ DOMAIN NoReport = {}
  BY DEF NoReport, Reports

LEMMA OntoIsReport ==
  ASSUME NEW base \in Reports, NEW report \in Reports
  PROVE  /\ Onto(base, report) \in Reports
         /\ listed => Onto(base, report) = report
         /\ ~listed => /\ DOMAIN Onto(base, report) = DOMAIN base \cup DOMAIN report
                       /\ \A f \in DOMAIN report : Onto(base, report)[f] = report[f]
                       /\ \A f \in DOMAIN base \ DOMAIN report : Onto(base, report)[f] = base[f]
  <1>1. PICK S \in SUBSET Fields : base \in [S -> Nat]
    BY DEF Reports
  <1>2. PICK T \in SUBSET Fields : report \in [T -> Nat]
    BY DEF Reports
  <1>3. deep_merge(base, report) \in [S \cup T -> Nat]
    BY <1>1, <1>2 DEF deep_merge
  <1>4. S \cup T \in SUBSET Fields
    OBVIOUS
  <1>5. deep_merge(base, report) \in Reports
    BY <1>3, <1>4 DEF Reports
  <1>6. /\ DOMAIN deep_merge(base, report) = DOMAIN base \cup DOMAIN report
        /\ \A f \in DOMAIN report : deep_merge(base, report)[f] = report[f]
        /\ \A f \in DOMAIN base \ DOMAIN report : deep_merge(base, report)[f] = base[f]
    BY DEF deep_merge
  <1> QED
    BY <1>5, <1>6 DEF Onto

----------------------------------------------------------------------------
(* The coordinator's steps keep the types, and unmark nothing while the    *)
(* gate is shut.                                                           *)
RefreshRecords == [at : {"idle", "asked", "served"}, gen : Nat, reply : Reports]

LEMMA RealIsReport == ASSUME PatTypes PROVE real \in Reports /\ DOMAIN real = Fields
  <1>1. real \in [Fields -> Nat] /\ Fields \in SUBSET Fields
    BY DEF PatTypes
  <1> QED
    BY <1>1 DEF Reports

LEMMA RefreshTypes ==
  ASSUME PatTypes, NEW r \in Refreshes, RefreshStep(r) \/ Served(r, real),
         UNCHANGED <<mqtt, real, posted, lost, patAccount>>
  PROVE  PatTypes' /\ shut' = shut /\ (marked' = marked \/ ~shut)
  <1>1. /\ refresh \in [Refreshes -> RefreshRecords] /\ refresh[r] \in RefreshRecords
        /\ refresh[r].reply \in Reports
        /\ data \in Reports /\ slot \in Reports /\ gen \in Nat
    BY DEF PatTypes, RefreshRecords
  <1>2. Resting \in RefreshRecords
    BY NoReportIsReport DEF Resting, RefreshRecords
  <1>3. /\ listed' = listed /\ shut' = shut /\ gen' = gen /\ mqtt' = mqtt /\ real' = real
        /\ lost' = lost /\ posted' = posted /\ current' = current /\ starter' = starter
        /\ pause' = pause /\ closed' = closed
    BY DEF RefreshStep, RefreshBegins, RefreshRefused, RefreshSucceeds, RefreshFails,
           RefreshCancelled, Served, restGate, patAccount
  <1>4. CASE RefreshBegins(r)
    <2>1. [refresh[r] EXCEPT !.at = "asked", !.gen = gen] \in RefreshRecords
      BY <1>1 DEF RefreshRecords
    <2>2. refresh' \in [Refreshes -> RefreshRecords]
      BY <1>1, <1>4, <2>1 DEF RefreshBegins
    <2>3. /\ active' = TRUE /\ slot' = NoReport /\ UNCHANGED shown
          /\ crossed' \subseteq Refreshes
      BY <1>4 DEF RefreshBegins, Crosses, PatTypes
    <2> QED
      BY <1>3, <2>2, <2>3, NoReportIsReport DEF PatTypes, RefreshRecords, shown
  <1>5. CASE Served(r, real)
    <2>1. [refresh[r] EXCEPT !.at = "served", !.reply = real] \in RefreshRecords
      BY <1>1, RealIsReport DEF RefreshRecords
    <2>2. refresh' \in [Refreshes -> RefreshRecords]
      BY <1>1, <1>5, <2>1 DEF Served
    <2>3. UNCHANGED shown /\ UNCHANGED slots
      BY <1>5 DEF Served
    <2> QED
      BY <1>3, <2>2, <2>3 DEF PatTypes, RefreshRecords, shown, slots
  <1>6. ASSUME Finally(r)
        PROVE  /\ refresh' \in [Refreshes -> RefreshRecords] /\ active' = FALSE /\ slot' = NoReport
               /\ crossed' \subseteq Refreshes
    BY <1>1, <1>2, <1>6 DEF Finally, Crosses, PatTypes
  <1>7. CASE RefreshSucceeds(r)
    <2>1. Onto(data, refresh[r].reply) \in Reports
      BY <1>1, OntoIsReport
    <2>2. ~listed => deep_merge(Onto(data, refresh[r].reply), slot) \in Reports
      BY <1>1, <2>1, OntoIsReport DEF Onto
    <2>3. data' \in Reports
      BY <1>1, <1>7, <2>1, <2>2 DEF RefreshSucceeds
    <2>4. /\ marked' = FALSE /\ ready' = TRUE /\ available' = TRUE /\ Finally(r) /\ ~shut
          /\ setBack' \subseteq Fields
      BY <1>7 DEF RefreshSucceeds, SetsBack, PatTypes
    <2> QED
      BY <1>3, <1>6, <2>3, <2>4, NoReportIsReport DEF PatTypes, RefreshRecords
  <1>8. CASE RefreshRefused(r) \/ RefreshFails(r)
    <2>1. /\ Finally(r) /\ available' \in BOOLEAN
          /\ data' = data /\ setBack' = setBack /\ marked' = marked /\ ready' = ready
      BY <1>8 DEF RefreshRefused, RefreshFails
    <2> QED
      BY <1>3, <1>6, <2>1, NoReportIsReport DEF PatTypes, RefreshRecords
  <1>9. CASE RefreshCancelled(r)
    <2>1. Finally(r) /\ UNCHANGED shown
      BY <1>9 DEF RefreshCancelled
    <2> QED
      BY <1>3, <1>6, <2>1, NoReportIsReport DEF PatTypes, RefreshRecords, shown
  <1> QED
    BY <1>4, <1>5, <1>7, <1>8, <1>9 DEF RefreshStep

(* The first push in the queue.                                            *)
LEMMA HeadIsReport ==
  ASSUME PatTypes, posted # <<>>
  PROVE  /\ Head(posted) = posted[1] /\ 1 \in 1 .. Len(posted)
         /\ Head(posted)[1] \in Clients /\ Head(posted)[2] \in Reports
         /\ Tail(posted) \in Seq(Clients \X Reports)
         /\ Len(Tail(posted)) = Len(posted) - 1 /\ Len(posted) \in Nat
         /\ \A i \in 1 .. Len(Tail(posted)) : Tail(posted)[i] = posted[i + 1]
         /\ Tail(posted) # posted
  <1>1. posted \in Seq(Clients \X Reports)
    BY DEF PatTypes
  <1>2. /\ Head(posted) \in Clients \X Reports /\ Tail(posted) \in Seq(Clients \X Reports)
        /\ Len(Tail(posted)) = Len(posted) - 1 /\ Len(posted) \in Nat /\ Len(posted) # 0
        /\ \A i \in 1 .. Len(Tail(posted)) : Tail(posted)[i] = posted[i + 1]
    BY <1>1, HeadTailProperties, LenProperties, EmptySeq
  <1>3. Head(posted) = posted[1]
    BY <1>1
  <1>4. Head(posted)[1] \in Clients /\ Head(posted)[2] \in Reports
    BY <1>2
  <1>5. Tail(posted) # posted
    <2>1. Len(posted) \in Nat /\ Len(Tail(posted)) = Len(posted) - 1
      BY <1>2
    <2>2. \A n \in Nat : n - 1 # n
      OBVIOUS
    <2> QED
      BY <2>1, <2>2
  <1>6. 1 \in 1 .. Len(posted)
    BY <1>2
  <1> QED
    BY <1>2, <1>3, <1>4, <1>5, <1>6

LEMMA LoseTypes ==
  ASSUME PatTypes, NEW report \in Reports, Lose(report)
  PROVE  /\ lost' \in [Fields -> Nat]
         /\ \A f \in Fields : lost'[f] = IF f \in DOMAIN report THEN Later(lost[f], report[f])
                                         ELSE lost[f]
  <1>1. PICK S \in SUBSET Fields : report \in [S -> Nat]
    BY DEF Reports
  <1>2. \A f \in Fields : lost[f] \in Nat /\ (f \in DOMAIN report => report[f] \in Nat)
    BY <1>1 DEF PatTypes
  <1> QED
    BY <1>2 DEF Lose, Later

LEMMA DeliverTypes ==
  ASSUME PatTypes, deliver
  PROVE  PatTypes' /\ shut' = shut /\ (marked' = marked \/ ~shut)
  <1> DEFINE report == Head(posted)[2]
  <1>1. report \in Reports /\ Tail(posted) \in Seq(Clients \X Reports)
    BY HeadIsReport DEF deliver
  <1>2. /\ posted' = Tail(posted)
        /\ handle_mqtt_status(report) \/ UNCHANGED coordinatorVars
        /\ Lose(report) \/ lost' = lost
        /\ UNCHANGED <<restGate, mqtt, real, patAccount>>
    BY DEF deliver
  <1> HIDE DEF report
  <1>3. lost' \in [Fields -> Nat]
    BY <1>1, <1>2, LoseTypes DEF PatTypes
  <1>4. CASE UNCHANGED coordinatorVars
    BY <1>1, <1>2, <1>3, <1>4 DEF PatTypes, coordinatorVars, shown, slots, restGate, patAccount
  <1>5. CASE /\ ~shut
             /\ marked' = FALSE /\ available' = TRUE
             /\ data' = Onto(data, report)
             /\ slot' = IF active THEN Onto(slot, report) ELSE slot
             /\ setBack' = setBack \ DOMAIN report
             /\ UNCHANGED <<listed, ready, active, refresh, crossed>>
    <2>1. data' \in Reports /\ slot' \in Reports /\ setBack' \subseteq Fields
      BY <1>1, <1>5, OntoIsReport DEF PatTypes
    <2> QED
      BY <1>1, <1>2, <1>3, <1>5, <2>1 DEF PatTypes, restGate, patAccount
  <1> QED
    BY <1>2, <1>4, <1>5 DEF handle_mqtt_status

LEMMA ChangeTypes ==
  ASSUME PatTypes, NEW fs \in SUBSET Fields, Change(fs)
  PROVE  PatTypes'
  <1> DEFINE report == [f \in IF listed THEN Fields ELSE fs |-> real'[f]]
  <1>1. real' \in [Fields -> Nat]
    BY DEF Change, PatTypes
  <1>2. report \in Reports
    <2>1. \E S \in SUBSET Fields : report \in [S -> Nat]
      BY <1>1
    <2> QED
      BY <2>1 DEF Reports
  <1>3. UNCHANGED <<coordinatorVars, restGate, mqtt, patAccount>>
    BY DEF Change
  <1>4. \/ Lose(report) /\ posted' = posted
        \/ /\ lost' = lost
           /\ \E c \in Clients : posted' = Append(posted, <<c, report>>)
    BY DEF Change
  <1> HIDE DEF report
  <1>5. lost' \in [Fields -> Nat]
    BY <1>2, <1>4, LoseTypes DEF PatTypes
  <1>6. posted' \in Seq(Clients \X Reports)
    <2>1. posted \in Seq(Clients \X Reports)
      BY DEF PatTypes
    <2>2. ASSUME NEW c \in Clients, posted' = Append(posted, <<c, report>>)
          PROVE  posted' \in Seq(Clients \X Reports)
      <3>1. <<c, report>> \in Clients \X Reports
        BY <1>2
      <3> DEFINE e == <<c, report>>
      <3> HIDE DEF e
      <3>2. Append(posted, e) \in Seq(Clients \X Reports)
        BY <2>1, <3>1, AppendProperties DEF e
      <3> QED
        BY <2>2, <3>2 DEF e
    <2> QED
      BY <1>4, <2>1, <2>2
  <1> QED
    BY <1>1, <1>3, <1>5, <1>6 DEF PatTypes, coordinatorVars, shown, slots, restGate, patAccount

----------------------------------------------------------------------------
(* What is not of the account stays as it is in its steps.                 *)
LEMMA AccountTypes ==
  ASSUME PatTypes, UNCHANGED <<listed, data, setBack, available, ready, slots, refresh, real,
                              posted, lost>>,
         mqtt' \in [Clients -> Client], shut' \in BOOLEAN, gen' \in Nat, marked' \in BOOLEAN,
         current' \in 0 .. MaxClients, starter' \in {"idle", "replacing", "starting"},
         pause' \in {"none", "shut", "disconnecting", "acknowledged"}, closed' \in BOOLEAN
  PROVE  PatTypes'
  BY DEF PatTypes, slots

LEMMA StartStep ==
  ASSUME PatInv, \/ StartReplaces \/ StartBegins \/ StartProceeds \/ StartGivesUp \/ StartEnds
  PROVE  PatInv'
  <1>1. /\ PatTypes /\ OneClient /\ PauseHolds
        /\ mqtt \in [Clients -> Client] /\ shut \in BOOLEAN /\ gen \in Nat /\ marked \in BOOLEAN
        /\ current \in 0 .. MaxClients /\ MaxClients \in Nat
        /\ starter \in {"idle", "replacing", "starting"}
        /\ pause \in {"none", "shut", "disconnecting", "acknowledged"} /\ closed \in BOOLEAN
    BY PatDeviceAssumption DEF PatInv, PatTypes
  <1>2. /\ UNCHANGED <<listed, data, setBack, available, ready, slots, refresh, real, posted, lost>>
        /\ UNCHANGED <<shut, gen, marked, pause, closed>>
    BY DEF StartReplaces, StartBegins, StartProceeds, StartGivesUp, StartEnds, coordinatorVars,
           shown, restGate, patAccount
  <1>3. CASE StartReplaces
    <2>1. current' = current /\ starter' = "replacing" /\ current < MaxClients
      BY <1>3 DEF StartReplaces
    <2>2. CASE current = 0
      <3>1. mqtt' = mqtt
        BY <1>3, <2>2 DEF StartReplaces
      <3>2. OneClient' /\ PauseHolds'
        BY <1>1, <1>2, <2>1, <3>1 DEF OneClient, PauseHolds
      <3> QED
        BY <1>1, <1>2, <2>1, <3>1, <3>2, AccountTypes DEF PatInv
    <2>3. CASE current # 0
      <3>1. current \in Clients /\ AsyncShutdown(current)
        BY <1>1, <1>3, <2>3 DEF StartReplaces, Clients
      <3>2. Becomes(current, ~shut)
        BY <1>1, <3>1, ShutdownIsAsked, NoneIsFewer DEF OneClient
      <3>a. current <= current /\ posted' = posted /\ pause' = pause /\ starter' # "starting"
        BY <1>1, <1>2, <2>1
      <3>3. mqtt' \in [Clients -> Client] /\ OneClient' /\ PauseHolds'
        BY <1>1, <1>2, <2>1, <3>a, <3>1, <3>2, ClientMovesOn DEF PatInv
      <3> QED
        BY <1>1, <1>2, <2>1, <3>3, AccountTypes DEF PatInv
    <2> QED
      BY <2>2, <2>3
  <1>4. CASE StartBegins
    <2>1. /\ current' = current + 1 /\ starter = "replacing"
          /\ current' \in 1 .. MaxClients /\ current' \in Clients /\ current' > current
      BY <1>1, <1>4 DEF StartBegins, OneClient, Clients
    <2>2. mqtt[current + 1] = Unborn
      BY <1>1, <2>1 DEF OneClient
    <2>3. \A c \in Clients : c < current' => mqtt[c].shutdown = "done"
      <3> SUFFICES ASSUME NEW c \in Clients, c < current'
                   PROVE  mqtt[c].shutdown = "done"
        OBVIOUS
      <3>1. c < current \/ (c = current /\ current # 0)
        BY <1>1, <2>1 DEF Clients
      <3> QED
        BY <1>1, <1>4, <3>1 DEF StartBegins, OneClient
    <2>4. \A c \in Clients : c > current' => c > current /\ c # current'
      BY <1>1, <2>1 DEF Clients
    <2>5. CASE ~shut /\ AsyncStart(current + 1) /\ starter' = "starting"
      <3>1. Becomes(current + 1, FALSE)
        BY <1>1, <2>1, <2>2, <2>5, StartMakes
      <3>2. PICK n : /\ mqtt' = [mqtt EXCEPT ![current + 1] = n]
                     /\ Ages(mqtt[current + 1], n)
        BY <3>1 DEF Becomes
      <3>3. /\ mqtt' \in [Clients -> Client] /\ mqtt'[current'] = n
            /\ \A c \in Clients : c # current' => mqtt'[c] = mqtt[c]
        BY <1>1, <2>1, <3>2 DEF Ages
      <3>4. \A c \in Clients : ClientOK(mqtt'[c])
        BY <1>1, <2>1, <3>2, <3>3 DEF OneClient, Ages
      <3>5. \A c \in Clients : c < current' => mqtt'[c].shutdown = "done"
        <4> SUFFICES ASSUME NEW c \in Clients, c < current'
                     PROVE  mqtt'[c].shutdown = "done"
          OBVIOUS
        <4>1. c # current'
          BY <2>1 DEF Clients
        <4> QED
          BY <2>3, <3>3, <4>1
      <3>6. \A c \in Clients : c > current' => mqtt'[c] = Unborn
        BY <1>1, <2>4, <3>3 DEF OneClient
      <3>7. \A i \in 1 .. Len(posted) : mqtt'[posted[i][1]].worker # "none"
        <4> SUFFICES ASSUME NEW i \in 1 .. Len(posted)
                     PROVE  mqtt'[posted[i][1]].worker # "none"
          OBVIOUS
        <4>1. posted[i] \in Clients \X Reports
          BY ElementOfSeq DEF PatInv, PatTypes
        <4>2. posted[i][1] \in Clients /\ mqtt[posted[i][1]].worker # "none"
          BY <1>1, <4>1 DEF OneClient
        <4>3. posted[i][1] # current'
          BY <2>1, <2>2, <4>2, UnbornOK
        <4> QED
          BY <3>3, <4>2, <4>3
      <3>8. OneClient'
        BY <1>2, <2>1, <2>5, <3>4, <3>5, <3>6, <3>7 DEF OneClient
      <3>9. pause = "none" /\ PauseHolds'
        BY <1>1, <1>2, <2>5 DEF PauseHolds
      <3> QED
        BY <1>1, <1>2, <2>1, <2>5, <3>3, <3>8, <3>9, AccountTypes DEF PatInv
    <2>6. CASE shut /\ mqtt' = mqtt /\ starter' = "idle"
      <3>1. OneClient'
        BY <1>1, <1>2, <2>3, <2>4, <2>6 DEF OneClient
      <3>2. PauseHolds'
        BY <1>1, <1>2, <2>6 DEF PauseHolds
      <3> QED
        BY <1>1, <1>2, <2>1, <2>6, <3>1, <3>2, AccountTypes DEF PatInv
    <2> QED
      BY <1>4, <2>5, <2>6 DEF StartBegins
  <1>5. CASE StartProceeds \/ StartGivesUp
    <2>1. starter = "starting" /\ starter' = starter /\ current' = current
      BY <1>5 DEF StartProceeds, StartGivesUp, patAccount
    <2>2. current \in Clients /\ current # 0
      BY <1>1, <2>1 DEF OneClient, Clients
    <2>3. Becomes(current, ~shut)
      BY <1>1, <1>5, <2>2, StartSteps DEF StartProceeds, StartGivesUp, OneClient
    <2>4. mqtt' \in [Clients -> Client] /\ OneClient' /\ PauseHolds'
      BY <1>1, <1>2, <2>1, <2>2, <2>3, ClientMovesOn
    <2> QED
      BY <1>1, <1>2, <2>1, <2>4, AccountTypes DEF PatInv
  <1>6. CASE StartEnds
    <2>1. starter' = "idle" /\ current' = current /\ mqtt' = mqtt
      BY <1>6 DEF StartEnds
    <2>2. OneClient' /\ PauseHolds'
      BY <1>1, <1>2, <2>1 DEF OneClient, PauseHolds
    <2> QED
      BY <1>1, <1>2, <2>1, <2>2, AccountTypes DEF PatInv
  <1> QED
    BY <1>3, <1>4, <1>5, <1>6

LEMMA ThreadStep ==
  ASSUME PatInv, ThreadsAndShutdowns
  PROVE  PatInv'
  <1>1. /\ PatTypes /\ OneClient /\ PauseHolds
        /\ mqtt \in [Clients -> Client] /\ shut \in BOOLEAN /\ gen \in Nat /\ marked \in BOOLEAN
        /\ current \in 0 .. MaxClients
        /\ starter \in {"idle", "replacing", "starting"}
        /\ pause \in {"none", "shut", "disconnecting", "acknowledged"} /\ closed \in BOOLEAN
    BY DEF PatInv, PatTypes
  <1>2. PICK c \in Clients : WorkerStep(c) \/ ShutdownStep(c)
    BY DEF ThreadsAndShutdowns
  <1>3. /\ UNCHANGED <<listed, data, setBack, available, ready, slots, refresh, real, posted, lost>>
        /\ UNCHANGED <<shut, gen, marked, pause, closed, current, starter>>
    BY DEF ThreadsAndShutdowns, coordinatorVars, shown, restGate, patAccount
  <1>4. Becomes(c, FALSE) /\ mqtt[c] # Unborn
    BY <1>1, <1>2, ThreadSteps DEF OneClient
  <1>5. c <= current
    BY <1>1, <1>4 DEF OneClient, Clients
  <1>6. mqtt' \in [Clients -> Client] /\ OneClient' /\ PauseHolds'
    <2>1. (starter' = "replacing" => current < MaxClients) /\ (starter' = "starting" => current # 0)
      BY <1>1, <1>3 DEF OneClient
    <2>2. Becomes(c, ~shut)
      BY <1>4, NoneIsFewer
    <2> QED
      BY <1>1, <1>3, <1>5, <2>1, <2>2, ClientMovesOn
  <1> QED
    BY <1>1, <1>3, <1>6, AccountTypes DEF PatInv

(* The pause, and the end of the entry.                                    *)
LEMMA PauseStep ==
  ASSUME PatInv, Pause \/ PauseDisconnects \/ PauseEnds \/ Resume \/ Unload \/ UnloadStops
  PROVE  PatInv'
  <1>1. /\ PatTypes /\ OneClient /\ PauseHolds
        /\ mqtt \in [Clients -> Client] /\ shut \in BOOLEAN /\ gen \in Nat /\ marked \in BOOLEAN
        /\ current \in 0 .. MaxClients /\ MaxClients \in Nat
        /\ starter \in {"idle", "replacing", "starting"}
        /\ pause \in {"none", "shut", "disconnecting", "acknowledged"} /\ closed \in BOOLEAN
    BY PatDeviceAssumption DEF PatInv, PatTypes
  <1>2. UNCHANGED <<listed, data, setBack, available, ready, slots, refresh, real, posted, lost, current>>
    BY DEF Pause, PauseDisconnects, PauseEnds, Resume, Unload, UnloadStops, coordinatorVars,
           shown, patAccount
  <1>a. current <= current /\ (current # 0 => current \in Clients)
        /\ (\A c \in Clients : c < current \/ c = current \/ c > current)
    BY <1>1 DEF Clients
  <1>b. \A c \in Clients : c > current => mqtt[c].worker = "none"
    BY <1>1, UnbornOK DEF OneClient
  <1>3. CASE Pause \/ Resume
    <2>1. mqtt' = mqtt /\ UNCHANGED <<marked, starter, closed>> /\ gen' \in Nat /\ shut' \in BOOLEAN
          /\ (pause' = "none" \/ (pause' = "shut" /\ shut'))
      <3>1. CASE Pause
        <4>1. mqtt' = mqtt /\ UNCHANGED <<starter, closed>> /\ coordinatorVars' = coordinatorVars
              /\ gen' = gen + 1 /\ shut' = TRUE /\ pause' = "shut"
          BY <3>1 DEF Pause
        <4>2. marked' = marked /\ gen + 1 \in Nat
          BY <1>1, <4>1 DEF coordinatorVars, shown
        <4> QED
          BY <4>1, <4>2
      <3>2. CASE Resume
        <4>1. mqtt' = mqtt /\ UNCHANGED <<starter, closed>> /\ coordinatorVars' = coordinatorVars
              /\ gen' = gen + 1 /\ shut' = FALSE /\ pause' = "none"
          BY <3>2 DEF Resume
        <4>2. marked' = marked /\ gen + 1 \in Nat
          BY <1>1, <4>1 DEF coordinatorVars, shown
        <4> QED
          BY <4>1, <4>2
      <3> QED
        BY <1>3, <3>1, <3>2
    <2>2. OneClient' /\ PauseHolds'
      BY <1>1, <1>2, <2>1 DEF OneClient, PauseHolds
    <2> QED
      BY <1>1, <1>2, <2>1, <2>2, AccountTypes DEF PatInv
  <1>4. CASE PauseDisconnects
    <2>1. /\ marked' = TRUE /\ pause' = "disconnecting" /\ pause = "shut" /\ shut
          /\ UNCHANGED <<shut, gen, starter, closed>>
      BY <1>1, <1>4 DEF PauseDisconnects, PauseHolds, restGate
    <2>2. /\ mqtt' \in [Clients -> Client] /\ OneClient'
          /\ current # 0 => mqtt'[current].shutdown # "none"
          /\ \A c \in Clients : c < current => mqtt'[c].shutdown # "none"
          /\ \A c \in Clients : c > current => mqtt'[c].worker = "none"
      <3>1. CASE current = 0
        <4>1. mqtt' = mqtt
          BY <1>4, <3>1 DEF PauseDisconnects
        <4> QED
          BY <1>1, <1>2, <1>a, <1>b, <2>1, <3>1, <4>1 DEF OneClient
      <3>2. CASE current # 0
        <4>1. current \in Clients /\ AsyncShutdown(current)
          BY <1>4, <1>a, <3>2 DEF PauseDisconnects
        <4>2. Becomes(current, ~shut) /\ mqtt'[current].shutdown # "none"
          BY <1>1, <4>1, ShutdownIsAsked, NoneIsFewer DEF OneClient
        <4>3. posted' = posted /\ current' = current
              /\ (starter' = "replacing" => current < MaxClients)
              /\ (starter' = "starting" => current # 0)
          BY <1>1, <1>2, <2>1 DEF OneClient
        <4>4. /\ mqtt' \in [Clients -> Client] /\ OneClient'
              /\ \A d \in Clients : /\ mqtt[d].shutdown = "done" => mqtt'[d].shutdown = "done"
                                    /\ mqtt[d].worker = "none" /\ shut => mqtt'[d].worker = "none"
          BY <1>a, <4>1, <4>2, <4>3, ClientMoves
        <4> QED
          BY <1>1, <1>b, <2>1, <4>2, <4>4 DEF OneClient
      <3> QED
        BY <3>1, <3>2
    <2>3. PauseHolds'
      <3>1. \A c \in Clients : mqtt'[c].shutdown # "none" \/ mqtt'[c].worker = "none"
        BY <1>a, <2>2 DEF Clients
      <3> QED
        BY <2>1, <3>1 DEF PauseHolds
    <2> QED
      BY <1>1, <1>2, <2>1, <2>2, <2>3, AccountTypes DEF PatInv
  <1>5. CASE PauseEnds
    <2>1. /\ mqtt' = mqtt /\ pause = "disconnecting" /\ pause' = "acknowledged"
          /\ UNCHANGED <<marked, shut, gen, starter, closed>>
          /\ current # 0 => mqtt[current].shutdown \in {"done", "none"}
      BY <1>5 DEF PauseEnds, coordinatorVars, shown, restGate
    <2>2. \A c \in Clients : mqtt[c].shutdown = "done" \/ mqtt[c].worker = "none"
      BY <1>1, <1>a, <1>b, <2>1 DEF OneClient, PauseHolds, Clients
    <2>3. OneClient' /\ PauseHolds'
      BY <1>1, <1>2, <2>1, <2>2 DEF OneClient, PauseHolds
    <2> QED
      BY <1>1, <1>2, <2>1, <2>3, AccountTypes DEF PatInv
  <1>6. CASE Unload \/ UnloadStops
    <2>1. /\ UNCHANGED <<marked, shut, gen, pause>> /\ closed' \in BOOLEAN
          /\ starter' = starter \/ starter' = "idle"
      BY <1>1, <1>6 DEF Unload, UnloadStops, coordinatorVars, shown, restGate, patAccount
    <2>2. /\ starter' \in {"idle", "replacing", "starting"}
          /\ (starter' = "replacing" => current < MaxClients) /\ (starter' = "starting" => current # 0)
      BY <1>1, <2>1 DEF OneClient
    <2>3. CASE mqtt' = mqtt
      <3>1. OneClient' /\ PauseHolds'
        BY <1>1, <1>2, <2>1, <2>2, <2>3 DEF OneClient, PauseHolds
      <3> QED
        BY <1>1, <1>2, <2>1, <2>2, <2>3, <3>1, AccountTypes DEF PatInv
    <2>4. CASE current # 0 /\ (GivesUp(current) \/ AsyncShutdown(current))
      <3>1. current \in Clients /\ ClientOK(mqtt[current])
        BY <1>1, <1>a, <2>4 DEF OneClient
      <3>2. Becomes(current, ~shut)
        BY <1>1, <2>4, <3>1, ShutdownIsAsked, NoneIsFewer, StartSteps
      <3>3. UNCHANGED <<current, posted, pause, shut, marked>>
        BY <1>2, <2>1
      <3>4. mqtt' \in [Clients -> Client] /\ OneClient' /\ PauseHolds'
        BY <1>a, <2>2, <3>1, <3>2, <3>3, ClientMovesOn
      <3> QED
        BY <1>1, <1>2, <2>1, <2>2, <3>4, AccountTypes DEF PatInv
    <2> QED
      BY <1>1, <1>6, <2>3, <2>4 DEF Unload, UnloadStops, OneClient
  <1> QED
    BY <1>3, <1>4, <1>5, <1>6

(* A push is queued by a client that has a thread.                         *)
LEMMA ChangeStep ==
  ASSUME PatInv, NEW fs \in SUBSET Fields, Change(fs)
  PROVE  PatInv'
  <1>1. PatTypes /\ OneClient /\ PauseHolds /\ posted \in Seq(Clients \X Reports)
    BY DEF PatInv, PatTypes
  <1>2. PatTypes'
    BY <1>1, ChangeTypes
  <1>3. UNCHANGED <<mqtt, current, starter, pause, shut, marked>>
    BY DEF Change, coordinatorVars, shown, restGate, patAccount
  <1>4. \A i \in 1 .. Len(posted') : mqtt[posted'[i][1]].worker # "none"
    <2>1. CASE posted' = posted
      BY <1>1, <2>1 DEF OneClient
    <2>2. CASE posted' # posted
      <3> DEFINE report == [f \in IF listed THEN Fields ELSE fs |-> real'[f]]
      <3>1. PICK c \in Clients : mqtt[c].socket = "open" /\ posted' = Append(posted, <<c, report>>)
        BY <2>2 DEF Change
      <3>2. posted' \in Seq(Clients \X Reports)
        BY <1>2 DEF PatTypes
      <3> HIDE DEF report
      <3>3. mqtt[c].worker # "none"
        BY <1>1, <3>1 DEF OneClient, ClientOK
      <3> DEFINE e == <<c, report>>
      <3>4. e[1] = c
        OBVIOUS
      <3> HIDE DEF e
      <3>5. /\ Len(posted') = Len(posted) + 1 /\ posted'[Len(posted) + 1] = e
            /\ \A i \in 1 .. Len(posted) : posted'[i] = posted[i]
            /\ Len(posted) \in Nat
        BY <1>1, <3>1, AppendProperties, LenProperties DEF e
      <3> QED
        BY <1>1, <3>3, <3>4, <3>5 DEF OneClient
    <2> QED
      BY <2>1, <2>2
  <1>5. OneClient' /\ PauseHolds'
    BY <1>1, <1>3, <1>4 DEF OneClient, PauseHolds
  <1> QED
    BY <1>2, <1>5 DEF PatInv

----------------------------------------------------------------------------
(* The invariant.                                                          *)
LEMMA PatStarts == PatInit => PatInv
  <1> SUFFICES ASSUME PatInit PROVE PatInv
    OBVIOUS
  <1>1. PatTypes
    <2>1. refresh \in [Refreshes -> [at : {"idle", "asked", "served"}, gen : Nat, reply : Reports]]
      BY NoReportIsReport DEF PatInit, CoordinatorInit, Resting
    <2>2. /\ listed \in BOOLEAN /\ data = NoReport /\ slot = NoReport
          /\ available = TRUE /\ marked = FALSE /\ ready = FALSE /\ active = FALSE
          /\ crossed = {} /\ setBack = {}
      BY DEF PatInit, CoordinatorInit
    <2>3. mqtt \in [Clients -> Client]
      BY UnbornOK DEF PatInit, MqttInit
    <2>4. posted \in Seq(Clients \X Reports)
      BY EmptySeq DEF PatInit
    <2>5. real \in [Fields -> Nat] /\ lost \in [Fields -> Nat]
      BY DEF PatInit
    <2>6. /\ shut = FALSE /\ gen = 0 /\ current = 0 /\ starter = "idle" /\ pause = "none"
          /\ closed = FALSE /\ 0 \in 0 .. MaxClients
      BY PatDeviceAssumption DEF PatInit
    <2> QED
      BY <2>1, <2>2, <2>3, <2>4, <2>5, <2>6, NoReportIsReport DEF PatTypes
  <1>2. \A c \in Clients : mqtt[c] = Unborn
    BY DEF PatInit, MqttInit
  <1>3. Len(posted) = 0
    BY DEF PatInit
  <1>4. OneClient
    <2>1. \A c \in Clients : ~(c < 0)
      BY DEF Clients
    <2> QED
      BY <1>2, <1>3, <2>1, UnbornOK DEF PatInit, OneClient
  <1>5. PauseHolds
    BY DEF PatInit, PauseHolds
  <1> QED
    BY <1>1, <1>4, <1>5 DEF PatInv

LEMMA PatKeeps == ASSUME PatInv, [PatNext]_patVars PROVE PatInv'
  <1>1. ASSUME NEW fs \in SUBSET Fields, Change(fs) PROVE PatInv'
    BY <1>1, ChangeStep
  <1>2. CASE deliver
    <2>1. PatTypes' /\ shut' = shut /\ (marked' = marked \/ ~shut)
      BY <1>2, DeliverTypes DEF PatInv
    <2>2. UNCHANGED <<mqtt, current, starter, pause, shut>> /\ posted # <<>> /\ posted' = Tail(posted)
      BY <1>2 DEF deliver, restGate, patAccount
    <2> QED
      BY <2>1, <2>2, ClientsUntouched DEF PatInv
  <1>3. CASE Refreshing
    <2>1. UNCHANGED <<mqtt, real, posted, lost, patAccount>>
      BY <1>3 DEF Refreshing
    <2>2. PatTypes' /\ shut' = shut /\ (marked' = marked \/ ~shut)
      BY <1>3, <2>1, RefreshTypes DEF Refreshing, PatInv
    <2>3. UNCHANGED <<mqtt, current, starter, pause, shut>> /\ posted' = posted
      BY <2>1, <2>2 DEF patAccount
    <2> QED
      BY <2>2, <2>3, ClientsUntouched DEF PatInv
  <1>4. CASE UNCHANGED patVars
    BY <1>4 DEF patVars, coordinatorVars, shown, slots, restGate, patAccount, PatInv, PatTypes,
                OneClient, PauseHolds
  <1> QED
    BY <1>1, <1>2, <1>3, <1>4, StartStep, ThreadStep, PauseStep DEF PatNext

(* The invariant holds of every behaviour.                                 *)
THEOREM PatInvariant == PatSpec => []PatInv
  BY PatStarts, PatKeeps, PTL DEF PatSpec

(* PauseIsComplete, for every number of clients and pauses: after a pause  *)
(* is acknowledged the device stays marked, and no socket of a client that *)
(* was replaced or shut down stays open.                                   *)
THEOREM PausesAreComplete == PatSpec => []PauseIsComplete
  <1>1. ASSUME PatInv PROVE PauseIsComplete
    <2>1. pause = "acknowledged" => marked
      BY <1>1 DEF PatInv, PauseHolds
    <2>2. ASSUME Disconnected, NEW c \in Clients,
                 mqtt[c].worker \in {"none", "connected", "failed"}
          PROVE  mqtt[c].socket # "open"
      <3>1. ClientOK(mqtt[c]) /\ current \in 0 .. MaxClients
        BY <1>1 DEF PatInv, OneClient, PatTypes
      <3>2. mqtt[c].shutdown = "done" \/ mqtt[c].worker = "none"
        <4>1. CASE pause = "acknowledged"
          BY <1>1, <4>1 DEF PatInv, PauseHolds
        <4>2. CASE mqtt[current].shutdown = "done"
          <5>1. c < current \/ c = current \/ c > current
            BY <3>1 DEF Clients
          <5> QED
            BY <1>1, <4>2, <5>1, UnbornOK DEF PatInv, OneClient
        <4> QED
          BY <2>2, <4>1, <4>2 DEF Disconnected
      <3> QED
        BY <2>2, <3>1, <3>2 DEF ClientOK
    <2> QED
      BY <2>1, <2>2 DEF PauseIsComplete
  <1> QED
    BY <1>1, PatInvariant, PTL

(* Only the first push of the queue is ever taken from it, by deliver.     *)
LEMMA OnlyDeliverTakes ==
  ASSUME PatInv, [PatNext]_patVars, posted # <<>>, posted' = Tail(posted)
  PROVE  deliver
  <1>1. Tail(posted) # posted /\ Len(Tail(posted)) = Len(posted) - 1 /\ Len(posted) \in Nat
        /\ posted \in Seq(Clients \X Reports)
    BY HeadIsReport DEF PatInv, PatTypes
  <1>2. posted' # posted
    BY <1>1
  <1>3. ASSUME NEW fs \in SUBSET Fields, Change(fs) PROVE FALSE
    <2> DEFINE report == [f \in IF listed THEN Fields ELSE fs |-> real'[f]]
    <2>1. PICK c \in Clients : posted' = Append(posted, <<c, report>>)
      BY <1>2, <1>3 DEF Change
    <2>2. PatTypes'
      BY <1>3, ChangeTypes DEF PatInv
    <2> DEFINE e == <<c, report>>
    <2>3. posted' = Append(posted, e)
      BY <2>1
    <2> HIDE DEF e
    <2>a. e \in Clients \X Reports
      <3>1. real' \in [Fields -> Nat]
        BY <2>2 DEF PatTypes
      <3>2. \E S \in SUBSET Fields : report \in [S -> Nat]
        BY <3>1
      <3> QED
        BY <3>2 DEF Reports, e
    <2>4. Len(Append(posted, e)) = Len(posted) + 1
      <3> DEFINE S == Clients \X Reports
      <3>1. posted \in Seq(S) /\ e \in S
        BY <1>1, <2>a
      <3> HIDE DEF S
      <3> QED
        BY <3>1, AppendProperties
    <2>5. \A n \in Nat : n + 1 # n - 1
      OBVIOUS
    <2> QED
      BY <1>1, <2>3, <2>4, <2>5
  <1> QED
    BY <1>2, <1>3 DEF PatNext, patVars, Refreshing, StartReplaces, StartBegins, StartProceeds,
       StartGivesUp, StartEnds, ThreadsAndShutdowns, Pause, PauseDisconnects, PauseEnds, Resume,
       Unload, UnloadStops

(* OnlyTheCurrentClientSpeaks, for every number of clients: a push of one  *)
(* that has been replaced, or of any when the account is disconnected,     *)
(* finds its client stopping.                                              *)
THEOREM OthersAreSilent == PatSpec => OnlyTheCurrentClientSpeaks
  <1>1. ASSUME PatInv, [PatNext]_patVars, posted # <<>>, posted' = Tail(posted),
               Head(posted)[1] # current \/ Disconnected
        PROVE  coordinatorVars' = coordinatorVars
    <2>1. deliver
      BY <1>1, OnlyDeliverTakes
    <2> DEFINE c == Head(posted)[1]
    <2>2. c \in Clients /\ Head(posted) = posted[1] /\ 1 \in 1 .. Len(posted)
      BY <1>1, HeadIsReport DEF PatInv
    <2>3. mqtt[c].worker # "none" /\ ClientOK(mqtt[c]) /\ current \in 0 .. MaxClients
      BY <1>1, <2>2 DEF PatInv, OneClient, PatTypes
    <2>4. c < current \/ c = current
      BY <1>1, <2>2, <2>3, UnbornOK DEF PatInv, OneClient, Clients
    <2>5. mqtt[c].shutdown = "done"
      BY <1>1, <2>2, <2>3, <2>4 DEF PatInv, OneClient, PauseHolds, Disconnected
    <2>6. mqtt[c].stopping
      BY <2>3, <2>5 DEF ClientOK
    <2> QED
      BY <2>1, <2>6 DEF deliver
  <1>2. PatInv /\ [PatNext]_patVars
        => [/\ posted # <<>> /\ posted' = Tail(posted)
            /\ Head(posted)[1] # current \/ Disconnected
            => coordinatorVars' = coordinatorVars]_patVars
    BY <1>1
  <1> QED
    BY <1>2, PatInvariant, PTL DEF PatSpec, OnlyTheCurrentClientSpeaks

----------------------------------------------------------------------------
(* The last value of a field was lost, or is on its way, ...               *)
Carries(i, f) == f \in DOMAIN posted[i][2]

Settled(f) ==
    \/ lost[f] = real[f]
    \/ \E i \in 1 .. Len(posted) : Carries(i, f) /\ posted[i][2][f] = real[f]

(* ... or it has arrived: in the data but for what a crossed refresh set   *)
(* back, in what the refreshes keep of the pushes, and in what a refresh   *)
(* that no other has crossed will return.                                  *)
Arrived(f) ==
    /\ f \in DOMAIN data => data[f] = real[f] \/ f \in setBack
    /\ f \in DOMAIN slot => slot[f] = real[f]
    /\ \A r \in Refreshes : refresh[r].at = "served" =>
          refresh[r].reply[f] = real[f] \/ f \in DOMAIN slot \/ r \in crossed

(* What is on its way is in the appliance's order.                         *)
InOrder ==
    \A i \in 1 .. Len(posted), f \in Fields : Carries(i, f) =>
        /\ posted[i][2][f] <= real[f]
        /\ Settled(f)
        /\ \A j \in i .. Len(posted) : Carries(j, f) => posted[i][2][f] <= posted[j][2][f]

WholeLists ==
    listed => /\ \A i \in 1 .. Len(posted) : DOMAIN posted[i][2] = Fields
              /\ slot # NoReport => DOMAIN slot = Fields

RefreshKeeps ==
    /\ \A r \in Refreshes : refresh[r].at # "idle" => active \/ r \in crossed
    /\ \A r \in Refreshes : refresh[r].at = "served" => DOMAIN refresh[r].reply = Fields
    /\ ~active => slot = NoReport

Follows ==
    /\ \A f \in Fields : lost[f] <= real[f]
    /\ InOrder
    /\ WholeLists
    /\ RefreshKeeps
    /\ \A f \in Fields : Settled(f) \/ Arrived(f)

LEMMA ReportFacts ==
  ASSUME NEW report \in Reports
  PROVE  DOMAIN report \subseteq Fields /\ \A f \in DOMAIN report : report[f] \in Nat
  BY DEF Reports

LEMMA OntoFacts ==
  ASSUME NEW base, NEW report, NEW f
  PROVE  /\ f \in DOMAIN report => f \in DOMAIN Onto(base, report) /\ Onto(base, report)[f] = report[f]
         /\ f \notin DOMAIN report => /\ f \in DOMAIN Onto(base, report) <=> ~listed /\ f \in DOMAIN base
                                      /\ f \in DOMAIN Onto(base, report) => Onto(base, report)[f] = base[f]
  <1>1. CASE listed
    BY <1>1 DEF Onto
  <1>2. CASE ~listed
    BY <1>2 DEF Onto, deep_merge
  <1> QED
    BY <1>1, <1>2

LEMMA PostedFacts ==
  ASSUME PatTypes, NEW i \in 1 .. Len(posted)
  PROVE  /\ posted[i][2] \in Reports /\ DOMAIN posted[i][2] \subseteq Fields
         /\ \A f \in DOMAIN posted[i][2] : posted[i][2][f] \in Nat
  <1>1. posted[i] \in Clients \X Reports
    BY ElementOfSeq DEF PatTypes
  <1>2. posted[i][2] \in Reports
    BY <1>1
  <1> QED
    BY <1>2, ReportFacts

LEMMA FollowsUntouched ==
  ASSUME Follows, UNCHANGED <<listed, data, setBack, slots, refresh, real, posted, lost>>
  PROVE  Follows'
  BY DEF Follows, InOrder, WholeLists, RefreshKeeps, Settled, Arrived, Carries, slots

(* The appliance's new values are on their way, or their push was lost.    *)
LEMMA ChangeFollows ==
  ASSUME PatInv, Follows, NEW fs \in SUBSET Fields, Change(fs)
  PROVE  Follows'
  <1> DEFINE D == IF listed THEN Fields ELSE fs
             report == [f \in D |-> real'[f]]
  <1>1. /\ PatTypes /\ PatTypes' /\ UNCHANGED <<listed, data, setBack, active, slot, crossed, refresh>>
        /\ posted \in Seq(Clients \X Reports) /\ Len(posted) \in Nat
        /\ fs \subseteq D /\ D \subseteq Fields /\ (listed => D = Fields)
    BY ChangeTypes, LenProperties DEF PatInv, PatTypes, Change, coordinatorVars, shown, slots
  <1>2. \A f \in Fields : /\ real[f] \in Nat /\ real'[f] \in Nat /\ lost[f] \in Nat
                          /\ real[f] <= real'[f]
                          /\ f \notin D => real'[f] = real[f]
    BY <1>1 DEF PatTypes, Change
  <1>3. report \in Reports /\ DOMAIN report = D /\ \A f \in D : report[f] = real'[f]
    BY <1>1, <1>2 DEF Reports
  <1>4. \/ Lose(report) /\ posted' = posted
        \/ /\ lost' = lost
           /\ \E c \in Clients : posted' = Append(posted, <<c, report>>)
    BY DEF Change
  <1>5. D \subseteq Fields /\ (listed => D = Fields)
    BY <1>1
  <1> HIDE DEF report, D
  <1>6. CASE Lose(report) /\ posted' = posted
    <2>1. \A f \in Fields : lost'[f] = IF f \in D THEN Later(lost[f], real'[f]) ELSE lost[f]
      BY <1>1, <1>3, <1>6, LoseTypes
    <2>2. \A f \in Fields : /\ lost'[f] <= real'[f]
                            /\ f \in D => lost'[f] = real'[f]
      BY <1>2, <2>1 DEF Follows, Later
    <2>3. \A f \in Fields : Settled(f) => Settled(f)'
      BY <1>2, <1>6, <2>1, <2>2 DEF Settled, Carries
    <2>4. \A f \in Fields : f \in D => Settled(f)'
      BY <2>2 DEF Settled
    <2>5. \A f \in Fields : f \notin D /\ Arrived(f) => Arrived(f)'
      BY <1>1, <1>2 DEF Arrived
    <2>6. InOrder'
      <3> SUFFICES ASSUME NEW i \in 1 .. Len(posted), NEW f \in Fields, Carries(i, f)
                   PROVE  /\ posted[i][2][f] <= real'[f]
                          /\ Settled(f)'
                          /\ \A j \in i .. Len(posted) :
                                Carries(j, f) => posted[i][2][f] <= posted[j][2][f]
        BY <1>6 DEF InOrder, Carries
      <3>1. posted[i][2][f] \in Nat
        BY <1>1, PostedFacts DEF Carries
      <3>2. /\ posted[i][2][f] <= real[f]
            /\ Settled(f)
            /\ \A j \in i .. Len(posted) : Carries(j, f) => posted[i][2][f] <= posted[j][2][f]
        BY DEF Follows, InOrder
      <3> QED
        BY <1>2, <2>3, <3>1, <3>2
    <2>7. WholeLists' /\ RefreshKeeps'
      BY <1>1, <1>6 DEF Follows, WholeLists, RefreshKeeps
    <2> QED
      BY <2>2, <2>3, <2>4, <2>5, <2>6, <2>7 DEF Follows
  <1>7. ASSUME lost' = lost, NEW c \in Clients, posted' = Append(posted, <<c, report>>)
        PROVE  Follows'
    <2> DEFINE n == Len(posted)
               x == <<c, report>>
    <2>1. x \in Clients \X Reports /\ x[2] = report
      BY <1>3
    <2> HIDE DEF x
    <2>2. posted' = Append(posted, x)
      BY <1>7 DEF x
    <2>3. /\ Len(posted') = n + 1 /\ posted'[n + 1] = x
          /\ \A i \in 1 .. n : posted'[i] = posted[i]
      <3> DEFINE S == Clients \X Reports
      <3>1. posted \in Seq(S) /\ x \in S
        BY <1>1, <2>1
      <3> HIDE DEF S
      <3> QED
        BY <2>2, <3>1, AppendProperties
    <2>4. n \in Nat /\ n + 1 \in 1 .. n + 1 /\ (\A i \in 1 .. n + 1 : i \in 1 .. n \/ i = n + 1)
          /\ (\A i \in 1 .. n : i \in 1 .. n + 1)
      BY <1>1
    <2> HIDE DEF n
    <2>5. \A f \in D : Settled(f)'
      BY <1>3, <2>1, <2>3, <2>4 DEF Settled, Carries
    <2>6. \A f \in Fields : f \notin D /\ Settled(f) => Settled(f)'
      BY <1>2, <1>7, <2>3, <2>4 DEF Settled, Carries, n
    <2>7. \A f \in Fields : f \notin D /\ Arrived(f) => Arrived(f)'
      BY <1>1, <1>2 DEF Arrived
    <2>8. \A f \in Fields : lost'[f] <= real'[f]
      BY <1>2, <1>7 DEF Follows
    <2>9. InOrder'
      <3> SUFFICES ASSUME NEW i \in 1 .. n + 1, NEW f \in Fields, f \in DOMAIN posted'[i][2]
                   PROVE  /\ posted'[i][2][f] <= real'[f]
                          /\ Settled(f)'
                          /\ \A j \in i .. n + 1 : f \in DOMAIN posted'[j][2]
                                => posted'[i][2][f] <= posted'[j][2][f]
        BY <2>3 DEF InOrder, Carries
      <3>1. CASE i = n + 1
        BY <1>2, <1>3, <2>1, <2>3, <2>4, <2>5, <3>1
      <3>2. CASE i \in 1 .. n
        <4>1. Carries(i, f) /\ posted'[i] = posted[i]
          BY <2>3, <3>2 DEF Carries
        <4>2. /\ posted[i][2][f] <= real[f] /\ posted[i][2][f] \in Nat
              /\ Settled(f)
              /\ \A j \in i .. n : Carries(j, f) => posted[i][2][f] <= posted[j][2][f]
          BY <1>1, <3>2, <4>1, PostedFacts DEF Follows, InOrder, n, Carries
        <4>3. posted[i][2][f] <= real'[f]
          BY <1>2, <4>2
        <4>4. Settled(f)'
          BY <2>5, <2>6, <4>2
        <4>5. ASSUME NEW j \in i .. n + 1, f \in DOMAIN posted'[j][2]
              PROVE  posted[i][2][f] <= posted'[j][2][f]
          <5>1. CASE j = n + 1
            BY <1>3, <2>1, <2>3, <4>3, <4>5, <5>1
          <5>2. CASE j # n + 1
            <6>1. j \in i .. n /\ j \in 1 .. n
              BY <2>4, <3>2, <5>2
            <6> QED
              BY <2>3, <4>2, <4>5, <6>1 DEF Carries
          <5> QED
            BY <5>1, <5>2
        <4> QED
          BY <4>1, <4>3, <4>4, <4>5
      <3> QED
        BY <2>4, <3>1, <3>2
    <2>10. WholeLists'
      <3>1. listed' => \A i \in 1 .. n + 1 : DOMAIN posted'[i][2] = Fields
        BY <1>1, <1>3, <1>5, <2>1, <2>3, <2>4 DEF Follows, WholeLists, n
      <3> QED
        BY <1>1, <2>3, <3>1 DEF Follows, WholeLists
    <2>11. RefreshKeeps'
      BY <1>1 DEF Follows, RefreshKeeps
    <2> QED
      BY <2>5, <2>6, <2>7, <2>8, <2>9, <2>10, <2>11 DEF Follows
  <1> QED
    BY <1>4, <1>6, <1>7

(* What leaves the queue has arrived or is lost.                           *)
LEMMA DeliverFollows ==
  ASSUME PatInv, Follows, deliver
  PROVE  Follows'
  <1> DEFINE report == Head(posted)[2]
             n == Len(posted)
  <1>1. /\ PatTypes /\ PatTypes' /\ posted # <<>> /\ posted' = Tail(posted)
        /\ real' = real /\ listed' = listed
        /\ handle_mqtt_status(report) \/ UNCHANGED coordinatorVars
        /\ \/ Lose(report) /\ UNCHANGED coordinatorVars
           \/ lost' = lost /\ ~shut /\ handle_mqtt_status(report)
    BY DeliverTypes DEF deliver, PatInv, handle_mqtt_status, coordinatorVars
  <1>2. /\ report = posted[1][2] /\ 1 \in 1 .. n /\ report \in Reports
        /\ Len(posted') = n - 1 /\ n \in Nat
        /\ \A i \in 1 .. n - 1 : posted'[i] = posted[i + 1]
    BY <1>1, HeadIsReport
  <1>3. /\ DOMAIN report \subseteq Fields
        /\ \A f \in DOMAIN report : report[f] \in Nat /\ report[f] <= real[f] /\ Settled(f)
        /\ listed => DOMAIN report = Fields
    BY <1>2, ReportFacts DEF Follows, InOrder, Carries, WholeLists
  <1>4. \A f \in Fields : lost[f] \in Nat /\ real[f] \in Nat /\ lost[f] <= real[f]
    BY <1>1 DEF PatTypes, Follows
  <1> HIDE DEF report, n
  <1>5. \A i \in 1 .. n - 1 : i + 1 \in 1 .. n
    BY <1>2
  <1>6. \A i \in 1 .. n : i = 1 \/ (i - 1 \in 1 .. n - 1 /\ posted'[i - 1] = posted[i])
    <2> SUFFICES ASSUME NEW i \in 1 .. n, i # 1
                 PROVE  i - 1 \in 1 .. n - 1 /\ posted'[i - 1] = posted[i]
      OBVIOUS
    <2>1. i - 1 \in 1 .. n - 1 /\ (i - 1) + 1 = i
      BY <1>2
    <2> QED
      BY <1>2, <2>1
  \* Whatever is still on its way leaves its field settled.
  <1>7. ASSUME NEW f \in Fields, NEW i \in 1 .. n - 1, f \in DOMAIN posted'[i][2],
               lost[f] = real[f] => lost'[f] = real[f]
        PROVE  Settled(f)'
    <2>1. i + 1 \in 1 .. n /\ posted'[i] = posted[i + 1] /\ Carries(i + 1, f)
      BY <1>2, <1>5, <1>7 DEF Carries
    <2>2. Settled(f) /\ posted[i + 1][2][f] <= real[f] /\ posted[i + 1][2][f] \in Nat
      BY <1>1, <2>1, PostedFacts DEF Follows, InOrder, n, Carries
    <2>3. CASE lost[f] = real[f]
      BY <1>1, <1>7, <2>3 DEF Settled
    <2>4. ASSUME NEW j \in 1 .. n, Carries(j, f), posted[j][2][f] = real[f]
          PROVE  Settled(f)'
      <3>1. CASE j = 1
        <4>1. i + 1 \in j .. n
          BY <1>2, <3>1
        <4>2. posted[j][2][f] <= posted[i + 1][2][f]
          BY <2>1, <2>4, <4>1 DEF Follows, InOrder, n
        <4>3. posted'[i][2][f] = real[f]
          BY <1>4, <2>1, <2>2, <2>4, <4>2
        <4> QED
          BY <1>1, <1>2, <1>7, <4>3 DEF Settled, Carries
      <3>2. CASE j # 1
        <4>1. j - 1 \in 1 .. n - 1 /\ posted'[j - 1] = posted[j]
          BY <1>6, <3>2
        <4> QED
          BY <1>1, <1>2, <2>4, <4>1 DEF Settled, Carries
      <3> QED
        BY <3>1, <3>2
    <2> QED
      BY <2>2, <2>3, <2>4 DEF Settled, n
  <1>8. ASSUME \A f \in Fields : lost[f] = real[f] => lost'[f] = real[f]
        PROVE  InOrder'
    <2> SUFFICES ASSUME NEW i \in 1 .. n - 1, NEW f \in Fields, f \in DOMAIN posted'[i][2]
                 PROVE  /\ posted'[i][2][f] <= real[f]
                        /\ Settled(f)'
                        /\ \A j \in i .. n - 1 : f \in DOMAIN posted'[j][2]
                              => posted'[i][2][f] <= posted'[j][2][f]
      BY <1>1, <1>2 DEF InOrder, Carries
    <2>1. i + 1 \in 1 .. n /\ posted'[i] = posted[i + 1] /\ Carries(i + 1, f)
      BY <1>2, <1>5 DEF Carries
    <2>2. /\ posted[i + 1][2][f] <= real[f]
          /\ \A j \in i + 1 .. n : Carries(j, f) => posted[i + 1][2][f] <= posted[j][2][f]
      BY <2>1 DEF Follows, InOrder, n
    <2>3. ASSUME NEW j \in i .. n - 1, f \in DOMAIN posted'[j][2]
          PROVE  posted'[i][2][f] <= posted'[j][2][f]
      <3>1. j + 1 \in i + 1 .. n /\ posted'[j] = posted[j + 1]
        BY <1>2
      <3> QED
        BY <2>1, <2>2, <2>3, <3>1 DEF Carries
    <2> QED
      BY <1>7, <1>8, <2>1, <2>2, <2>3
  <1>9. CASE Lose(report) /\ UNCHANGED coordinatorVars
    <2>1. \A f \in Fields : lost'[f] = IF f \in DOMAIN report THEN Later(lost[f], report[f])
                                       ELSE lost[f]
      BY <1>1, <1>2, <1>9, LoseTypes
    <2>2. \A f \in Fields : /\ lost'[f] <= real[f]
                            /\ lost[f] = real[f] => lost'[f] = real[f]
                            /\ f \in DOMAIN report /\ report[f] = real[f] => lost'[f] = real[f]
      BY <1>3, <1>4, <2>1 DEF Later
    <2>3. InOrder'
      BY <1>8, <2>2
    <2>4. ASSUME NEW f \in Fields, Settled(f) PROVE Settled(f)'
      <3>1. CASE lost[f] = real[f]
        BY <1>1, <2>2, <3>1 DEF Settled
      <3>2. ASSUME NEW j \in 1 .. n, Carries(j, f), posted[j][2][f] = real[f]
            PROVE  Settled(f)'
        <4>1. CASE j = 1
          BY <1>1, <1>2, <2>2, <3>2, <4>1 DEF Settled, Carries
        <4>2. CASE j - 1 \in 1 .. n - 1 /\ posted'[j - 1] = posted[j]
          BY <1>1, <1>2, <3>2, <4>2 DEF Settled, Carries
        <4> QED
          BY <1>6, <4>1, <4>2
      <3> QED
        BY <2>4, <3>1, <3>2 DEF Settled, n
    <2>5. UNCHANGED <<listed, data, setBack, active, slot, crossed, refresh>>
      BY <1>9 DEF coordinatorVars, shown, slots
    <2>6. \A f \in Fields : Arrived(f) => Arrived(f)'
      BY <1>1, <2>5 DEF Arrived
    <2>7. WholeLists' /\ RefreshKeeps'
      BY <1>2, <1>5, <2>5 DEF Follows, WholeLists, RefreshKeeps, n
    <2> QED
      BY <1>1, <2>2, <2>3, <2>4, <2>6, <2>7 DEF Follows
  <1>10. CASE lost' = lost /\ ~shut /\ handle_mqtt_status(report)
    <2>1. /\ data' = Onto(data, report)
          /\ slot' = IF active THEN Onto(slot, report) ELSE slot
          /\ active' = active /\ refresh' = refresh /\ crossed' = crossed
          /\ setBack' = setBack \ DOMAIN report
          /\ data \in Reports /\ slot \in Reports
      BY <1>1, <1>10 DEF handle_mqtt_status, PatTypes
    <2>2. InOrder'
      BY <1>8, <1>10
    <2>3. RefreshKeeps'
      BY <2>1 DEF Follows, RefreshKeeps
    <2>4. WholeLists'
      <3>1. listed => \A i \in 1 .. n - 1 : DOMAIN posted'[i][2] = Fields
        BY <1>2, <1>5 DEF Follows, WholeLists, n
      <3>2. listed /\ slot' # NoReport => DOMAIN slot' = Fields
        BY <1>2, <1>3, <2>1, OntoIsReport DEF Follows, WholeLists
      <3> QED
        BY <1>1, <1>2, <3>1, <3>2 DEF WholeLists
    <2>5. ASSUME NEW f \in Fields, f \in DOMAIN report, report[f] = real[f]
          PROVE  Arrived(f)'
      <3>1. f \in DOMAIN Onto(data, report) /\ Onto(data, report)[f] = real[f]
        BY <2>5, OntoFacts
      <3>2. f \in DOMAIN Onto(slot, report) /\ Onto(slot, report)[f] = real[f]
        BY <2>5, OntoFacts
      <3>3. ~active => f \notin DOMAIN slot
        BY NoReportIsReport DEF Follows, RefreshKeeps
      <3>4. \A r \in Refreshes : refresh[r].at = "served" => active \/ r \in crossed
        BY DEF Follows, RefreshKeeps
      <3> QED
        BY <1>1, <2>1, <3>1, <3>2, <3>3, <3>4 DEF Arrived
    <2>6. ASSUME NEW f \in Fields, f \notin DOMAIN report, Arrived(f)
          PROVE  Arrived(f)'
      <3>1. ~listed
        BY <1>3, <2>6
      <3>2. /\ f \in DOMAIN Onto(data, report) => f \in DOMAIN data /\ Onto(data, report)[f] = data[f]
            /\ f \in DOMAIN Onto(slot, report) <=> f \in DOMAIN slot
            /\ f \in DOMAIN slot => Onto(slot, report)[f] = slot[f]
        BY <2>6, <3>1, OntoFacts
      <3> QED
        BY <1>1, <2>1, <2>6, <3>2 DEF Arrived
    <2>7. ASSUME NEW f \in Fields PROVE Settled(f)' \/ Arrived(f)'
      <3>1. CASE lost[f] = real[f]
        BY <1>1, <1>10, <3>1 DEF Settled
      <3>2. ASSUME NEW j \in 1 .. n, Carries(j, f), posted[j][2][f] = real[f]
            PROVE  Settled(f)' \/ Arrived(f)'
        <4>1. CASE j = 1
          BY <1>2, <2>5, <3>2, <4>1 DEF Carries
        <4>2. CASE j - 1 \in 1 .. n - 1 /\ posted'[j - 1] = posted[j]
          BY <1>1, <1>2, <3>2, <4>2 DEF Settled, Carries
        <4> QED
          BY <1>6, <4>1, <4>2
      <3>3. CASE ~Settled(f)
        BY <1>3, <2>6, <3>3 DEF Follows
      <3> QED
        BY <3>1, <3>2, <3>3 DEF Settled, n
    <2> QED
      BY <1>1, <1>4, <1>10, <2>2, <2>3, <2>4, <2>7 DEF Follows
  <1> QED
    BY <1>1, <1>9, <1>10

(* A refresh asks, is answered and ends without an older value winning.    *)
LEMMA RefreshFollows ==
  ASSUME PatInv, Follows, Refreshing
  PROVE  Follows'
  <1>1. PICK r \in Refreshes : RefreshStep(r) \/ Served(r, real)
    BY DEF Refreshing
  <1>2. /\ UNCHANGED <<real, posted, lost>> /\ PatTypes
        /\ refresh \in [Refreshes -> RefreshRecords] /\ data \in Reports /\ slot \in Reports
        /\ refresh[r].reply \in Reports
    BY DEF Refreshing, PatInv, PatTypes, RefreshRecords
  <1>3. listed' = listed
    BY <1>1 DEF RefreshStep, RefreshBegins, RefreshRefused, RefreshSucceeds, RefreshFails,
           RefreshCancelled, Served
  <1>4. \A f \in Fields : Settled(f) => Settled(f)'
    BY <1>2 DEF Settled, Carries
  <1>5. InOrder'
    BY <1>2, <1>4 DEF Follows, InOrder, Carries
  <1>6. ASSUME RefreshKeeps', slot' = slot \/ slot' = NoReport,
               \A f \in Fields : ~Settled(f) /\ Arrived(f) => Arrived(f)'
        PROVE  Follows'
    BY <1>2, <1>3, <1>4, <1>5, <1>6 DEF Follows, WholeLists
  <1>7. ASSUME crossed \cup Crosses(r) \subseteq crossed' \cup {r}
        PROVE  \A q \in Refreshes \ {r} : refresh[q].at # "idle" => q \in crossed'
    BY <1>7 DEF Crosses
  <1>8. CASE RefreshBegins(r)
    <2>1. /\ active' = TRUE /\ slot' = NoReport /\ data' = data /\ setBack' = setBack
          /\ crossed' = crossed \cup Crosses(r)
      BY <1>8 DEF RefreshBegins, shown
    <2>2. /\ refresh'[r].at = "asked"
          /\ \A q \in Refreshes \ {r} : refresh'[q] = refresh[q]
      BY <1>2, <1>8 DEF RefreshBegins, RefreshRecords
    <2>3. \A q \in Refreshes : refresh'[q].at = "served" =>
             q \in crossed' /\ DOMAIN refresh'[q].reply = Fields
      BY <1>7, <2>1, <2>2 DEF Follows, RefreshKeeps
    <2>4. RefreshKeeps'
      BY <2>1, <2>3 DEF RefreshKeeps
    <2>5. ASSUME NEW f \in Fields, Arrived(f) PROVE Arrived(f)'
      BY <1>2, <2>1, <2>3, <2>5, NoReportIsReport DEF Arrived
    <2> QED
      BY <1>6, <2>1, <2>4, <2>5
  <1>9. CASE Served(r, real)
    <2>1. UNCHANGED <<data, setBack, active, slot, crossed>> /\ refresh[r].at = "asked"
      BY <1>9 DEF Served, shown, slots
    <2>2. /\ refresh'[r].at = "served" /\ refresh'[r].reply = real
          /\ \A q \in Refreshes \ {r} : refresh'[q] = refresh[q]
      BY <1>2, <1>9 DEF Served, RefreshRecords
    <2>3. DOMAIN real = Fields /\ (active \/ r \in crossed)
      BY <1>2, <2>1, RealIsReport DEF Follows, RefreshKeeps
    <2>4. RefreshKeeps'
      BY <2>1, <2>2, <2>3 DEF RefreshKeeps, Follows
    <2>5. ASSUME NEW f \in Fields, Arrived(f) PROVE Arrived(f)'
      BY <1>2, <2>1, <2>2, <2>5 DEF Arrived
    <2> QED
      BY <1>6, <2>1, <2>4, <2>5
  <1>10. ASSUME Finally(r)
         PROVE  /\ slot' = NoReport /\ RefreshKeeps'
                /\ \A q \in Refreshes : refresh'[q].at # "idle" => q \in crossed'
    <2>1. /\ active' = FALSE /\ slot' = NoReport /\ refresh'[r] = Resting
          /\ \A q \in Refreshes \ {r} : refresh'[q] = refresh[q]
          /\ crossed' = (crossed \cup Crosses(r)) \ {r}
      BY <1>2, <1>10 DEF Finally
    <2>2. Resting.at = "idle"
      BY DEF Resting
    <2>3. \A q \in Refreshes : refresh'[q].at # "idle" => q \in crossed'
      BY <1>7, <2>1, <2>2
    <2>4. \A q \in Refreshes : refresh'[q].at = "served" => DOMAIN refresh'[q].reply = Fields
      BY <2>1, <2>2 DEF Follows, RefreshKeeps
    <2> QED
      BY <2>1, <2>3, <2>4 DEF RefreshKeeps
  <1>11. CASE RefreshSucceeds(r)
    <2> DEFINE merged == Onto(data, refresh[r].reply)
    <2>1. /\ Finally(r) /\ refresh[r].at = "served"
          /\ data' = IF slot = NoReport THEN merged
                     ELSE IF listed THEN data ELSE deep_merge(merged, slot)
          /\ setBack' = IF r \in crossed THEN setBack \cup (Fields \ DOMAIN slot)
                        ELSE IF listed /\ slot # NoReport THEN setBack ELSE {}
      BY <1>11 DEF RefreshSucceeds, SetsBack
    <2>2. DOMAIN refresh[r].reply = Fields
      BY <2>1 DEF Follows, RefreshKeeps
    <2>3. merged \in Reports /\ \A f \in Fields : f \in DOMAIN merged /\ merged[f] = refresh[r].reply[f]
      BY <1>2, <2>2, OntoIsReport, OntoFacts
    <2> HIDE DEF merged
    <2>4. ~listed => /\ DOMAIN deep_merge(merged, slot) = DOMAIN merged \cup DOMAIN slot
                     /\ \A f \in DOMAIN slot : deep_merge(merged, slot)[f] = slot[f]
                     /\ \A f \in DOMAIN merged \ DOMAIN slot : deep_merge(merged, slot)[f] = merged[f]
      BY DEF deep_merge
    <2>5. ASSUME NEW f \in Fields, Arrived(f) PROVE Arrived(f)'
      <3>1. /\ f \in DOMAIN data => data[f] = real[f] \/ f \in setBack
            /\ f \in DOMAIN slot => slot[f] = real[f]
            /\ refresh[r].reply[f] = real[f] \/ f \in DOMAIN slot \/ r \in crossed
        BY <2>1, <2>5 DEF Arrived
      <3>2. f \in DOMAIN data' => data'[f] = real[f] \/ f \in setBack'
        <4>1. CASE listed /\ slot # NoReport
          BY <2>1, <3>1, <4>1
        <4>2. CASE f \in DOMAIN slot /\ ~listed
          BY <2>1, <2>4, <3>1, <4>2, NoReportIsReport
        <4>3. CASE f \notin DOMAIN slot /\ r \in crossed
          BY <2>1, <4>3
        <4>4. CASE f \notin DOMAIN slot /\ r \notin crossed /\ ~(listed /\ slot # NoReport)
          <5>1. refresh[r].reply[f] = real[f]
            BY <3>1, <4>4
          <5>2. merged[f] = real[f]
            BY <2>3, <5>1
          <5> QED
            BY <2>1, <2>3, <2>4, <4>4, <5>2
        <4>5. CASE f \in DOMAIN slot /\ listed
          BY <4>1, <4>5, NoReportIsReport
        <4> QED
          BY <4>1, <4>2, <4>3, <4>4, <4>5
      <3> QED
        BY <1>2, <1>10, <2>1, <3>2, NoReportIsReport DEF Arrived
    <2> QED
      BY <1>6, <1>10, <2>1, <2>5
  <1>12. CASE RefreshRefused(r) \/ RefreshFails(r) \/ RefreshCancelled(r)
    <2>1. Finally(r) /\ data' = data /\ setBack' = setBack
      BY <1>12 DEF RefreshRefused, RefreshFails, RefreshCancelled, shown
    <2>2. \A f \in Fields : Arrived(f) => Arrived(f)'
      BY <1>2, <1>10, <2>1, NoReportIsReport DEF Arrived
    <2> QED
      BY <1>6, <1>10, <2>1, <2>2
  <1> QED
    BY <1>1, <1>8, <1>9, <1>11, <1>12 DEF RefreshStep

LEMMA FollowsFromTheStart == PatInit => Follows
  <1> SUFFICES ASSUME PatInit PROVE Follows
    OBVIOUS
  <1>1. /\ Len(posted) = 0 /\ data = NoReport /\ slot = NoReport
        /\ \A f \in Fields : lost[f] = 0 /\ real[f] = 1
        /\ \A r \in Refreshes : refresh[r].at = "idle"
    BY DEF PatInit, CoordinatorInit, Resting
  <1> QED
    BY <1>1, NoReportIsReport DEF Follows, InOrder, WholeLists, RefreshKeeps, Arrived

LEMMA FollowsOn == ASSUME PatInv, Follows, [PatNext]_patVars PROVE Follows'
  <1>1. ASSUME NEW fs \in SUBSET Fields, Change(fs) PROVE Follows'
    BY <1>1, ChangeFollows
  <1>2. CASE \/ StartReplaces \/ StartBegins \/ StartProceeds \/ StartGivesUp \/ StartEnds
             \/ ThreadsAndShutdowns \/ Pause \/ PauseDisconnects \/ PauseEnds \/ Resume \/ Unload
             \/ UnloadStops
    <2>1. UNCHANGED <<listed, data, setBack, slots, refresh, real, posted, lost>>
      BY <1>2 DEF StartReplaces, StartBegins, StartProceeds, StartGivesUp, StartEnds,
         ThreadsAndShutdowns, Pause, PauseDisconnects, PauseEnds, Resume, Unload, UnloadStops,
         coordinatorVars, shown
    <2> QED
      BY <2>1, FollowsUntouched
  <1>3. CASE UNCHANGED patVars
    <2>1. UNCHANGED <<listed, data, setBack, slots, refresh, real, posted, lost>>
      BY <1>3 DEF patVars, coordinatorVars, shown
    <2> QED
      BY <2>1, FollowsUntouched
  <1> QED
    BY <1>1, <1>2, <1>3, DeliverFollows, RefreshFollows DEF PatNext

(* CaughtUp, for any fields, clients and refreshes, overlapping ones       *)
(* included: when nothing is on its way, what is shown of a field is the   *)
(* appliance's value, or that value's push was lost, or what is shown was  *)
(* set by the reply of a refresh that another one had crossed.             *)
THEOREM NoOldValueIsLeft == PatSpec => []CaughtUp
  <1>1. ASSUME PatInv, Follows PROVE CaughtUp
    <2> SUFFICES ASSUME Quiet, NEW f \in DOMAIN data \ setBack
                 PROVE  data[f] = real[f] \/ lost[f] = real[f]
      BY DEF CaughtUp
    <2>1. f \in Fields
      BY <1>1, ReportFacts DEF PatInv, PatTypes
    <2>2. Len(posted) = 0
      BY DEF Quiet
    <2>3. Settled(f) => lost[f] = real[f]
      BY <2>2 DEF Settled
    <2>4. Arrived(f) => data[f] = real[f]
      BY DEF Arrived
    <2> QED
      BY <1>1, <2>1, <2>3, <2>4 DEF Follows
  <1>2. PatInv /\ Follows /\ [PatNext]_patVars => (PatInv /\ Follows)'
    BY PatKeeps, FollowsOn
  <1> QED
    BY <1>1, <1>2, PatStarts, FollowsFromTheStart, PTL DEF PatSpec

=============================================================================
