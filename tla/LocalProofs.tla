---------------------------- MODULE LocalProofs -----------------------------
(***************************************************************************)
(* What is proved of the local side of one appliance: of LocalFeed, that   *)
(* the state shown never goes back and only what belongs to the present    *)
(* connection, session and profile counts; of LocalControl, that a request *)
(* is one command and a frame restates nothing that is known to be over;   *)
(* of ClimateEntity, that a service call is passed on once and nothing is  *)
(* shown that nobody reported or acknowledged.                             *)
(***************************************************************************)
EXTENDS LocalControl, LocalFeed, ClimateEntity, TLAPS

(***************************************************************************)
(* The feed.  The invariant has two parts: of the cursor, which says why a *)
(* session that was left cannot come back, and of the connection, which    *)
(* says that whatever counts was delivered on the one that is active.      *)
(***************************************************************************)

(* A session in the past was left in a generation or cohort that is over,  *)
(* or is on the list of those that have ended.                             *)
IsOver(x) ==
    \/ x[1] < gen
    \/ x[1] = gen /\ x[2] < cohort
    \/ x[1] = gen /\ x[2] = cohort /\ x[3] \in ended

CursorTypes ==
    /\ profile \in Profiles /\ gen \in Nat /\ cohort \in Nat
    /\ snap \in Snapshots \cup {None}
    /\ past \subseteq Nat \X Nat \X Sessions

CursorIsShown == snap # None => snap.gen = gen /\ snap.cohort \in {0, cohort}

PastIsOver == \A x \in past : x[2] # 0 => IsOver(x)

(* Before there are cohorts, every session that was left is on that list.  *)
PastHasEnded == cohort = 0 => \A x \in past : x[3] \in ended

FieldsAreDescribed ==
    /\ shadowFields \subseteq profile.fields
    /\ shadowFields \subseteq IF snap = None THEN {} ELSE snap.fields

CursorInv ==
    /\ CursorTypes /\ CursorIsShown /\ PastIsOver /\ PastHasEnded /\ SupersededStaysOut
    /\ FieldsAreDescribed

HeardIsHere == heard = "live" => heardOn = [on |-> active, service |-> presence.service]
PendingIsHere == pending # None => pendingOn = active
MarksAreHere == current \/ transport => provenOn = active
BufferIsHere == boot \in [StateTopics \cup ControlTopics -> {0, active}]

ConnectionInv ==
    /\ HeardIsHere /\ PendingIsHere /\ MarksAreHere /\ BufferIsHere
    /\ transport => connected
    /\ current => Describes

FeedInv == CursorInv /\ ConnectionInv

(* What NeverGoesBack says of a step.                                      *)
Forward ==
    /\ gen' >= gen /\ (gen' = gen => cohort' >= cohort)
    /\ snap # None /\ snap' # None /\ snap'.gen = snap.gen /\ snap'.cohort = snap.cohort =>
          /\ snap.cohort # 0 => snap'.session = snap.session
          /\ snap'.session = snap.session => snap'.seq >= snap.seq

cursorVars == <<profile, gen, cohort, snap, shadowFields, ended, past>>

(* The coordinates of a state are numbers.                                 *)
LEMMA StatesAreNumbered ==
    ASSUME NEW s \in Snapshots
    PROVE  /\ s.gen \in Nat /\ s.gen # 0 /\ s.cohort \in Nat /\ s.seq \in Nat
           /\ s.session \in Sessions /\ s # None
BY PublicationsAssumption

(* What parses, by any profile, is a publication.                          *)
LEMMA ParsedAreKnown ==
    ASSUME NEW q \in Profiles
    PROVE  /\ ParsedBy[q].states \subseteq Snapshots
           /\ ParsedBy[q].availabilities \subseteq Availabilities
           /\ None \notin ParsedBy[q].states \cup ParsedBy[q].availabilities
BY PublicationsAssumption DEF ParsedBy

(* A step that touches neither the state shown nor the past goes on.       *)
LEMMA CursorStays ==
    ASSUME CursorInv, UNCHANGED cursorVars
    PROVE  CursorInv' /\ Forward
<1>1. CursorInv'
  BY DEF CursorInv, CursorTypes, CursorIsShown, PastIsOver, PastHasEnded, IsOver,
         SupersededStaysOut, FieldsAreDescribed, cursorVars
<1>2. Forward
  BY StatesAreNumbered DEF CursorInv, CursorTypes, Forward, cursorVars
<1> QED
  BY <1>1, <1>2

(* The state that is shown instead of another, and is neither older nor of *)
(* a session that has ended.                                               *)
LEMMA AdoptionGoesOn ==
    ASSUME CursorInv, NEW s \in Snapshots,
           CursorFits(s), NotEnded(s),
           SameSession(s) /\ ~CohortAdvanced(s) => s.seq >= snap.seq,
           Adopted(s), Leaves, profile' = profile
    PROVE  CursorInv' /\ Forward
<1> USE DEF CursorInv
<1>1. /\ s.gen \in Nat /\ s.gen # 0 /\ s.cohort \in Nat /\ s.seq \in Nat
      /\ s.session \in Sessions /\ s # None
  BY StatesAreNumbered
<1>2. /\ gen' = s.gen /\ snap' = s /\ shadowFields' = s.fields \cap profile.fields
      /\ cohort' = IF s.cohort = 0 THEN cohort ELSE s.cohort
  BY DEF Adopted
<1>3. s.gen >= gen
  BY DEF CursorFits
<1>4. s.gen = gen /\ s.cohort # 0 /\ cohort # 0 => s.cohort >= cohort
  BY <1>1 DEF CursorFits, CursorTypes
<1>5. gen' >= gen /\ (gen' = gen => cohort' >= cohort)
  BY <1>1, <1>2, <1>3, <1>4 DEF CursorTypes
<1>6. CursorTypes'
  <2>1. past' \subseteq Nat \X Nat \X Sessions
    BY StatesAreNumbered DEF Leaves, CursorTypes
  <2> QED
    BY <1>1, <1>2, <2>1 DEF CursorTypes
<1>7. CursorIsShown'
  BY <1>1, <1>2 DEF CursorIsShown
<1>8. gen' = gen /\ cohort' = cohort => ~CohortAdvanced(s)
  BY <1>1, <1>2 DEF CohortAdvanced, CursorTypes
<1>9. gen' = gen /\ cohort' = cohort => ended \subseteq ended'
  BY <1>8 DEF Adopted
<1>10. PastIsOver'
  <2> SUFFICES ASSUME NEW x \in past', x[2] # 0
               PROVE  IsOver(x)'
    BY DEF PastIsOver
  <2>1. x \in Nat \X Nat \X Sessions
    BY <1>6 DEF CursorTypes
  <2>2. CASE x \in past
    <3>1. IsOver(x)
      BY <2>2 DEF PastIsOver
    <3> QED
      BY <3>1, <2>1, <1>5, <1>6, <1>9 DEF IsOver, CursorTypes
  <2>3. CASE x \notin past
    <3>1. /\ snap # None /\ snap.session # s.session
          /\ x = <<snap.gen, snap.cohort, snap.session>>
      BY <2>3, <1>1, <1>2 DEF Leaves
    <3>2. x[1] = gen /\ x[2] = cohort
      BY <3>1 DEF CursorIsShown
    <3>3. gen' = gen /\ cohort' = cohort => x[3] \in ended'
      BY <3>1, <1>8, <1>1 DEF Adopted, OtherSession
    <3> QED
      BY <3>2, <3>3, <1>5, <1>6 DEF IsOver, CursorTypes
  <2> QED
    BY <2>2, <2>3
<1>11. SupersededStaysOut'
  <2> SUFFICES ASSUME s.cohort # 0 \/ cohort' = 0, <<s.gen, s.cohort, s.session>> \in past'
               PROVE  FALSE
    BY <1>2 DEF SupersededStaysOut
  <2>1. <<s.gen, s.cohort, s.session>> \in past
    BY <1>1, <1>2 DEF Leaves
  <2>2. CASE s.cohort # 0
    <3>1. IsOver(<<s.gen, s.cohort, s.session>>)
      BY <2>1, <2>2, <1>1 DEF PastIsOver
    <3>2. s.gen = gen /\ s.cohort = cohort /\ s.session \in ended
      BY <2>2, <3>1, <1>1, <1>3, <1>4 DEF IsOver, CursorTypes
    <3> QED
      BY <2>2, <3>2, <1>1 DEF NotEnded, CohortAdvanced
  <2>3. CASE s.cohort = 0
    <3>1. cohort = 0
      BY <2>3, <1>2
    <3>2. s.session \in ended
      BY <2>1, <3>1 DEF PastHasEnded
    <3> QED
      BY <3>1, <3>2 DEF NotEnded, CohortAdvanced
  <2> QED
    BY <2>2, <2>3
<1>12. FieldsAreDescribed'
  BY <1>1, <1>2 DEF FieldsAreDescribed
<1>13. ASSUME snap # None, s.gen = snap.gen, s.cohort = snap.cohort
       PROVE  /\ snap.cohort # 0 => s.session = snap.session
              /\ s.session = snap.session => s.seq >= snap.seq
  <2>1. snap.gen = gen /\ snap.cohort \in {0, cohort}
    BY <1>13 DEF CursorIsShown
  <2>2. snap.cohort # 0 => s.session = snap.session
    BY <2>1, <1>13, <1>1 DEF CursorFits, SameSession, CursorTypes
  <2>3. ~CohortAdvanced(s)
    BY <2>1, <1>13, <1>1 DEF CohortAdvanced, CursorTypes
  <2> QED
    BY <2>2, <2>3, <1>13 DEF SameSession
<1>14. Forward
  BY <1>2, <1>5, <1>13 DEF Forward
<1>15. PastHasEnded'
  <2> SUFFICES ASSUME cohort' = 0, NEW x \in past'
               PROVE  x[3] \in ended'
    BY DEF PastHasEnded
  <2>1. cohort = 0 /\ ~CohortAdvanced(s)
    BY <1>1, <1>2 DEF CohortAdvanced
  <2>2. ended \subseteq ended' /\ (OtherSession(s) => snap.session \in ended')
    BY <2>1 DEF Adopted
  <2>3. CASE x \in past
    BY <2>1, <2>2, <2>3 DEF PastHasEnded
  <2>4. CASE x \notin past
    <3>1. /\ snap # None /\ snap.session # s.session
          /\ x = <<snap.gen, snap.cohort, snap.session>>
      BY <2>4, <1>1, <1>2 DEF Leaves
    <3> QED
      BY <2>2, <3>1 DEF OtherSession
  <2> QED
    BY <2>3, <2>4
<1> QED
  BY <1>6, <1>7, <1>10, <1>11, <1>12, <1>14, <1>15

(* A pair that is adopted: its state goes on, with an availability of it.  *)
LEMMA PairGoesOn ==
    ASSUME CursorInv, NEW s \in Snapshots, NEW a, a # None, NEW seenGen,
           PairFits(s, a, seenGen), PairAdopted(s, a), Leaves, profile' = profile
    PROVE  CursorInv' /\ Forward /\ Describes'
<1>1. SameSession(s) /\ ~CohortAdvanced(s) => s.seq >= snap.seq
  <2>1. snap # None => snap.seq \in Nat
    BY StatesAreNumbered DEF CursorInv, CursorTypes
  <2> QED
    BY <2>1, StatesAreNumbered DEF PairFits, SameSession
<1>2. CursorInv' /\ Forward
  BY <1>1, AdoptionGoesOn DEF PairFits, PairAdopted
<1>3. snap' = s /\ avail' = a /\ s # None
  BY StatesAreNumbered DEF PairAdopted, Adopted
<1>4. Coordinate(a) = Coordinate(s) /\ a.at >= s.at
  BY DEF PairFits
<1>5. Describes'
  BY <1>3, <1>4 DEF Describes, Coordinate
<1> QED
  BY <1>2, <1>5

(* A state or availability that is deleted: its session is over.           *)
LEMMA DeletionGoesOn ==
    ASSUME CursorInv, StateDeleted \/ AvailabilityDeleted, Leaves
    PROVE  CursorInv' /\ Forward
<1> USE DEF CursorInv
<1>1. /\ profile' = profile /\ gen' = gen /\ cohort' = cohort
      /\ snap' \in {snap, None}
      /\ ended' = IF snap = None THEN ended ELSE ended \cup {snap.session}
  BY DEF StateDeleted, AvailabilityDeleted, SessionDeleted
<1>2. /\ snap' = snap => past' = past
      /\ snap' # snap => past' = past \cup {<<snap.gen, snap.cohort, snap.session>>}
  BY <1>1 DEF Leaves
<1>3. CursorTypes'
  <2>1. past' \subseteq Nat \X Nat \X Sessions
    BY <1>1, <1>2, StatesAreNumbered DEF CursorTypes
  <2> QED
    BY <1>1, <2>1 DEF CursorTypes
<1>4. CursorIsShown'
  BY <1>1 DEF CursorIsShown
<1>5. PastIsOver'
  <2> SUFFICES ASSUME NEW x \in past', x[2] # 0
               PROVE  IsOver(x)'
    BY DEF PastIsOver
  <2>1. CASE x \in past
    BY <2>1, <1>1 DEF PastIsOver, IsOver
  <2>2. CASE x \notin past
    <3>1. snap # None /\ x = <<snap.gen, snap.cohort, snap.session>>
      BY <2>2, <1>1, <1>2
    <3> QED
      BY <3>1, <1>1 DEF CursorIsShown, IsOver
  <2> QED
    BY <2>1, <2>2
<1>6. SupersededStaysOut'
  BY <1>1, <1>2 DEF SupersededStaysOut
<1>7. FieldsAreDescribed'
  <2>1. CASE StateDeleted
    BY <2>1 DEF StateDeleted, SessionDeleted, FieldsAreDescribed
  <2>2. CASE AvailabilityDeleted
    BY <2>2 DEF AvailabilityDeleted, SessionDeleted, FieldsAreDescribed
  <2> QED
    BY <2>1, <2>2
<1>8. Forward
  BY <1>1, StatesAreNumbered DEF CursorTypes, Forward
<1>9. PastHasEnded'
  <2> SUFFICES ASSUME cohort = 0, NEW x \in past'
               PROVE  x[3] \in ended'
    BY <1>1 DEF PastHasEnded
  <2>1. CASE x \in past
    BY <2>1, <1>1 DEF PastHasEnded
  <2>2. CASE x \notin past
    <3>1. snap # None /\ x = <<snap.gen, snap.cohort, snap.session>>
      BY <2>2, <1>1, <1>2
    <3> QED
      BY <3>1, <1>1
  <2> QED
    BY <2>1, <2>2
<1> QED
  BY <1>3, <1>4, <1>5, <1>6, <1>7, <1>8, <1>9

(* A connection that ends, or is made anew, leaves nothing that counts.    *)
LEMMA ConnectionEnds ==
    ASSUME CursorInv, TransportLost, Forgotten, UNCHANGED history
    PROVE  FeedInv' /\ Forward
<1>1. CursorInv' /\ Forward
  BY CursorStays DEF TransportLost, cursor, cursorVars, history
<1>2. /\ pending' = None /\ current' = FALSE /\ transport' = FALSE /\ heard' = "no"
      /\ boot' = Empty
  BY DEF TransportLost, Forgotten
<1>3. BufferIsHere'
  BY <1>2 DEF BufferIsHere, Empty
<1>4. ConnectionInv'
  BY <1>2, <1>3 DEF ConnectionInv, HeardIsHere, PendingIsHere, MarksAreHere
<1> QED
  BY <1>1, <1>4 DEF FeedInv

(* What the provider and the connection keep.                              *)
LEMMA FeedStays ==
    ASSUME FeedInv, UNCHANGED <<providerVars, active, connected, boot, history>>
    PROVE  FeedInv' /\ Forward
<1>1. CursorInv' /\ Forward
  BY CursorStays DEF FeedInv, providerVars, cursor, cursorVars, history
<1>2. ConnectionInv'
  BY DEF FeedInv, ConnectionInv, HeardIsHere, PendingIsHere, MarksAreHere, BufferIsHere, Describes,
         Coordinate, providerVars, cursor, seen, marks, history
<1> QED
  BY <1>1, <1>2 DEF FeedInv

Buffers == [StateTopics \cup ControlTopics -> {0, active}]

(* A buffered pair was delivered on this connection.                       *)
LEMMA DrainsPairGoesOn ==
    ASSUME FeedInv, NEW b \in Buffers, NEW seenGen, DrainsPair(b, seenGen),
           profile' = profile, active' = active
    PROVE  CursorInv' /\ Forward /\ BufferIsHere' /\ MarksAreHere' /\ (current' => Describes')
<1>1. CASE /\ \A t \in StateTopics : b[t] # 0
           /\ \E s \in StatesThatParse, a \in AvailabilitiesThatParse :
                 SemanticBootstrap(s, a, seenGen)
           /\ boot' = [t \in DOMAIN b |-> IF t \in StateTopics THEN 0 ELSE b[t]]
           /\ provenOn' = Older(b["state"], b["availability"])
           /\ Leaves
  <2>1. PICK s \in StatesThatParse, a \in AvailabilitiesThatParse : SemanticBootstrap(s, a, seenGen)
    BY <1>1
  <2>2. s \in Snapshots /\ a # None
    BY ParsedAreKnown
       DEF FeedInv, CursorInv, CursorTypes, StatesThatParse, AvailabilitiesThatParse
  <2>3. CursorInv' /\ Forward /\ Describes'
    BY <2>1, <2>2, <1>1, PairGoesOn DEF FeedInv, SemanticBootstrap
  <2>4. BufferIsHere'
    BY <1>1 DEF Buffers, BufferIsHere
  <2>5. b["state"] = active /\ b["availability"] = active
    BY <1>1 DEF Buffers, StateTopics
  <2>6. MarksAreHere'
    BY <1>1, <2>5 DEF Older, MarksAreHere
  <2> QED
    BY <2>3, <2>4, <2>6
<1>2. CASE boot' = b /\ UNCHANGED <<cursor, marks, past, provenOn>>
  <2>1. CursorInv' /\ Forward
    BY <1>2, CursorStays DEF FeedInv, cursor, cursorVars
  <2>2. BufferIsHere' /\ MarksAreHere' /\ (current' => Describes')
    BY <1>2 DEF FeedInv, ConnectionInv, Buffers, BufferIsHere, MarksAreHere, Describes, Coordinate,
                cursor, marks
  <2> QED
    BY <2>1, <2>2
<1> QED
  BY <1>1, <1>2 DEF DrainsPair

(* The process, the presence and the pair, as far as they are there.       *)
LEMMA DrainsControlGoesOn ==
    ASSUME FeedInv, NEW b \in Buffers, DrainsControl(b),
           connected, active' = active, connected' = connected
    PROVE  FeedInv' /\ Forward
<1>1. CASE /\ \A t \in ControlTopics : b[t] # 0
           /\ \E r \in RuntimesThatParse, p \in PresencesThatParse, retained \in BOOLEAN :
                 /\ ControlBootstrap(r, p, retained)
                 /\ Hears(p, retained, b["presence"])
                 /\ DrainsPair([b EXCEPT !["runtime"] = 0, !["presence"] = 0], p.gen)
           /\ UNCHANGED pendingOn
  <2>1. PICK r \in RuntimesThatParse, p \in PresencesThatParse, retained \in BOOLEAN :
            /\ ControlBootstrap(r, p, retained)
            /\ Hears(p, retained, b["presence"])
            /\ DrainsPair([b EXCEPT !["runtime"] = 0, !["presence"] = 0], p.gen)
    BY <1>1
  <2>2. [b EXCEPT !["runtime"] = 0, !["presence"] = 0] \in Buffers
    BY DEF Buffers
  <2>3. /\ profile' = profile /\ pending' = pending /\ presence' = p
        /\ heard' = IF retained THEN "no" ELSE "live"
    BY <2>1 DEF ControlBootstrap, PresenceAdopted, Delivered
  <2>4. CursorInv' /\ Forward /\ BufferIsHere' /\ MarksAreHere' /\ (current' => Describes')
    BY <2>1, <2>2, <2>3, DrainsPairGoesOn
  <2>5. b["presence"] = active
    BY <1>1 DEF Buffers, ControlTopics
  <2>6. HeardIsHere'
    BY <2>1, <2>3, <2>5 DEF Hears, HeardIsHere
  <2>7. PendingIsHere'
    BY <1>1, <2>3 DEF FeedInv, ConnectionInv, PendingIsHere
  <2> QED
    BY <2>4, <2>6, <2>7 DEF FeedInv, ConnectionInv
<1>2. CASE /\ \A t \in Topics : b[t] # 0
           /\ \E s \in StatesThatParse, a \in AvailabilitiesThatParse, r \in RuntimesThatParse :
                 WholeBootstrap(s, a, r)
           /\ boot' = Empty
           /\ provenOn' = Older(b["state"], b["availability"])
           /\ Leaves
           /\ UNCHANGED <<bootPair, heardOn, pendingOn>>
  <2>1. PICK s \in StatesThatParse, a \in AvailabilitiesThatParse, r \in RuntimesThatParse :
            WholeBootstrap(s, a, r)
    BY <1>2
  <2>2. s \in Snapshots /\ a # None
    BY ParsedAreKnown
       DEF FeedInv, CursorInv, CursorTypes, StatesThatParse, AvailabilitiesThatParse
  <2>3. UNCHANGED <<profile, pending, presence, heard>>
    BY <2>1 DEF WholeBootstrap, seen
  <2>4. CursorInv' /\ Forward /\ Describes'
    BY <2>1, <2>2, <2>3, <1>2, PairGoesOn DEF FeedInv, WholeBootstrap, WholeFits
  <2>5. BufferIsHere'
    BY <1>2 DEF Empty, BufferIsHere
  <2>6. b["state"] = active /\ b["availability"] = active
    BY <1>2 DEF Buffers, StateTopics, Topics
  <2>7. MarksAreHere'
    BY <1>2, <2>6 DEF Older, MarksAreHere
  <2>8. HeardIsHere' /\ PendingIsHere'
    BY <2>3, <1>2 DEF FeedInv, ConnectionInv, HeardIsHere, PendingIsHere
  <2> QED
    BY <2>4, <2>5, <2>7, <2>8 DEF FeedInv, ConnectionInv
<1>3. CASE boot' = b /\ UNCHANGED <<providerVars, bootPair, history>>
  <2>1. CursorInv' /\ Forward
    BY <1>3, CursorStays DEF FeedInv, providerVars, cursor, cursorVars, history
  <2>2. ConnectionInv'
    BY <1>3 DEF FeedInv, ConnectionInv, HeardIsHere, PendingIsHere, MarksAreHere, BufferIsHere,
                Buffers, Describes, Coordinate, providerVars, cursor, seen, marks, history
  <2> QED
    BY <2>1, <2>2 DEF FeedInv
<1> QED
  BY <1>1, <1>2, <1>3 DEF DrainsControl

(* A live message about the appliance itself.                              *)
LEMMA StateGoesOn ==
    ASSUME FeedInv, Live, NEW s \in StatesThatParse, StateArrives(s)
    PROVE  FeedInv' /\ Forward
<1>1. /\ e.on = active /\ active' = active /\ connected' = connected /\ boot' = boot
  BY DEF Live, Current, client
<1>2. s \in Snapshots
  BY ParsedAreKnown DEF FeedInv, CursorInv, CursorTypes, StatesThatParse
<1>3. CASE LiveState2(s) /\ Leaves /\ UNCHANGED <<heardOn, provenOn, pendingOn>>
  <2>1. SameSession(s) /\ ~CohortAdvanced(s) => s.seq >= snap.seq
    <3>1. snap # None => snap.seq \in Nat
      BY StatesAreNumbered DEF FeedInv, CursorInv, CursorTypes
    <3> QED
      BY <3>1, <1>2, <1>3, StatesAreNumbered DEF LiveState2, StateFits, SameSession, OtherSession
  <2>2. CursorInv' /\ Forward
    BY <1>2, <1>3, <2>1, AdoptionGoesOn DEF FeedInv, LiveState2, StateFits
  <2>3. /\ current' = FALSE /\ transport' = transport
        /\ heard' = heard /\ presence' = presence /\ pending' = pending
    BY <1>3 DEF LiveState2, seen
  <2>4. ConnectionInv'
    BY <1>1, <1>3, <2>3
       DEF FeedInv, ConnectionInv, HeardIsHere, PendingIsHere, MarksAreHere, BufferIsHere
  <2> QED
    BY <2>2, <2>4 DEF FeedInv
<1>4. CASE LiveState3(s) /\ pendingOn' = e.on /\ UNCHANGED <<past, heardOn, provenOn>>
  <2>1. CursorInv' /\ Forward
    BY <1>4, CursorStays DEF FeedInv, LiveState3, cursor, cursorVars
  <2>2. ConnectionInv'
    BY <1>1, <1>4
       DEF FeedInv, ConnectionInv, HeardIsHere, PendingIsHere, MarksAreHere, BufferIsHere,
           Describes, Coordinate, LiveState3, cursor, seen, marks
  <2> QED
    BY <2>1, <2>2 DEF FeedInv
<1> QED
  BY <1>3, <1>4 DEF StateArrives

LEMMA AvailabilityGoesOn ==
    ASSUME FeedInv, Live, NEW a \in AvailabilitiesThatParse, AvailabilityArrives(a)
    PROVE  FeedInv' /\ Forward
<1>1. /\ connected /\ e.on = active
      /\ active' = active /\ connected' = connected /\ boot' = boot
  BY DEF Live, Current, client
<1>2. a # None
  BY ParsedAreKnown DEF FeedInv, CursorInv, CursorTypes, AvailabilitiesThatParse
<1>3. CASE /\ LivePair(a) /\ provenOn' = Older(pendingOn, e.on) /\ Leaves
           /\ UNCHANGED <<heardOn, pendingOn>>
  <2>1. pending \in Snapshots /\ pending # None
    BY <1>3, ParsedAreKnown DEF LivePair, FeedInv, CursorInv, CursorTypes, StatesThatParse
  <2>2. CursorInv' /\ Forward /\ Describes'
    BY <1>2, <1>3, <2>1, PairGoesOn DEF FeedInv, LivePair
  <2>3. provenOn' = active
    BY <1>1, <1>3, <2>1 DEF FeedInv, ConnectionInv, PendingIsHere, Older
  <2>4. /\ pending' = None /\ heard' = heard /\ presence' = presence
    BY <1>3 DEF LivePair, seen
  <2>5. ConnectionInv'
    BY <1>1, <1>3, <2>2, <2>3, <2>4
       DEF FeedInv, ConnectionInv, HeardIsHere, PendingIsHere, MarksAreHere, BufferIsHere
  <2> QED
    BY <2>2, <2>5 DEF FeedInv
<1>4. CASE /\ LiveAvailability(a)
           /\ provenOn' = IF a = avail THEN provenOn ELSE e.on
           /\ UNCHANGED <<past, heardOn, pendingOn>>
  <2>1. UNCHANGED cursorVars /\ UNCHANGED <<heard, presence>> /\ pending' \in {pending, None}
    BY <1>4 DEF LiveAvailability, cursorVars, seen
  <2>2. CursorInv' /\ Forward
    BY <2>1, CursorStays DEF FeedInv
  <2>3. CASE a = avail /\ UNCHANGED <<avail, device, marks>>
    <3>1. ConnectionInv'
      BY <1>1, <1>4, <2>1, <2>3
         DEF FeedInv, ConnectionInv, HeardIsHere, PendingIsHere, MarksAreHere, BufferIsHere,
             Describes, Coordinate, cursorVars, marks
    <3> QED
      BY <2>2, <3>1 DEF FeedInv
  <2>4. CASE a # avail /\ avail' = a
    <3>1. Describes'
      <4>1. snap # None /\ Coordinate(a) = Coordinate(snap) /\ a.at >= snap.at
        BY <1>4 DEF LiveAvailability, SameSession
      <4> QED
        BY <4>1, <1>2, <2>1, <2>4 DEF Describes, Coordinate, cursorVars
    <3>2. ConnectionInv'
      BY <1>1, <1>4, <2>1, <2>4, <3>1
         DEF FeedInv, ConnectionInv, HeardIsHere, PendingIsHere, MarksAreHere, BufferIsHere
    <3> QED
      BY <2>2, <3>2 DEF FeedInv
  <2> QED
    BY <1>4, <2>3, <2>4 DEF LiveAvailability
<1> QED
  BY <1>3, <1>4 DEF AvailabilityArrives

(* A live message of the bridge's processes.                               *)
LEMMA RuntimeGoesOn ==
    ASSUME FeedInv, Live, NEW r, NEW retained \in BOOLEAN, RuntimeArrives(r, retained)
    PROVE  FeedInv' /\ Forward
<1>1. /\ active' = active /\ connected' = connected /\ boot' = boot
  BY DEF Live, client
<1>2. /\ UNCHANGED <<profile, cursor, seen, heard, transport, history>>
      /\ pending' \in {pending, None}
  BY DEF RuntimeArrives, LiveRuntime, Settles
<1>3. current' => current
  BY DEF RuntimeArrives, LiveRuntime
<1>4. CursorInv' /\ Forward
  BY <1>2, CursorStays DEF FeedInv, cursor, cursorVars, history
<1>5. ConnectionInv'
  BY <1>1, <1>2, <1>3
     DEF FeedInv, ConnectionInv, HeardIsHere, PendingIsHere, MarksAreHere, BufferIsHere, Describes,
         Coordinate, cursor, seen, history
<1> QED
  BY <1>4, <1>5 DEF FeedInv

LEMMA PresenceGoesOn ==
    ASSUME FeedInv, Live, NEW p, NEW retained \in BOOLEAN, PresenceArrives(p, retained)
    PROVE  FeedInv' /\ Forward
<1>1. /\ e.on = active /\ active' = active /\ connected' = connected /\ boot' = boot
  BY DEF Live, Current, client
<1>2. /\ UNCHANGED <<profile, cursor, transport, past, provenOn, pendingOn>>
      /\ presence' = p /\ heard' = IF retained THEN "no" ELSE "live"
      /\ heardOn' = IF retained THEN Unheard ELSE [on |-> e.on, service |-> p.service]
      /\ pending' \in {pending, None}
  BY DEF PresenceArrives, LivePresence, PresenceAdopted, Delivered, Hears, Settles
<1>3. current' => current
  BY DEF PresenceArrives, LivePresence
<1>4. CursorInv' /\ Forward
  BY <1>2, CursorStays DEF FeedInv, cursor, cursorVars
<1>5. ConnectionInv'
  <2>1. HeardIsHere'
    BY <1>1, <1>2 DEF HeardIsHere
  <2>2. PendingIsHere' /\ MarksAreHere' /\ BufferIsHere'
    BY <1>1, <1>2, <1>3 DEF FeedInv, ConnectionInv, PendingIsHere, MarksAreHere, BufferIsHere
  <2>3. (transport' => connected') /\ (current' => Describes')
    BY <1>1, <1>2, <1>3 DEF FeedInv, ConnectionInv, Describes, Coordinate, cursor
  <2> QED
    BY <2>1, <2>2, <2>3 DEF ConnectionInv
<1> QED
  BY <1>4, <1>5 DEF FeedInv

LEMMA DeleteGoesOn ==
    ASSUME FeedInv, Live, DeleteArrives
    PROVE  FeedInv' /\ Forward
<1>1. /\ active' = active /\ connected' = connected /\ boot' = boot
  BY DEF Live, client
<1>2. CASE (StateDeleted \/ AvailabilityDeleted) /\ Leaves /\ UNCHANGED <<heardOn, provenOn, pendingOn>>
  <2>1. CursorInv' /\ Forward
    BY <1>2, DeletionGoesOn DEF FeedInv
  <2>2. /\ current' = FALSE /\ transport' = FALSE /\ pending' = None
        /\ heard' = heard /\ presence' = presence
    BY <1>2 DEF StateDeleted, AvailabilityDeleted, SessionDeleted, seen
  <2>3. ConnectionInv'
    BY <1>1, <1>2, <2>2
       DEF FeedInv, ConnectionInv, HeardIsHere, PendingIsHere, MarksAreHere, BufferIsHere
  <2> QED
    BY <2>1, <2>3 DEF FeedInv
<1>3. CASE (RuntimeDeleted \/ PresenceDeleted) /\ UNCHANGED history
  <2>1. /\ UNCHANGED <<profile, cursor, transport, history>>
        /\ heard' = "no" /\ current' = FALSE /\ pending' = None
    BY <1>3 DEF RuntimeDeleted, PresenceDeleted
  <2>2. CursorInv' /\ Forward
    BY <2>1, CursorStays DEF FeedInv, cursor, cursorVars, history
  <2>3. ConnectionInv'
    BY <1>1, <2>1
       DEF FeedInv, ConnectionInv, HeardIsHere, PendingIsHere, MarksAreHere, BufferIsHere, history
  <2> QED
    BY <2>2, <2>3 DEF FeedInv
<1> QED
  BY <1>2, <1>3 DEF DeleteArrives

LEMMA LiveMessageGoesOn ==
    ASSUME FeedInv, LiveMessage
    PROVE  FeedInv' /\ Forward
<1>1. Live
  BY DEF LiveMessage
<1> QED
  BY <1>1, StateGoesOn, AvailabilityGoesOn, RuntimeGoesOn, PresenceGoesOn, DeleteGoesOn
     DEF LiveMessage

LEMMA FeedStarts == FeedInit => FeedInv
<1> SUFFICES ASSUME FeedInit PROVE FeedInv
  OBVIOUS
<1>1. CursorInv
  BY PublicationsAssumption
     DEF FeedInit, ProviderInit, CursorInv, CursorTypes, CursorIsShown, PastIsOver,
         PastHasEnded, SupersededStaysOut, FieldsAreDescribed
<1>2. BufferIsHere
  BY DEF FeedInit, Empty, BufferIsHere
<1>3. ConnectionInv
  BY <1>2 DEF FeedInit, ProviderInit, ConnectionInv, HeardIsHere, PendingIsHere, MarksAreHere
<1> QED
  BY <1>1, <1>3 DEF FeedInv

LEMMA FeedGoesOn ==
    ASSUME FeedInv, [FeedNext]_feedVars
    PROVE  FeedInv' /\ Forward
<1>1. CASE UNCHANGED feedVars
  BY <1>1, FeedStays DEF feedVars, client
<1>2. CASE Thread
  <2>1. UNCHANGED <<providerVars, client, history>>
    BY <1>2 DEF Thread, OnConnect, OnConnectFail, OnDisconnect, OnMessage, OnSubscribe, Turns
  <2> QED
    BY <2>1, FeedStays DEF client
<1>3. CASE Begin \/ Lost \/ Failed \/ Stop \/ NotGranted
  <2>1. TransportLost /\ Forgotten /\ UNCHANGED history
    BY <1>3 DEF Begin, Lost, Failed, Stop, NotGranted
  <2> QED
    BY <2>1, ConnectionEnds DEF FeedInv
<1>4. CASE Retry \/ Ignored
  <2>1. UNCHANGED <<providerVars, active, connected, boot, history>>
    BY <1>4 DEF Retry, Ignored, client
  <2> QED
    BY <2>1, FeedStays
<1>5. CASE Granted
  <2>1. boot \in Buffers
    BY DEF FeedInv, ConnectionInv, BufferIsHere, Buffers
  <2>2. connected /\ active' = active /\ connected' = connected /\ DrainsControl(boot)
    BY <1>5 DEF Granted, Current
  <2> QED
    BY <2>1, <2>2, DrainsControlGoesOn
<1>6. ASSUME NEW t \in Topics, Buffered(t)
      PROVE  FeedInv' /\ Forward
  <2> DEFINE b == [boot EXCEPT ![t] = e.on]
  <2>1. /\ connected /\ e.on = active /\ active' = active /\ connected' = connected
    BY <1>6 DEF Buffered, Current
  <2>2. b \in Buffers
    BY <2>1 DEF FeedInv, ConnectionInv, BufferIsHere, Buffers
  <2>3. CASE subscribed
    <3>1. DrainsControl(b)
      BY <1>6, <2>3 DEF Buffered
    <3> HIDE DEF b
    <3> QED
      BY <2>1, <2>2, <3>1, DrainsControlGoesOn
  <2>4. CASE boot' = b /\ UNCHANGED <<providerVars, bootPair, history>>
    <3> HIDE DEF b
    <3>1. CursorInv' /\ Forward
      BY <2>4, CursorStays DEF FeedInv, providerVars, cursor, cursorVars, history
    <3>2. ConnectionInv'
      BY <2>1, <2>2, <2>4
         DEF FeedInv, ConnectionInv, HeardIsHere, PendingIsHere, MarksAreHere, BufferIsHere,
             Buffers, Describes, Coordinate, providerVars, cursor, seen, marks, history
    <3> QED
      BY <3>1, <3>2 DEF FeedInv
  <2> QED
    BY <1>6, <2>3, <2>4 DEF Buffered
<1>7. ASSUME NEW t \in StateTopics, BufferedState(t)
      PROVE  FeedInv' /\ Forward
  <2> DEFINE b == [boot EXCEPT ![t] = e.on]
  <2>1. /\ connected /\ e.on = active /\ active' = active /\ connected' = connected
        /\ UNCHANGED <<profile, pending, presence, heard, heardOn, pendingOn>>
    BY <1>7 DEF BufferedState, Current, seen
  <2>2. b \in Buffers
    BY <2>1 DEF FeedInv, ConnectionInv, BufferIsHere, Buffers
  <2>3. DrainsPair(b, SeenGen(presence))
    BY <1>7 DEF BufferedState
  <2> HIDE DEF b
  <2>4. CursorInv' /\ Forward /\ BufferIsHere' /\ MarksAreHere' /\ (current' => Describes')
    BY <2>1, <2>2, <2>3, DrainsPairGoesOn
  <2>5. HeardIsHere' /\ PendingIsHere'
    BY <2>1 DEF FeedInv, ConnectionInv, HeardIsHere, PendingIsHere
  <2> QED
    BY <2>1, <2>4, <2>5 DEF FeedInv, ConnectionInv
<1>8. CASE LiveMessage
  BY <1>8, LiveMessageGoesOn
<1>9. CASE PresenceLapses
  <2>1. /\ heard' = "lapsed"
        /\ UNCHANGED <<profile, cursor, pending, seen, marks, client, history>>
    BY <1>9 DEF PresenceLapses, Lapse
  <2>2. CursorInv' /\ Forward
    BY <2>1, CursorStays DEF FeedInv, cursor, cursorVars, history
  <2>3. ConnectionInv'
    BY <2>1
       DEF FeedInv, ConnectionInv, HeardIsHere, PendingIsHere, MarksAreHere, BufferIsHere,
           Describes, Coordinate, cursor, marks, client, history
  <2> QED
    BY <2>2, <2>3 DEF FeedInv
<1>10. CASE ProfileEdited
  <2>1. PICK q \in Profiles \ {profile} : ProfileUpdated(q)
    BY <1>10 DEF ProfileEdited
  <2>2. UNCHANGED <<client, history>>
    BY <1>10 DEF ProfileEdited
  <2>3. /\ profile' = q
        /\ UNCHANGED <<gen, cohort, snap, avail, ended, pending, seen, heard, marks>>
    BY <2>1 DEF ProfileUpdated
  <2>4. FieldsAreDescribed'
    <3>1. snap = None => snap \notin ParsedBy[q].states
      BY ParsedAreKnown
    <3> QED
      BY <2>1, <2>3, <3>1 DEF ProfileUpdated, FeedInv, CursorInv, FieldsAreDescribed
  <2>5. CursorInv'
    BY <2>2, <2>3, <2>4
       DEF FeedInv, CursorInv, CursorTypes, CursorIsShown, PastIsOver, PastHasEnded, IsOver,
           SupersededStaysOut, history
  <2>6. Forward
    BY <2>3, StatesAreNumbered DEF FeedInv, CursorInv, CursorTypes, Forward
  <2>7. ConnectionInv'
    BY <2>2, <2>3
       DEF FeedInv, ConnectionInv, HeardIsHere, PendingIsHere, MarksAreHere, BufferIsHere,
           Describes, Coordinate, seen, marks, client, history
  <2> QED
    BY <2>5, <2>6, <2>7 DEF FeedInv
<1> QED
  BY <1>1, <1>2, <1>3, <1>4, <1>5, <1>6, <1>7, <1>8, <1>9, <1>10 DEF FeedNext, Loop

(* What holds of the feed in every state, and why nothing else counts: the *)
(* inductive invariant of cursor and connection.                           *)
THEOREM FeedInvariant == FeedSpec => []FeedInv
<1>1. FeedInv /\ [FeedNext]_feedVars => FeedInv'
  BY FeedGoesOn
<1> QED
  BY FeedStarts, <1>1, PTL DEF FeedSpec

(* For any publications in any order, lost or repeated: no session that was*)
(* left is shown again (but in a state without a cohort that comes after   *)
(* one with a cohort), what makes the appliance usable was delivered on    *)
(* the connection there is, and no field is shown that was not reported as *)
(* the profile describes it.                                               *)
THEOREM OnlyTheCurrentEverCounts == FeedSpec => []OnlyTheCurrentCounts
<1>1. FeedInv => OnlyTheCurrentCounts
  <2> SUFFICES ASSUME FeedInv PROVE OnlyTheCurrentCounts
    OBVIOUS
  <2>1. SupersededStaysOut
    BY DEF FeedInv, CursorInv
  <2>2. OnlyThisConnectionCounts
    BY DEF FeedInv, ConnectionInv, HeardIsHere, MarksAreHere, OnlyThisConnectionCounts, ControlAlive,
           ReadAuthority, AvailableFields, Healthy
  <2>3. NothingIsReinterpreted
    BY DEF FeedInv, CursorInv, CursorIsShown, FieldsAreDescribed, NothingIsReinterpreted,
           ControlStateReady
  <2> QED
    BY <2>1, <2>2, <2>3 DEF OnlyTheCurrentCounts
<1> QED
  BY <1>1, FeedInvariant, PTL

(* The cursor never goes back, by whichever way a state comes in.          *)
THEOREM CursorNeverGoesBack == FeedSpec => NeverGoesBack
<1>1. FeedInv /\ [FeedNext]_feedVars =>
        [/\ gen' >= gen /\ (gen' = gen => cohort' >= cohort)
         /\ snap # None /\ snap' # None /\ snap'.gen = snap.gen /\ snap'.cohort = snap.cohort =>
               /\ snap.cohort # 0 => snap'.session = snap.session
               /\ snap'.session = snap.session => snap'.seq >= snap.seq]_feedVars
  BY FeedGoesOn DEF Forward
<1> QED
  BY <1>1, FeedInvariant, PTL DEF FeedSpec, NeverGoesBack

(***************************************************************************)
(* The router.  last is the moment of the last confirmed local command, and*)
(* shownAt that of the last report.  A report tells all the fields of its  *)
(* mode, so these two moments decide what a frame may restate: while the   *)
(* report is older, either the overlay still has what was confirmed, or it *)
(* is too old to be fresh, or the barrier is in the way.                   *)
(***************************************************************************)
last == confirmedAt["mode"]
shownAt == shadow["mode"].at

Arguments == Celsius \cup Comforts \cup {Placeholder}
Wanted == [mode : SUBSET Modes, fan : SUBSET Fans,
           target : SUBSET Celsius, comfort : SUBSET Comforts]
Units == [mode : Modes, fan : Fans, target : Celsius, comfort : Comforts]
Frames == [mode : Modes, fan : Fans, arg : Arguments]
Bases == UNION {[s -> Int] : s \in SUBSET AllFields}
Calls == [pc : {"idle", "waiting", "fencing", "sent", "applied", "lost", "cloud"},
          kind : {"climate", "local", "select"}, wish : Wanted, frame : Frames,
          went : SUBSET {"local", "cloud"}, basis : Bases]

(* The argument of what is said of an appliance, or to it, is one.         *)
Telling(m, f, a) ==
    /\ m = AutoMode => a \in Comforts
    /\ m # AutoMode /\ f # Power => a \in Celsius

Said == {r \in [mode : Modes, fan : Fans, arg : Arguments, at : Nat] :
            Telling(r.mode, r.fan, r.arg)}

ShadowInv ==
    /\ \A f \in AllFields : shadow[f].at \in Int /\ shadow[f].at <= shownAt
    /\ shownAt \in Nat /\ shownAt <= now
    /\ shadow["fan"].at = shownAt /\ shadow[ArgumentOf(shadow["mode"].val)].at = shownAt
    /\ shadow["mode"].val \in Modes /\ shadow["fan"].val \in Fans
    /\ Telling(shadow["mode"].val, shadow["fan"].val, shadow[ArgumentOf(shadow["mode"].val)].val)

ReportsInv ==
    /\ reports \in Seq(Said)
    /\ \A i \in 1 .. Len(reports) : shownAt < reports[i].at /\ reports[i].at <= now
    /\ \A i, j \in 1 .. Len(reports) : i < j => reports[i].at < reports[j].at

(* What the overlay says was confirmed at once, and as long as no report   *)
(* has come since it says all of a mode.                                   *)
OverlayOf(over) ==
    /\ DOMAIN over \subseteq AllFields
    /\ \A f \in DOMAIN over : over[f].at = last
    /\ "mode" \in DOMAIN over <=> "fan" \in DOMAIN over
    /\ "mode" \in DOMAIN over =>
          /\ over["mode"].val \in Modes /\ over["fan"].val \in Fans
          /\ over["fan"].val # Power /\ shownAt < last =>
                ArgumentOf(over["mode"].val) \in DOMAIN over
    /\ "target" \in DOMAIN over => over["target"].val \in Celsius
    /\ "comfort" \in DOMAIN over => over["comfort"].val \in Comforts

OverlayInv == OverlayOf(overlay)

BarrierOf(before) ==
    /\ DOMAIN before \in {{}, AllFields}
    /\ \A f \in DOMAIN before : before[f] \in Int /\ before[f] >= knownAt[f]
    /\ DOMAIN before = {} => shownAt > knownAt["mode"]

BarrierInv ==
    /\ BarrierOf(barrier)
    /\ \A f \in AllFields : knownAt[f] \in Int /\ knownAt[f] <= knownAt["mode"]

ConfirmedInv ==
    /\ \A f \in AllFields : confirmedAt[f] \in Int /\ confirmedAt[f] <= last
    /\ last <= now

(* What was confirmed last is not forgotten.                               *)
Settled ==
    \/ shownAt >= last
    \/ now - last > MaxAge
    \/ "mode" \in DOMAIN overlay
    \/ DOMAIN barrier # {} /\ barrier["mode"] >= last

RememberedInv == targets \in [Ordinary -> SUBSET Celsius] /\ comfort \subseteq Comforts

KnownInv ==
    ShadowInv /\ ReportsInv /\ OverlayInv /\ BarrierInv /\ ConfirmedInv /\ Settled /\ RememberedInv

Faithful(fr) ==
    /\ fr.mode = AutoMode => fr.fan # Power
    /\ fr.fan # Power => fr.arg \in IF fr.mode = AutoMode THEN Comforts ELSE Celsius

(* Where a request is says by which ways it left, and who has the lock.    *)
RequestInv(r) ==
    /\ req[r] \in Calls
    /\ req[r].pc \in {"idle", "waiting", "fencing", "sent"} => req[r].went = {}
    /\ req[r].pc \in {"applied", "lost"} => req[r].went = {"local"}
    /\ req[r].pc = "cloud" => req[r].went = {"cloud"}
    /\ req[r].pc \in {"sent", "applied"} => lock = r
    /\ req[r].pc \in {"sent", "applied", "lost"} => Faithful(req[r].frame)
    /\ req[r].pc = "sent" => KeepsConfirmed(req[r]) /\ FenceHolds(req[r])

RouterInv ==
    /\ now \in Nat /\ unit \in Units /\ DOMAIN req = Requests
    /\ KnownInv /\ \A r \in Requests : RequestInv(r)

(* The overlay's fields that still count are as they were confirmed.       *)
LEMMA UnseenIs ==
    /\ DOMAIN Unseen = {g \in DOMAIN overlay : now - overlay[g].at <= MaxAge
                                               /\ shadow[g].at < overlay[g].at}
    /\ \A f \in DOMAIN Unseen : Unseen[f] = overlay[f]
BY DEF Unseen

(* What is left of the overlay, and what that says of the shadow.          *)
LEMMA UnseenSettles ==
    ASSUME RouterInv
    PROVE  /\ OverlayOf(Unseen)
           /\ "mode" \in DOMAIN overlay =>
                 "mode" \in DOMAIN Unseen \/ shownAt >= last \/ now - last > MaxAge
           /\ "mode" \in DOMAIN Unseen => shownAt < last /\ "mode" \in DOMAIN overlay
<1> USE DEF RouterInv, KnownInv
<1>1. /\ last \in Int /\ now \in Int /\ MaxAge \in Int /\ shownAt \in Int
      /\ \A f \in AllFields : shadow[f].at \in Int /\ shadow[f].at <= shownAt
      /\ \A f \in DOMAIN overlay : f \in AllFields /\ overlay[f].at = last
  BY DomainAssumption DEF ShadowInv, ConfirmedInv, OverlayInv, OverlayOf, last, AllFields
<1>2. \A f \in DOMAIN overlay :
         f \in DOMAIN Unseen <=> now - last <= MaxAge /\ shadow[f].at < last
  BY <1>1, UnseenIs
<1>3. DOMAIN Unseen \subseteq DOMAIN overlay
  BY UnseenIs
<1>4. "mode" \in DOMAIN overlay => ("mode" \in DOMAIN Unseen <=> now - last <= MaxAge /\ shownAt < last)
  BY <1>2 DEF shownAt
<1>5. "fan" \in DOMAIN overlay => ("fan" \in DOMAIN Unseen <=> now - last <= MaxAge /\ shownAt < last)
  BY <1>2 DEF ShadowInv
<1>6. "mode" \in DOMAIN Unseen <=> "fan" \in DOMAIN Unseen
  BY <1>3, <1>4, <1>5 DEF OverlayInv, OverlayOf
<1>7. ASSUME "mode" \in DOMAIN Unseen, Unseen["fan"].val # Power, shownAt < last
      PROVE  ArgumentOf(Unseen["mode"].val) \in DOMAIN Unseen
  <2>1. /\ Unseen["mode"] = overlay["mode"] /\ Unseen["fan"] = overlay["fan"]
        /\ "mode" \in DOMAIN overlay
    BY <1>3, <1>6, <1>7, UnseenIs
  <2>2. ArgumentOf(overlay["mode"].val) \in DOMAIN overlay
    BY <1>7, <2>1 DEF OverlayInv, OverlayOf
  <2>3. shadow[ArgumentOf(overlay["mode"].val)].at < last
    BY <1>1, <1>7, <2>2
  <2> QED
    BY <1>1, <1>2, <1>3, <1>4, <1>7, <2>1, <2>2, <2>3
<1>8. OverlayOf(Unseen)
  <2>1. DOMAIN Unseen \subseteq AllFields
    BY <1>1, <1>3
  <2>2. \A f \in DOMAIN Unseen : Unseen[f].at = last
    BY <1>1, <1>3, UnseenIs
  <2>3. "mode" \in DOMAIN Unseen => Unseen["mode"].val \in Modes /\ Unseen["fan"].val \in Fans
    BY <1>3, <1>6, UnseenIs DEF OverlayInv, OverlayOf
  <2>4. /\ "target" \in DOMAIN Unseen => Unseen["target"].val \in Celsius
        /\ "comfort" \in DOMAIN Unseen => Unseen["comfort"].val \in Comforts
    BY <1>3, UnseenIs DEF OverlayInv, OverlayOf
  <2> QED
    BY <1>6, <1>7, <2>1, <2>2, <2>3, <2>4 DEF OverlayOf
<1> QED
  BY <1>1, <1>3, <1>4, <1>8

(* What the router takes the appliance to be: a mode, a fan and, unless it *)
(* is on power, their argument, all as new as the last report.             *)
modeNow == Effective["mode"].val
fanNow == Effective["fan"].val
argument == ArgumentOf(modeNow)

LEMMA EffectiveTells ==
    ASSUME RouterInv
    PROVE  /\ modeNow \in Modes /\ fanNow \in Fans
           /\ \A g \in AllFields : Effective[g].at \in Int
           /\ Effective["mode"].at >= shownAt /\ Effective["fan"].at >= shownAt
           /\ fanNow # Power =>
                 /\ Effective[argument].at >= shownAt
                 /\ modeNow = AutoMode => Effective[argument].val \in Comforts
                 /\ modeNow # AutoMode => Effective[argument].val \in Celsius
           /\ "mode" \in DOMAIN Unseen =>
                 /\ Effective["mode"].at = last /\ Effective["fan"].at = last
                 /\ fanNow # Power => Effective[argument].at = last
           /\ "mode" \notin DOMAIN Unseen =>
                 /\ Effective["mode"] = shadow["mode"] /\ Effective["fan"] = shadow["fan"]
<1> USE DEF RouterInv, KnownInv
<1>1. OverlayOf(Unseen) /\ ("mode" \in DOMAIN Unseen => shownAt < last)
  BY UnseenSettles
<1>2. \A g \in AllFields : Effective[g] = IF g \in DOMAIN Unseen THEN Unseen[g] ELSE shadow[g]
  BY DEF Effective
<1>3. /\ last \in Int /\ shownAt \in Nat
      /\ {"mode", "fan"} \subseteq AllFields /\ argument \in AllFields
  BY DEF ConfirmedInv, ShadowInv, last, AllFields, argument, ArgumentOf
<1>4. \A g \in AllFields : Effective[g].at \in Int
  BY <1>1, <1>2, <1>3 DEF OverlayOf, ShadowInv
<1>5. CASE "mode" \in DOMAIN Unseen
  <2>1. "fan" \in DOMAIN Unseen /\ last > shownAt
    BY <1>1, <1>3, <1>5 DEF OverlayOf
  <2>2. Effective["mode"] = Unseen["mode"] /\ Effective["fan"] = Unseen["fan"]
    BY <1>2, <1>3, <1>5, <2>1
  <2>3. /\ modeNow \in Modes /\ fanNow \in Fans
        /\ Effective["mode"].at = last /\ Effective["fan"].at = last
    BY <1>1, <1>5, <2>1, <2>2 DEF OverlayOf, modeNow, fanNow
  <2>4. ASSUME fanNow # Power
        PROVE  /\ Effective[argument].at = last
               /\ modeNow = AutoMode => Effective[argument].val \in Comforts
               /\ modeNow # AutoMode => Effective[argument].val \in Celsius
    <3>1. argument \in DOMAIN Unseen
      BY <1>1, <1>5, <2>2, <2>4 DEF OverlayOf, argument, modeNow, fanNow
    <3>2. Effective[argument] = Unseen[argument] /\ Unseen[argument].at = last
      BY <1>1, <1>2, <1>3, <3>1 DEF OverlayOf
    <3>3. /\ modeNow = AutoMode => Unseen[argument].val \in Comforts
          /\ modeNow # AutoMode => Unseen[argument].val \in Celsius
      BY <1>1, <3>1 DEF OverlayOf, argument, ArgumentOf
    <3> QED
      BY <3>2, <3>3
  <2> QED
    BY <1>3, <1>4, <1>5, <2>1, <2>3, <2>4
<1>6. CASE "mode" \notin DOMAIN Unseen
  <2>1. "fan" \notin DOMAIN Unseen
    BY <1>1, <1>6 DEF OverlayOf
  <2>2. Effective["mode"] = shadow["mode"] /\ Effective["fan"] = shadow["fan"]
    BY <1>2, <1>3, <1>6, <2>1
  <2>3. /\ modeNow \in Modes /\ fanNow \in Fans
        /\ Effective["mode"].at = shownAt /\ Effective["fan"].at = shownAt
    BY <2>2 DEF ShadowInv, shownAt, modeNow, fanNow
  <2>4. ASSUME fanNow # Power
        PROVE  /\ Effective[argument].at >= shownAt
               /\ modeNow = AutoMode => Effective[argument].val \in Comforts
               /\ modeNow # AutoMode => Effective[argument].val \in Celsius
    <3>1. shadow[argument].at = shownAt
      BY <2>2 DEF ShadowInv, argument, modeNow
    <3>2. CASE argument \in DOMAIN Unseen
      <4>1. /\ Effective[argument] = Unseen[argument] /\ Unseen[argument] = overlay[argument]
            /\ Unseen[argument].at = last
        BY <1>1, <1>2, <1>3, <3>2, UnseenIs DEF OverlayOf
      <4>2. shadow[argument].at < overlay[argument].at
        BY <3>2, UnseenIs
      <4>3. /\ modeNow = AutoMode => Unseen[argument].val \in Comforts
            /\ modeNow # AutoMode => Unseen[argument].val \in Celsius
        BY <1>1, <3>2 DEF OverlayOf, argument, ArgumentOf
      <4> QED
        BY <1>3, <3>1, <4>1, <4>2, <4>3
    <3>3. CASE argument \notin DOMAIN Unseen
      <4>1. Effective[argument] = shadow[argument]
        BY <1>2, <1>3, <3>3
      <4>2. /\ modeNow = AutoMode => shadow[argument].val \in Comforts
            /\ modeNow # AutoMode => shadow[argument].val \in Celsius
        BY <2>2, <2>4 DEF ShadowInv, Telling, argument, modeNow, fanNow
      <4> QED
        BY <1>3, <3>1, <4>1, <4>2
    <3> QED
      BY <3>2, <3>3
  <2> QED
    BY <1>3, <1>4, <1>6, <2>2, <2>3, <2>4
<1> QED
  BY <1>5, <1>6

(* The last temperature and comfort step remembered are real ones, of the  *)
(* appliance when its fan was not on power.                                *)
LEMMA ArgumentsAreReal ==
    ASSUME RouterInv
    PROVE  TargetsAfter(Effective) \in [Ordinary -> SUBSET Celsius]
           /\ ComfortAfter(Effective) \subseteq Comforts
<1>1. targets \in [Ordinary -> SUBSET Celsius] /\ comfort \subseteq Comforts
  BY DEF RouterInv, KnownInv, RememberedInv
<1>2. modeNow \in Modes
  BY EffectiveTells
<1>3. ASSUME Tells(Effective)
      PROVE  /\ modeNow = AutoMode => Effective[argument].val \in Comforts
             /\ modeNow # AutoMode => Effective[argument].val \in Celsius
  BY <1>3, EffectiveTells DEF Tells, fanNow
<1>4. CASE Tells(Effective) /\ modeNow # AutoMode
  <2>1. modeNow \in Ordinary /\ Effective["target"].val \in Celsius
    BY <1>2, <1>3, <1>4 DEF Modes, argument, ArgumentOf
  <2>2. /\ TargetsAfter(Effective) = [targets EXCEPT ![modeNow] = {Effective["target"].val}]
        /\ ComfortAfter(Effective) = comfort
    BY <1>4 DEF TargetsAfter, ComfortAfter, modeNow
  <2> QED
    BY <1>1, <2>1, <2>2
<1>5. CASE Tells(Effective) /\ modeNow = AutoMode
  <2>1. Effective["comfort"].val \in Comforts
    BY <1>3, <1>5 DEF argument, ArgumentOf
  <2>2. TargetsAfter(Effective) = targets /\ ComfortAfter(Effective) = {Effective["comfort"].val}
    BY <1>5 DEF TargetsAfter, ComfortAfter, modeNow
  <2> QED
    BY <1>1, <2>1, <2>2
<1>6. CASE ~Tells(Effective)
  BY <1>1, <1>6 DEF TargetsAfter, ComfortAfter
<1> QED
  BY <1>4, <1>5, <1>6

(* A frame is only composed of a state that is fresh as a whole.           *)
LEMMA ExpectedIsFresh ==
    ASSUME RouterInv, Expected(Effective, now) # {}
    PROVE  /\ \A f \in {"mode", "fan", argument} :
                 Effective[f].at >= 0 /\ now - Effective[f].at <= MaxAge
           /\ Fresh(Effective, "mode", now) = {modeNow}
           /\ Fresh(Effective, "fan", now) = {fanNow}
           /\ Fresh(Effective, argument, now) = {Effective[argument].val}
<1>1. PICK m \in Fresh(Effective, "mode", now) :
          \A f \in StateFields(m) : Fresh(Effective, f, now) # {}
  BY DEF Expected
<1>2. m = modeNow
  BY DEF Fresh, modeNow
<1>3. \A f \in {"mode", "fan", argument} : Fresh(Effective, f, now) # {}
  BY <1>1, <1>2 DEF StateFields, argument
<1>4. \A f \in {"mode", "fan", argument} :
          /\ Effective[f].at >= 0 /\ now - Effective[f].at <= MaxAge
          /\ Fresh(Effective, f, now) = {Effective[f].val}
  BY <1>3 DEF Fresh
<1> QED
  BY <1>4 DEF modeNow, fanNow

(* Whatever is asked and remembered: a composed frame has a real argument, *)
(* and AUTO is never asked for with the fan on power.                      *)
LEMMA FramesAreFaithful ==
    ASSUME RouterInv, NEW r \in Requests, NEW fr \in FramesFor(r)
    PROVE  fr \in Frames /\ Faithful(fr) /\ Expected(Effective, now) # {}
<1> DEFINE q == req[r].wish
<1> DEFINE m == Else(q.mode, {Effective["mode"].val})
<1> DEFINE keptTarget == UNION {TargetsAfter(Effective)[x] : x \in m \intersect Ordinary}
<1> DEFINE keptComfort == IF m = {AutoMode} THEN ComfortAfter(Effective) ELSE {}
<1>1. Expected(Effective, now) # {} /\ fr \in Compose(Effective, q, now, keptTarget, keptComfort)
  BY DEF FramesFor
<1>2. q \in Wanted
  BY DEF RouterInv, RequestInv, Calls
<1>3. keptTarget \subseteq Celsius /\ keptComfort \subseteq Comforts
  <2>1. \A x \in Ordinary : TargetsAfter(Effective)[x] \subseteq Celsius
    BY ArgumentsAreReal
  <2> QED
    BY <2>1, ArgumentsAreReal
<1> HIDE DEF keptTarget, keptComfort, q
<1>4. /\ fr.mode \in Else(q.mode, Fresh(Effective, "mode", now))
      /\ fr.fan \in Else(q.fan, Fresh(Effective, "fan", now))
      /\ fr \in [mode : Else(q.mode, Fresh(Effective, "mode", now)),
                 fan : Else(q.fan, Fresh(Effective, "fan", now)), arg : Arguments]
      /\ fr.mode = AutoMode => fr.arg \in Comfort(Effective, q, now, fr.fan, keptComfort)
      /\ fr.mode # AutoMode => fr.arg \in Temperature(Effective, q, now, fr.mode, fr.fan, keptTarget)
  BY <1>1 DEF Compose, Arguments
<1>5. /\ Fresh(Effective, "mode", now) = {modeNow} /\ Fresh(Effective, "fan", now) = {fanNow}
      /\ Fresh(Effective, argument, now) = {Effective[argument].val}
  BY <1>1, ExpectedIsFresh
<1>6. /\ modeNow \in Modes /\ fanNow \in Fans
      /\ fanNow # Power =>
            /\ modeNow = AutoMode => Effective[argument].val \in Comforts
            /\ modeNow # AutoMode => Effective[argument].val \in Celsius
  BY EffectiveTells
<1>7. fr \in Frames
  <2>1. Else(q.mode, {modeNow}) \subseteq Modes /\ Else(q.fan, {fanNow}) \subseteq Fans
    BY <1>2, <1>6 DEF Else, Wanted
  <2> QED
    BY <1>4, <1>5, <2>1 DEF Frames
<1>8. ASSUME fr.mode = AutoMode
      PROVE  fr.fan # Power /\ fr.arg \in Comforts
  <2>1. fr.arg \in Comfort(Effective, q, now, fr.fan, keptComfort)
    BY <1>4, <1>8
  <2>2. fr.fan # Power
    BY <2>1 DEF Comfort
  <2>3. CASE q.comfort # {}
    BY <1>2, <2>1, <2>2, <2>3 DEF Comfort, Wanted
  <2>4. CASE modeNow = AutoMode /\ fanNow # Power
    <3>1. argument = "comfort" /\ Effective[argument].val \in Comforts
      BY <1>6, <2>4 DEF argument, ArgumentOf
    <3>2. Fresh(Effective, "comfort", now) = {Effective[argument].val}
      BY <1>5, <3>1
    <3>3. fr.arg \in q.comfort \cup Fresh(Effective, "comfort", now) \cup keptComfort
      BY <2>1 DEF Comfort
    <3> QED
      BY <1>2, <1>3, <2>2, <3>1, <3>2, <3>3 DEF Wanted
  <2>5. CASE q.comfort = {} /\ ~(modeNow = AutoMode /\ fanNow # Power)
    <3>1. ~(Fresh(Effective, "mode", now) = {AutoMode} /\ Fresh(Effective, "fan", now) # {Power})
      BY <1>5, <2>5
    <3>2. fr.arg \in keptComfort
      BY <2>1, <2>5, <3>1 DEF Comfort
    <3> QED
      BY <1>3, <2>2, <3>2
  <2> QED
    BY <2>3, <2>4, <2>5
<1>9. ASSUME fr.mode # AutoMode, fr.fan # Power
      PROVE  fr.arg \in Celsius
  <2>1. fr.arg \in Temperature(Effective, q, now, fr.mode, fr.fan, keptTarget)
    BY <1>4, <1>9
  <2>2. CASE modeNow # AutoMode /\ fanNow # Power
    <3>1. argument = "target" /\ Effective[argument].val \in Celsius
      BY <1>6, <2>2 DEF argument, ArgumentOf
    <3>2. Fresh(Effective, "target", now) = {Effective[argument].val}
      BY <1>5, <3>1
    <3>3. fr.arg \in q.target \cup Fresh(Effective, "target", now) \cup keptTarget
      BY <2>1 DEF Temperature
    <3> QED
      BY <1>2, <1>3, <3>1, <3>2, <3>3 DEF Wanted
  <2>3. CASE ~(modeNow # AutoMode /\ fanNow # Power)
    <3>1. Fresh(Effective, "fan", now) = {Power} \/ Fresh(Effective, "mode", now) = {AutoMode}
      BY <1>5, <2>3
    <3>2. fr.arg \in q.target \cup keptTarget
      BY <2>1, <3>1 DEF Temperature
    <3> QED
      BY <1>2, <1>3, <3>2 DEF Wanted
  <2> QED
    BY <2>2, <2>3
<1> QED
  BY <1>1, <1>7, <1>8, <1>9 DEF Faithful

(* While no barrier is in the way, the last report is newer than the last  *)
(* cloud command, and what was confirmed since is in it or in the overlay. *)
LEMMA UnblockedIsKnown ==
    ASSUME RouterInv, ~Blocked
    PROVE  /\ shownAt > knownAt["mode"]
           /\ shownAt >= last \/ now - last > MaxAge \/ "mode" \in DOMAIN Unseen
<1> USE DEF RouterInv, KnownInv
<1>1. CASE DOMAIN barrier = {}
  BY <1>1, UnseenSettles DEF BarrierInv, BarrierOf, Settled
<1>2. CASE DOMAIN barrier # {}
  <2>1. DOMAIN barrier = AllFields /\ "mode" \in AllFields
    BY <1>2 DEF BarrierInv, BarrierOf, AllFields
  <2>2. ~(shadow["mode"].at <= barrier["mode"])
    BY <1>2 DEF Blocked, StateFields
  <2>3. /\ barrier["mode"] \in Int /\ barrier["mode"] >= knownAt["mode"]
        /\ knownAt["mode"] \in Int /\ shownAt \in Int /\ last \in Int
    BY <2>1 DEF BarrierInv, BarrierOf, ShadowInv, ConfirmedInv, last
  <2>4. shownAt > barrier["mode"]
    BY <2>2, <2>3 DEF shownAt
  <2>5. shownAt >= last \/ now - last > MaxAge \/ "mode" \in DOMAIN overlay
    BY <2>3, <2>4 DEF Settled
  <2> QED
    BY <2>3, <2>4, <2>5, UnseenSettles
<1> QED
  BY <1>1, <1>2

(* What a frame restates is as new as what was confirmed of it, and newer  *)
(* than the last cloud command.                                            *)
LEMMA RestatedIsKnown ==
    ASSUME RouterInv, ~Blocked, NEW q, NEW fr, Expected(Effective, now) # {},
           NEW f \in Restated(Effective, q, now, fr)
    PROVE  /\ f \in AllFields /\ Effective[f].at \in Int
           /\ Effective[f].at >= confirmedAt[f] /\ Effective[f].at > knownAt[f]
<1>1. f \in {"mode", "fan"} \/ (f = argument /\ fanNow # Power)
  <2>1. /\ Fresh(Effective, "mode", now) = {modeNow} /\ Fresh(Effective, "fan", now) = {fanNow}
    BY ExpectedIsFresh
  <2>2. CASE f \notin {"mode", "fan"}
    <3>1. /\ f = ArgumentOf(fr.mode) /\ Fresh(Effective, "fan", now) # {Power}
          /\ fr.mode = AutoMode => Fresh(Effective, "mode", now) = {AutoMode}
          /\ fr.mode # AutoMode => Fresh(Effective, "mode", now) # {AutoMode}
      BY <2>2 DEF Restated
    <3> QED
      BY <2>1, <3>1 DEF argument, ArgumentOf
  <2> QED
    BY <2>2
<1>2. {"mode", "fan", argument} \subseteq AllFields
  BY DEF argument, ArgumentOf, AllFields
<1>3. f \in AllFields /\ Effective[f].at \in Int /\ Effective[f].at >= shownAt
  BY <1>1, <1>2, EffectiveTells
<1>4. /\ shownAt \in Int /\ last \in Int /\ now \in Int /\ MaxAge \in Int
      /\ confirmedAt[f] \in Int /\ confirmedAt[f] <= last
      /\ knownAt[f] \in Int /\ knownAt[f] <= knownAt["mode"] /\ knownAt["mode"] \in Int
  BY <1>3, DomainAssumption DEF RouterInv, KnownInv, ShadowInv, ConfirmedInv, BarrierInv, last, AllFields
<1>5. shownAt > knownAt["mode"]
  BY UnblockedIsKnown
<1>6. CASE "mode" \in DOMAIN Unseen
  BY <1>1, <1>3, <1>4, <1>5, <1>6, EffectiveTells
<1>7. CASE "mode" \notin DOMAIN Unseen
  <2>1. now - shownAt <= MaxAge
    BY <1>7, ExpectedIsFresh, EffectiveTells DEF shownAt
  <2>2. shownAt >= last
    BY <1>4, <1>7, <2>1, UnblockedIsKnown
  <2> QED
    BY <1>3, <1>4, <1>5, <2>2
<1> QED
  BY <1>6, <1>7

(* Of three numbers one is the largest.                                    *)
LEMMA OneIsLargest ==
    ASSUME NEW a \in Int, NEW b \in Int, NEW c \in Int
    PROVE  \E x \in {a, b, c} : \A y \in {a, b, c} : x >= y
<1>1. CASE a >= b /\ a >= c
  BY <1>1
<1>2. CASE b >= a /\ b >= c
  BY <1>2
<1>3. CASE c >= a /\ c >= b
  BY <1>3
<1> QED
  BY <1>1, <1>2, <1>3

(* The baseline that a report has to pass is of all that is known.         *)
LEMMA MarkKnows ==
    ASSUME NEW over, NEW before,
           \A g \in AllFields : shadow[g].at \in Int,
           \A g \in DOMAIN over : over[g].at \in Int,
           \A g \in DOMAIN before : before[g] \in Int,
           Mark(over, before)
    PROVE  /\ overlay' = Nothing /\ DOMAIN barrier' = AllFields
           /\ \A f \in AllFields :
                 /\ knownAt'[f] = shadow[f].at
                 /\ barrier'[f] \in Int /\ barrier'[f] >= shadow[f].at
                 /\ f \in DOMAIN over => barrier'[f] >= over[f].at
                 /\ f \in DOMAIN before => barrier'[f] >= before[f]
<1>1. /\ overlay' = Nothing /\ DOMAIN barrier' = AllFields
      /\ \A f \in AllFields : knownAt'[f] = shadow[f].at
  BY DEF Mark
<1>2. ASSUME NEW f \in AllFields
      PROVE  /\ barrier'[f] \in Int /\ barrier'[f] >= shadow[f].at
             /\ f \in DOMAIN over => barrier'[f] >= over[f].at
             /\ f \in DOMAIN before => barrier'[f] >= before[f]
  <2> DEFINE a == shadow[f].at
  <2> DEFINE b == IF f \in DOMAIN over THEN over[f].at ELSE a
  <2> DEFINE c == IF f \in DOMAIN before THEN before[f] ELSE a
  <2> DEFINE s == {shadow[f].at} \union {over[g].at : g \in DOMAIN over \intersect {f}}
                      \union {before[g] : g \in DOMAIN before \intersect {f}}
  <2>1. a \in Int /\ b \in Int /\ c \in Int
    OBVIOUS
  <2>2. s = {a, b, c}
    OBVIOUS
  <2>3. barrier'[f] = Max(s)
    BY DEF Mark
  <2> HIDE DEF a, b, c, s
  <2>4. \E x \in s : \A y \in s : x >= y
    BY <2>1, <2>2, OneIsLargest
  <2>5. barrier'[f] \in s /\ \A y \in s : barrier'[f] >= y
    BY <2>3, <2>4 DEF Max
  <2> QED
    BY <2>1, <2>2, <2>5 DEF a, b, c
<1> QED
  BY <1>1, <1>2

(* A fence put up over what is known, whether or not the overlay was looked*)
(* through before, remembers what was confirmed.                           *)
LEMMA MarkGoesOn ==
    ASSUME RouterInv,
           \/ Mark(overlay, barrier)
           \/ ~Blocked /\ Mark(Unseen, Nothing),
           UNCHANGED <<now, appliance, confirmedAt>>
    PROVE  OverlayInv' /\ BarrierInv' /\ Settled'
<1> USE DEF RouterInv, KnownInv
<1>1. /\ \A g \in AllFields : shadow[g].at \in Int /\ shadow[g].at <= shownAt
      /\ last \in Int /\ shownAt \in Int /\ "mode" \in AllFields
  BY DEF ShadowInv, ConfirmedInv, last, AllFields
<1>2. /\ \A g \in DOMAIN overlay : overlay[g].at = last
      /\ \A g \in DOMAIN Unseen : Unseen[g].at = last
  BY UnseenSettles DEF OverlayInv, OverlayOf
<1>3. /\ \A g \in DOMAIN barrier : barrier[g] \in Int
      /\ DOMAIN barrier \in {{}, AllFields} /\ DOMAIN Nothing = {}
  BY DEF BarrierInv, BarrierOf, Nothing
<1>4. /\ overlay' = Nothing /\ DOMAIN barrier' = AllFields
      /\ \A f \in AllFields : /\ knownAt'[f] = shadow[f].at
                              /\ barrier'[f] \in Int /\ barrier'[f] >= shadow[f].at
      /\ \/ shownAt >= last
         \/ now - last > MaxAge
         \/ barrier'["mode"] >= last
  <2>1. CASE Mark(overlay, barrier)
    <3>1. /\ overlay' = Nothing /\ DOMAIN barrier' = AllFields
          /\ \A f \in AllFields :
                /\ knownAt'[f] = shadow[f].at
                /\ barrier'[f] \in Int /\ barrier'[f] >= shadow[f].at
                /\ f \in DOMAIN overlay => barrier'[f] >= overlay[f].at
                /\ f \in DOMAIN barrier => barrier'[f] >= barrier[f]
      <4>1. PICK over, before : over = overlay /\ before = barrier /\ Mark(over, before)
        BY <2>1
      <4>2. /\ \A g \in AllFields : shadow[g].at \in Int
            /\ \A g \in DOMAIN over : over[g].at \in Int
            /\ \A g \in DOMAIN before : before[g] \in Int
        BY <1>1, <1>2, <1>3, <4>1
      <4>3. /\ overlay' = Nothing /\ DOMAIN barrier' = AllFields
            /\ \A f \in AllFields :
                  /\ knownAt'[f] = shadow[f].at
                  /\ barrier'[f] \in Int /\ barrier'[f] >= shadow[f].at
                  /\ f \in DOMAIN over => barrier'[f] >= over[f].at
                  /\ f \in DOMAIN before => barrier'[f] >= before[f]
        BY <4>1, <4>2, MarkKnows
      <4> QED
        BY <4>1, <4>3
    <3>2. CASE "mode" \in DOMAIN overlay
      BY <1>1, <1>2, <3>1, <3>2
    <3>3. CASE DOMAIN barrier # {} /\ barrier["mode"] >= last
      <4>1. "mode" \in DOMAIN barrier /\ barrier["mode"] \in Int
        BY <1>1, <1>3, <3>3
      <4> QED
        BY <1>1, <3>1, <3>3, <4>1
    <3> QED
      BY <3>1, <3>2, <3>3 DEF Settled
  <2>2. CASE ~Blocked /\ Mark(Unseen, Nothing)
    <3>1. /\ overlay' = Nothing /\ DOMAIN barrier' = AllFields
          /\ \A f \in AllFields :
                /\ knownAt'[f] = shadow[f].at
                /\ barrier'[f] \in Int /\ barrier'[f] >= shadow[f].at
                /\ f \in DOMAIN Unseen => barrier'[f] >= Unseen[f].at
      <4>1. PICK over, before : over = Unseen /\ before = Nothing /\ Mark(over, before)
        BY <2>2
      <4>2. /\ \A g \in AllFields : shadow[g].at \in Int
            /\ \A g \in DOMAIN over : over[g].at \in Int
            /\ \A g \in DOMAIN before : before[g] \in Int
        BY <1>1, <1>2, <1>3, <4>1
      <4>3. /\ overlay' = Nothing /\ DOMAIN barrier' = AllFields
            /\ \A f \in AllFields :
                  /\ knownAt'[f] = shadow[f].at
                  /\ barrier'[f] \in Int /\ barrier'[f] >= shadow[f].at
                  /\ f \in DOMAIN over => barrier'[f] >= over[f].at
        BY <4>1, <4>2, MarkKnows
      <4> QED
        BY <4>1, <4>3
    <3>2. CASE "mode" \in DOMAIN Unseen
      BY <1>1, <1>2, <3>1, <3>2
    <3> QED
      BY <2>2, <3>1, <3>2, UnblockedIsKnown
  <2> QED
    BY <2>1, <2>2
<1>5. OverlayInv'
  BY <1>4 DEF OverlayInv, OverlayOf, Nothing
<1>6. BarrierInv'
  <2>1. AllFields # {}
    BY <1>1
  <2> QED
    BY <1>1, <1>4, <2>1 DEF BarrierInv, BarrierOf, shownAt
<1>7. Settled'
  BY <1>1, <1>4 DEF Settled, appliance, shownAt, last
<1> QED
  BY <1>5, <1>6, <1>7

(* The overlay looked through, and the barrier lifted since no report is   *)
(* missing any more.                                                       *)
LEMMA LookingThroughGoesOn ==
    ASSUME RouterInv, ~Blocked, overlay' = Unseen, barrier' = Nothing,
           UNCHANGED <<now, appliance, ghosts>>
    PROVE  OverlayInv' /\ BarrierInv' /\ Settled'
<1>1. /\ shownAt > knownAt["mode"]
      /\ shownAt >= last \/ now - last > MaxAge \/ "mode" \in DOMAIN Unseen
  BY UnblockedIsKnown
<1>2. OverlayOf(Unseen)
  BY UnseenSettles
<1>3. UNCHANGED <<last, shownAt, now>> /\ UNCHANGED <<knownAt, shadow>>
  BY DEF appliance, ghosts, last, shownAt
<1>4. OverlayInv'
  BY <1>2, <1>3 DEF OverlayInv, OverlayOf
<1>5. BarrierInv'
  <2>1. \A f \in AllFields : knownAt[f] \in Int /\ knownAt[f] <= knownAt["mode"]
    BY DEF RouterInv, KnownInv, BarrierInv
  <2> QED
    BY <1>1, <1>3, <2>1 DEF BarrierInv, BarrierOf, Nothing
<1>6. Settled'
  BY <1>1, <1>3 DEF Settled
<1> QED
  BY <1>4, <1>5, <1>6

(* What is known does not change by itself.                                *)
knownVars == <<now, reports, shadow, overlay, barrier, targets, comfort, confirmedAt, knownAt>>
LEMMA KnownStays ==
    ASSUME KnownInv, UNCHANGED knownVars
    PROVE  KnownInv'
BY DEF KnownInv, knownVars, ShadowInv, ReportsInv, OverlayInv, OverlayOf, BarrierInv, BarrierOf,
       ConfirmedInv, Settled, RememberedInv, last, shownAt

(* A report is part of what is known; the rest of it does not change.      *)
LEMMA ReportsStay ==
    ASSUME ShadowInv, ReportsInv, ConfirmedInv, UNCHANGED <<now, reports, shadow, confirmedAt>>
    PROVE  ShadowInv' /\ ReportsInv' /\ ConfirmedInv'
BY DEF ShadowInv, ReportsInv, ConfirmedInv, last, shownAt

(* The step of one request leaves the others alone: while one holds the    *)
(* lock, no other has a frame on its way.                                  *)
LEMMA OthersStay ==
    ASSUME RouterInv, NEW s \in Requests, req'[s] = req[s],
           (lock # s /\ Nobody # s) \/ UNCHANGED <<lock, ghosts>>
    PROVE  RequestInv(s)'
<1>1. RequestInv(s)
  BY DEF RouterInv
<1>2. CASE UNCHANGED <<lock, ghosts>>
  BY <1>1, <1>2 DEF RequestInv, KeepsConfirmed, FenceHolds, ghosts
<1>3. CASE lock # s
  BY <1>1, <1>3 DEF RequestInv
<1> QED
  BY <1>2, <1>3

(* So a step of one request is sound once its own part of it is.          *)
LEMMA StepGoesOn ==
    ASSUME RouterInv, NEW r \in Requests, NEW issued, req' = [req EXCEPT ![r] = issued],
           lock \in {Nobody, r} \/ UNCHANGED <<lock, ghosts>>,
           now' \in Nat, unit' \in Units, KnownInv', RequestInv(r)'
    PROVE  RouterInv'
<1>1. DOMAIN req = Requests
  BY DEF RouterInv
<1>2. DOMAIN req' = Requests /\ \A s \in Requests \ {r} : req'[s] = req[s]
  BY <1>1
<1>3. ASSUME NEW s \in Requests
      PROVE  RequestInv(s)'
  <2>1. CASE s = r
    BY <2>1
  <2>2. CASE s # r
    BY <1>2, <2>2, OthersStay, RequestAssumption
  <2> QED
    BY <2>1, <2>2
<1> QED
  BY <1>2, <1>3 DEF RouterInv

(* A request begins as a call of its kind.                                 *)
LEMMA IdleIsCall ==
    /\ Idle \in Calls /\ Idle.pc = "idle" /\ Idle.went = {}
    /\ NoFrame \in Frames /\ Nothing \in Bases
<1>1. NoFrame \in Frames
  BY DomainAssumption DEF NoFrame, Frames, Modes, Arguments
<1>2. Nothing \in Bases
  <2>1. Nothing \in [{} -> Int] /\ {} \in SUBSET AllFields
    BY DEF Nothing
  <2> QED
    BY <2>1 DEF Bases
<1>3. [mode |-> {}, fan |-> {}, target |-> {}, comfort |-> {}] \in Wanted
  BY DEF Wanted
<1> HIDE DEF NoFrame, Nothing
<1> QED
  BY <1>1, <1>2, <1>3 DEF Idle, Calls

(* An idle request is as it should be.                                     *)
LEMMA IdleIsSound ==
    ASSUME NEW r, req'[r] = Idle
    PROVE  RequestInv(r)'
BY IdleIsCall DEF RequestInv

(* An attempt that sent nothing ends, or goes on to the cloud behind the   *)
(* fence, whether or not the memories were looked through before.          *)
LEMMA UnservedGoesOn ==
    ASSUME RouterInv, NEW r \in Requests, req[r].pc \in {"waiting", "sent"}, lock \in {Nobody, r},
           \/ Unserved(r, overlay, barrier)
           \/ ~Blocked /\ Unserved(r, Unseen, Nothing),
           \/ UNCHANGED <<targets, comfort>>
           \/ targets' = TargetsAfter(Effective) /\ comfort' = ComfortAfter(Effective),
           UNCHANGED <<now, appliance, confirmedAt>>
    PROVE  RouterInv'
<1>1. RequestInv(r) /\ KnownInv /\ now \in Nat /\ unit \in Units
  BY DEF RouterInv
<1>2. req' = [req EXCEPT ![r] = Refused(@)]
  BY DEF Unserved
<1>3. ShadowInv' /\ ReportsInv' /\ ConfirmedInv'
  BY <1>1, ReportsStay DEF KnownInv, appliance
<1>4. RememberedInv'
  <2>1. CASE UNCHANGED <<targets, comfort>>
    BY <1>1, <2>1 DEF KnownInv, RememberedInv
  <2>2. CASE targets' = TargetsAfter(Effective) /\ comfort' = ComfortAfter(Effective)
    BY <2>2, ArgumentsAreReal DEF RememberedInv
  <2> QED
    BY <2>1, <2>2
<1>5. OverlayInv' /\ BarrierInv' /\ Settled'
  <2>1. CASE req[r].kind = "climate"
    <3>1. Mark(overlay, barrier) \/ (~Blocked /\ Mark(Unseen, Nothing))
      BY <2>1 DEF Unserved
    <3> QED
      BY <3>1, MarkGoesOn
  <2>2. CASE req[r].kind # "climate"
    <3>1. UNCHANGED knownAt
      BY <2>2 DEF Unserved
    <3>2. CASE ~Blocked /\ Unserved(r, Unseen, Nothing)
      <4>1. overlay' = Unseen /\ barrier' = Nothing
        BY <2>2, <3>2 DEF Unserved
      <4> QED
        BY <3>1, <3>2, <4>1, LookingThroughGoesOn DEF ghosts
    <3>3. CASE Unserved(r, overlay, barrier)
      <4>1. UNCHANGED <<overlay, barrier>>
        BY <2>2, <3>3 DEF Unserved
      <4> QED
        BY <1>1, <3>1, <4>1 DEF KnownInv, OverlayInv, OverlayOf, BarrierInv, BarrierOf, Settled,
                                appliance, last, shownAt
    <3> QED
      BY <3>2, <3>3
  <2> QED
    BY <2>1, <2>2
<1>6. KnownInv'
  BY <1>3, <1>4, <1>5 DEF KnownInv
<1>7. RequestInv(r)'
  <2>1. req'[r] = Refused(req[r])
    BY <1>2 DEF RouterInv
  <2>2. CASE req[r].kind = "climate"
    <3>1. req'[r] = [req[r] EXCEPT !.pc = "fencing", !.frame = NoFrame, !.basis = Nothing]
      BY <2>1, <2>2 DEF Refused
    <3>2. req'[r] \in Calls /\ req'[r].pc = "fencing" /\ req'[r].went = {}
      BY <1>1, <3>1, IdleIsCall DEF RequestInv, Calls
    <3> QED
      BY <3>2 DEF RequestInv
  <2>3. CASE req[r].kind # "climate"
    BY <2>1, <2>3, IdleIsSound DEF Refused
  <2> QED
    BY <2>2, <2>3
<1> QED
  BY <1>1, <1>2, <1>6, <1>7, StepGoesOn DEF appliance

(* A frame is sent: its basis is what RestatedIsKnown says.                *)
LEMMA ComposedGoesOn ==
    ASSUME RouterInv, NEW r \in Requests, req[r].pc = "waiting", lock = Nobody, Composed(r),
           UNCHANGED <<now, appliance, domain, events, confirmedAt>>
    PROVE  RouterInv'
<1>1. RequestInv(r) /\ KnownInv /\ now \in Nat /\ unit \in Units /\ DOMAIN req = Requests
  BY DEF RouterInv
<1>2. PICK fr \in FramesFor(r) :
         req' = [req EXCEPT ![r].pc = "sent", ![r].frame = fr,
                            ![r].basis = [f \in Restated(Effective, req[r].wish, now, fr) |->
                                            Effective[f].at]]
  BY DEF Composed
<1> DEFINE basis == [f \in Restated(Effective, req[r].wish, now, fr) |-> Effective[f].at]
<1> DEFINE issued == [req[r] EXCEPT !.pc = "sent", !.frame = fr, !.basis = basis]
<1>3. req' = [req EXCEPT ![r] = issued]
  BY <1>1, <1>2
<1>4. fr \in Frames /\ Faithful(fr) /\ Expected(Effective, now) # {}
  BY FramesAreFaithful
<1>5. ~Blocked
  BY DEF Composed
<1>6. \A f \in DOMAIN basis : /\ f \in AllFields /\ basis[f] \in Int
                              /\ basis[f] >= confirmedAt[f] /\ basis[f] > knownAt[f]
  <2>1. \A q, g : \A f \in Restated(Effective, q, now, g) :
           g = fr => /\ f \in AllFields /\ Effective[f].at \in Int
                     /\ Effective[f].at >= confirmedAt[f] /\ Effective[f].at > knownAt[f]
    BY <1>4, <1>5, RestatedIsKnown
  <2> QED
    BY <2>1
<1>7. basis \in Bases
  <2> HIDE DEF basis
  <2>1. basis \in [DOMAIN basis -> Int] /\ DOMAIN basis \in SUBSET AllFields
    BY <1>6 DEF basis
  <2> QED
    BY <2>1 DEF Bases
<1> HIDE DEF basis
<1>8. issued \in Calls /\ issued.pc = "sent" /\ issued.frame = fr /\ issued.basis = basis /\ issued.went = {}
  BY <1>1, <1>4, <1>7 DEF RequestInv, Calls
<1>9. UNCHANGED <<now, reports, shadow, unit, confirmedAt, knownAt>> /\ lock' = r
  BY DEF Composed, appliance
<1>10. RequestInv(r)'
  <2>1. req'[r] = issued
    BY <1>1, <1>3
  <2> HIDE DEF issued
  <2> QED
    BY <1>4, <1>6, <1>8, <1>9, <2>1 DEF RequestInv, KeepsConfirmed, FenceHolds
<1>11. KnownInv'
  <2>1. ShadowInv' /\ ReportsInv' /\ ConfirmedInv'
    BY <1>1, <1>9, ReportsStay DEF KnownInv
  <2>2. RememberedInv'
    BY ArgumentsAreReal DEF RememberedInv, Composed
  <2>3. OverlayInv' /\ BarrierInv' /\ Settled'
    BY <1>5, <1>9, LookingThroughGoesOn DEF Composed, ghosts
  <2> QED
    BY <2>1, <2>2, <2>3 DEF KnownInv
<1> HIDE DEF issued
<1> QED
  BY <1>1, <1>3, <1>9, <1>10, <1>11, StepGoesOn

LEMMA TupleGoesOn ==
    ASSUME RouterInv, NEW r \in Requests, Tuple(r)
    PROVE  RouterInv'
<1>1. /\ req[r].pc = "waiting" /\ lock = Nobody
      /\ UNCHANGED <<now, appliance, domain, events, confirmedAt>>
  BY DEF Tuple
<1>2. CASE NotReady(r)
  BY <1>1, <1>2, UnservedGoesOn DEF NotReady
<1>3. CASE Fenced(r)
  <2>1. RequestInv(r) /\ KnownInv /\ now \in Nat /\ unit \in Units /\ DOMAIN req = Requests
    BY DEF RouterInv
  <2>2. KnownInv'
    BY <1>1, <1>3, <2>1, KnownStays DEF Fenced, memory, appliance, knownVars
  <2>3. req' = [req EXCEPT ![r] = Refused(@)]
    BY <1>3 DEF Fenced
  <2>4. req'[r] = Refused(req[r])
    BY <2>1, <2>3
  <2>5. RequestInv(r)'
    <3>1. CASE req[r].kind = "climate"
      <4>1. req'[r] = [req[r] EXCEPT !.pc = "fencing", !.frame = NoFrame, !.basis = Nothing]
        BY <2>4, <3>1 DEF Refused
      <4>2. req'[r] \in Calls /\ req'[r].pc = "fencing" /\ req'[r].went = {}
        BY <1>1, <2>1, <4>1, IdleIsCall DEF RequestInv, Calls
      <4> QED
        BY <4>2 DEF RequestInv
    <3>2. CASE req[r].kind # "climate"
      BY <2>4, <3>2, IdleIsSound DEF Refused
    <3> QED
      BY <3>1, <3>2
  <2> QED
    BY <1>1, <2>1, <2>2, <2>3, <2>5, StepGoesOn DEF appliance
<1>4. CASE Uncomposed(r)
  BY <1>1, <1>4, UnservedGoesOn DEF Uncomposed
<1>5. CASE NotAuthorised(r)
  BY <1>1, <1>5, UnservedGoesOn DEF NotAuthorised
<1>6. CASE Composed(r)
  BY <1>1, <1>6, ComposedGoesOn
<1> QED
  BY <1>2, <1>3, <1>4, <1>5, <1>6 DEF Tuple

(* A request whose call is changed only in where it is, and which leaves   *)
(* what is known alone.                                                    *)
LEMMA CallGoesOn ==
    ASSUME RouterInv, NEW r \in Requests, NEW issued, req' = [req EXCEPT ![r] = issued],
           lock \in {Nobody, r} \/ UNCHANGED <<lock, ghosts>>,
           UNCHANGED knownVars, unit' \in Units, RequestInv(r)'
    PROVE  RouterInv'
<1>1. KnownInv' /\ now' \in Nat
  BY KnownStays DEF RouterInv, knownVars
<1> QED
  BY <1>1, StepGoesOn

(* What the appliance makes of a frame is a setting.                       *)
LEMMA ObeyedIsUnit ==
    ASSUME NEW u \in Units, NEW fr \in Frames, Faithful(fr)
    PROVE  Obeyed(u, fr) \in Units
<1>1. fr.mode \in Modes /\ fr.fan \in Fans /\ u.target \in Celsius /\ u.comfort \in Comforts
  BY DEF Units, Frames
<1>2. /\ fr.mode # AutoMode /\ fr.fan # Power => fr.arg \in Celsius
      /\ fr.mode = AutoMode => fr.arg \in Comforts
  BY DEF Faithful
<1> QED
  BY <1>1, <1>2 DEF Obeyed, Units

(* The bridge obeys, and the answer is on its way.                         *)
LEMMA ObeyingGoesOn ==
    ASSUME RouterInv, NEW r \in Requests, BridgeObeys(r)
    PROVE  RouterInv'
<1> DEFINE issued == [req[r] EXCEPT !.pc = "applied", !.basis = Nothing, !.went = @ \union {"local"}]
<1>1. RequestInv(r) /\ unit \in Units /\ DOMAIN req = Requests /\ req[r].pc = "sent"
  BY DEF RouterInv, BridgeObeys
<1>2. req' = [req EXCEPT ![r] = issued] /\ req'[r] = issued
  BY <1>1 DEF BridgeObeys
<1>3. issued \in Calls /\ issued.pc = "applied" /\ issued.went = {"local"} /\ issued.frame = req[r].frame
  BY <1>1, IdleIsCall DEF RequestInv, Calls
<1>4. UNCHANGED knownVars /\ UNCHANGED <<lock, ghosts>>
  BY DEF BridgeObeys, knownVars, memory, ghosts
<1> HIDE DEF issued
<1>5. RequestInv(r)'
  BY <1>1, <1>2, <1>3, <1>4 DEF RequestInv
<1>6. unit' \in Units
  <2>1. req[r].frame \in Frames /\ Faithful(req[r].frame)
    BY <1>1 DEF RequestInv, Calls
  <2>2. PICK u \in Units, fr \in Frames : u = unit /\ fr = req[r].frame /\ Faithful(fr)
    BY <1>1, <2>1 DEF Faithful
  <2>3. Obeyed(u, fr) \in Units
    BY <2>2, ObeyedIsUnit
  <2>4. unit' = Obeyed(u, fr)
    BY <2>2 DEF BridgeObeys, Obeyed
  <2> QED
    BY <2>3, <2>4
<1> QED
  BY <1>2, <1>4, <1>5, <1>6, CallGoesOn

(* No answer, or a late frame: nothing is known of it.                     *)
LEMMA UnclearGoesOn ==
    ASSUME RouterInv, NEW r \in Requests, BridgeUnclear(r)
    PROVE  RouterInv'
<1>1. /\ RequestInv(r) /\ unit \in Units /\ DOMAIN req = Requests
      /\ req[r].pc \in {"sent", "applied"} /\ lock = r
  BY DEF RouterInv, BridgeUnclear, Released
<1>2. req' = [req EXCEPT ![r] = Unclear(@)] /\ req'[r] = Unclear(req[r])
  BY <1>1 DEF BridgeUnclear
<1>3. UNCHANGED knownVars /\ UNCHANGED unit
  BY DEF BridgeUnclear, knownVars, memory, appliance, ghosts
<1>4. RequestInv(r)'
  <2>1. CASE req[r].pc = "sent"
    <3>1. req'[r] = [req[r] EXCEPT !.pc = "lost", !.basis = Nothing, !.went = @ \union {"local"}]
      BY <1>2, <2>1 DEF Unclear
    <3>2. req[r] \in Calls /\ req[r].went = {} /\ Nothing \in Bases
      BY <1>1, <2>1, IdleIsCall DEF RequestInv
    <3>3. /\ req'[r] \in Calls /\ req'[r].pc = "lost" /\ req'[r].went = {"local"}
          /\ req'[r].frame = req[r].frame
      BY <3>1, <3>2 DEF Calls
    <3> QED
      BY <1>1, <3>3 DEF RequestInv
  <2>2. CASE req[r].pc # "sent"
    BY <1>2, <2>2, IdleIsSound DEF Unclear
  <2> QED
    BY <2>1, <2>2
<1> QED
  BY <1>1, <1>2, <1>3, <1>4, CallGoesOn

(* A frame nobody waits for any more arrives, or does not.                 *)
LEMMA LateFrameGoesOn ==
    ASSUME RouterInv, NEW r \in Requests, LateFrame(r)
    PROVE  RouterInv'
<1>1. /\ RequestInv(r) /\ unit \in Units /\ DOMAIN req = Requests /\ req[r].pc = "lost"
      /\ req' = [req EXCEPT ![r] = Idle]
  BY DEF RouterInv, LateFrame
<1>2. UNCHANGED knownVars /\ UNCHANGED <<lock, ghosts>>
  BY DEF LateFrame, knownVars, memory, ghosts
<1>3. RequestInv(r)'
  BY <1>1, IdleIsSound
<1>4. unit' \in Units
  <2>1. req[r].frame \in Frames /\ Faithful(req[r].frame)
    BY <1>1 DEF RequestInv, Calls
  <2>2. \A u \in Units : \A fr \in Frames : Faithful(fr) => Obeyed(u, fr) \in Units
    BY ObeyedIsUnit
  <2> QED
    BY <1>1, <2>1, <2>2 DEF LateFrame, Obeyed, Faithful
<1> QED
  BY <1>1, <1>2, <1>3, <1>4, CallGoesOn

(* A cloud command begins behind its fence.                                *)
LEMMA FenceGoesOn ==
    ASSUME RouterInv, NEW r \in Requests, Fence(r)
    PROVE  RouterInv'
<1> DEFINE issued == [req[r] EXCEPT !.pc = "cloud", !.went = @ \union {"cloud"}]
<1>1. /\ RequestInv(r) /\ KnownInv /\ now \in Nat /\ unit \in Units /\ DOMAIN req = Requests
      /\ req[r].pc = "fencing" /\ lock = Nobody
  BY DEF RouterInv, Fence
<1>2. req' = [req EXCEPT ![r] = issued] /\ req'[r] = issued
  BY <1>1 DEF Fence
<1>3. issued \in Calls /\ issued.pc = "cloud" /\ issued.went = {"cloud"}
  BY <1>1 DEF RequestInv, Calls
<1> HIDE DEF issued
<1>4. RequestInv(r)'
  BY <1>2, <1>3 DEF RequestInv
<1>5. UNCHANGED <<now, unit, reports, shadow, confirmedAt, targets, comfort>>
  BY DEF Fence, appliance
<1>6. KnownInv'
  <2>1. ShadowInv' /\ ReportsInv' /\ ConfirmedInv'
    BY <1>1, <1>5, ReportsStay DEF KnownInv
  <2>2. OverlayInv' /\ BarrierInv' /\ Settled'
    BY <1>5, MarkGoesOn DEF Fence
  <2>3. RememberedInv'
    BY <1>1, <1>5 DEF KnownInv, RememberedInv
  <2> QED
    BY <2>1, <2>2, <2>3 DEF KnownInv
<1> QED
  BY <1>1, <1>2, <1>4, <1>5, <1>6, StepGoesOn

(* The cloud command ends, obeyed or not.                                  *)
LEMMA CloudGoesOn ==
    ASSUME RouterInv, NEW r \in Requests, CloudEnds(r)
    PROVE  RouterInv'
<1>1. /\ unit \in Units /\ req' = [req EXCEPT ![r] = Idle] /\ DOMAIN req = Requests
      /\ unit' \in {unit} \union Asked(unit, req[r].wish)
  BY DEF RouterInv, CloudEnds
<1>2. UNCHANGED knownVars /\ UNCHANGED <<lock, ghosts>>
  BY DEF CloudEnds, knownVars, memory, ghosts
<1>3. RequestInv(r)'
  BY <1>1, IdleIsSound
<1>4. unit' \in Units
  BY <1>1 DEF Asked, Settings, Units
<1> QED
  BY <1>1, <1>2, <1>3, <1>4, CallGoesOn

(* What is confirmed is in the overlay, and is the newest that is known.   *)
LEMMA ConfirmingGoesOn ==
    ASSUME RouterInv, NEW r \in Requests, BridgeConfirms(r)
    PROVE  RouterInv'
<1> DEFINE fr == req[r].frame
<1> DEFINE c == Confirmed(fr)
<1>1. /\ RequestInv(r) /\ KnownInv /\ now \in Nat /\ unit \in Units
      /\ req[r].pc \in {"sent", "applied"} /\ lock = r /\ lock' = Nobody
      /\ DOMAIN req = Requests /\ req' = [req EXCEPT ![r] = Idle]
  BY DEF RouterInv, BridgeConfirms, Released
<1>2. UNCHANGED <<now, unit, reports, shadow, barrier, knownAt>>
  BY DEF BridgeConfirms, appliance
<1>3. fr \in Frames /\ Faithful(fr) /\ fr.mode \in Modes /\ fr.fan \in Fans
  BY <1>1 DEF RequestInv, Calls, Frames
<1>4. /\ DOMAIN c = {"mode", "fan"} \union (IF fr.fan = Power THEN {} ELSE {ArgumentOf(fr.mode)})
      /\ \A f \in DOMAIN c : c[f].at = now
      /\ c["mode"].val = fr.mode /\ c["fan"].val = fr.fan
      /\ \A f \in DOMAIN c : f \notin {"mode", "fan"} => c[f].val = fr.arg
  BY DEF Confirmed
<1>5. /\ overlay' = c
      /\ targets' = IF "target" \in DOMAIN c THEN [targets EXCEPT ![fr.mode] = {fr.arg}] ELSE targets
      /\ comfort' = IF "comfort" \in DOMAIN c THEN {fr.arg} ELSE comfort
      /\ confirmedAt' = [f \in AllFields |-> IF f \in DOMAIN c THEN now ELSE confirmedAt[f]]
  BY DEF BridgeConfirms
<1> HIDE DEF c, fr
<1>6. /\ "target" \in DOMAIN c => fr.mode \in Ordinary /\ fr.arg \in Celsius
      /\ "comfort" \in DOMAIN c => fr.mode = AutoMode /\ fr.arg \in Comforts
  BY <1>3, <1>4 DEF ArgumentOf, Faithful, Modes
<1>7. /\ {"mode", "fan"} \subseteq AllFields /\ DOMAIN c \subseteq AllFields
      /\ last' = now /\ UNCHANGED <<shownAt, now>>
  BY <1>2, <1>4, <1>5 DEF AllFields, ArgumentOf, last, shownAt
<1>8. OverlayInv'
  <2>1. ASSUME fr.fan # Power
        PROVE  ArgumentOf(fr.mode) \in DOMAIN c
    BY <1>4, <2>1
  <2>2. /\ "target" \in DOMAIN c => c["target"].val \in Celsius
        /\ "comfort" \in DOMAIN c => c["comfort"].val \in Comforts
    BY <1>4, <1>6
  <2> QED
    BY <1>3, <1>4, <1>5, <1>7, <2>1, <2>2 DEF OverlayInv, OverlayOf
<1>9. ConfirmedInv'
  <2>1. \A f \in AllFields : confirmedAt[f] \in Int /\ confirmedAt[f] <= now
    BY <1>1, <1>7 DEF KnownInv, ConfirmedInv, last, AllFields
  <2>2. \A f \in AllFields : confirmedAt'[f] = IF f \in DOMAIN c THEN now ELSE confirmedAt[f]
    BY <1>5
  <2> QED
    BY <1>1, <1>7, <2>1, <2>2 DEF ConfirmedInv
<1>10. Settled'
  BY <1>4, <1>5 DEF Settled
<1>11. BarrierInv' /\ ShadowInv' /\ ReportsInv'
  BY <1>1, <1>2 DEF KnownInv, BarrierInv, BarrierOf, ShadowInv, ReportsInv, shownAt
<1>12. RememberedInv'
  BY <1>1, <1>5, <1>6 DEF KnownInv, RememberedInv
<1>13. KnownInv'
  BY <1>8, <1>9, <1>10, <1>11, <1>12 DEF KnownInv
<1>14. RequestInv(r)'
  BY <1>1, IdleIsSound
<1> QED
  BY <1>1, <1>2, <1>13, <1>14, StepGoesOn

(* A new request.                                                          *)
LEMMA BeginningGoesOn ==
    ASSUME RouterInv, NEW r \in Requests, NEW issued \in Calls,
           \/ issued.pc = "waiting" /\ issued.went = {}
           \/ issued.pc = "cloud" /\ issued.went = {"cloud"},
           req' = [req EXCEPT ![r] = issued],
           UNCHANGED <<now, appliance, memory, lock, domain, ghosts>>
    PROVE  RouterInv'
<1>1. req'[r] = issued
  BY DEF RouterInv
<1>2. RequestInv(r)'
  BY <1>1 DEF RequestInv
<1>3. UNCHANGED knownVars /\ UNCHANGED <<lock, ghosts>> /\ unit' \in Units
  BY DEF RouterInv, knownVars, memory, appliance, ghosts
<1> QED
  BY <1>2, <1>3, CallGoesOn

LEMMA StartGoesOn ==
    ASSUME RouterInv, NEW r \in Requests, NEW w \in Wishes, Starts(r, w)
    PROVE  RouterInv'
<1>1. w \in Wanted
  BY RequestAssumption DEF Wanted
<1>2. ASSUME NEW k \in {"climate", "local"}, Start(r, w, k)
      PROVE  RouterInv'
  <2> DEFINE issued == [Idle EXCEPT !.pc = "waiting", !.kind = k, !.wish = w]
  <2>1. issued \in Calls /\ issued.pc = "waiting" /\ issued.went = {}
    BY <1>1, IdleIsCall DEF Idle, Calls
  <2>2. req' = [req EXCEPT ![r] = issued] /\ UNCHANGED <<now, appliance, memory, lock, domain, ghosts>>
    BY <1>2 DEF Start
  <2> HIDE DEF issued
  <2> QED
    BY <2>1, <2>2, BeginningGoesOn
<1>3. ASSUME StartSelect(r, w)
      PROVE  RouterInv'
  <2> DEFINE issued == [Idle EXCEPT !.pc = "cloud", !.kind = "select", !.wish = w, !.went = {"cloud"}]
  <2>1. issued \in Calls /\ issued.pc = "cloud" /\ issued.went = {"cloud"}
    BY <1>1, IdleIsCall DEF Idle, Calls
  <2>2. req' = [req EXCEPT ![r] = issued] /\ UNCHANGED <<now, appliance, memory, lock, domain, ghosts>>
    BY <1>3 DEF StartSelect
  <2> HIDE DEF issued
  <2> QED
    BY <2>1, <2>2, BeginningGoesOn
<1> QED
  BY <1>2, <1>3 DEF Starts, StartClimate, StartLocal

(* The steps of a request.                                                 *)
LEMMA RequestGoesOn ==
    ASSUME RouterInv, NEW r \in Requests, RequestStep(r)
    PROVE  RouterInv'
<1>1. CASE Tuple(r)
  BY <1>1, TupleGoesOn
<1>2. CASE BridgeRefuses(r)
  BY <1>2, UnservedGoesOn DEF BridgeRefuses, Released
<1>3. CASE BridgeObeys(r)
  BY <1>3, ObeyingGoesOn
<1>4. CASE BridgeConfirms(r)
  BY <1>4, ConfirmingGoesOn
<1>5. CASE BridgeUnclear(r)
  BY <1>5, UnclearGoesOn
<1>6. CASE LateFrame(r)
  BY <1>6, LateFrameGoesOn
<1>7. CASE Fence(r)
  BY <1>7, FenceGoesOn
<1>8. CASE CloudEnds(r)
  BY <1>8, CloudGoesOn
<1> QED
  BY <1>1, <1>2, <1>3, <1>4, <1>5, <1>6, <1>7, <1>8 DEF RequestStep

(* Steps of the appliance leave the requests alone.                        *)
LEMMA RequestsStay ==
    ASSUME RouterInv, UNCHANGED <<lock, req, ghosts>>, KnownInv', now' \in Nat, unit' \in Units
    PROVE  RouterInv'
<1>1. DOMAIN req' = Requests
  BY DEF RouterInv
<1>2. ASSUME NEW r \in Requests
      PROVE  RequestInv(r)'
  BY OthersStay
<1> QED
  BY <1>1, <1>2 DEF RouterInv

(* What the appliance publishes is a report that says all of its mode.     *)
LEMMA SnapshotsAreSaid ==
    ASSUME NEW u \in Units, NEW t \in Nat
    PROVE  Snapshot(u, t) \in Said /\ Snapshot(u, t).at = t
<1>1. u.mode \in Modes /\ u.fan \in Fans /\ u.target \in Celsius /\ u.comfort \in Comforts
  BY DEF Units
<1>2. /\ Snapshot(u, t).mode = u.mode /\ Snapshot(u, t).fan = u.fan /\ Snapshot(u, t).at = t
      /\ Snapshot(u, t).arg = IF u.mode = AutoMode THEN u.comfort
                              ELSE IF u.fan = Power THEN Placeholder ELSE u.target
  BY DEF Snapshot, Shown
<1>3. Snapshot(u, t).arg \in Arguments /\ Telling(u.mode, u.fan, Snapshot(u, t).arg)
  BY <1>1, <1>2 DEF Arguments, Telling
<1>4. Snapshot(u, t) = [mode |-> Snapshot(u, t).mode, fan |-> Snapshot(u, t).fan,
                        arg |-> Snapshot(u, t).arg, at |-> Snapshot(u, t).at]
  BY DEF Snapshot
<1> QED
  BY <1>1, <1>2, <1>3, <1>4 DEF Said

(* A report: of now, newer than all the others.                            *)
LEMMA PublishGoesOn ==
    ASSUME RouterInv, Publish
    PROVE  RouterInv'
<1>1. KnownInv /\ now \in Nat /\ unit \in Units
  BY DEF RouterInv
<1>2. PICK report \in Said : report.at = now /\ reports' = Append(reports, report)
  BY <1>1, SnapshotsAreSaid DEF Publish, Snapshot
<1>3. UNCHANGED <<now, unit, shadow, overlay, barrier, targets, comfort, lock, req, confirmedAt, knownAt>>
  BY DEF Publish, memory, ghosts
<1>4. /\ reports \in Seq(Said)
      /\ \A i \in 1 .. Len(reports) : /\ reports[i].at \in Int
                                      /\ shownAt < reports[i].at /\ reports[i].at <= now
      /\ \A i, j \in 1 .. Len(reports) : i < j => reports[i].at < reports[j].at
      /\ shownAt \in Int
  BY <1>1 DEF KnownInv, ReportsInv, ShadowInv, Said
<1>5. shownAt < now /\ \A i \in 1 .. Len(reports) : reports[i].at < now
  <2>1. CASE reports = <<>>
    BY <1>4, <2>1 DEF Publish, LastReport, shownAt
  <2>2. CASE reports # <<>>
    <3>1. Len(reports) \in 1 .. Len(reports)
      BY <1>4, <2>2
    <3>2. reports[Len(reports)].at < now
      BY <2>2 DEF Publish, LastReport
    <3>3. ASSUME NEW i \in 1 .. Len(reports)
          PROVE  reports[i].at < now
      BY <1>1, <1>4, <3>1, <3>2
    <3> QED
      BY <1>1, <1>4, <3>1, <3>2, <3>3
  <2> QED
    BY <2>1, <2>2
<1>6. ReportsInv'
  <2>1. /\ reports' \in Seq(Said) /\ Len(reports') = Len(reports) + 1
        /\ \A i \in 1 .. Len(reports) : reports'[i] = reports[i]
        /\ reports'[Len(reports) + 1] = report
    BY <1>2, <1>4
  <2>2. ASSUME NEW i \in 1 .. Len(reports')
        PROVE  shownAt < reports'[i].at /\ reports'[i].at <= now
    BY <1>1, <1>2, <1>4, <1>5, <2>1
  <2>3. ASSUME NEW i \in 1 .. Len(reports'), NEW j \in 1 .. Len(reports'), i < j
        PROVE  reports'[i].at < reports'[j].at
    BY <1>1, <1>2, <1>4, <1>5, <2>1, <2>3
  <2> QED
    BY <1>3, <2>1, <2>2, <2>3 DEF ReportsInv, shownAt
<1>7. KnownInv'
  BY <1>1, <1>3, <1>6 DEF KnownInv, ShadowInv, OverlayInv, OverlayOf, BarrierInv, BarrierOf,
       ConfirmedInv, Settled, RememberedInv, last, shownAt
<1> QED
  BY <1>1, <1>3, <1>7, RequestsStay DEF ghosts

(* A report taken in tells all the fields of its mode at once.             *)
LEMMA ReportedTells ==
    ASSUME NEW report \in Said
    PROVE  LET sh == Reported(shadow, report)
           IN /\ sh["mode"] = [val |-> report.mode, at |-> report.at]
              /\ sh["fan"] = [val |-> report.fan, at |-> report.at]
              /\ sh[ArgumentOf(report.mode)] = [val |-> report.arg, at |-> report.at]
              /\ \A f \in AllFields : sh[f].at \in {report.at, shadow[f].at}
BY DEF Reported, AllFields, ArgumentOf

(* A report taken in.                                                      *)
LEMMA DeliverGoesOn ==
    ASSUME RouterInv, Deliver
    PROVE  RouterInv'
<1>1. KnownInv /\ now \in Nat /\ unit \in Units
  BY DEF RouterInv
<1>2. UNCHANGED <<now, unit, overlay, barrier, targets, comfort, lock, req, confirmedAt, knownAt>>
  BY DEF Deliver, memory, ghosts
<1>3. /\ reports \in Seq(Said) /\ reports # <<>>
      /\ \A i \in 1 .. Len(reports) : /\ reports[i].at \in Int
                                      /\ shownAt < reports[i].at /\ reports[i].at <= now
      /\ \A i, j \in 1 .. Len(reports) : i < j => reports[i].at < reports[j].at
      /\ shownAt \in Int /\ \A f \in AllFields : shadow[f].at \in Int /\ shadow[f].at <= shownAt
  BY <1>1 DEF KnownInv, ReportsInv, ShadowInv, Said, Deliver
<1>4. PICK report \in Said :
         /\ report = reports[1] /\ shadow' = Reported(shadow, report) /\ reports' = Tail(reports)
  <2>1. PICK report \in Said : report = reports[1]
    BY <1>3
  <2>2. Head(reports) = report /\ reports' = Tail(reports)
    BY <1>3, <2>1 DEF Deliver
  <2>3. shadow' = Reported(shadow, report)
    BY <2>2 DEF Deliver, Reported
  <2> QED
    BY <2>1, <2>2, <2>3
<1>5. /\ report.mode \in Modes /\ report.fan \in Fans /\ report.at \in Nat
      /\ shownAt < report.at /\ report.at <= now
      /\ Telling(report.mode, report.fan, report.arg)
  <2>1. 1 \in 1 .. Len(reports)
    BY <1>3
  <2> QED
    BY <1>3, <1>4, <2>1 DEF Said
<1>6. /\ shadow'["mode"] = [val |-> report.mode, at |-> report.at]
      /\ shadow'["fan"] = [val |-> report.fan, at |-> report.at]
      /\ shadow'[ArgumentOf(report.mode)] = [val |-> report.arg, at |-> report.at]
      /\ \A f \in AllFields : shadow'[f].at \in {report.at, shadow[f].at}
  BY <1>4, ReportedTells DEF Reported
<1>7. shownAt' = report.at
  BY <1>6 DEF shownAt
<1>8. ShadowInv'
  BY <1>2, <1>3, <1>5, <1>6, <1>7 DEF ShadowInv
<1>9. ReportsInv'
  <2>1. /\ reports' \in Seq(Said) /\ Len(reports') = Len(reports) - 1
        /\ \A i \in 1 .. Len(reports') : reports'[i] = reports[i + 1]
    BY <1>3, <1>4
  <2>2. Len(reports) \in Nat
    BY <1>3
  <2>3. ASSUME NEW i \in 1 .. Len(reports')
        PROVE  report.at < reports'[i].at /\ reports'[i].at <= now
    <3>1. i + 1 \in 1 .. Len(reports) /\ 1 \in 1 .. Len(reports) /\ 1 < i + 1
      BY <2>1, <2>2
    <3> QED
      BY <1>3, <1>4, <2>1, <3>1
  <2>4. ASSUME NEW i \in 1 .. Len(reports'), NEW j \in 1 .. Len(reports'), i < j
        PROVE  reports'[i].at < reports'[j].at
    <3>1. i + 1 \in 1 .. Len(reports) /\ j + 1 \in 1 .. Len(reports) /\ i + 1 < j + 1
      BY <2>1, <2>2, <2>4
    <3> QED
      BY <1>3, <2>1, <3>1
  <2> QED
    BY <1>2, <1>7, <2>1, <2>3, <2>4 DEF ReportsInv
<1>10. UNCHANGED last /\ last \in Int /\ last <= now /\ \A f \in AllFields : knownAt[f] \in Int
  BY <1>1, <1>2 DEF KnownInv, ConfirmedInv, BarrierInv, last, AllFields
<1>11. OverlayInv'
  BY <1>1, <1>2, <1>3, <1>5, <1>7, <1>10 DEF KnownInv, OverlayInv, OverlayOf
<1>12. BarrierInv'
  <2>1. "mode" \in AllFields
    BY DEF AllFields
  <2> QED
    BY <1>1, <1>2, <1>3, <1>5, <1>7, <1>10, <2>1 DEF KnownInv, BarrierInv, BarrierOf
<1>13. Settled'
  BY <1>1, <1>2, <1>3, <1>5, <1>7, <1>10 DEF KnownInv, Settled
<1>14. ConfirmedInv' /\ RememberedInv'
  BY <1>1, <1>2 DEF KnownInv, ConfirmedInv, RememberedInv, last
<1>15. KnownInv'
  BY <1>8, <1>9, <1>11, <1>12, <1>13, <1>14 DEF KnownInv
<1> QED
  BY <1>1, <1>2, <1>15, RequestsStay DEF ghosts

(* Time, the remote control and presence.                                  *)
LEMMA ElapsingGoesOn ==
    ASSUME RouterInv, Tick \/ Remote \/ Presence
    PROVE  RouterInv'
<1>1. KnownInv /\ now \in Nat /\ unit \in Units
  BY DEF RouterInv
<1>2. /\ UNCHANGED <<reports, shadow, overlay, barrier, targets, comfort, lock, req, confirmedAt, knownAt>>
      /\ now' \in Nat /\ now' >= now
  BY <1>1 DEF Tick, Remote, Presence, memory, appliance, ghosts
<1>3. unit' \in Units
  BY <1>1 DEF Tick, Remote, Presence, appliance, Settings, Units
<1>4. ShadowInv' /\ ConfirmedInv'
  BY <1>1, <1>2 DEF KnownInv, ShadowInv, ConfirmedInv, shownAt, last, AllFields
<1>5. ReportsInv'
  <2>1. \A i \in 1 .. Len(reports) : reports[i].at \in Int
    BY <1>1 DEF KnownInv, ReportsInv, Said
  <2>2. /\ reports \in Seq(Said)
        /\ \A i \in 1 .. Len(reports) : shownAt < reports[i].at /\ reports[i].at <= now
        /\ \A i, j \in 1 .. Len(reports) : i < j => reports[i].at < reports[j].at
    BY <1>1 DEF KnownInv, ReportsInv
  <2>3. reports' = reports /\ shownAt' = shownAt
    BY <1>2 DEF shownAt
  <2>4. ASSUME NEW i \in 1 .. Len(reports) PROVE shownAt < reports[i].at /\ reports[i].at <= now'
    <3>1. PICK n \in Int : n = reports[i].at
      BY <2>1
    <3>2. n <= now /\ now \in Nat /\ now' \in Nat /\ now <= now'
      BY <1>1, <1>2, <2>2, <3>1
    <3> QED
      BY <2>2, <3>1, <3>2
  <2> QED
    BY <2>2, <2>3, <2>4 DEF ReportsInv
<1>6. Settled'
  <2>1. last \in Int /\ MaxAge \in Int
    BY <1>1, DomainAssumption DEF KnownInv, ConfirmedInv, last, AllFields
  <2> QED
    BY <1>1, <1>2, <2>1 DEF KnownInv, Settled, shownAt, last
<1>7. OverlayInv' /\ BarrierInv' /\ RememberedInv'
  BY <1>1, <1>2 DEF KnownInv, OverlayInv, OverlayOf, BarrierInv, BarrierOf, RememberedInv,
                    shownAt, last
<1>8. KnownInv'
  BY <1>4, <1>5, <1>6, <1>7 DEF KnownInv
<1> QED
  BY <1>2, <1>3, <1>8, RequestsStay DEF ghosts

LEMMA RouterStays ==
    ASSUME RouterInv, UNCHANGED vars
    PROVE  RouterInv'
<1>1. UNCHANGED knownVars /\ UNCHANGED <<unit, lock, req, ghosts>>
  BY DEF vars, knownVars, ghosts
<1>2. KnownInv' /\ now' \in Nat /\ unit' \in Units
  BY <1>1, KnownStays DEF RouterInv, knownVars
<1> QED
  BY <1>1, <1>2, RequestsStay

(* At the start everything was just reported and nothing commanded.        *)
LEMMA RouterStarts == Init => RouterInv
<1> SUFFICES ASSUME Init
             PROVE  RouterInv
  OBVIOUS
<1>1. unit \in Units /\ now = 0
  BY DEF Init, Settings, Units
<1>2. PICK report \in Said :
         /\ report.at = 0
         /\ shadow = Reported([f \in AllFields |-> [val |-> Placeholder, at |-> Never]], report)
  BY <1>1, SnapshotsAreSaid DEF Init, Snapshot
<1>3. /\ shadow["mode"] = [val |-> report.mode, at |-> 0]
      /\ shadow["fan"] = [val |-> report.fan, at |-> 0]
      /\ shadow[ArgumentOf(report.mode)] = [val |-> report.arg, at |-> 0]
      /\ \A f \in AllFields : shadow[f].at \in {0, Never}
  BY <1>2 DEF Reported, AllFields, ArgumentOf
<1>4. report.mode \in Modes /\ report.fan \in Fans /\ Telling(report.mode, report.fan, report.arg)
  BY DEF Said
<1>5. ShadowInv /\ shownAt = 0
  BY <1>1, <1>3, <1>4 DEF ShadowInv, shownAt, Never
<1>6. ReportsInv
  BY DEF Init, ReportsInv
<1>7. /\ overlay = Nothing /\ barrier = Nothing /\ DOMAIN Nothing = {}
      /\ \A f \in AllFields : confirmedAt[f] = -1 /\ knownAt[f] = -1
      /\ last = -1 /\ knownAt["mode"] = -1
  BY DEF Init, Nothing, Never, last, AllFields
<1>8. OverlayInv /\ BarrierInv /\ ConfirmedInv /\ Settled
  BY <1>1, <1>5, <1>7 DEF OverlayInv, OverlayOf, BarrierInv, BarrierOf, ConfirmedInv, Settled
<1>9. RememberedInv
  BY DEF Init, RememberedInv
<1>10. ASSUME NEW r \in Requests
       PROVE  RequestInv(r)
  BY IdleIsCall DEF Init, RequestInv
<1> QED
  BY <1>1, <1>5, <1>6, <1>8, <1>9, <1>10 DEF Init, RouterInv, KnownInv

LEMMA RouterGoesOn == RouterInv /\ [Next]_vars => RouterInv'
<1> SUFFICES ASSUME RouterInv, [Next]_vars
             PROVE  RouterInv'
  OBVIOUS
<1>1. ASSUME NEW r \in Requests, RequestStep(r)
      PROVE  RouterInv'
  BY <1>1, RequestGoesOn
<1>2. ASSUME NEW r \in Requests, NEW w \in Wishes, Starts(r, w)
      PROVE  RouterInv'
  BY <1>2, StartGoesOn
<1>3. CASE Tick \/ Remote \/ Presence
  BY <1>3, ElapsingGoesOn
<1>4. CASE Publish
  BY <1>4, PublishGoesOn
<1>5. CASE Deliver
  BY <1>5, DeliverGoesOn
<1>6. CASE UNCHANGED vars
  BY <1>6, RouterStays
<1> QED
  BY <1>1, <1>2, <1>3, <1>4, <1>5, <1>6 DEF Next

(* What is known of an appliance, by report, confirmation and fence, goes  *)
(* together, whichever requests are under way.                             *)
THEOREM RouterInvariant == Spec => []RouterInv
<1>1. Init => RouterInv
  BY RouterStarts
<1>2. RouterInv /\ [Next]_vars => RouterInv'
  BY RouterGoesOn
<1> QED
  BY <1>1, <1>2, PTL DEF Spec

(* One request never becomes two commands, for any number of requests,     *)
(* reports and failures of the bridge (LocalControlRouter._tuple and       *)
(* climate._control).                                                      *)
THEOREM RequestsAreOneCommand == Spec => []OneCommand
<1>1. RouterInv => OneCommand
  <2> SUFFICES ASSUME RouterInv, NEW r \in Requests
               PROVE  req[r].went # {"local", "cloud"}
    BY DEF OneCommand
  <2>1. RequestInv(r)
    BY DEF RouterInv
  <2> QED
    BY <2>1 DEF RequestInv, Calls
<1> QED
  BY <1>1, RouterInvariant, PTL

(* What a frame restates is no older than the last confirmation of it, was *)
(* not known yet when the last cloud command left - which says nothing of  *)
(* a report that was under way then - and is never a placeholder: through  *)
(* the overlay and its expiry, late reports, the barrier and the           *)
(* remembered arguments (_shadow_with_confirmation,                        *)
(* _cloud_tuple_barrier_blocks, _remember_mode_argument).                  *)
THEOREM FramesStayFaithful == Spec => []FrameIsFaithful
<1>1. RouterInv => FrameIsFaithful
  <2> SUFFICES ASSUME RouterInv, NEW r \in Requests, req[r].pc = "sent"
               PROVE  KeepsConfirmed(req[r]) /\ FenceHolds(req[r]) /\ NoPlaceholder(req[r].frame)
    BY DEF FrameIsFaithful
  <2>1. RequestInv(r)
    BY DEF RouterInv
  <2>2. KeepsConfirmed(req[r]) /\ FenceHolds(req[r])
    BY <2>1 DEF RequestInv
  <2>3. NoPlaceholder(req[r].frame)
    BY <2>1 DEF RequestInv, Faithful, NoPlaceholder
  <2> QED
    BY <2>2, <2>3
<1> QED
  BY <1>1, RouterInvariant, PTL

(***************************************************************************)
(* The climate entities.  The invariant has three parts: each service call *)
(* has a plan of at most three writes and is at a place where the plan     *)
(* allows it to be; what is shown is credible; what is kept was read.      *)
(***************************************************************************)

(* Short lists of writes, and of what went.                                *)
LEMMA OneOf ==
    ASSUME NEW w
    PROVE  Head(<<w>>) = w /\ Tail(<<w>>) = <<>> /\ Len(<<w>>) = 1 /\ <<w>> # <<>> /\ Append(<<>>, w) = <<w>>
OBVIOUS

(* Two of them.                                                            *)
LEMMA TwoOf ==
    ASSUME NEW w, NEW v
    PROVE  /\ Head(<<w, v>>) = w /\ Tail(<<w, v>>) = <<v>> /\ Len(<<w, v>>) = 2 /\ <<w, v>> # <<>>
           /\ Append(<<w>>, v) = <<w, v>>
<1>1. Append(<<w>>, v) = <<w, v>>
  <2>1. PICK s : s = Append(<<w>>, v)
    OBVIOUS
  <2>2. <<w>> \in Seq({w, v}) /\ Len(<<w>>) = 1
    OBVIOUS
  <2>3. s \in Seq({w, v}) /\ Len(s) = 2 /\ s[1] = w /\ s[2] = v
    BY <2>1, <2>2
  <2>4. s \in [1 .. 2 -> {w, v}] /\ <<w, v>> \in [1 .. 2 -> {w, v}]
    BY <2>3
  <2>5. \A i \in 1 .. 2 : s[i] = <<w, v>>[i]
    BY <2>3
  <2>6. s = <<w, v>>
    BY <2>4, <2>5
  <2> QED
    BY <2>1, <2>6
<1> QED
  BY <1>1

(* Three of them.                                                          *)
LEMMA ThreeOf ==
    ASSUME NEW w, NEW v, NEW u
    PROVE  /\ Head(<<w, v, u>>) = w /\ Tail(<<w, v, u>>) = <<v, u>> /\ Len(<<w, v, u>>) = 3
           /\ <<w, v, u>> # <<>>
OBVIOUS

IsCall(q) ==
    q = [pc |-> q.pc, do |-> q.do, todo |-> q.todo, fenced |-> q.fenced, tries |-> q.tries,
         went |-> q.went]

\* a write that is no whole, and of which the router is told before the cloud is
Single(w) == ~w.whole /\ (SettlesTuple(w.asks) => Restates(w))
Apart(x, y) == DOMAIN x.asks \cap DOMAIN y.asks = {}
WentRight(g) == g.by = "cloud" => owner = "pat" /\ (SettlesTuple(g.asks) => g.fenced)

(* What a call still has to write, and what went of it.                    *)
NothingLeft(q) ==
    /\ q.todo = <<>>
    /\ \/ q.went = <<>>
       \/ \E g : q.went = <<g>> /\ WentRight(g)
       \/ \E g, h : /\ q.went = <<g, h>> /\ WentRight(g) /\ WentRight(h) /\ Apart(g, h)
                    /\ q.do = "swing" \/ g.by = h.by
OneLeft(q) ==
    \E w : /\ q.todo = <<w>> /\ Single(w) /\ (q.do = "swing" => w.frame = "flag")
           /\ \/ q.went = <<>>
              \/ \E g : /\ q.went = <<g>> /\ WentRight(g) /\ Apart(g, w)
                        /\ q.do = "swing" \/ (w.frame = "none" /\ g.by = "cloud")
TwoLeft(q) ==
    \E w, v : /\ q.todo = <<w, v>> /\ q.went = <<>> /\ Single(w) /\ Single(v) /\ Apart(w, v)
              /\ IF q.do = "swing" THEN w.frame = "flag" /\ v.frame = "flag"
                 ELSE w.frame = "none" /\ v.frame = "none"
ThreeLeft(q) ==
    \E w, v, u : /\ q.todo = <<w, v, u>> /\ q.went = <<>> /\ q.do # "swing"
                 /\ w.whole /\ w.frame = "on"
                 /\ Single(v) /\ Single(u) /\ Apart(v, u) /\ v.frame = "none" /\ u.frame = "none"
Planned(q) == NothingLeft(q) \/ OneLeft(q) \/ TwoLeft(q) \/ ThreeLeft(q)

\* both directions of a swing, or none
Tried(q) ==
    /\ q.tries \in Nat
    /\ q.do = "swing" => Len(q.todo) + q.tries = 2 \/ (q.todo = <<>> /\ q.tries = 0)

OnPlan(q) == IsCall(q) /\ Planned(q) /\ Tried(q)

Turn(q) ==
    /\ q.pc \in {"router", "fence", "cloud", "done"}
    /\ q.pc = "router" => q.todo # <<>> /\ Head(q.todo).frame # "none"
    /\ q.pc \in {"fence", "cloud"} => q.todo # <<>> /\ owner = "pat" /\ ~Head(q.todo).whole
    /\ q.pc = "cloud" /\ Restates(Head(q.todo)) => q.fenced
    /\ q.pc = "done" => q.todo = <<>>

Moving(q) == OnPlan(q) /\ Turn(q)

(* A change of place keeps the plan.                                       *)
LEMMA OnPlanElsewhere ==
    ASSUME NEW q, OnPlan(q), NEW p, NEW f, NEW x,
           x = [pc |-> p, do |-> q.do, todo |-> q.todo, fenced |-> f, tries |-> q.tries,
                went |-> q.went]
    PROVE  OnPlan(x) /\ x.pc = p /\ x.fenced = f /\ x.todo = q.todo
<1>2. /\ x.pc = p /\ x.do = q.do /\ x.todo = q.todo /\ x.fenced = f /\ x.tries = q.tries
      /\ x.went = q.went
  OBVIOUS
<1>3. IsCall(x)
  BY <1>2 DEF IsCall
<1>4. Planned(x)
  BY <1>2 DEF OnPlan, Planned, NothingLeft, OneLeft, TwoLeft, ThreeLeft
<1> QED
  BY <1>2, <1>3, <1>4 DEF OnPlan, Tried

(* Another place alone.                                                    *)
LEMMA OnPlanAt ==
    ASSUME NEW q, OnPlan(q), NEW p, NEW x, x = [q EXCEPT !.pc = p]
    PROVE  OnPlan(x) /\ x.pc = p /\ x.fenced = q.fenced /\ x.todo = q.todo
<1>1. x = [pc |-> p, do |-> q.do, todo |-> q.todo, fenced |-> q.fenced, tries |-> q.tries,
           went |-> q.went]
  BY DEF OnPlan, IsCall
<1> QED
  BY <1>1, OnPlanElsewhere, ZenonT(40)

(* To the cloud goes a write that is no whole, fenced first if it must be. *)
LEMMA GoesCloudward ==
    ASSUME NEW q, OnPlan(q), q.todo # <<>>, ~Head(q.todo).whole, owner = "pat", NEW x, x = Cloudward(q)
    PROVE  Moving(x)
<1>1. PICK p \in {"fence", "cloud"} : p = IF Restates(Head(q.todo)) THEN "fence" ELSE "cloud"
  OBVIOUS
<1>2. x = [pc |-> p, do |-> q.do, todo |-> q.todo, fenced |-> FALSE, tries |-> q.tries,
           went |-> q.went]
  BY <1>1 DEF Cloudward, OnPlan, IsCall
<1>3. OnPlan(x) /\ x.pc = p /\ x.todo = q.todo
  BY <1>2, OnPlanElsewhere
<1> QED
  BY <1>1, <1>3 DEF Moving, Turn

(* The next write is tried where it may be, or the call ends.              *)
LEMMA Proceeds ==
    ASSUME NEW q, OnPlan(q), NEW x, x = Proceed(q)
    PROVE  Moving(x)
<1>1. CASE q.todo = <<>>
  <2>1. x = [q EXCEPT !.pc = "done"]
    BY <1>1 DEF Proceed
  <2>2. OnPlan(x) /\ x.pc = "done" /\ x.todo = <<>>
    BY <1>1, <2>1, OnPlanAt
  <2> QED
    BY <2>2 DEF Moving, Turn
<1>2. CASE q.todo # <<>> /\ Head(q.todo).frame # "none"
  <2>1. x = [q EXCEPT !.pc = "router"]
    BY <1>2 DEF Proceed
  <2>2. OnPlan(x) /\ x.pc = "router" /\ x.todo = q.todo
    BY <2>1, OnPlanAt
  <2> QED
    BY <1>2, <2>2 DEF Moving, Turn
<1>3. CASE q.todo # <<>> /\ Head(q.todo).frame = "none"
  <2>1. OneLeft(q) \/ TwoLeft(q)
    <3>1. ~NothingLeft(q)
      BY <1>3 DEF NothingLeft
    <3>2. ~ThreeLeft(q)
      BY <1>3, ThreeOf DEF ThreeLeft
    <3> QED
      BY <3>1, <3>2 DEF OnPlan, Planned
  <2>2. ~Head(q.todo).whole /\ q.do # "swing"
    BY <1>3, <2>1, OneOf, TwoOf DEF OneLeft, TwoLeft, Single
  <2>3. CASE owner = "pat"
    <3>1. x = Cloudward(q)
      BY <1>3, <2>3 DEF Proceed
    <3> QED
      BY <1>3, <2>2, <2>3, <3>1, GoesCloudward
  <2>4. CASE owner # "pat"
    <3>1. x = [q EXCEPT !.pc = "done", !.todo = <<>>]
      BY <1>3, <2>4 DEF Proceed
    <3>2. x = [pc |-> "done", do |-> q.do, todo |-> <<>>, fenced |-> q.fenced, tries |-> q.tries,
               went |-> q.went]
      BY <3>1 DEF OnPlan, IsCall
    <3>3. IsCall(x) /\ x.todo = <<>> /\ x.went = q.went /\ x.do = q.do /\ x.tries = q.tries
          /\ x.pc = "done"
      BY <3>2 DEF IsCall
    <3>4. NothingLeft(x)
      BY <2>1, <3>3 DEF OneLeft, TwoLeft, NothingLeft
    <3> QED
      BY <2>2, <3>3, <3>4 DEF Moving, Turn, OnPlan, Planned, Tried
  <2> QED
    BY <2>3, <2>4
<1> QED
  BY <1>1, <1>2, <1>3

(* After a write that was not sent.                                        *)
LEMMA RestUnsent ==
    ASSUME NEW q, OnPlan(q), q.todo # <<>>, NEW t, NEW n,
           \/ t = <<>> /\ q.do # "swing" /\ n = q.tries + 1
           \/ t = Tail(q.todo) /\ n = q.tries + 1
           \/ t = Tail(q.todo) /\ q.do # "swing" /\ n = q.tries,
           NEW y, y = [pc |-> q.pc, do |-> q.do, todo |-> t, fenced |-> q.fenced, tries |-> n,
                       went |-> q.went]
    PROVE  OnPlan(y)
<1>1. /\ y.pc = q.pc /\ y.do = q.do /\ y.todo = t /\ y.fenced = q.fenced /\ y.tries = n
      /\ y.went = q.went
  OBVIOUS
<1>2. IsCall(y)
  BY <1>1 DEF IsCall
<1>3. t = <<>> \/ t = Tail(q.todo)
  OBVIOUS
<1>4. ~NothingLeft(q)
  BY DEF NothingLeft
<1>5. CASE OneLeft(q)
  <2>1. PICK w : q.todo = <<w>>
    BY <1>5 DEF OneLeft
  <2>2. t = <<>> /\ Len(q.todo) = 1
    BY <1>3, <2>1, OneOf
  <2>3. NothingLeft(y)
    BY <1>1, <1>5, <2>2 DEF OneLeft, NothingLeft
  <2>4. Tried(y)
    BY <1>1, <2>1, <2>2, OneOf DEF OnPlan, Tried
  <2> QED
    BY <1>1, <1>2, <2>3, <2>4 DEF OnPlan, Planned
<1>6. CASE TwoLeft(q)
  <2>1. PICK w, v : /\ q.todo = <<w, v>> /\ q.went = <<>> /\ Single(v)
                    /\ q.do = "swing" => v.frame = "flag"
    BY <1>6 DEF TwoLeft
  <2>2. Tail(q.todo) = <<v>> /\ Len(q.todo) = 2 /\ Len(<<v>>) = 1
    BY <2>1, OneOf, TwoOf
  <2>3. NothingLeft(y) \/ OneLeft(y)
    <3>1. CASE t = <<>>
      BY <1>1, <2>1, <3>1 DEF NothingLeft
    <3>2. CASE t = <<v>>
      BY <1>1, <2>1, <3>2 DEF OneLeft
    <3> QED
      BY <1>3, <2>2, <3>1, <3>2
  <2>4. Tried(y)
    <3>1. y.tries \in Nat
      BY <1>1 DEF OnPlan, Tried
    <3>2. ASSUME q.do = "swing" PROVE Len(y.todo) + y.tries = 2 \/ (y.todo = <<>> /\ y.tries = 0)
      <4>1. t = <<v>> /\ n = q.tries + 1
        BY <2>2, <3>2
      <4>2. q.tries \in Nat /\ Len(q.todo) + q.tries = 2
        BY <2>1, <3>2, TwoOf DEF OnPlan, Tried
      <4> QED
        BY <1>1, <2>2, <4>1, <4>2
    <3> QED
      BY <1>1, <3>1, <3>2 DEF Tried
  <2> QED
    BY <1>1, <1>2, <2>3, <2>4 DEF OnPlan, Planned
<1>7. CASE ThreeLeft(q)
  <2>1. PICK w, v, u : /\ q.todo = <<w, v, u>> /\ q.went = <<>> /\ q.do # "swing"
                       /\ Single(v) /\ Single(u) /\ Apart(v, u) /\ v.frame = "none" /\ u.frame = "none"
    BY <1>7 DEF ThreeLeft
  <2>2. Tail(q.todo) = <<v, u>>
    BY <2>1, ThreeOf
  <2>3. NothingLeft(y) \/ TwoLeft(y)
    <3>1. CASE t = <<>>
      BY <1>1, <2>1, <3>1 DEF NothingLeft
    <3>2. CASE t = <<v, u>>
      BY <1>1, <2>1, <3>2 DEF TwoLeft
    <3> QED
      BY <1>3, <2>2, <3>1, <3>2
  <2>4. Tried(y)
    BY <1>1, <2>1 DEF OnPlan, Tried
  <2> QED
    BY <1>1, <1>2, <2>3, <2>4 DEF OnPlan, Planned
<1> QED
  BY <1>4, <1>5, <1>6, <1>7 DEF OnPlan, Planned

(* After a write that went out.                                            *)
LEMMA RestSent ==
    ASSUME NEW q, OnPlan(q), q.todo # <<>>, NEW t,
           \/ t = <<>> /\ (q.do # "swing" \/ Head(q.todo).whole)
           \/ t = Tail(q.todo) /\ (q.do = "swing" \/ ~Head(q.todo).whole),
           NEW g, WentRight(g), g.asks = Head(q.todo).asks, Head(q.todo).frame = "none" => g.by = "cloud",
           NEW n, n = q.tries + 1,
           NEW y, y = [pc |-> q.pc, do |-> q.do, todo |-> t, fenced |-> q.fenced, tries |-> n,
                       went |-> Append(q.went, g)]
    PROVE  OnPlan(y)
<1>1. /\ y.pc = q.pc /\ y.do = q.do /\ y.todo = t /\ y.fenced = q.fenced /\ y.tries = n
      /\ y.went = Append(q.went, g)
  OBVIOUS
<1>2. IsCall(y)
  BY <1>1 DEF IsCall
<1>3. t = <<>> \/ t = Tail(q.todo)
  OBVIOUS
<1>4. ~NothingLeft(q)
  BY DEF NothingLeft
<1>5. CASE OneLeft(q)
  <2>1. PICK w : /\ q.todo = <<w>>
                 /\ \/ q.went = <<>>
                    \/ \E h : /\ q.went = <<h>> /\ WentRight(h) /\ Apart(h, w)
                              /\ q.do = "swing" \/ (w.frame = "none" /\ h.by = "cloud")
    BY <1>5 DEF OneLeft
  <2>2. t = <<>> /\ Head(q.todo) = w
    BY <1>3, <2>1, OneOf
  <2>3. NothingLeft(y)
    <3>1. CASE q.went = <<>>
      <4>1. y.went = <<g>>
        BY <1>1, <3>1, OneOf
      <4> QED
        BY <1>1, <2>2, <4>1 DEF NothingLeft
    <3>2. ASSUME NEW h, q.went = <<h>>, WentRight(h), Apart(h, w),
                 q.do = "swing" \/ (w.frame = "none" /\ h.by = "cloud")
          PROVE  NothingLeft(y)
      <4>1. y.went = <<h, g>>
        BY <1>1, <3>2, TwoOf
      <4>2. Apart(h, g)
        BY <2>2, <3>2 DEF Apart
      <4>3. q.do = "swing" \/ h.by = g.by
        BY <2>2, <3>2
      <4> QED
        BY <1>1, <2>2, <3>2, <4>1, <4>2, <4>3 DEF NothingLeft
    <3> QED
      BY <2>1, <3>1, <3>2
  <2>4. Tried(y)
    BY <1>1, <2>1, <2>2, OneOf DEF OnPlan, Tried
  <2> QED
    BY <1>1, <1>2, <2>3, <2>4 DEF OnPlan, Planned
<1>6. CASE TwoLeft(q)
  <2>1. PICK w, v : /\ q.todo = <<w, v>> /\ q.went = <<>> /\ Single(v) /\ Apart(w, v)
                    /\ IF q.do = "swing" THEN v.frame = "flag" ELSE w.frame = "none" /\ v.frame = "none"
    BY <1>6 DEF TwoLeft
  <2>2. Tail(q.todo) = <<v>> /\ Len(q.todo) = 2 /\ Len(<<v>>) = 1 /\ Head(q.todo) = w
    BY <2>1, OneOf, TwoOf
  <2>3. y.went = <<g>>
    BY <1>1, <2>1, OneOf
  <2>4. Apart(g, v)
    BY <2>1, <2>2 DEF Apart
  <2>5. NothingLeft(y) \/ OneLeft(y)
    <3>1. CASE t = <<>>
      BY <1>1, <2>3, <3>1 DEF NothingLeft
    <3>2. CASE t = <<v>>
      <4>1. y.do = "swing" \/ (v.frame = "none" /\ g.by = "cloud")
        BY <1>1, <2>1, <2>2
      <4>2. y.do = "swing" => v.frame = "flag"
        BY <1>1, <2>1
      <4>3. y.todo = <<v>>
        BY <1>1, <3>2
      <4> QED
        BY <2>1, <2>3, <2>4, <4>1, <4>2, <4>3 DEF OneLeft
    <3> QED
      BY <1>3, <2>2, <3>1, <3>2
  <2>6. Tried(y)
    <3>1. y.tries \in Nat
      BY <1>1 DEF OnPlan, Tried
    <3>2. ASSUME q.do = "swing" PROVE Len(y.todo) + y.tries = 2 \/ (y.todo = <<>> /\ y.tries = 0)
      <4>1. t = <<v>>
        <5>1. ~w.whole
          BY <1>6, <2>1, TwoOf DEF TwoLeft, Single
        <5> QED
          BY <2>2, <3>2, <5>1
      <4>2. q.tries \in Nat /\ Len(q.todo) + q.tries = 2
        BY <2>1, <3>2, TwoOf DEF OnPlan, Tried
      <4> QED
        BY <1>1, <2>2, <4>1, <4>2
    <3> QED
      BY <1>1, <3>1, <3>2 DEF Tried
  <2> QED
    BY <1>1, <1>2, <2>5, <2>6 DEF OnPlan, Planned
<1>7. CASE ThreeLeft(q)
  <2>1. PICK w, v, u : q.todo = <<w, v, u>> /\ q.went = <<>> /\ q.do # "swing" /\ w.whole
    BY <1>7 DEF ThreeLeft
  <2>2. t = <<>>
    BY <2>1, ThreeOf
  <2>3. y.went = <<g>>
    BY <1>1, <2>1, OneOf
  <2>4. NothingLeft(y)
    BY <1>1, <2>2, <2>3 DEF NothingLeft
  <2>5. Tried(y)
    BY <1>1, <2>1 DEF OnPlan, Tried
  <2> QED
    BY <1>1, <1>2, <2>4, <2>5 DEF OnPlan, Planned
<1> QED
  BY <1>4, <1>5, <1>6, <1>7 DEF OnPlan, Planned

(* What the router declines is tried by the cloud, or it is over.          *)
LEMMA DeclinedMoves ==
    ASSUME NEW q, Moving(q), q.pc = "router", NEW x, x = Declined(q)
    PROVE  Moving(x)
<1>1. OnPlan(q) /\ q.todo # <<>>
  BY DEF Moving, Turn
<1>2. CASE owner # "pat"
  <2>1. PICK t, n : t = (IF q.do = "swing" THEN Tail(q.todo) ELSE <<>>) /\ n = q.tries + 1
    OBVIOUS
  <2>2. PICK y : y = [q EXCEPT !.tries = n, !.todo = t]
    OBVIOUS
  <2>3. y = [pc |-> q.pc, do |-> q.do, todo |-> t, fenced |-> q.fenced, tries |-> n,
             went |-> q.went]
    BY <1>1, <2>2 DEF OnPlan, IsCall
  <2>4. x = Proceed(y)
    BY <1>2, <2>1, <2>2 DEF Declined, FailedWrite, Proceed, Cloudward
  <2>5. OnPlan(y)
    BY <1>1, <2>1, <2>3, RestUnsent
  <2> QED
    BY <2>4, <2>5, Proceeds
<1>3. CASE owner = "pat" /\ Head(q.todo).whole
  <2>1. q.do # "swing"
    <3>1. CASE OneLeft(q)
      BY <1>3, <3>1, OneOf DEF OneLeft, Single
    <3>2. CASE TwoLeft(q)
      BY <1>3, <3>2, TwoOf DEF TwoLeft, Single
    <3>3. CASE ThreeLeft(q)
      BY <3>3 DEF ThreeLeft
    <3>4. ~NothingLeft(q)
      BY <1>1 DEF NothingLeft
    <3> QED
      BY <1>1, <3>1, <3>2, <3>3, <3>4 DEF OnPlan, Planned
  <2>2. PICK y : y = [q EXCEPT !.todo = Tail(q.todo)]
    OBVIOUS
  <2>3. y = [pc |-> q.pc, do |-> q.do, todo |-> Tail(q.todo), fenced |-> q.fenced, tries |-> q.tries,
             went |-> q.went]
    BY <1>1, <2>2 DEF OnPlan, IsCall
  <2>4. x = Proceed(y)
    BY <1>3, <2>2 DEF Declined, Proceed, Cloudward
  <2>5. OnPlan(y)
    BY <1>1, <2>1, <2>3, RestUnsent
  <2> QED
    BY <2>4, <2>5, Proceeds
<1>4. CASE owner = "pat" /\ ~Head(q.todo).whole
  <2>1. x = Cloudward(q)
    BY <1>4 DEF Declined
  <2> QED
    BY <1>1, <1>4, <2>1, GoesCloudward
<1> QED
  BY <1>2, <1>3, <1>4

(* What was sent is not sent again, whatever is heard of it.               *)
LEMMA SentMoves ==
    ASSUME NEW q, Moving(q), NEW by, <<q.pc, by>> \in {<<"router", "local">>, <<"cloud", "cloud">>},
           NEW x, x = Served(Went(q, by)) \/ x = FailedWrite(Went(q, by))
    PROVE  Moving(x)
<1>1. OnPlan(q) /\ q.todo # <<>> /\ (Head(q.todo).frame = "none" => by = "cloud")
  BY DEF Moving, Turn
<1>2. PICK g : g = [by |-> by, asks |-> Head(q.todo).asks, fenced |-> q.fenced]
  OBVIOUS
<1>3. WentRight(g)
  <2>1. CASE by = "local"
    BY <1>2, <2>1 DEF WentRight
  <2>2. CASE by = "cloud"
    <3>1. q.pc = "cloud"
      BY <2>2
    <3>2. owner = "pat" /\ ~Head(q.todo).whole /\ (Restates(Head(q.todo)) => q.fenced)
      BY <3>1 DEF Moving, Turn
    <3>3. OneLeft(q) \/ TwoLeft(q)
      <4>1. ~NothingLeft(q)
        BY <1>1 DEF NothingLeft
      <4>2. ~ThreeLeft(q)
        BY <3>2, ThreeOf DEF ThreeLeft
      <4> QED
        BY <1>1, <4>1, <4>2 DEF OnPlan, Planned
    <3>4. PICK w : w = Head(q.todo) /\ Single(w)
      BY <3>3, OneOf, TwoOf DEF OneLeft, TwoLeft
    <3>5. SettlesTuple(w.asks) => q.fenced
      BY <3>2, <3>4 DEF Single
    <3>6. g.asks = w.asks /\ g.fenced = q.fenced
      BY <1>2, <3>4
    <3> QED
      BY <3>2, <3>5, <3>6 DEF WentRight
  <2> QED
    BY <2>1, <2>2
<1>4. g.asks = Head(q.todo).asks /\ (Head(q.todo).frame = "none" => g.by = "cloud")
  BY <1>1, <1>2
<1>5. PICK z : z = Went(q, by)
  OBVIOUS
<1>6. z = [pc |-> q.pc, do |-> q.do, todo |-> q.todo, fenced |-> q.fenced, tries |-> q.tries,
           went |-> Append(q.went, g)]
  BY <1>1, <1>2, <1>5 DEF Went, OnPlan, IsCall
<1>7. CASE x = Served(z)
  <2>1. PICK t, n : t = (IF Head(q.todo).whole THEN <<>> ELSE Tail(q.todo)) /\ n = q.tries + 1
    OBVIOUS
  <2>2. PICK y : y = [z EXCEPT !.tries = n, !.todo = t]
    OBVIOUS
  <2>3. y = [pc |-> q.pc, do |-> q.do, todo |-> t, fenced |-> q.fenced, tries |-> n,
             went |-> Append(q.went, g)]
    BY <1>6, <2>2
  <2>4. x = Proceed(y)
    BY <1>6, <1>7, <2>1, <2>2 DEF Served, Proceed, Cloudward
  <2>5. OnPlan(y)
    BY <1>1, <1>3, <1>4, <2>1, <2>3, RestSent
  <2> QED
    BY <2>4, <2>5, Proceeds
<1>8. CASE x = FailedWrite(z)
  <2>1. PICK t, n : t = (IF q.do = "swing" THEN Tail(q.todo) ELSE <<>>) /\ n = q.tries + 1
    OBVIOUS
  <2>2. PICK y : y = [z EXCEPT !.tries = n, !.todo = t]
    OBVIOUS
  <2>3. y = [pc |-> q.pc, do |-> q.do, todo |-> t, fenced |-> q.fenced, tries |-> n,
             went |-> Append(q.went, g)]
    BY <1>6, <2>2
  <2>4. x = Proceed(y)
    BY <1>6, <1>8, <2>1, <2>2 DEF FailedWrite, Proceed, Cloudward
  <2>5. OnPlan(y)
    BY <1>1, <1>3, <1>4, <2>1, <2>3, RestSent
  <2> QED
    BY <2>4, <2>5, Proceeds
<1> QED
  BY <1>5, <1>7, <1>8

(* The router is told, and the cloud asked.                                *)
LEMMA FencedMoves ==
    ASSUME NEW q, Moving(q), q.pc = "fence", NEW x, x = [q EXCEPT !.pc = "cloud", !.fenced = TRUE]
    PROVE  Moving(x)
<1>1. OnPlan(q) /\ q.todo # <<>> /\ owner = "pat" /\ ~Head(q.todo).whole
  BY DEF Moving, Turn
<1>2. x = [pc |-> "cloud", do |-> q.do, todo |-> q.todo, fenced |-> TRUE, tries |-> q.tries,
           went |-> q.went]
  BY <1>1 DEF OnPlan, IsCall
<1>3. OnPlan(x) /\ x.pc = "cloud" /\ x.fenced = TRUE /\ x.todo = q.todo
  BY <1>1, <1>2, OnPlanElsewhere
<1> QED
  BY <1>1, <1>3 DEF Moving, Turn

(* A whole before the two writes it stands for.                           *)
LEMMA JoinedTo == ASSUME NEW w, NEW v, NEW u PROVE  <<w>> \o <<v, u>> = <<w, v, u>>
<1>1. PICK s : s = <<w>> \o <<v, u>>
  OBVIOUS
<1>2. <<w>> \in Seq({w, v, u}) /\ Len(<<w>>) = 1 /\ <<v, u>> \in Seq({w, v, u}) /\ Len(<<v, u>>) = 2
  OBVIOUS
<1>3. s \in Seq({w, v, u}) /\ Len(s) = 3 /\ s[1] = w /\ s[2] = v /\ s[3] = u
  BY <1>1, <1>2
<1>4. s \in [1 .. 3 -> {w, v, u}] /\ <<w, v, u>> \in [1 .. 3 -> {w, v, u}]
  BY <1>3
<1>5. \A i \in 1 .. 3 : s[i] = <<w, v, u>>[i]
  BY <1>3
<1>6. s = <<w, v, u>>
  BY <1>4, <1>5
<1> QED
  BY <1>1, <1>6

(* What a call may set out to write.                                       *)
Plan(d, t) ==
    \/ t = <<>>
    \/ \E w : t = <<w>> /\ Single(w) /\ d # "swing"
    \/ \E w, v : /\ t = <<w, v>> /\ Single(w) /\ Single(v) /\ Apart(w, v)
                 /\ IF d = "swing" THEN w.frame = "flag" /\ v.frame = "flag"
                    ELSE w.frame = "none" /\ v.frame = "none"
    \/ \E w, v, u : /\ t = <<w, v, u>> /\ d # "swing" /\ w.whole /\ w.frame = "on"
                    /\ Single(v) /\ Single(u) /\ Apart(v, u) /\ v.frame = "none" /\ u.frame = "none"

(* A call that has its plan and has written nothing.                       *)
LEMMA PlanIsFresh ==
    ASSUME NEW d, NEW t, Plan(d, t), NEW x,
           x = [pc |-> "idle", do |-> d, todo |-> t, fenced |-> FALSE, tries |-> 0,
                went |-> <<>>]
    PROVE  OnPlan(x)
<1>1. /\ x.do = d /\ x.todo = t /\ x.tries = 0 /\ x.went = <<>>
  OBVIOUS
<1>2. IsCall(x)
  BY DEF IsCall
<1>3. CASE t = <<>>
  BY <1>1, <1>2, <1>3 DEF OnPlan, Planned, NothingLeft, Tried
<1>4. ASSUME NEW w, t = <<w>>, Single(w), d # "swing" PROVE OnPlan(x)
  <2>1. OneLeft(x)
    BY <1>1, <1>4 DEF OneLeft
  <2> QED
    BY <1>1, <1>2, <1>4, <2>1 DEF OnPlan, Planned, Tried
<1>5. ASSUME NEW w, NEW v, t = <<w, v>>, Single(w), Single(v), Apart(w, v),
             IF d = "swing" THEN w.frame = "flag" /\ v.frame = "flag"
             ELSE w.frame = "none" /\ v.frame = "none"
      PROVE  OnPlan(x)
  <2>1. TwoLeft(x)
    BY <1>1, <1>5 DEF TwoLeft
  <2>2. Len(t) = 2
    BY <1>5, TwoOf
  <2> QED
    BY <1>1, <1>2, <2>1, <2>2 DEF OnPlan, Planned, Tried
<1>6. ASSUME NEW w, NEW v, NEW u, t = <<w, v, u>>, d # "swing", w.whole, w.frame = "on",
             Single(v), Single(u), Apart(v, u), v.frame = "none", u.frame = "none"
      PROVE  OnPlan(x)
  <2>1. ThreeLeft(x)
    BY <1>1, <1>6 DEF ThreeLeft
  <2> QED
    BY <1>1, <1>2, <1>6, <2>1 DEF OnPlan, Planned, Tried
<1> QED
  BY <1>3, <1>4, <1>5, <1>6 DEF Plan

(* Every write but the whole may go to the cloud.                          *)
LEMMA SingleWrites ==
    ASSUME NEW v, NEW fr
    PROVE  /\ fr # "flag" => /\ Single(Write(Ask("mode", v), fr)) /\ Single(Write(Ask("target", v), fr))
                             /\ Single(Write(Ask("fan", v), fr)) /\ Single(Write(Ask("power", "on"), fr))
           /\ Single(Write(Ask("power", "off"), fr)) /\ Single(Write(Both(v), "on"))
           /\ Single(Write(Ask("lr", v), fr)) /\ Single(Write(Ask("ud", v), fr))
<1>1. fr # "flag" => Single(Write(Ask("mode", v), fr))
  BY DEF Single, Write, Ask, SettlesTuple, Restates
<1>2. fr # "flag" => Single(Write(Ask("target", v), fr))
  BY DEF Single, Write, Ask, SettlesTuple, Restates
<1>3. fr # "flag" => Single(Write(Ask("fan", v), fr))
  BY DEF Single, Write, Ask, SettlesTuple, Restates
<1>4. fr # "flag" => Single(Write(Ask("power", "on"), fr))
  BY DEF Single, Write, Ask, SettlesTuple, Restates
<1>5. Single(Write(Ask("power", "off"), fr))
  BY DEF Single, Write, Ask, SettlesTuple, Restates
<1>6. Single(Write(Both(v), "on"))
  BY DEF Single, Write, Both, SettlesTuple, Restates
<1>7. Single(Write(Ask("lr", v), fr)) /\ Single(Write(Ask("ud", v), fr))
  BY DEF Single, Write, Ask, SettlesTuple, Restates
<1> QED
  BY <1>1, <1>2, <1>3, <1>4, <1>5, <1>6, <1>7

(* So may a temperature with the mode to come.                             *)
LEMMA ReachWrites ==
    ASSUME NEW m, NEW v
    PROVE  Single(Write(ReachOn(m, v), "on")) /\ Single(Write(Reach(m, v), "tuple"))
<1>1. Single(Write(ReachOn(m, v), "on"))
  <2>1. PICK w : w = Write(ReachOn(m, v), "on")
    OBVIOUS
  <2>2. ~w.whole /\ w.frame = "on" /\ w.asks["power"] = "on"
    BY <2>1 DEF Write, ReachOn
  <2> QED
    BY <2>1, <2>2 DEF Single, Restates
<1>2. Single(Write(Reach(m, v), "tuple"))
  BY DEF Single, Write, Reach, SettlesTuple, Restates
<1> QED
  BY <1>1, <1>2

(* A swing is two flags, whoever owns the appliance.                       *)
LEMMA SwingIsPlan == ASSUME NEW s PROVE Plan("swing", SwingWrites(s))
<1>1. PICK a, b : a = (IF s \in {"lr", "both"} THEN "on" ELSE "off") /\ b = (IF s \in {"ud", "both"} THEN "on" ELSE "off")
  OBVIOUS
<1>2. PICK w, v : w = Write(Ask("lr", a), "flag") /\ v = Write(Ask("ud", b), "flag")
  OBVIOUS
<1>3. SwingWrites(s) = <<w, v>>
  BY <1>1, <1>2 DEF SwingWrites
<1>4. Single(w) /\ Single(v)
  BY <1>2, SingleWrites
<1>5. w.frame = "flag" /\ v.frame = "flag" /\ Apart(w, v)
  BY <1>2 DEF Write, Ask, Apart
<1> QED
  BY <1>3, <1>4, <1>5 DEF Plan

(* Every other ask of the native entity is one frame (NativeWrites).       *)
LEMMA NativePlan ==
    ASSUME NEW a, a.do \in {"on", "off", "mode", "target", "reach", "fan", "swing"}, NEW p
    PROVE  Plan(a.do, NativeWrites(a, p))
<1>1. CASE a.do = "swing"
  BY <1>1, SwingIsPlan DEF NativeWrites
<1>2. CASE a.do # "swing"
  <2>1. PICK w : NativeWrites(a, p) = <<w>> /\ Single(w)
    <3>1. CASE a.do \in {"on", "off", "target", "fan"}
      BY <3>1, SingleWrites DEF NativeWrites
    <3>2. CASE a.do = "mode"
      <4>1. PICK w : w = IF p = "off" THEN Write(Both(a.to), "on") ELSE Write(Ask("mode", a.to), "tuple")
        OBVIOUS
      <4>2. Single(w)
        BY <4>1, SingleWrites
      <4>3. NativeWrites(a, p) = <<w>>
        BY <3>2, <4>1 DEF NativeWrites
      <4> QED
        BY <4>2, <4>3
    <3>3. CASE a.do = "reach"
      <4>1. PICK m, v : m = a.to[1] /\ v = a.to[2]
        OBVIOUS
      <4>2. PICK w : w = IF p = "off" THEN Write(ReachOn(m, v), "on") ELSE Write(Reach(m, v), "tuple")
        OBVIOUS
      <4>3. Single(w)
        BY <4>2, ReachWrites
      <4>4. NativeWrites(a, p) = <<w>>
        BY <3>3, <4>1, <4>2 DEF NativeWrites
      <4> QED
        BY <4>3, <4>4
    <3> QED
      BY <1>2, <3>1, <3>2, <3>3
  <2> QED
    BY <1>2, <2>1 DEF Plan
<1> QED
  BY <1>1, <1>2

(* So is the comfort step (ComfortWrites).                                 *)
LEMMA ComfortPlan == ASSUME NEW p PROVE Plan("comfort", ComfortWrites(p))
<1>1. PICK w : w = IF p = "off" THEN Write(Both("auto"), "on") ELSE Write(Ask("mode", "auto"), "tuple")
  OBVIOUS
<1>2. Single(w)
  BY <1>1, SingleWrites
<1>3. ComfortWrites(p) = <<w>>
  BY <1>1 DEF ComfortWrites
<1> QED
  BY <1>2, <1>3 DEF Plan

(* A mode for an appliance that is off or on.                              *)
LEMMA ModePlan == ASSUME NEW m PROVE Plan("mode", ModeWrites(m))
<1>1. PICK fr : fr = (IF m \in Worded THEN "tuple" ELSE "none") /\ fr # "flag"
  OBVIOUS
<1>2. PICK v, u, w, on : /\ v = Write(Ask("power", "on"), "none") /\ u = Write(Ask("mode", m), "none")
                         /\ w = [Write(Both(m), "on") EXCEPT !.whole = TRUE]
                         /\ on = Write(Ask("mode", m), fr)
  OBVIOUS
<1>3. Single(v) /\ Single(u) /\ Single(on)
  BY <1>1, <1>2, SingleWrites
<1>4. w.whole /\ w.frame = "on" /\ v.frame = "none" /\ u.frame = "none" /\ Apart(v, u)
  BY <1>2 DEF Write, Ask, Apart
<1>5. CASE PowerRead = "on"
  <2>1. ModeWrites(m) = <<on>>
    BY <1>1, <1>2, <1>5 DEF ModeWrites
  <2> QED
    BY <1>3, <2>1 DEF Plan
<1>6. CASE PowerRead # "on"
  <2>1. CASE m \in Worded
    <3>1. ModeWrites(m) = <<w>> \o <<v, u>>
      BY <1>2, <1>6, <2>1 DEF ModeWrites
    <3>2. ModeWrites(m) = <<w, v, u>>
      BY <3>1, JoinedTo
    <3> QED
      BY <1>3, <1>4, <3>2 DEF Plan
  <2>2. CASE m \notin Worded
    <3>1. ModeWrites(m) = <<>> \o <<v, u>>
      BY <1>2, <1>6, <2>2 DEF ModeWrites
    <3>2. ModeWrites(m) = <<v, u>>
      BY <3>1
    <3> QED
      BY <1>3, <1>4, <3>2 DEF Plan
  <2> QED
    BY <2>1, <2>2
<1> QED
  BY <1>5, <1>6

(* What the other entities set out to write (Writes).                      *)
LEMMA PatPlan ==
    ASSUME NEW a, a.do \in {"on", "off", "mode", "target", "reach", "fan", "swing"}
    PROVE  Plan(a.do, Writes(a))
<1>1. CASE a.do = "swing"
  BY <1>1, SwingIsPlan DEF Writes
<1>2. CASE a.do = "mode"
  <2>1. PICK t : t = Writes(a)
    OBVIOUS
  <2>2. PICK m : m = a.to
    OBVIOUS
  <2>3. t = ModeWrites(m)
    BY <1>2, <2>1, <2>2 DEF Writes, ModeWrites
  <2>4. Plan("mode", t)
    BY <2>3, ModePlan
  <2> QED
    BY <1>2, <2>1, <2>4
<1>3. CASE a.do \in {"on", "off", "target", "reach", "fan"}
  <2>1. PICK w : Writes(a) = <<w>> /\ Single(w)
    <3>1. CASE a.do \in {"on", "off", "target", "reach"}
      BY <3>1, SingleWrites DEF Writes
    <3>2. CASE a.do = "fan"
      <4>1. PICK fr : fr = (IF a.to \in Worded THEN "tuple" ELSE "none") /\ fr # "flag"
        OBVIOUS
      <4>2. Writes(a) = <<Write(Ask("fan", a.to), fr)>>
        BY <3>2, <4>1 DEF Writes
      <4> QED
        BY <4>1, <4>2, SingleWrites
    <3> QED
      BY <1>3, <3>1, <3>2
  <2> QED
    BY <1>3, <2>1 DEF Plan
<1> QED
  BY <1>1, <1>2, <1>3

(* A call that waits for the lock has made no plan yet.                    *)
WaitsWith(q, a) ==
    q = [pc |-> "waiting", do |-> a.do, todo |-> <<a>>, fenced |-> FALSE, tries |-> 0,
         went |-> <<>>]
CallOk(q) ==
    \/ q = Unmade
    \/ \E a \in Asks : a.do # "comfort" /\ WaitsWith(q, a)
    \/ Moving(q)
CallsInv(cs) == cs = [c \in ServiceCalls |-> cs[c]] /\ \A c \in ServiceCalls : CallOk(cs[c])

(* Nobody else takes the appliance.                                        *)
LEMMA CallsInvCarries ==
    ASSUME NEW cs, CallsInv(cs), owner' = owner, call' = cs
    PROVE  CallsInv(call)'
<1>1. \A q : Moving(q) <=> Moving(q)'
  BY DEF Moving, Turn, OnPlan, Planned, NothingLeft, OneLeft, TwoLeft, ThreeLeft, WentRight
<1>2. \A c \in ServiceCalls : CallOk(cs[c])'
  BY <1>1 DEF CallsInv, CallOk
<1>3. \A c \in ServiceCalls : CallOk(call[c])'
  BY <1>2 DEF CallOk, Moving, Turn, OnPlan, Planned, NothingLeft, OneLeft, TwoLeft, ThreeLeft, WentRight
<1>4. call' = [c \in ServiceCalls |-> call'[c]]
  BY DEF CallsInv
<1> QED
  BY <1>3, <1>4 DEF CallsInv

(* One call in another sound place.                                        *)
LEMMA CallsInvExcept ==
    ASSUME NEW cs, CallsInv(cs), NEW c \in ServiceCalls, NEW x, CallOk(x)
    PROVE  CallsInv([cs EXCEPT ![c] = x])
<1>1. PICK ds : ds = [cs EXCEPT ![c] = x]
  OBVIOUS
<1>2. cs = [d \in ServiceCalls |-> cs[d]]
  BY DEF CallsInv
<1>3. ds = [d \in ServiceCalls |-> IF d = c THEN x ELSE cs[d]]
  BY <1>1, <1>2
<1>4. \A d \in ServiceCalls : CallOk(ds[d])
  <2>1. TAKE d \in ServiceCalls
  <2>2. CASE d = c
    BY <1>3, <2>2
  <2>3. CASE d # c
    <3>1. ds[d] = cs[d] /\ CallOk(cs[d])
      BY <1>3, <2>3 DEF CallsInv
    <3> QED
      BY <3>1
  <2> QED
    BY <2>2, <2>3
<1>5. ds = [d \in ServiceCalls |-> ds[d]]
  BY <1>3
<1>6. CallsInv(ds)
  BY <1>4, <1>5 DEF CallsInv
<1> QED
  BY <1>1, <1>6

(* A call that was refused is over.                                        *)
LEMMA RefusedIsOver ==
    ASSUME NEW d, NEW x, x = [Unmade EXCEPT !.pc = "done", !.do = d]
    PROVE  Moving(x)
<1>1. PICK z : z = [pc |-> "done", do |-> d, todo |-> <<>>, fenced |-> FALSE, tries |-> 0, went |-> <<>>]
  OBVIOUS
<1>2. /\ z.pc = "done" /\ z.do = d /\ z.todo = <<>> /\ z.tries = 0 /\ z.went = <<>>
  BY <1>1
<1>3. IsCall(z)
  BY <1>1 DEF IsCall
<1>4. NothingLeft(z)
  BY <1>2 DEF NothingLeft
<1>5. Moving(z)
  BY <1>2, <1>3, <1>4 DEF Moving, Turn, OnPlan, Planned, Tried
<1>6. x = [pc |-> "done", do |-> d, todo |-> <<>>, fenced |-> FALSE, tries |-> 0, went |-> <<>>]
  BY DEF Unmade
<1> QED
  BY <1>1, <1>5, <1>6

(* A call that sets out, at its first write or at its end.                 *)
LEMMA SetsOut ==
    ASSUME NEW d, NEW t, Plan(d, t), NEW x,
           x = Proceed([Unmade EXCEPT !.do = d, !.todo = t])
    PROVE  Moving(x)
<1>1. PICK y : y = [Unmade EXCEPT !.do = d, !.todo = t]
  OBVIOUS
<1>2. y = [pc |-> "idle", do |-> d, todo |-> t, fenced |-> FALSE, tries |-> 0,
           went |-> <<>>]
  BY <1>1 DEF Unmade
<1>3. OnPlan(y)
  BY <1>2, PlanIsFresh
<1>4. x = Proceed(y)
  BY <1>1
<1> QED
  BY <1>3, <1>4, Proceeds

(* The native entity's call, at the lock.                                  *)
LEMMA EnteredIsOk ==
    ASSUME NEW a \in Asks, a.do # "comfort", NEW p, p = Field(reading, "power"), NEW x, x = Entered(a, p)
    PROVE  Moving(x)
<1>1. a.do \in {"on", "off", "mode", "target", "reach", "fan", "swing"}
  BY ClimateAssumption DEF ClimateAssumption
<1>2. CASE StateAvailable \/ a.do = "swing"
  <2>1. PICK t : t = NativeWrites(a, p)
    OBVIOUS
  <2>2. Plan(a.do, t)
    BY <1>1, <2>1, NativePlan
  <2>3. x = Proceed([Unmade EXCEPT !.do = a.do, !.todo = t])
    BY <1>2, <2>1 DEF Entered
  <2> QED
    BY <2>2, <2>3, SetsOut
<1>3. CASE ~(StateAvailable \/ a.do = "swing")
  <2>1. x = [Unmade EXCEPT !.pc = "done", !.do = a.do]
    BY <1>3 DEF Entered
  <2> QED
    BY <2>1, RefusedIsOver
<1> QED
  BY <1>2, <1>3

(* A step that gives one call its new place keeps all of them.             *)
LEMMA StepHolds ==
    ASSUME CallsInv(call), owner' = owner, NEW c \in ServiceCalls, NEW x, CallOk(x),
           call' = [call EXCEPT ![c] = x]
    PROVE  CallsInv(call)'
<1>1. PICK cs : cs = call
  OBVIOUS
<1>2. PICK ds : ds = [cs EXCEPT ![c] = x]
  OBVIOUS
<1>3. CallsInv(cs)
  BY <1>1 DEF CallsInv, CallOk, Moving, Turn, OnPlan, Planned, NothingLeft, OneLeft, TwoLeft, ThreeLeft, WentRight
<1>4. CallsInv(ds)
  BY <1>2, <1>3, CallsInvExcept
<1>5. call' = ds
  BY <1>1, <1>2
<1> QED
  BY <1>4, <1>5, CallsInvCarries

(* A service call of MyLgClimate.                                          *)
LEMMA CallPatHolds ==
    ASSUME CallsInv(call), NEW c \in ServiceCalls, NEW a \in Asks, CallPat(c, a)
    PROVE  CallsInv(call)'
<1>1. owner' = owner
  BY DEF CallPat
<1>2. CASE Serves(a)
  <2>1. a.do \in {"on", "off", "mode", "target", "reach", "fan", "swing"}
    BY <1>2, ClimateAssumption DEF ClimateAssumption, Serves
  <2>2. PICK t : t = Writes(a)
    OBVIOUS
  <2>3. Plan(a.do, t)
    BY <2>1, <2>2, PatPlan
  <2>4. PICK x : x = Proceed([Unmade EXCEPT !.do = a.do, !.todo = t])
    OBVIOUS
  <2>5. Moving(x)
    BY <2>3, <2>4, SetsOut
  <2>6. call' = [call EXCEPT ![c] = x]
    BY <1>2, <2>2, <2>4 DEF CallPat
  <2> QED
    BY <1>1, <2>5, <2>6, StepHolds DEF CallOk
<1>3. CASE ~Serves(a)
  <2>1. PICK x : x = [Unmade EXCEPT !.pc = "done", !.do = a.do]
    OBVIOUS
  <2>2. Moving(x)
    BY <2>1, RefusedIsOver
  <2>3. call[c].pc = "idle"
    BY DEF CallPat
  <2>4. call[c] = Unmade
    BY <2>3 DEF CallsInv, CallOk, WaitsWith, Moving, Turn
  <2>5. call' = [call EXCEPT ![c] = x]
    BY <1>3, <2>1, <2>4 DEF CallPat
  <2> QED
    BY <1>1, <2>2, <2>5, StepHolds DEF CallOk
<1> QED
  BY <1>2, <1>3

(* A service call of the native entity, at the lock or behind it.          *)
LEMMA CallNativeHolds ==
    ASSUME CallsInv(call), NEW c \in ServiceCalls, NEW a \in Asks, CallNative(c, a)
    PROVE  CallsInv(call)'
<1>1. owner' = owner /\ a.do # "comfort"
  BY DEF CallNative
<1>2. CASE NativeRefuses(a)
  <2>1. PICK x : x = [Unmade EXCEPT !.pc = "done", !.do = a.do]
    OBVIOUS
  <2>2. Moving(x)
    BY <2>1, RefusedIsOver
  <2>3. call' = [call EXCEPT ![c] = x]
    BY <1>2, <2>1 DEF CallNative, Becomes
  <2> QED
    BY <1>1, <2>2, <2>3, StepHolds DEF CallOk
<1>3. CASE ~NativeRefuses(a) /\ queue # <<>>
  <2>2. PICK x : x = [pc |-> "waiting", do |-> a.do, todo |-> <<a>>, fenced |-> FALSE, tries |-> 0,
                      went |-> <<>>]
    OBVIOUS
  <2>3. CallOk(x)
    BY <1>1, <2>2 DEF CallOk, WaitsWith
  <2>4. PICK y : y = Waiting(a)
    OBVIOUS
  <2>5. y = [Unmade EXCEPT !.pc = "waiting", !.do = a.do, !.todo = <<a>>]
    BY <2>4 DEF Waiting
  <2>6. y = [pc |-> "waiting", do |-> a.do, todo |-> <<a>>, fenced |-> FALSE, tries |-> 0,
                      went |-> <<>>]
    BY <2>5 DEF Unmade
  <2>7. call' = [call EXCEPT ![c] = y]
    BY <1>3, <2>4 DEF CallNative
  <2>8. CallOk(y)
    BY <2>2, <2>3, <2>6
  <2> QED
    BY <1>1, <2>7, <2>8, StepHolds
<1>4. CASE ~NativeRefuses(a) /\ queue = <<>>
  <2>1. PICK p : p = Field(reading, "power")
    OBVIOUS
  <2>2. PICK x : x = Entered(a, p)
    OBVIOUS
  <2>3. Moving(x)
    BY <1>1, <2>1, <2>2, EnteredIsOk
  <2>4. call' = [call EXCEPT ![c] = x]
    BY <1>4, <2>1, <2>2 DEF CallNative, Entered, Proceed, Cloudward, NativeWrites, SwingWrites
  <2> QED
    BY <1>1, <2>3, <2>4, StepHolds DEF CallOk
<1> QED
  BY <1>2, <1>3, <1>4

(* The comfort select.                                                     *)
LEMMA CallComfortHolds ==
    ASSUME CallsInv(call), NEW c \in ServiceCalls, NEW a \in Asks, CallComfort(c, a)
    PROVE  CallsInv(call)'
<1>1. owner' = owner /\ a.do = "comfort"
  BY DEF CallComfort
<1>2. CASE StateAvailable
  <2>1. PICK p : p = reading.power
    OBVIOUS
  <2>2. PICK t : t = ComfortWrites(p)
    OBVIOUS
  <2>3. Plan(a.do, t)
    BY <1>1, <2>2, ComfortPlan
  <2>4. PICK x : x = Proceed([Unmade EXCEPT !.do = a.do, !.todo = t])
    OBVIOUS
  <2>5. Moving(x)
    BY <2>3, <2>4, SetsOut
  <2>6. call' = [call EXCEPT ![c] = x]
    BY <1>2, <2>1, <2>2, <2>4 DEF CallComfort, Becomes, ComfortWrites, Proceed, Cloudward
  <2> QED
    BY <1>1, <2>5, <2>6, StepHolds DEF CallOk
<1>3. CASE ~StateAvailable
  <2>1. PICK x : x = [Unmade EXCEPT !.pc = "done", !.do = a.do]
    OBVIOUS
  <2>2. Moving(x)
    BY <2>1, RefusedIsOver
  <2>3. call' = [call EXCEPT ![c] = x]
    BY <1>3, <2>1 DEF CallComfort, Becomes
  <2> QED
    BY <1>1, <2>2, <2>3, StepHolds DEF CallOk
<1> QED
  BY <1>2, <1>3

(* The lock comes to a call, and the power is read again.                  *)
LEMMA AcquireHolds ==
    ASSUME CallsInv(call), NEW c \in ServiceCalls, Acquire(c)
    PROVE  CallsInv(call)'
<1>1. owner' = owner /\ call[c].pc = "waiting"
  BY DEF Acquire
<1>2. PICK q : q = call[c]
  OBVIOUS
<1>3. PICK a \in Asks : a.do # "comfort" /\ q.todo = <<a>>
  BY <1>1, <1>2 DEF CallsInv, CallOk, WaitsWith, Unmade, Moving, Turn
<1>4. Head(q.todo) = a
  BY <1>3, OneOf
<1>5. PICK p : p = Field(reading, "power")
  OBVIOUS
<1>6. PICK x : x = Entered(a, p)
  OBVIOUS
<1>7. Moving(x)
  BY <1>3, <1>5, <1>6, EnteredIsOk
<1>8. Head(call[c].todo) = a
  BY <1>2, <1>4
<1>9. call' = [call EXCEPT ![c] = x]
  <2>1. CASE StateAvailable \/ a.do = "swing"
    <3>1. PICK t : t = NativeWrites(a, p)
      OBVIOUS
    <3>2. t = NativeWrites(Head(call[c].todo), Field(reading, "power"))
      BY <1>5, <1>8, <3>1 DEF NativeWrites, SwingWrites
    <3>3. x = Proceed([Unmade EXCEPT !.do = a.do, !.todo = t])
      BY <1>5, <1>6, <2>1, <3>1 DEF Entered
    <3>4. call' = [call EXCEPT ![c] = Entered(Head(call[c].todo), Field(reading, "power"))]
      BY DEF Acquire, Becomes
    <3>5. call' = [call EXCEPT ![c] = Proceed([Unmade EXCEPT !.do = a.do, !.todo = t])]
      BY <1>5, <1>8, <2>1, <3>2, <3>4 DEF Entered, Proceed, Cloudward
    <3> QED
      BY <3>3, <3>5
  <2>2. CASE ~(StateAvailable \/ a.do = "swing")
    BY <1>5, <1>6, <1>8, <2>2 DEF Acquire, Becomes, Entered
  <2> QED
    BY <2>1, <2>2
<1> QED
  BY <1>1, <1>7, <1>9, StepHolds DEF CallOk

(* Past the lock, a call in one of these places has its plan.              *)
LEMMA PlaceMoves ==
    ASSUME CallsInv(call), NEW c \in ServiceCalls, call[c].pc \in {"router", "fence", "cloud"}, NEW q, q = call[c]
    PROVE  Moving(q)
<1>1. CallOk(q)
  BY DEF CallsInv, CallOk, Moving, Turn, OnPlan, Planned, NothingLeft, OneLeft, TwoLeft, ThreeLeft, WentRight
<1>2. q.pc \in {"router", "fence", "cloud"}
  OBVIOUS
<1>3. q # Unmade
  BY <1>2 DEF Unmade
<1>4. ASSUME NEW a, NEW p, WaitsWith(q, a) PROVE FALSE
  BY <1>2, <1>4 DEF WaitsWith
<1> QED
  BY <1>1, <1>3, <1>4 DEF CallOk

(* The router declines.                                                    *)
LEMMA RouterRefusesHolds ==
    ASSUME CallsInv(call), NEW c \in ServiceCalls, RouterRefuses(c)
    PROVE  CallsInv(call)'
<1>1. owner' = owner /\ call[c].pc = "router"
  BY DEF RouterRefuses
<1>2. PICK q : q = call[c]
  OBVIOUS
<1>3. Moving(q) /\ q.pc = "router"
  BY <1>1, <1>2, PlaceMoves
<1>4. PICK x : x = Declined(q)
  OBVIOUS
<1>5. Moving(x)
  BY <1>3, <1>4, DeclinedMoves
<1>6. call' = [call EXCEPT ![c] = x]
  BY <1>2, <1>4 DEF RouterRefuses, Becomes, Declined, FailedWrite, Proceed, Cloudward
<1> QED
  BY <1>1, <1>5, <1>6, StepHolds DEF CallOk

(* The router sends, whatever it hears.                                    *)
LEMMA RouterSendsHolds ==
    ASSUME CallsInv(call), NEW c \in ServiceCalls, NEW o, RouterSends(c, o)
    PROVE  CallsInv(call)'
<1>1. owner' = owner /\ call[c].pc = "router"
  BY DEF RouterSends
<1>2. PICK q : q = call[c]
  OBVIOUS
<1>3. Moving(q) /\ q.pc = "router"
  BY <1>1, <1>2, PlaceMoves
<1>4. PICK x : x = CASE o = "confirmed" -> Served(Went(q, "local"))
                     [] o = "failed" -> FailedWrite(Went(q, "local"))
                     [] OTHER -> Served(Went(q, "local"))
  OBVIOUS
<1>5. x = Served(Went(q, "local")) \/ x = FailedWrite(Went(q, "local"))
  BY <1>4
<1>6. Moving(x)
  BY <1>3, <1>5, SentMoves
<1>7. PICK z : z = Went(q, "local")
  OBVIOUS
<1>8. z = Went(call[c], "local")
  BY <1>2, <1>7 DEF Went
<1>9. x = IF o = "failed" THEN FailedWrite(z) ELSE Served(z)
  BY <1>4, <1>7 DEF Served, FailedWrite, Proceed, Cloudward
<1>10. call' = [call EXCEPT ![c] = x]
  BY <1>8, <1>9 DEF RouterSends, Becomes, Unknown, Served, FailedWrite, Proceed, Cloudward
<1> QED
  BY <1>1, <1>6, <1>10, StepHolds DEF CallOk

(* The cloud answers, either way.                                          *)
LEMMA CloudAnswersHolds ==
    ASSUME CallsInv(call), NEW c \in ServiceCalls, NEW ok \in BOOLEAN, CloudAnswers(c, ok)
    PROVE  CallsInv(call)'
<1>1. owner' = owner /\ call[c].pc = "cloud"
  BY DEF CloudAnswers
<1>2. PICK q : q = call[c]
  OBVIOUS
<1>3. Moving(q) /\ q.pc = "cloud"
  BY <1>1, <1>2, PlaceMoves
<1>4. PICK x : x = IF ok THEN Served(Went(q, "cloud")) ELSE FailedWrite(Went(q, "cloud"))
  OBVIOUS
<1>5. x = Served(Went(q, "cloud")) \/ x = FailedWrite(Went(q, "cloud"))
  BY <1>4
<1>6. Moving(x)
  BY <1>3, <1>5, SentMoves
<1>7. PICK z : z = Went(q, "cloud")
  OBVIOUS
<1>8. z = Went(call[c], "cloud")
  BY <1>2, <1>7 DEF Went
<1>9. x = IF ok THEN Served(z) ELSE FailedWrite(z)
  BY <1>4, <1>7 DEF Served, FailedWrite, Proceed, Cloudward
<1>10. call' = [call EXCEPT ![c] = x]
  BY <1>8, <1>9 DEF CloudAnswers, Becomes, Served, FailedWrite, Proceed, Cloudward
<1> QED
  BY <1>1, <1>6, <1>10, StepHolds DEF CallOk

(* The router was told.                                                    *)
LEMMA FenceTupleHolds ==
    ASSUME CallsInv(call), NEW c \in ServiceCalls, FenceTuple(c)
    PROVE  CallsInv(call)'
<1>1. owner' = owner /\ call[c].pc = "fence"
  BY DEF FenceTuple
<1>2. PICK q : q = call[c]
  OBVIOUS
<1>3. Moving(q) /\ q.pc = "fence"
  BY <1>1, <1>2, PlaceMoves
<1>4. PICK x : x = [q EXCEPT !.pc = "cloud", !.fenced = TRUE]
  OBVIOUS
<1>5. Moving(x)
  BY <1>3, <1>4, FencedMoves
<1>6. call' = [call EXCEPT ![c] = x]
  BY <1>2, <1>4 DEF FenceTuple, CallsInv
<1> QED
  BY <1>1, <1>5, <1>6, StepHolds DEF CallOk

(* What is shown: what somebody reported, confirmed or acknowledged.       *)
ShowsCredible ==
    /\ status = [f \in Parts |-> status[f]] /\ credible = [f \in Parts |-> credible[f]]
    /\ \A f \in Parts : status[f] \in credible[f]

(* What was read, and what of it the native entity keeps.                  *)
KeepsWhatWasRead ==
    /\ (reading.healthy /\ reading.fan # "power") => <<reading.mode, reading.arg>> \in told
    /\ owner # "native" => kept = NoTargets
    /\ kept = [m \in Ranged \cup {"auto"} |-> kept[m]]
    /\ \A m \in Ranged \cup {"auto"} : \A v \in kept[m] : <<m, v>> \in told

ClimateInv == CallsInv(call) /\ ShowsCredible /\ KeepsWhatWasRead

(* Writing down a reading keeps what is kept within what was heard.        *)
LEMMA RememberedWasHeard ==
    ASSUME NEW k, NEW t, NEW r, k = [m \in Ranged \cup {"auto"} |-> k[m]],
           \A m \in Ranged \cup {"auto"} : \A v \in k[m] : <<m, v>> \in t,
           NEW l, l = Remembered(k, r), NEW u, u = Heard(t, r)
    PROVE  /\ (r.healthy /\ r.fan # "power") => <<r.mode, r.arg>> \in u
           /\ l = [m \in Ranged \cup {"auto"} |-> l[m]]
           /\ \A m \in Ranged \cup {"auto"} : \A v \in l[m] : <<m, v>> \in u
<1>1. (r.healthy /\ r.fan # "power") => <<r.mode, r.arg>> \in u
  BY DEF Heard
<1>2. CASE ~r.healthy
  <2>1. l = [m \in Ranged \cup {"auto"} |-> {}]
    BY <1>2 DEF Remembered, NoTargets
  <2> QED
    BY <1>1, <2>1
<1>3. CASE r.healthy /\ l = k
  <2>1. t \subseteq u
    BY <1>3 DEF Heard
  <2>2. \A m \in Ranged \cup {"auto"} : \A v \in l[m] : <<m, v>> \in u
    BY <1>3, <2>1
  <2> QED
    BY <1>1, <1>3, <2>2
<1>4. CASE r.healthy /\ l # k
  <2>1. r.mode \in Ranged \cup {"auto"} /\ l = [k EXCEPT ![r.mode] = {r.arg}] /\ r.fan # "power"
    BY <1>4 DEF Remembered
  <2>2. t \subseteq u /\ <<r.mode, r.arg>> \in u
    BY <1>4, <2>1 DEF Heard
  <2>3. l = [m \in Ranged \cup {"auto"} |-> IF m = r.mode THEN {r.arg} ELSE k[m]]
    BY <2>1
  <2>4. \A m \in Ranged \cup {"auto"} : \A v \in l[m] : <<m, v>> \in u
    BY <2>2, <2>3, ZenonT(40)
  <2>5. l = [m \in Ranged \cup {"auto"} |-> l[m]]
    BY <2>3
  <2> QED
    BY <1>1, <2>4, <2>5
<1> QED
  BY <1>2, <1>3, <1>4

(* At the start nothing was asked, and what is kept was just read.         *)
LEMMA ClimateInvInit == ASSUME ClimateInit PROVE ClimateInv
<1>1. CallsInv(call)
  <2>1. call = [c \in ServiceCalls |-> Unmade]
    BY DEF ClimateInit
  <2>2. \A c \in ServiceCalls : CallOk(call[c])
    BY <2>1 DEF CallOk
  <2>3. call = [c \in ServiceCalls |-> call[c]]
    BY <2>1
  <2> QED
    BY <2>2, <2>3 DEF CallsInv
<1>2. ShowsCredible
  BY ClimateAssumption DEF ClimateInit, ClimateAssumption, ShowsCredible
<1>3. KeepsWhatWasRead
  <2>1. PICK k, r : k = NoTargets /\ r = reading
    OBVIOUS
  <2>2. k = [m \in Ranged \cup {"auto"} |-> {}]
    BY <2>1 DEF NoTargets
  <2>3. k = [m \in Ranged \cup {"auto"} |-> k[m]] /\ \A m \in Ranged \cup {"auto"} : \A v \in k[m] : <<m, v>> \in {}
    BY <2>2
  <2>4. PICK l, u : l = Remembered(k, r) /\ u = Heard({}, r)
    OBVIOUS
  <2>5. /\ (r.healthy /\ r.fan # "power") => <<r.mode, r.arg>> \in u
        /\ l = [m \in Ranged \cup {"auto"} |-> l[m]]
        /\ \A m \in Ranged \cup {"auto"} : \A v \in l[m] : <<m, v>> \in u
    BY <2>3, <2>4, RememberedWasHeard
  <2>6. told = u
    BY <2>1, <2>4 DEF ClimateInit, Heard
  <2>7. CASE owner = "native"
    <3>1. kept = l
      BY <2>1, <2>4, <2>7 DEF ClimateInit, Remembered
    <3> QED
      BY <2>1, <2>5, <2>6, <2>7, <3>1 DEF KeepsWhatWasRead
  <2>8. CASE owner # "native"
    <3>1. kept = k
      BY <2>1, <2>8 DEF ClimateInit
    <3> QED
      BY <2>1, <2>2, <2>5, <2>6, <2>8, <3>1 DEF KeepsWhatWasRead
  <2> QED
    BY <2>7, <2>8
<1> QED
  BY <1>1, <1>2, <1>3 DEF ClimateInv

(* Every step keeps the calls.                                             *)
LEMMA CallsInvStep ==
    ASSUME ClimateInv, [ClimateNext]_climateVars
    PROVE  CallsInv(call)'
<1>1. CallsInv(call)
  BY DEF ClimateInv
<1>2. CASE UNCHANGED <<owner, call>>
  <2>1. PICK cs : cs = call
    OBVIOUS
  <2>2. CallsInv(cs)
    BY <1>1, <2>1 DEF CallsInv, CallOk, Moving, Turn, OnPlan, Planned, NothingLeft, OneLeft, TwoLeft, ThreeLeft, WentRight
  <2> QED
    BY <1>2, <2>1, <2>2, CallsInvCarries
<1>3. ASSUME NEW c \in ServiceCalls, CallStep(c) PROVE CallsInv(call)'
  BY <1>1, <1>3, CallPatHolds, CallNativeHolds, CallComfortHolds, AcquireHolds, RouterRefusesHolds,
     RouterSendsHolds, FenceTupleHolds, CloudAnswersHolds DEF CallStep
<1>4. ASSUME NEW f \in Parts, NEW v \in credible[f], Push(f, v) PROVE CallsInv(call)'
  BY <1>2, <1>4 DEF Push
<1>5. ASSUME NEW r \in Readings, ReadingChanges(r) PROVE CallsInv(call)'
  BY <1>2, <1>5 DEF ReadingChanges
<1>6. CASE UNCHANGED climateVars
  BY <1>2, <1>6 DEF climateVars
<1> QED
  BY <1>3, <1>4, <1>5, <1>6 DEF ClimateNext

(* What was written may be shown, once it is believed.                     *)
LEMMA WrittenIsCredible ==
    ASSUME ShowsCredible, NEW w
    PROVE  /\ status' = WithAsked(w) /\ credible' = Believed(w) => ShowsCredible'
           /\ status' = status /\ credible' = Believed(w) => ShowsCredible'
           /\ status' = status /\ credible' = credible => ShowsCredible'
<1>1. ASSUME status' = WithAsked(w), credible' = Believed(w) PROVE ShowsCredible'
  BY <1>1 DEF ShowsCredible, WithAsked, Believed
<1>2. ASSUME status' = status, credible' = Believed(w) PROVE ShowsCredible'
  BY <1>2 DEF ShowsCredible, Believed
<1>3. ASSUME status' = status, credible' = credible PROVE ShowsCredible'
  BY <1>3 DEF ShowsCredible
<1> QED
  BY <1>1, <1>2, <1>3

(* Every step keeps what is shown within what is credible.                 *)
LEMMA ShowsCredibleStep ==
    ASSUME ClimateInv, [ClimateNext]_climateVars
    PROVE  ShowsCredible'
<1>1. ShowsCredible
  BY DEF ClimateInv
<1>2. CASE UNCHANGED <<status, credible>>
  BY <1>1, <1>2 DEF ShowsCredible
<1>3. ASSUME NEW c \in ServiceCalls, NEW o, RouterSends(c, o) PROVE ShowsCredible'
  <2>1. PICK w : w = Head(call[c].todo)
    OBVIOUS
  <2>2. PICK b, s : b = Believed(w) /\ s = WithAsked(w)
    OBVIOUS
  <2>3. b = Believed(Head(call[c].todo)) /\ s = WithAsked(Head(call[c].todo))
    BY <2>1, <2>2 DEF Believed, WithAsked
  <2>4. CASE o = "confirmed"
    <3>1. credible' = b
      BY <1>3, <2>3, <2>4 DEF RouterSends
    <3>2. status' = s \/ status' = status
      BY <1>3, <2>3, <2>4 DEF RouterSends, Reflects
    <3> QED
      BY <1>1, <2>2, <3>1, <3>2, WrittenIsCredible
  <2>5. CASE o # "confirmed"
    <3>1. credible' = b \/ credible' = credible
      BY <1>3, <2>3, <2>5 DEF RouterSends
    <3>2. status' = status
      BY <1>3, <2>5 DEF RouterSends, Reflects
    <3> QED
      BY <1>1, <2>2, <3>1, <3>2, WrittenIsCredible
  <2> QED
    BY <2>4, <2>5
<1>4. ASSUME NEW c \in ServiceCalls, NEW ok \in BOOLEAN, CloudAnswers(c, ok) PROVE ShowsCredible'
  <2>1. PICK w : w = Head(call[c].todo)
    OBVIOUS
  <2>2. PICK b, s : b = Believed(w) /\ s = WithAsked(w)
    OBVIOUS
  <2>3. b = Believed(Head(call[c].todo)) /\ s = WithAsked(Head(call[c].todo))
    BY <2>1, <2>2 DEF Believed, WithAsked
  <2>4. (status' = s /\ credible' = b) \/ (status' = status /\ credible' = credible)
    BY <1>4, <2>3 DEF CloudAnswers
  <2> QED
    BY <1>1, <2>2, <2>4, WrittenIsCredible
<1>5. ASSUME NEW f \in Parts, NEW v \in credible[f], Push(f, v) PROVE ShowsCredible'
  BY <1>1, <1>5 DEF Push, ShowsCredible
<1>6. ASSUME NEW c \in ServiceCalls, NEW a \in Asks, CallPat(c, a) \/ CallNative(c, a) \/ CallComfort(c, a)
      PROVE  ShowsCredible'
  BY <1>2, <1>6 DEF CallPat, CallNative, CallComfort
<1>7. ASSUME NEW c \in ServiceCalls, Acquire(c) \/ RouterRefuses(c) \/ FenceTuple(c)
      PROVE  ShowsCredible'
  BY <1>2, <1>7 DEF Acquire, RouterRefuses, FenceTuple
<1>8. ASSUME NEW r \in Readings, ReadingChanges(r) PROVE ShowsCredible'
  BY <1>2, <1>8 DEF ReadingChanges
<1>9. CASE UNCHANGED climateVars
  BY <1>2, <1>9 DEF climateVars
<1> QED
  BY <1>3, <1>4, <1>5, <1>6, <1>7, <1>8, <1>9 DEF ClimateNext, CallStep

(* Every step keeps what is kept within what was read.                     *)
LEMMA KeepsWhatWasReadStep ==
    ASSUME ClimateInv, [ClimateNext]_climateVars
    PROVE  KeepsWhatWasRead'
<1>1. KeepsWhatWasRead
  BY DEF ClimateInv
<1>2. CASE UNCHANGED <<owner, reading, kept, told>>
  BY <1>1, <1>2 DEF KeepsWhatWasRead, NoTargets
<1>3. ASSUME NEW r \in Readings, ReadingChanges(r) PROVE KeepsWhatWasRead'
  <2>1. PICK k, t : k = kept /\ t = told
    OBVIOUS
  <2>2. k = [m \in Ranged \cup {"auto"} |-> k[m]] /\ \A m \in Ranged \cup {"auto"} : \A v \in k[m] : <<m, v>> \in t
    BY <1>1, <2>1 DEF KeepsWhatWasRead
  <2>3. PICK l, u : l = Remembered(k, r) /\ u = Heard(t, r)
    OBVIOUS
  <2>4. /\ (r.healthy /\ r.fan # "power") => <<r.mode, r.arg>> \in u
        /\ l = [m \in Ranged \cup {"auto"} |-> l[m]]
        /\ \A m \in Ranged \cup {"auto"} : \A v \in l[m] : <<m, v>> \in u
    BY <2>2, <2>3, RememberedWasHeard
  <2>5. told' = u /\ reading' = r /\ owner' = owner
    BY <1>3, <2>1, <2>3 DEF ReadingChanges, Heard
  <2>6. CASE owner = "native"
    <3>1. kept' = l
      BY <1>3, <2>1, <2>3, <2>6 DEF ReadingChanges, Remembered
    <3> QED
      BY <2>4, <2>5, <2>6, <3>1 DEF KeepsWhatWasRead
  <2>7. CASE owner # "native"
    <3>1. kept' = kept /\ kept = NoTargets
      BY <1>1, <1>3, <2>7 DEF ReadingChanges, KeepsWhatWasRead
    <3>2. PICK n : n = NoTargets /\ n = [m \in Ranged \cup {"auto"} |-> {}]
      BY DEF NoTargets
    <3>3. kept' = n
      BY <3>1, <3>2
    <3> QED
      BY <2>4, <2>5, <2>7, <3>2, <3>3 DEF KeepsWhatWasRead, NoTargets
  <2> QED
    BY <2>6, <2>7
<1>4. ASSUME NEW c \in ServiceCalls, CallStep(c) PROVE KeepsWhatWasRead'
  BY <1>2, <1>4 DEF CallStep, CallPat, CallNative, CallComfort, Acquire, RouterRefuses, RouterSends,
                    FenceTuple, CloudAnswers
<1>5. ASSUME NEW f \in Parts, NEW v \in credible[f], Push(f, v) PROVE KeepsWhatWasRead'
  BY <1>2, <1>5 DEF Push
<1>6. CASE UNCHANGED climateVars
  BY <1>2, <1>6 DEF climateVars
<1> QED
  BY <1>3, <1>4, <1>5, <1>6 DEF ClimateNext

(* What a call in its place says of what it sent.                          *)
LEMMA CallIsFaithful ==
    ASSUME NEW q, CallOk(q)
    PROVE  /\ SentOnce(q)
           /\ \A i \in DOMAIN q.went : q.went[i].by = "cloud" =>
                  owner = "pat" /\ (SettlesTuple(q.went[i].asks) => q.went[i].fenced)
           /\ (q.pc = "done" /\ q.do = "swing" /\ q.tries # 0) => q.tries = 2
<1>1. CASE q.went = <<>> /\ q.pc # "done"
  <2>1. DOMAIN q.went = {}
    BY <1>1
  <2> QED
    BY <1>1, <2>1 DEF SentOnce
<1>2. CASE Moving(q)
  <2>2. ASSUME q.pc = "done", q.do = "swing", q.tries # 0 PROVE q.tries = 2
    <3>1. q.todo = <<>>
      BY <1>2, <2>2 DEF Moving, Turn
    <3>2. Len(q.todo) = 0 /\ q.tries \in Nat /\ Len(q.todo) + q.tries = 2
      BY <1>2, <2>2, <3>1 DEF Moving, OnPlan, Tried
    <3> QED
      BY <3>2
  <2>3. \/ q.went = <<>>
        \/ \E g : q.went = <<g>> /\ WentRight(g)
        \/ \E g, h : /\ q.went = <<g, h>> /\ WentRight(g) /\ WentRight(h) /\ Apart(g, h)
                     /\ q.do = "swing" \/ g.by = h.by
    BY <1>2 DEF Moving, OnPlan, Planned, NothingLeft, OneLeft, TwoLeft, ThreeLeft
  <2>4. CASE q.went = <<>>
    <3>1. DOMAIN q.went = {}
      BY <2>4
    <3> QED
      BY <2>2, <3>1 DEF SentOnce
  <2>5. ASSUME NEW g, q.went = <<g>>, WentRight(g)
        PROVE  /\ SentOnce(q)
               /\ \A i \in DOMAIN q.went : q.went[i].by = "cloud" =>
                      owner = "pat" /\ (SettlesTuple(q.went[i].asks) => q.went[i].fenced)
    <3>1. \A i \in DOMAIN q.went : i = 1 /\ q.went[i] = g
      BY <2>5
    <3> QED
      BY <2>5, <3>1 DEF SentOnce, WentRight
  <2>6. ASSUME NEW g, NEW h, q.went = <<g, h>>, WentRight(g), WentRight(h), Apart(g, h),
               q.do = "swing" \/ g.by = h.by
        PROVE  /\ SentOnce(q)
               /\ \A i \in DOMAIN q.went : q.went[i].by = "cloud" =>
                      owner = "pat" /\ (SettlesTuple(q.went[i].asks) => q.went[i].fenced)
    <3>1. \A i \in DOMAIN q.went : (i = 1 /\ q.went[i] = g) \/ (i = 2 /\ q.went[i] = h)
      BY <2>6
    <3>2. DOMAIN g.asks \cap DOMAIN h.asks = {} /\ DOMAIN h.asks \cap DOMAIN g.asks = {}
      BY <2>6 DEF Apart
    <3>3. SentOnce(q)
      <4>1. SUFFICES ASSUME NEW i \in DOMAIN q.went, NEW j \in DOMAIN q.went, i # j
                     PROVE  /\ DOMAIN q.went[i].asks \cap DOMAIN q.went[j].asks = {}
                            /\ q.do = "swing" \/ q.went[i].by = q.went[j].by
        BY DEF SentOnce
      <4>2. CASE q.went[i] = g /\ q.went[j] = h
        BY <2>6, <3>2, <4>2
      <4>3. CASE q.went[i] = h /\ q.went[j] = g
        BY <2>6, <3>2, <4>3
      <4> QED
        BY <3>1, <4>1, <4>2, <4>3
    <3>4. ASSUME NEW i \in DOMAIN q.went, q.went[i].by = "cloud"
          PROVE  owner = "pat" /\ (SettlesTuple(q.went[i].asks) => q.went[i].fenced)
      <4>1. CASE q.went[i] = g
        BY <2>6, <3>4, <4>1 DEF WentRight
      <4>2. CASE q.went[i] = h
        BY <2>6, <3>4, <4>2 DEF WentRight
      <4> QED
        BY <3>1, <4>1, <4>2
    <3> QED
      BY <3>3, <3>4
  <2> QED
    BY <2>2, <2>3, <2>4, <2>5, <2>6
<1>3. (q.went = <<>> /\ q.pc # "done") \/ Moving(q)
  BY DEF CallOk, WaitsWith, Unmade
<1> QED
  BY <1>1, <1>2, <1>3

(* The invariant of the climate entities: each call goes its plan, each    *)
(* status shows what is credible, and what is kept was read (CallStep,     *)
(* Push, ReadingChanges).                                                  *)
THEOREM ClimateInvariant == ClimateSpec => []ClimateInv
<1>1. ClimateInit => ClimateInv
  BY ClimateInvInit
<1>2. ClimateInv /\ [ClimateNext]_climateVars => ClimateInv'
  BY CallsInvStep, ShowsCredibleStep, KeepsWhatWasReadStep DEF ClimateInv
<1> QED
  BY <1>1, <1>2, PTL DEF ClimateSpec

(* Whatever the appliance reads and the router answers, a service call is  *)
(* passed on once and by the owner's transport, and nothing is shown that  *)
(* nobody reported or acknowledged (_control, _remember_current_target).   *)
THEOREM ClimateStaysFaithful == ClimateSpec => []ClimateIsFaithful
<1>1. ClimateInv => ClimateIsFaithful
  <2>1. SUFFICES ASSUME ClimateInv PROVE AskedOnce /\ ClimateShowsWhatIs
    BY DEF ClimateIsFaithful
  <2>2. ASSUME NEW c \in ServiceCalls
        PROVE  /\ SentOnce(call[c])
               /\ \A i \in DOMAIN call[c].went : call[c].went[i].by = "cloud" =>
                      owner = "pat" /\ (SettlesTuple(call[c].went[i].asks) => call[c].went[i].fenced)
               /\ (call[c].pc = "done" /\ call[c].do = "swing" /\ call[c].tries # 0) => call[c].tries = 2
    <3>1. PICK q : q = call[c]
      OBVIOUS
    <3>2. CallOk(q)
      BY <2>1, <3>1 DEF ClimateInv, CallsInv, CallOk, Moving, Turn, OnPlan, Planned, NothingLeft, OneLeft, TwoLeft,
                        ThreeLeft, WentRight
    <3>3. /\ SentOnce(q)
          /\ \A i \in DOMAIN q.went : q.went[i].by = "cloud" =>
                 owner = "pat" /\ (SettlesTuple(q.went[i].asks) => q.went[i].fenced)
          /\ (q.pc = "done" /\ q.do = "swing" /\ q.tries # 0) => q.tries = 2
      BY <3>2, CallIsFaithful
    <3> QED
      BY <3>1, <3>3 DEF SentOnce, SettlesTuple
  <2>3. AskedOnce
    BY <2>2 DEF AskedOnce
  <2>4. \A v \in ShownTarget(reading) : <<reading.mode, v>> \in told
    BY <2>1 DEF ClimateInv, KeepsWhatWasRead, ShownTarget
  <2>5. \A m \in DOMAIN kept : \A v \in kept[m] : <<m, v>> \in told
    BY <2>1 DEF ClimateInv, KeepsWhatWasRead
  <2> QED
    BY <2>1, <2>2, <2>3, <2>4, <2>5 DEF ClimateInv, ShowsCredible, ClimateShowsWhatIs
<1> QED
  BY <1>1, ClimateInvariant, PTL
=============================================================================
