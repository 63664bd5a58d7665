--------------------------- MODULE ReadFeedProofs ---------------------------
(***************************************************************************)
(* Proofs about the parts of the read_feed run: the full-read feed         *)
(* (ReadFeed), for any publications, profiles and primaries; and the       *)
(* entities of one quantity (ReadEntities), for any tables and values.     *)
(***************************************************************************)
EXTENDS MCReadFeed, FiniteSetTheorems, TLAPS

----------------------------------------------------------------------------
(* The full-read feed.                                                     *)
Epochs == {Epoch(p) : p \in Publications}

FeedTypes ==
    /\ current \in Publications \cup {None}
    /\ outer \in Nat \X Nat /\ reached = outer
    /\ DOMAIN top \subseteq Epochs
    /\ \A e \in DOMAIN top : top[e] \in [seq : Nat, deleted : BOOLEAN]
    /\ \A e \in DOMAIN events : events[e].seq \in Nat
    /\ \A e \in DOMAIN highs : highs[e] \in Nat
    /\ \A e \in DOMAIN tombs : tombs[e].seq \in Nat

(* What a deletion leaves, until the fence passes its epoch.               *)
DeletedIsKnown ==
    \A e \in DOMAIN top : top[e].deleted =>
        \/ Below(<<e[1], e[2]>>, outer)
        \/ e \in DOMAIN tombs /\ tombs[e].seq = top[e].seq

(* The current and what the fences say of it.                              *)
CurrentFits ==
    current # None =>
        /\ Epoch(current) \in DOMAIN top
        /\ ~top[Epoch(current)].deleted
        /\ top[Epoch(current)].seq = current.seq
        /\ ~Below(Outer(current), outer)
        /\ NotDeleted(current) /\ NotOlder(current) /\ OneSource(current)

(* The mark of an epoch is its highest sequence, until the fence passes it.*)
MarksHold ==
    \A e \in DOMAIN top :
        Below(<<e[1], e[2]>>, outer) \/ (e \in DOMAIN highs /\ highs[e] = top[e].seq)

(* Of the anchored coordinate, all but the current's epoch was deleted.    *)
SinceFits ==
    /\ since \subseteq Publications
    /\ \A x \in since :
          /\ Epoch(x) \in DOMAIN top /\ x.seq <= top[Epoch(x)].seq
          /\ Outer(x) = outer => \/ current # None /\ Epoch(x) = Epoch(current)
                                 \/ top[Epoch(x)].deleted
    /\ \A x, y \in since : Epoch(x) = Epoch(y) /\ x.seq = y.seq => x = y

(* Every event is at or below the mark of its epoch, until the fence       *)
(* passes it.                                                              *)
EventsAreMarked ==
    /\ notified \in Nat /\ IsFiniteSet(emitted) /\ notified = Cardinality(emitted)
    /\ \A x, y \in emitted : x.cursor = y.cursor => x.body = y.body
    /\ \A x \in emitted : \E p \in Publications :
          /\ x.cursor = <<Epoch(p), p.seq>>
          /\ \/ Below(Outer(p), outer)
             \/ Epoch(p) \in DOMAIN events /\ p.seq <= events[Epoch(p)].seq

FreshIsHere == fresh \in BOOLEAN /\ here \in BOOLEAN /\ (fresh => here)
FieldsAreRead == fields = IF current = None THEN {} ELSE Shows(current.body, profile)

FeedInv ==
    /\ FeedTypes /\ DeletedIsKnown /\ CurrentFits /\ EventsAreMarked /\ FreshIsHere /\ FieldsAreRead
    /\ MarksHold /\ SinceFits

LEMMA PublicationNumbers ==
  ASSUME NEW p \in Publications
  PROVE  p.gen \in Nat /\ p.cohort \in Nat /\ p.seq \in Nat /\ p # None
BY ReadAssumption

(* Coordinates are ordered.                                                *)
LEMMA BelowIsTransitive ==
  ASSUME NEW x \in Nat \X Nat, NEW y \in Nat \X Nat, NEW z \in Nat \X Nat,
         Below(x, y), ~Below(z, y)
  PROVE  Below(x, z)
BY DEF Below

LEMMA BelowIsTotal ==
  ASSUME NEW x \in Nat \X Nat, NEW y \in Nat \X Nat, ~Below(x, y), ~Below(y, x)
  PROVE  x = y
BY DEF Below

(* The fence forgets what lies before it, and changes nothing else.        *)
LEMMA KeptGives ==
  ASSUME NEW f, NEW p \in Publications
  PROVE  /\ DOMAIN Kept(f, p) \subseteq DOMAIN f
         /\ \A x \in DOMAIN Kept(f, p) : Kept(f, p)[x] = f[x]
         /\ \A x \in DOMAIN f : x \in DOMAIN Kept(f, p) \/
               (Advances(p) /\ primary.live /\ Below(<<x[1], x[2]>>, Outer(p)))
BY DEF Kept, Restrict

LEMMA EpochParts ==
  ASSUME NEW p \in Publications
  PROVE  /\ <<Epoch(p)[1], Epoch(p)[2]>> = Outer(p)
         /\ Outer(p) \in Nat \X Nat
BY PublicationNumbers DEF Epoch, Outer

LEMMA FeedStarts == Init => FeedInv
<1> SUFFICES ASSUME Init PROVE FeedInv
  OBVIOUS
<1>1. DOMAIN NoFn = {}
  BY DEF NoFn
<1>2. FeedTypes
  BY <1>1 DEF Init, FeedTypes
<1>3. DeletedIsKnown /\ CurrentFits
  BY <1>1 DEF Init, DeletedIsKnown, CurrentFits
<1>4. EventsAreMarked
  BY FS_EmptySet DEF Init, EventsAreMarked
<1>5. FreshIsHere /\ FieldsAreRead
  BY DEF Init, FreshIsHere, FieldsAreRead
<1>6. MarksHold /\ SinceFits
  BY <1>1 DEF Init, MarksHold, SinceFits
<1> QED
  BY <1>2, <1>3, <1>4, <1>5, <1>6 DEF FeedInv

(* A current that is taken.                                                *)
LEMMA CommitKeeps ==
  ASSUME FeedInv, NEW p \in Publications, Current(p), ~Repeats(p)
  PROVE  FeedInv'
<1> DEFINE e == Epoch(p)
           said == Newest(p)
<1> USE DEF FeedInv
<1>1. /\ Fits(p)
      /\ current' = p /\ fields' = Shows(p.body, profile) /\ fresh' = TRUE /\ here' = TRUE
      /\ outer' = IF primary.live THEN Outer(p) ELSE outer
      /\ tombs' = Kept(tombs, p)
      /\ sources' = With(Kept(sources, p), Place(p), p.source)
      /\ highs' = With(Kept(highs, p), Epoch(p), p.seq)
      /\ events' = Kept(events, p)
      /\ top' = With(top, e, said)
      /\ since' = (IF Advances(p) THEN {} ELSE since) \cup {p}
      /\ reached' = IF primary.live /\ Below(reached, Outer(p)) THEN Outer(p) ELSE reached
      /\ profile' = profile /\ emitted' = emitted /\ notified' = notified
  BY DEF Current, Commit
<1>2. /\ p.gen \in Nat /\ p.cohort \in Nat /\ p.seq \in Nat /\ p # None
      /\ <<e[1], e[2]>> = Outer(p) /\ Outer(p) \in Nat \X Nat /\ e \in Epochs
  BY PublicationNumbers, EpochParts DEF Epochs
<1>3. outer \in Nat \X Nat /\ reached = outer /\ ~Below(Outer(p), outer)
  BY <1>1 DEF FeedTypes, Fits
<1>4. outer' \in Nat \X Nat /\ reached' = outer' /\ ~Below(Outer(p), outer') /\ ~Below(outer', outer)
  <2>1. CASE ~primary.live
    BY <1>1, <1>3, <2>1 DEF Below
  <2>2. CASE primary.live /\ Below(outer, Outer(p))
    BY <1>1, <1>2, <1>3, <2>2 DEF Below
  <2>3. CASE primary.live /\ ~Below(outer, Outer(p))
    <3>1. outer = Outer(p)
      BY <1>2, <1>3, <2>3, BelowIsTotal
    <3> QED
      BY <1>1, <1>3, <2>3, <3>1
  <2> QED
    BY <2>1, <2>2, <2>3
<1>5. \A x \in Nat \X Nat : Below(x, outer) => Below(x, outer')
  BY <1>3, <1>4, BelowIsTransitive
<1>6. said \in [seq : Nat, deleted : BOOLEAN] /\ said.seq = p.seq /\ ~said.deleted
      /\ (e \in DOMAIN top => p.seq >= top[e].seq /\ (top[e].deleted => p.seq > top[e].seq))
  <2>1. CASE e \notin DOMAIN top
    <3>1. said = [seq |-> p.seq, deleted |-> FALSE]
      BY <2>1 DEF Newest
    <3> QED
      BY <1>2, <2>1, <3>1
  <2>2. CASE e \in DOMAIN top
    <3>1. top[e] \in [seq : Nat, deleted : BOOLEAN] /\ e \in DOMAIN highs /\ highs[e] = top[e].seq
      BY <1>2, <1>3, <2>2 DEF MarksHold, FeedTypes
    <3>2. p.seq >= top[e].seq
      BY <1>1, <3>1 DEF Fits, NotOlder
    <3>3. top[e].deleted => p.seq > top[e].seq
      <4> SUFFICES ASSUME top[e].deleted PROVE p.seq > top[e].seq
        OBVIOUS
      <4>1. e \in DOMAIN tombs /\ tombs[e].seq = top[e].seq
        BY <1>2, <1>3, <2>2 DEF DeletedIsKnown
      <4> QED
        BY <1>1, <4>1 DEF Fits, NotDeleted
    <3>4. CASE p.seq <= top[e].seq
      <4>1. said = top[e] /\ p.seq = top[e].seq /\ ~top[e].deleted
        BY <1>2, <2>2, <3>1, <3>2, <3>3, <3>4 DEF Newest
      <4> QED
        BY <3>1, <3>2, <4>1
    <3>5. CASE ~(p.seq <= top[e].seq)
      <4>1. said = [seq |-> p.seq, deleted |-> FALSE]
        BY <3>5 DEF Newest
      <4> QED
        BY <1>2, <3>2, <3>3, <4>1
    <3> QED
      BY <3>4, <3>5
  <2> QED
    BY <2>1, <2>2
<1> HIDE DEF said
<1>7. /\ DOMAIN top' = DOMAIN top \cup {e} /\ top'[e] = said
      /\ \A x \in DOMAIN top : x # e => top'[x] = top[x]
  BY <1>1 DEF With
<1>8. /\ DOMAIN tombs' \subseteq DOMAIN tombs
      /\ \A x \in DOMAIN tombs' : tombs'[x] = tombs[x]
      /\ \A x \in DOMAIN tombs : x \in DOMAIN tombs' \/ Below(<<x[1], x[2]>>, outer')
  BY <1>1, KeptGives
<1>9. /\ DOMAIN events' \subseteq DOMAIN events
      /\ \A x \in DOMAIN events' : events'[x] = events[x]
      /\ \A x \in DOMAIN events : x \in DOMAIN events' \/ Below(<<x[1], x[2]>>, outer')
  BY <1>1, KeptGives
<1>10. \A x \in DOMAIN highs' : highs'[x] \in Nat
  <2>1. \A x \in DOMAIN Kept(highs, p) : Kept(highs, p)[x] \in Nat
    BY KeptGives DEF FeedTypes
  <2> QED
    BY <1>1, <1>2, <2>1 DEF With
<1>11. highs'[e] = p.seq /\ sources'[Place(p)] = p.source
  BY <1>1 DEF With
<1>20. /\ \A x \in DOMAIN highs : x \in DOMAIN highs' \/ Below(<<x[1], x[2]>>, outer')
       /\ \A x \in DOMAIN highs' : x # e => highs'[x] = highs[x]
  <2>1. /\ \A x \in DOMAIN Kept(highs, p) : Kept(highs, p)[x] = highs[x]
        /\ \A x \in DOMAIN highs : x \in DOMAIN Kept(highs, p) \/ Below(<<x[1], x[2]>>, outer')
    BY <1>1, KeptGives
  <2>2. /\ DOMAIN highs' = DOMAIN Kept(highs, p) \cup {e}
        /\ \A x \in DOMAIN highs' : x # e => highs'[x] = Kept(highs, p)[x]
    BY <1>1 DEF With
  <2> QED
    BY <2>1, <2>2
<1>12. FeedTypes'
  <2>1. current' \in Publications \cup {None} /\ DOMAIN top' \subseteq Epochs
    BY <1>1, <1>2, <1>7 DEF FeedTypes
  <2>2. \A x \in DOMAIN top' : top'[x] \in [seq : Nat, deleted : BOOLEAN]
    BY <1>6, <1>7 DEF FeedTypes
  <2>3. \A x \in DOMAIN events' : events'[x].seq \in Nat
    BY <1>9 DEF FeedTypes
  <2>4. \A x \in DOMAIN tombs' : tombs'[x].seq \in Nat
    BY <1>8 DEF FeedTypes
  <2> QED
    BY <1>4, <1>10, <2>1, <2>2, <2>3, <2>4 DEF FeedTypes
<1>14. DeletedIsKnown'
  <2> SUFFICES ASSUME NEW x \in DOMAIN top', top'[x].deleted
               PROVE  \/ Below(<<x[1], x[2]>>, outer')
                      \/ x \in DOMAIN tombs' /\ tombs'[x].seq = top'[x].seq
    BY DEF DeletedIsKnown
  <2>1. x \in DOMAIN top /\ top'[x] = top[x]
    BY <1>6, <1>7
  <2>2. <<x[1], x[2]>> \in Nat \X Nat
    <3>1. PICK q \in Publications : x = Epoch(q)
      BY <2>1 DEF FeedTypes, Epochs
    <3> QED
      BY <3>1, EpochParts
  <2>3. CASE Below(<<x[1], x[2]>>, outer)
    BY <1>5, <2>2, <2>3
  <2>4. CASE x \in DOMAIN tombs /\ tombs[x].seq = top[x].seq
    BY <1>8, <2>1, <2>4
  <2> QED
    BY <2>1, <2>3, <2>4 DEF DeletedIsKnown
<1>15. CurrentFits'
  <2>1. e \in DOMAIN tombs' => p.seq > tombs'[e].seq
    BY <1>1, <1>8 DEF Fits, NotDeleted
  <2>2. e \in DOMAIN highs' => p.seq >= highs'[e]
    BY <1>2, <1>11
  <2>3. ~Below(Outer(p), outer')
    BY <1>4
  <2> QED
    BY <1>1, <1>6, <1>7, <1>11, <2>1, <2>2, <2>3
       DEF CurrentFits, NotDeleted, NotOlder, OneSource, Epoch, Outer, Place
<1>16. EventsAreMarked'
  <2>1. ASSUME NEW x \in emitted
        PROVE  \E q \in Publications :
                  /\ x.cursor = <<Epoch(q), q.seq>>
                  /\ \/ Below(Outer(q), outer')
                     \/ Epoch(q) \in DOMAIN events' /\ q.seq <= events'[Epoch(q)].seq
    <3>1. PICK q \in Publications :
             /\ x.cursor = <<Epoch(q), q.seq>>
             /\ \/ Below(Outer(q), outer)
                \/ Epoch(q) \in DOMAIN events /\ q.seq <= events[Epoch(q)].seq
      BY DEF EventsAreMarked
    <3>2. Outer(q) \in Nat \X Nat /\ <<Epoch(q)[1], Epoch(q)[2]>> = Outer(q)
      BY EpochParts
    <3>3. CASE Below(Outer(q), outer)
      BY <1>5, <3>1, <3>2, <3>3
    <3>4. CASE Epoch(q) \in DOMAIN events /\ q.seq <= events[Epoch(q)].seq
      BY <1>9, <3>1, <3>2, <3>4
    <3> QED
      BY <3>1, <3>3, <3>4
  <2> QED
    BY <1>1, <2>1 DEF EventsAreMarked
<1>17. FreshIsHere' /\ FieldsAreRead'
  BY <1>1, <1>2 DEF FreshIsHere, FieldsAreRead, Shows
<1>18. MarksHold'
  <2> SUFFICES ASSUME NEW x \in DOMAIN top'
               PROVE  Below(<<x[1], x[2]>>, outer') \/ (x \in DOMAIN highs' /\ highs'[x] = top'[x].seq)
    BY DEF MarksHold
  <2>1. CASE x = e
    <3>1. e \in DOMAIN highs'
      BY <1>1 DEF With
    <3> QED
      BY <1>6, <1>7, <1>11, <2>1, <3>1
  <2>2. CASE x # e
    <3>1. x \in DOMAIN top /\ top'[x] = top[x]
      BY <1>7, <2>2
    <3>2. PICK q \in Publications : x = Epoch(q)
      BY <3>1 DEF FeedTypes, Epochs
    <3>3. <<x[1], x[2]>> \in Nat \X Nat
      BY <3>2, EpochParts
    <3>4. CASE Below(<<x[1], x[2]>>, outer)
      BY <1>5, <3>3, <3>4
    <3>5. CASE x \in DOMAIN highs /\ highs[x] = top[x].seq
      BY <1>20, <2>2, <3>1, <3>5
    <3> QED
      BY <3>1, <3>4, <3>5 DEF MarksHold
  <2> QED
    BY <2>1, <2>2
<1>19. SinceFits'
  <2>1. CASE Advances(p)
    <3>1. since' = {p}
      BY <1>1, <2>1
    <3>2. e \in DOMAIN top' /\ p.seq <= top'[e].seq
      BY <1>2, <1>6, <1>7
    <3> QED
      BY <1>1, <1>2, <3>1, <3>2 DEF SinceFits
  <2>2. CASE ~Advances(p)
    <3>1. since' = since \cup {p}
      BY <1>1, <2>2
    <3>2. outer = Outer(p) /\ outer' = outer
      <4>1. outer = Outer(p)
        BY <1>2, <1>3, <2>2, BelowIsTotal DEF Advances
      <4> QED
        BY <1>1, <4>1
    <3>3. ASSUME NEW x \in since, Epoch(x) = e
          PROVE  x.seq # p.seq
      <4>1. /\ x \in Publications /\ x.seq \in Nat /\ Outer(x) = outer
            /\ e \in DOMAIN top /\ x.seq <= top[e].seq /\ top[e].seq \in Nat
        BY <3>2, <3>3, PublicationNumbers DEF SinceFits, Epoch, Outer, FeedTypes
      <4>2. CASE current # None /\ e = Epoch(current)
        <5>1. top[e].seq = current.seq
          BY <4>2 DEF CurrentFits
        <5>2. p # current
          BY <2>2 DEF Repeats
        <5>3. p.seq > current.seq
          BY <1>1, <2>2, <4>2, <5>2 DEF Fits, Continues
        <5> QED
          BY <1>2, <4>1, <5>1, <5>3
      <4>3. CASE top[e].deleted
        BY <1>2, <1>6, <4>1, <4>3
      <4> QED
        BY <3>3, <4>1, <4>2, <4>3 DEF SinceFits
    <3>4. ASSUME NEW x \in since, Epoch(x) # e, Outer(x) = outer
          PROVE  top[Epoch(x)].deleted
      <4> SUFFICES ASSUME current # None, Epoch(x) = Epoch(current) PROVE FALSE
        BY <3>4 DEF SinceFits
      <4>1. p.session = current.session /\ p.source = current.source
        BY <1>1, <2>2 DEF Fits, Continues
      <4>2. current.gen = p.gen /\ current.cohort = p.cohort
        BY <3>2, <3>4 DEF Epoch, Outer
      <4> QED
        BY <3>4, <4>1, <4>2 DEF Epoch
    <3>5. ASSUME NEW x \in since'
          PROVE  /\ Epoch(x) \in DOMAIN top' /\ x.seq <= top'[Epoch(x)].seq
                 /\ Outer(x) = outer' => \/ current' # None /\ Epoch(x) = Epoch(current')
                                         \/ top'[Epoch(x)].deleted
      <4>1. CASE x = p
        BY <1>1, <1>2, <1>6, <1>7, <4>1
      <4>2. CASE x \in since /\ Epoch(x) = e
        <5>1. x.seq \in Nat /\ e \in DOMAIN top /\ x.seq <= top[e].seq /\ top[e].seq \in Nat
          BY <4>2, PublicationNumbers DEF SinceFits, FeedTypes
        <5>2. p.seq >= top[e].seq
          BY <1>6, <5>1
        <5>3. x.seq <= p.seq
          BY <1>2, <5>1, <5>2
        <5> QED
          BY <1>1, <1>2, <1>6, <1>7, <4>2, <5>3
      <4>3. CASE x \in since /\ Epoch(x) # e
        <5>1. Epoch(x) \in DOMAIN top /\ top'[Epoch(x)] = top[Epoch(x)] /\ x.seq <= top[Epoch(x)].seq
          BY <1>7, <4>3 DEF SinceFits
        <5> QED
          BY <1>7, <3>2, <3>4, <4>3, <5>1
      <4> QED
        BY <3>1, <4>1, <4>2, <4>3
    <3>6. \A x, y \in since' : Epoch(x) = Epoch(y) /\ x.seq = y.seq => x = y
      BY <3>1, <3>3 DEF SinceFits
    <3>7. since' \subseteq Publications
      BY <3>1 DEF SinceFits
    <3> QED
      BY <3>5, <3>6, <3>7 DEF SinceFits
  <2> QED
    BY <2>1, <2>2
<1> QED
  BY <1>12, <1>14, <1>15, <1>16, <1>17, <1>18, <1>19

(* A current that is delivered again changes nothing.                      *)
LEMMA RepeatKeeps ==
  ASSUME FeedInv, NEW p \in Publications, Current(p), Repeats(p)
  PROVE  FeedInv'
<1>1. /\ fresh' = TRUE /\ here' = TRUE
      /\ UNCHANGED <<current, fields, outer, tombs, sources, highs, events, top, since, reached,
                     profile, emitted, notified>>
  BY DEF Current, cursors
<1> QED
  BY <1>1 DEF FeedInv, FeedTypes, DeletedIsKnown, CurrentFits, EventsAreMarked, FreshIsHere,
              FieldsAreRead, NotDeleted, NotOlder, OneSource, Shows, MarksHold, SinceFits

LEMMA DeleteKeeps ==
  ASSUME FeedInv, Delete
  PROVE  FeedInv'
<1> USE DEF FeedInv
<1>1. /\ current' = None /\ fields' = {} /\ fresh' = FALSE /\ here' = FALSE
      /\ UNCHANGED <<outer, highs, events, since, reached, emitted, notified, profile>>
  BY DEF Delete
<1>2. FreshIsHere' /\ FieldsAreRead' /\ CurrentFits'
  BY <1>1 DEF FreshIsHere, FieldsAreRead, CurrentFits
<1>3. EventsAreMarked'
  BY <1>1 DEF EventsAreMarked
<1>4. CASE current = None
  <2>1. tombs' = tombs /\ top' = top
    BY <1>4 DEF Delete
  <2> QED
    BY <1>1, <1>2, <1>3, <1>4, <2>1 DEF FeedTypes, DeletedIsKnown, MarksHold, SinceFits
<1>5. CASE current # None
  <2> DEFINE e == Epoch(current)
             stone == [seq |-> current.seq, body |-> current.body]
             gone == [top[e] EXCEPT !.deleted = TRUE]
  <2>1. tombs' = With(tombs, e, stone) /\ top' = [top EXCEPT ![e] = gone]
    BY <1>5 DEF Delete, Buried
  <2>2. current \in Publications /\ current.seq \in Nat /\ stone.seq = current.seq
    BY <1>5, PublicationNumbers DEF FeedTypes
  <2>3. e \in DOMAIN top /\ top[e].seq = current.seq
        /\ top[e] \in [seq : Nat, deleted : BOOLEAN]
    BY <1>5 DEF CurrentFits, FeedTypes
  <2>4. gone \in [seq : Nat, deleted : BOOLEAN] /\ gone.seq = current.seq /\ gone.deleted
    BY <2>3
  <2> HIDE DEF stone, gone, e
  <2>5. /\ DOMAIN top' = DOMAIN top /\ top'[e] = gone
        /\ \A x \in DOMAIN top : x # e => top'[x] = top[x]
    BY <2>1, <2>3
  <2>6. /\ DOMAIN tombs' = DOMAIN tombs \cup {e} /\ tombs'[e] = stone
        /\ \A x \in DOMAIN tombs : x # e => tombs'[x] = tombs[x]
    BY <2>1 DEF With
  <2>7. FeedTypes'
    BY <1>1, <2>2, <2>4, <2>5, <2>6 DEF FeedTypes
  <2>8. DeletedIsKnown'
    <3> SUFFICES ASSUME NEW x \in DOMAIN top, top'[x].deleted
                 PROVE  \/ Below(<<x[1], x[2]>>, outer)
                        \/ x \in DOMAIN tombs' /\ tombs'[x].seq = top'[x].seq
      BY <1>1, <2>5 DEF DeletedIsKnown
    <3>1. CASE x = e
      BY <2>2, <2>4, <2>5, <2>6, <3>1
    <3>2. CASE x # e
      BY <2>5, <2>6, <3>2 DEF DeletedIsKnown
    <3> QED
      BY <3>1, <3>2
  <2>9. MarksHold'
    <3> SUFFICES ASSUME NEW x \in DOMAIN top
                 PROVE  Below(<<x[1], x[2]>>, outer) \/ (x \in DOMAIN highs /\ highs[x] = top'[x].seq)
      BY <1>1, <2>5 DEF MarksHold
    <3>1. top'[x].seq = top[x].seq
      BY <2>3, <2>4, <2>5
    <3> QED
      BY <3>1 DEF MarksHold
  <2>10. SinceFits'
    <3>1. ASSUME NEW x \in since
          PROVE  /\ Epoch(x) \in DOMAIN top' /\ x.seq <= top'[Epoch(x)].seq
                 /\ Outer(x) = outer => top'[Epoch(x)].deleted
      <4>1. CASE Epoch(x) = e
        BY <2>3, <2>4, <2>5, <4>1 DEF SinceFits
      <4>2. CASE Epoch(x) # e
        BY <2>5, <4>2 DEF SinceFits, e
      <4> QED
        BY <4>1, <4>2
    <3> QED
      BY <1>1, <3>1 DEF SinceFits
  <2> QED
    BY <1>2, <1>3, <2>7, <2>8, <2>9, <2>10
<1> QED
  BY <1>4, <1>5

(* An event is new: every one that was notified of its epoch is below it.  *)
LEMMA EventKeeps ==
  ASSUME FeedInv, NEW p \in Publications, NEW body, Event(p, body)
  PROVE  FeedInv'
<1> DEFINE e == Epoch(p)
           mark == [seq |-> p.seq, body |-> body]
           event == [cursor |-> <<e, p.seq>>, body |-> body]
<1> USE DEF FeedInv
<1>1. /\ EventFits(p) /\ EventNew(p)
      /\ events' = With(events, e, mark)
      /\ sources' = With(sources, Place(p), p.source)
      /\ highs' = With(highs, e, p.seq)
      /\ emitted' = emitted \cup {event}
      /\ notified' = notified + 1
      /\ UNCHANGED <<profile, current, fields, fresh, outer, tombs, top, since, reached, here>>
  BY DEF Event
<1>2. /\ current # None /\ current \in Publications /\ e = Epoch(current) /\ p.seq = current.seq
      /\ p.seq \in Nat /\ Outer(p) = Outer(current)
      /\ p.gen = current.gen /\ p.cohort = current.cohort
      /\ p.session = current.session /\ p.source = current.source
  BY <1>1, PublicationNumbers DEF EventFits, FeedTypes, Epoch, Outer
<1>3. mark.seq = p.seq /\ event.cursor = <<e, p.seq>> /\ event.body = body
  OBVIOUS
<1> HIDE DEF mark, event
<1>4. /\ DOMAIN events' = DOMAIN events \cup {e} /\ events'[e] = mark
      /\ \A x \in DOMAIN events : x # e => events'[x] = events[x]
  BY <1>1 DEF With
<1>5. /\ DOMAIN highs' = DOMAIN highs \cup {e} /\ highs'[e] = p.seq
      /\ \A x \in DOMAIN highs : x # e => highs'[x] = highs[x]
  BY <1>1 DEF With
<1>6. sources'[Place(p)] = p.source
  BY <1>1 DEF With
<1>7. FeedTypes'
  <2>1. \A x \in DOMAIN events' : events'[x].seq \in Nat
    BY <1>2, <1>3, <1>4 DEF FeedTypes
  <2>2. \A x \in DOMAIN highs' : highs'[x] \in Nat
    BY <1>2, <1>5 DEF FeedTypes
  <2> QED
    BY <1>1, <2>1, <2>2 DEF FeedTypes
<1>8. DeletedIsKnown'
  BY <1>1 DEF DeletedIsKnown
<1>9. CurrentFits'
  <2>1. Place(current) = Place(p)
    BY <1>2 DEF Place
  <2>2. NotDeleted(current)'
    BY <1>1, <1>2 DEF CurrentFits, NotDeleted
  <2>3. NotOlder(current)'
    BY <1>1, <1>2, <1>5 DEF NotOlder
  <2>4. OneSource(current)'
    BY <1>1, <1>2, <1>6, <2>1 DEF OneSource
  <2> QED
    BY <1>1, <2>2, <2>3, <2>4 DEF CurrentFits
<1>10. FreshIsHere' /\ FieldsAreRead'
  BY <1>1 DEF FreshIsHere, FieldsAreRead, Shows
<1>11. ~Below(Outer(p), outer)
  BY <1>2 DEF CurrentFits
<1>12. ASSUME NEW x \in emitted
       PROVE  x.cursor # event.cursor
  <2>1. PICK q \in Publications :
           /\ x.cursor = <<Epoch(q), q.seq>>
           /\ \/ Below(Outer(q), outer)
              \/ Epoch(q) \in DOMAIN events /\ q.seq <= events[Epoch(q)].seq
    BY DEF EventsAreMarked
  <2> SUFFICES ASSUME Epoch(q) = e, q.seq = p.seq PROVE FALSE
    BY <1>3, <2>1
  <2>2. Outer(q) = Outer(p)
    BY DEF Epoch, Outer
  <2>3. e \in DOMAIN events /\ p.seq <= events[e].seq
    BY <1>11, <2>1, <2>2
  <2>4. events[e].seq \in Nat
    BY <2>3 DEF FeedTypes
  <2>5. p.seq > events[e].seq
    BY <1>1, <2>3 DEF EventNew
  <2> QED
    BY <1>2, <2>3, <2>4, <2>5
<1>13. EventsAreMarked'
  <2>1. IsFiniteSet(emitted') /\ notified' \in Nat /\ notified' = Cardinality(emitted')
    <3>1. event \notin emitted
      BY <1>12
    <3> QED
      BY <1>1, <3>1, FS_AddElement DEF EventsAreMarked
  <2>2. \A x, y \in emitted' : x.cursor = y.cursor => x.body = y.body
    BY <1>1, <1>12 DEF EventsAreMarked
  <2>3. ASSUME NEW x \in emitted'
        PROVE  \E q \in Publications :
                  /\ x.cursor = <<Epoch(q), q.seq>>
                  /\ \/ Below(Outer(q), outer')
                     \/ Epoch(q) \in DOMAIN events' /\ q.seq <= events'[Epoch(q)].seq
    <3>1. CASE x = event
      BY <1>2, <1>3, <1>4, <3>1
    <3>2. CASE x # event
      <4>1. x \in emitted
        BY <1>1, <3>2
      <4>2. PICK q \in Publications :
               /\ x.cursor = <<Epoch(q), q.seq>>
               /\ \/ Below(Outer(q), outer)
                  \/ Epoch(q) \in DOMAIN events /\ q.seq <= events[Epoch(q)].seq
        BY <4>1 DEF EventsAreMarked
      <4>3. CASE Below(Outer(q), outer)
        BY <1>1, <4>2, <4>3
      <4>4. CASE Epoch(q) \in DOMAIN events /\ q.seq <= events[Epoch(q)].seq
        <5>1. CASE Epoch(q) # e
          BY <1>4, <4>2, <4>4, <5>1
        <5>2. CASE Epoch(q) = e
          <6>1. events[e].seq \in Nat /\ q.seq \in Nat
            BY <4>4, <5>2, PublicationNumbers DEF FeedTypes
          <6>2. p.seq > events[e].seq
            BY <1>1, <4>4, <5>2 DEF EventNew
          <6>3. q.seq <= events'[Epoch(q)].seq
            BY <1>2, <1>3, <1>4, <4>4, <5>2, <6>1, <6>2
          <6> QED
            BY <1>4, <4>2, <5>2, <6>3
        <5> QED
          BY <5>1, <5>2
      <4> QED
        BY <4>2, <4>3, <4>4
    <3> QED
      BY <3>1, <3>2
  <2> QED
    BY <2>1, <2>2, <2>3 DEF EventsAreMarked
<1>14. MarksHold'
  <2> SUFFICES ASSUME NEW x \in DOMAIN top
               PROVE  Below(<<x[1], x[2]>>, outer) \/ (x \in DOMAIN highs' /\ highs'[x] = top[x].seq)
    BY <1>1 DEF MarksHold
  <2>1. CASE x = e
    BY <1>2, <1>5, <2>1 DEF CurrentFits
  <2>2. CASE x # e
    BY <1>5, <2>2 DEF MarksHold
  <2> QED
    BY <2>1, <2>2
<1>15. SinceFits'
  BY <1>1 DEF SinceFits
<1> QED
  BY <1>7, <1>8, <1>9, <1>10, <1>13, <1>14, <1>15

LEMMA FeedKeeps ==
  ASSUME FeedInv, [Next]_vars
  PROVE  FeedInv'
<1>1. CASE UNCHANGED vars
  BY <1>1 DEF vars, FeedInv, FeedTypes, DeletedIsKnown, CurrentFits, EventsAreMarked, FreshIsHere,
              MarksHold, SinceFits, FieldsAreRead, NotDeleted, NotOlder, OneSource, Shows
<1>2. ASSUME NEW p \in Publications, Current(p)
      PROVE  FeedInv'
  BY <1>2, CommitKeeps, RepeatKeeps
<1>3. CASE Delete
  BY <1>3, DeleteKeeps
<1>4. ASSUME NEW p \in Publications, NEW body \in EventBodies, Event(p, body)
      PROVE  FeedInv'
  BY <1>4, EventKeeps
<1>5. ASSUME NEW on \in BOOLEAN, Transport(on)
      PROVE  FeedInv'
  <2>1. /\ fresh' = (fresh /\ on) /\ here' = (here /\ on)
        /\ UNCHANGED <<current, fields, outer, tombs, sources, highs, events, top, since, reached,
                       profile, emitted, notified>>
    BY <1>5 DEF Transport, SettledFresh, cursors
  <2>2. FreshIsHere'
    BY <2>1 DEF FeedInv, FreshIsHere
  <2> QED
    BY <2>1, <2>2 DEF FeedInv, FeedTypes, DeletedIsKnown, CurrentFits, EventsAreMarked,
              MarksHold, SinceFits, FieldsAreRead, NotDeleted, NotOlder, OneSource, Shows
<1>6. ASSUME NEW p \in Primaries, PrimaryUpdated(p)
      PROVE  FeedInv'
  BY <1>6 DEF PrimaryUpdated, cursors, FeedInv, MarksHold, SinceFits, FeedTypes, DeletedIsKnown, CurrentFits,
              EventsAreMarked, FreshIsHere, FieldsAreRead, NotDeleted, NotOlder, OneSource, Shows
<1>7. ASSUME NEW new \in Profiles, UpdateProfile(new)
      PROVE  FeedInv'
  <2>1. /\ profile' = new /\ fields' = Reread(new)
        /\ UNCHANGED <<current, fresh, here, outer, tombs, sources, highs, events, top, since, reached,
                       emitted, notified>>
    BY <1>7 DEF UpdateProfile, cursors
  <2>2. Reread(new) = IF current = None THEN {} ELSE Shows(current.body, new)
    BY DEF Reread, FeedInv, FieldsAreRead, Shows
  <2>3. FieldsAreRead'
    BY <2>1, <2>2 DEF FieldsAreRead, Shows
  <2> QED
    BY <2>1, <2>3 DEF FeedInv, MarksHold, SinceFits, FeedTypes, DeletedIsKnown, CurrentFits, EventsAreMarked,
              FreshIsHere, NotDeleted, NotOlder, OneSource
<1> QED
  BY <1>1, <1>2, <1>3, <1>4, <1>5, <1>6, <1>7 DEF Next

LEMMA FeedInvIsEnough == FeedInv => FeedIsSound
<1> SUFFICES ASSUME FeedInv PROVE FeedIsSound
  OBVIOUS
<1>1. NeverBackwards
  <2>1. current # None => /\ top[Epoch(current)] = [seq |-> current.seq, deleted |-> FALSE]
                          /\ ~Below(Outer(current), reached)
    <3> SUFFICES ASSUME current # None
                 PROVE  /\ top[Epoch(current)] = [seq |-> current.seq, deleted |-> FALSE]
                        /\ ~Below(Outer(current), reached)
      OBVIOUS
    <3>1. PICK t : t = top[Epoch(current)]
      OBVIOUS
    <3>2. t \in [seq : Nat, deleted : BOOLEAN] /\ t.seq = current.seq /\ ~t.deleted
      BY <3>1 DEF FeedInv, FeedTypes, CurrentFits
    <3>3. t = [seq |-> current.seq, deleted |-> FALSE]
      BY <3>2
    <3> QED
      BY <3>1, <3>3 DEF FeedInv, FeedTypes, CurrentFits
  <2>2. \A x, y \in since : Epoch(x) = Epoch(y) /\ x.seq = y.seq => x = y
    BY DEF FeedInv, SinceFits
  <2> QED
    BY <2>1, <2>2 DEF NeverBackwards
<1>2. RepeatIsAccepted
  BY DEF FeedInv, CurrentFits, RepeatIsAccepted, Fits, Continues
<1>3. EventsOnce
  BY DEF FeedInv, EventsAreMarked, EventsOnce
<1>4. ShownIsHere
  BY DEF FeedInv, FreshIsHere, FieldsAreRead, ShownIsHere, FieldAvailable
<1> QED
  BY <1>1, <1>2, <1>3, <1>4 DEF FeedIsSound, FeedKeepsOrder

(* Whatever the bridge, the broker and the appliance do, the full-read     *)
(* feed never goes back, takes its own message again, notifies an event    *)
(* once, and shows only what came on this connection from the live one.    *)
THEOREM FeedStaysSound == Spec => []FeedIsSound
BY FeedStarts, FeedKeeps, FeedInvIsEnough, PTL DEF Spec

----------------------------------------------------------------------------
(* The entities of one quantity.                                           *)
EntityTypes ==
    /\ quantity \in Quantities /\ setup \in Setups
    /\ hidden \in BOOLEAN /\ had \in BOOLEAN
    /\ cloudPat \in OfPat /\ cloudWideq \in OfWideq
    /\ localPrimary \in Field /\ localReads \in ReadField
    /\ built \subseteq EntityKinds

(* The energy sensor keeps what it was last told.                          *)
EnergyIsKept ==
    /\ "wideq" \in built /\ quantity.energy /\ cloudWideq.value # Nothing => last # Nothing
    /\ had => "wideq" \in built /\ quantity.energy /\ last # Nothing

(* What takes a WideQ sensor over has its unit, for the tables do not change.*)
LegacyFits ==
    /\ "legacy" \in built => quantity.pilotUnit = quantity.wideq
    /\ "legacyRead" \in built => quantity.unit = quantity.wideq

EntitiesInv ==
    /\ EntityTypes /\ Unique(built) /\ QuantityIsShown /\ WrittenIsSo /\ EnergyIsKept
    /\ LegacyFits

(* What may be built.                                                      *)
LEMMA CandidatesAreKinds == Candidates \subseteq EntityKinds
BY DEF Candidates, PatSensor, WideqSensor, FullSensor, PilotSensor, Tank, PatBinary, FullBinary,
       PilotBinary, EventOf, EntityKinds, Local

LEMMA WideqSensorIsOne == \A j, k \in WideqSensor : j = k
BY DEF WideqSensor

LEMMA CandidateIds ==
  ASSUME NEW j \in Candidates, NEW k \in Candidates,
         PlatformOfKind(j) = PlatformOfKind(k), IdOf(j) = IdOf(k)
  PROVE  j = k
<1>1. "full" \in Candidates => "pilot" \notin Candidates
  BY DEF Candidates, PatSensor, WideqSensor, FullSensor, PilotSensor, Tank, PatBinary, FullBinary,
         PilotBinary, EventOf
<1>2. "fullBinary" \in Candidates => "pilotBinary" \notin Candidates
  BY DEF Candidates, PatSensor, WideqSensor, FullSensor, PilotSensor, Tank, PatBinary, FullBinary,
         PilotBinary, EventOf
<1>3. \A x \in {"wideq", "legacy", "legacyRead"} : x \in Candidates => x \in WideqSensor
  BY DEF Candidates, PatSensor, FullSensor, PilotSensor, Tank, PatBinary, FullBinary,
         PilotBinary, EventOf
<1>4. \A x, y \in {"wideq", "legacy", "legacyRead"} : x \in Candidates /\ y \in Candidates => x = y
  BY <1>3, WideqSensorIsOne
<1>5. j \in EntityKinds /\ k \in EntityKinds
  BY CandidatesAreKinds
<1> DEFINE wideqs == {"wideq", "legacy", "legacyRead"}
           sensors == {"full", "pilot"}
           binaries == {"fullBinary", "pilotBinary"}
<1>6. CASE j \in wideqs
  <2>1. k \in wideqs
    BY <1>5, <1>6 DEF EntityKinds, Local, PlatformOfKind, IdOf
  <2> QED
    BY <1>4, <1>6, <2>1
<1>7. CASE j \in sensors
  <2>1. k \in sensors
    BY <1>5, <1>7 DEF EntityKinds, Local, PlatformOfKind, IdOf
  <2> QED
    BY <1>1, <1>7, <2>1
<1>8. CASE j \in binaries
  <2>1. k \in binaries
    BY <1>5, <1>8 DEF EntityKinds, Local, PlatformOfKind, IdOf
  <2> QED
    BY <1>2, <1>8, <2>1
<1>9. CASE j = "event"
  BY <1>5, <1>9 DEF EntityKinds, Local, PlatformOfKind
<1>10. CASE j = "pat"
  BY <1>5, <1>10 DEF EntityKinds, Local, PlatformOfKind, IdOf
<1>11. CASE j = "patBinary"
  BY <1>5, <1>11 DEF EntityKinds, Local, PlatformOfKind, IdOf
<1>12. CASE j = "tank"
  BY <1>5, <1>12 DEF EntityKinds, Local, PlatformOfKind, IdOf
<1> QED
  BY <1>5, <1>6, <1>7, <1>8, <1>9, <1>10, <1>11, <1>12 DEF EntityKinds, Local

LEMMA CandidatesAreUnique == Unique(Candidates)
BY CandidateIds DEF Unique

(* No sensor has a twin.                                                   *)
LEMMA TwinsAreNotBuilt == NoTwins
<1>1. "full" \in Candidates => "full" \in FullSensor
  BY DEF Candidates, PatSensor, WideqSensor, PilotSensor, Tank, PatBinary, FullBinary,
         PilotBinary, EventOf
<1>2. \A x \in {"wideq", "legacy", "legacyRead"} : x \in Candidates => x \in WideqSensor
  BY DEF Candidates, PatSensor, FullSensor, PilotSensor, Tank, PatBinary, FullBinary,
         PilotBinary, EventOf
<1>3. "pilot" \in Candidates => "pilot" \in PilotSensor
  BY DEF Candidates, PatSensor, WideqSensor, FullSensor, Tank, PatBinary, FullBinary,
         PilotBinary, EventOf
<1>4. "pat" \in Candidates => "pat" \in PatSensor
  BY DEF Candidates, WideqSensor, FullSensor, PilotSensor, Tank, PatBinary, FullBinary,
         PilotBinary, EventOf
<1>5. ~setup.overlay /\ "full" \in Candidates => ~("pat" \in Candidates /\ quantity.pat = quantity.unit)
  BY <1>1, <1>4 DEF FullSensor, Open, Established, StandsFor, ReadsAs
<1>6. ~("full" \in Candidates /\ "legacyRead" \in Candidates)
  BY <1>1, <1>2 DEF FullSensor
<1>7. ~setup.overlay => ~("full" \in Candidates /\ "legacy" \in Candidates)
  <2>1. ASSUME "full" \in Candidates, "legacy" \in Candidates, ~setup.overlay PROVE FALSE
    <3>1. "legacy" \in WideqSensor \cap Local
      BY <1>2, <2>1 DEF Local
    <3>2. Established
      BY <3>1 DEF Established
    <3> QED
      BY <1>1, <2>1, <3>2 DEF FullSensor, Open
  <2> QED
    BY <2>1
<1>8. ~("full" \in Candidates /\ "pilot" \in Candidates)
  BY <1>1, <1>3 DEF FullSensor, PilotSensor
<1> QED
  BY <1>5, <1>6, <1>7, <1>8 DEF NoTwins

(* What there is to show is shown.                                         *)
LEMMA SomethingIsBuilt ==
  ASSUME quantity \in Quantities, ~hidden, InReads \/ (InPrimary /\ ~quantity.promoted)
  PROVE  Candidates # {}
<1> SUFFICES ASSUME Candidates = {} PROVE FALSE
  OBVIOUS
<1>1. /\ PatSensor = {} /\ WideqSensor = {} /\ FullSensor = {} /\ PilotSensor = {}
      /\ Tank = {} /\ PatBinary = {} /\ FullBinary = {} /\ PilotBinary = {} /\ EventOf = {}
  BY DEF Candidates
<1>2. ~Established /\ ~EstablishedBinary /\ ~TankIsLocal
  BY <1>1 DEF Established, EstablishedBinary, TankIsLocal
<1>3. quantity.domain \in Domains \cup {"none"} /\ quantity.pilot \in FieldTypes \cup {"none"}
  BY QuantityAssumption
<1>4. CASE InReads
  <2>1. quantity.domain # "none"
    BY <1>4 DEF InReads
  <2>2. quantity.domain # "sensor"
    BY <1>1, <1>2, <1>4 DEF FullSensor, Open
  <2>3. quantity.domain # "binary_sensor"
    BY <1>1, <1>2, <1>4 DEF FullBinary, Open
  <2>4. quantity.domain # "event"
    BY <1>1, <1>4 DEF EventOf
  <2> QED
    BY <1>3, <2>1, <2>2, <2>3, <2>4 DEF Domains
<1>5. CASE ~InReads
  <2>1. InPrimary /\ ~quantity.promoted
    BY <1>5
  <2>2. quantity.pilot = "boolean"
    BY <1>1, <1>2, <1>5, <2>1 DEF PilotSensor, Open
  <2>3. quantity.pilot # "boolean"
    BY <1>1, <1>2, <1>5, <2>1 DEF PilotBinary, Open
  <2> QED
    BY <2>2, <2>3
<1> QED
  BY <1>4, <1>5

LEMMA WideqIsBuilt ==
  ASSUME ~hidden, setup.wideq, quantity.wideq # Nothing
  PROVE  Candidates \cap {"wideq", "legacy", "legacyRead"} # {}
<1>1. WideqSensor # {} /\ WideqSensor \subseteq {"wideq", "legacy", "legacyRead"}
  BY DEF WideqSensor, WideqDescribes
<1>2. WideqSensor \subseteq Candidates
  BY DEF Candidates
<1> QED
  BY <1>1, <1>2

LEMMA HiddenIsNotBuilt ==
  ASSUME hidden
  PROVE  Candidates \cap Local = {}
BY DEF Candidates

LEMMA BuiltIsShown ==
  ASSUME quantity \in Quantities, hidden \in BOOLEAN, built = Candidates
  PROVE  QuantityIsShown
BY SomethingIsBuilt, WideqIsBuilt, HiddenIsNotBuilt DEF QuantityIsShown

LEMMA LegacyCandidatesFit ==
  /\ "legacy" \in Candidates => quantity.pilotUnit = quantity.wideq
  /\ "legacyRead" \in Candidates => quantity.unit = quantity.wideq
<1>1. \A x \in {"legacy", "legacyRead"} : x \in Candidates => x \in WideqSensor
  BY DEF Candidates, PatSensor, FullSensor, PilotSensor, Tank, PatBinary, FullBinary,
         PilotBinary, EventOf
<1> QED
  BY <1>1 DEF WideqSensor

(* What is written of the energy sensor.                                   *)
LEMMA EnergyIsWritten ==
  ASSUME NEW K, K \subseteq built', Write(K), EnergyIsKept, WrittenIsSo, EntityTypes,
         "wideq" \notin built => "wideq" \notin built' \/ "wideq" \in K,
         "wideq" \in K \/ cloudWideq' = cloudWideq,
         cloudWideq' \in OfWideq, quantity' = quantity
  PROVE  EnergyIsKept' /\ had' \in BOOLEAN
<1>1. last' = IF "wideq" \notin built' THEN Nothing
              ELSE IF "wideq" \in K /\ quantity.energy /\ cloudWideq'.value # Nothing
                   THEN cloudWideq'.value
              ELSE last
  BY DEF Write
<1>2. had' = ("wideq" \in built' /\ quantity.energy /\ (had \/ written'["wideq"].value # Nothing))
  BY DEF Write
<1>3. quantity.energy => ~quantity.draw
  BY QuantityAssumption DEF EntityTypes
<1>4. "wideq" \in built' /\ quantity.energy /\ cloudWideq'.value # Nothing => last' # Nothing
  BY <1>1 DEF EnergyIsKept
<1>5. ASSUME "wideq" \in built', quantity.energy, written'["wideq"].value # Nothing
      PROVE  last' # Nothing
  <2>1. CASE "wideq" \in K
    <3>1. written'["wideq"] = WideqShows'
      BY <1>5, <2>1 DEF Write, Says, EntityKinds
    <3>2. WideqShows' = When(cloudWideq.present \/ last # Nothing, "wideq", Held)'
      BY <1>3, <1>5 DEF WideqShows
    <3>3. Held' # Nothing
      BY <1>5, <3>1, <3>2 DEF When, Shown, Unavailable
    <3>4. cloudWideq'.value # Nothing \/ last' # Nothing
      BY <3>3 DEF Held
    <3> QED
      BY <1>4, <1>5, <3>4
  <2>2. CASE "wideq" \notin K
    <3>1. "wideq" \in built /\ written'["wideq"] = written["wideq"] /\ last' = last
      BY <1>1, <1>5, <2>2 DEF Write, EntityKinds
    <3>2. written["wideq"] = WideqShows
      BY <3>1 DEF WrittenIsSo, Says
    <3>3. WideqShows = When(cloudWideq.present \/ last # Nothing, "wideq", Held)
      BY <1>3, <1>5 DEF WideqShows
    <3>4. Held # Nothing
      BY <1>5, <3>1, <3>2, <3>3 DEF When, Shown, Unavailable
    <3>5. cloudWideq.value # Nothing \/ last # Nothing
      BY <3>4 DEF Held
    <3> QED
      BY <1>5, <3>1, <3>5 DEF EnergyIsKept
  <2> QED
    BY <2>1, <2>2
<1>6. had => "wideq" \in built /\ quantity.energy /\ last # Nothing
  BY DEF EnergyIsKept
<1>7. had' => last' # Nothing
  <2>1. CASE written'["wideq"].value # Nothing
    BY <1>2, <1>5, <2>1
  <2>2. CASE had
    BY <1>1, <1>2, <1>6, <2>2
  <2> QED
    BY <1>2, <2>1, <2>2
<1> QED
  BY <1>2, <1>4, <1>7 DEF EnergyIsKept

(* What an entity says depends on what it reads.                           *)
LEMMA SaysAsBefore ==
  ASSUME NEW k \in EntityKinds,
         quantity' = quantity, cloudPat' = cloudPat, cloudWideq' = cloudWideq,
         k = "wideq" => last' = last,
         k = "tank" => (TankIsLocal' <=> TankIsLocal) /\ (TankIsLocal => localPrimary' = localPrimary),
         k \in {"legacy", "pilot", "pilotBinary"} => localPrimary' = localPrimary,
         k \in {"legacyRead", "full", "fullBinary", "event"} =>
            /\ localReads' = localReads /\ localPrimary' = localPrimary
            /\ (InReads' <=> InReads) /\ (InPrimary' <=> InPrimary)
  PROVE  Says(k)' = Says(k)
<1>1. CASE k \in {"pat", "patBinary"}
  BY <1>1 DEF Says
<1>2. CASE k = "wideq"
  <2>1. WideqShows' = WideqShows
    BY <1>2 DEF WideqShows, Held
  <2> QED
    BY <1>2, <2>1 DEF Says
<1>3. CASE k = "tank"
  <2>1. TankShows' = TankShows
    BY <1>3 DEF TankShows
  <2> QED
    BY <1>3, <2>1 DEF Says
<1>4. CASE k \in {"legacy", "pilot", "pilotBinary"}
  BY <1>4 DEF Says, InWords
<1>5. CASE k \in {"legacyRead", "full", "fullBinary", "event"}
  <2>1. Display' = Display
    BY <1>5 DEF Display, StandsIn
  <2>2. DisplayInWords' = DisplayInWords
    BY <2>1 DEF DisplayInWords
  <2> QED
    BY <1>5, <2>1, <2>2 DEF Says
<1> QED
  BY <1>1, <1>2, <1>3, <1>4, <1>5 DEF EntityKinds, Local

(* One source says something: who listens writes it, and nobody else reads *)
(* it.                                                                     *)
LEMMA SourceKeeps ==
  ASSUME EntitiesInv, PatSays \/ WideqSays \/ PrimarySays \/ ReadsSays
  PROVE  EntitiesInv'
<1> USE DEF EntitiesInv
<1>1. /\ UNCHANGED <<quantity, setup, inProfile, hidden, built>>
      /\ cloudPat' \in OfPat /\ cloudWideq' \in OfWideq
      /\ localPrimary' \in Field /\ localReads' \in ReadField
  BY DEF PatSays, WideqSays, PrimarySays, ReadsSays, PatStates, WideqStates, FieldStates,
         ReadsStates, EntityTypes
<1>2. PICK s \in {"pat", "wideq", "primary", "reads"} :
         /\ Write({k \in built : s \in Heard(k)})
         /\ s # "pat" => cloudPat' = cloudPat
         /\ s # "wideq" => cloudWideq' = cloudWideq
         /\ s # "primary" => localPrimary' = localPrimary
         /\ s # "reads" => localReads' = localReads
  BY DEF PatSays, WideqSays, PrimarySays, ReadsSays, Notify
<1> DEFINE K == {k \in built : s \in Heard(k)}
<1>3. Write(K) /\ K \subseteq built' /\ built' = built
  BY <1>1, <1>2
<1>4. s = "wideq" /\ "wideq" \in built => "wideq" \in K
  BY DEF Heard
<1> HIDE DEF K
<1>5. EnergyIsKept' /\ had' \in BOOLEAN
  <2>1. CASE "wideq" \in built
    BY <1>1, <1>2, <1>3, <1>4, <2>1, EnergyIsWritten
  <2>2. CASE "wideq" \notin built
    BY <1>3, <2>2 DEF Write, EnergyIsKept
  <2> QED
    BY <2>1, <2>2
<1>6. EntityTypes'
  BY <1>1, <1>5 DEF EntityTypes
<1>7. Unique(built)' /\ QuantityIsShown' /\ LegacyFits'
  BY <1>1 DEF Unique, QuantityIsShown, InReads, InPrimary, LegacyFits
<1>8. WrittenIsSo'
  <2> SUFFICES ASSUME NEW k \in built
               PROVE  written'[k] = Says(k)'
    BY <1>1 DEF WrittenIsSo
  <2>1. k \in EntityKinds /\ written[k] = Says(k)
    BY DEF WrittenIsSo, EntityTypes
  <2>2. CASE k \in K
    BY <1>3, <2>1, <2>2 DEF Write
  <2>3. CASE k \notin K
    <3>1. written'[k] = written[k]
      BY <1>3, <2>1, <2>3 DEF Write
    <3>2. s \notin Heard(k)
      BY <2>3 DEF K
    <3>3. TankIsLocal' <=> TankIsLocal
      BY <1>1 DEF TankIsLocal, Tank, InPrimary
    <3>4. k = "wideq" => last' = last /\ s # "wideq" /\ (quantity.draw => s # "pat")
      BY <1>3, <2>3, <3>2 DEF Write, Heard
    <3>5. CASE k = "wideq"
      <4>1. WideqShows' = WideqShows
        BY <1>1, <1>2, <3>4, <3>5 DEF WideqShows, Held
      <4> QED
        BY <2>1, <3>1, <3>5, <4>1 DEF Says
    <3>6. CASE k \in {"pat", "patBinary"}
      BY <1>2, <2>1, <3>1, <3>2, <3>6 DEF Heard, Says
    <3>7. CASE k = "tank"
      <4>1. s # "wideq" /\ (TankIsLocal => s # "primary")
        BY <3>2, <3>7 DEF Heard
      <4>2. TankShows' = TankShows
        BY <1>2, <3>3, <4>1 DEF TankShows
      <4> QED
        BY <2>1, <3>1, <3>7, <4>2 DEF Says
    <3>8. CASE k \in {"legacy", "pilot", "pilotBinary"}
      BY <1>2, <2>1, <3>1, <3>2, <3>8 DEF Heard, Says, InWords
    <3>9. CASE k \in {"legacyRead", "full", "fullBinary", "event"}
      <4>1. s # "reads" /\ s # "primary"
        BY <3>2, <3>9 DEF Heard
      <4>2. localReads' = localReads /\ localPrimary' = localPrimary
        BY <1>2, <4>1
      <4>3. (InReads' <=> InReads) /\ (InPrimary' <=> InPrimary)
        BY <1>1 DEF InReads, InPrimary
      <4>4. Display' = Display
        BY <1>1, <4>2, <4>3 DEF Display, StandsIn
      <4>5. DisplayInWords' = DisplayInWords
        BY <4>4 DEF DisplayInWords
      <4> QED
        BY <2>1, <3>1, <3>9, <4>2, <4>4, <4>5 DEF Says
    <3> QED
      BY <2>1, <3>5, <3>6, <3>7, <3>8, <3>9 DEF EntityKinds, Local
  <2> QED
    BY <2>2, <2>3
<1> QED
  BY <1>5, <1>6, <1>7, <1>8

(* What is discovered is written, and nothing else changes.                *)
LEMMA DiscoveryKeeps ==
  ASSUME EntitiesInv, DiscoverLate
  PROVE  EntitiesInv'
<1> USE DEF EntitiesInv
<1>1. /\ UNCHANGED <<quantity, setup, inProfile, hidden, saying>>
      /\ built' = built \cup Missing /\ Write(Missing)
  BY DEF DiscoverLate
<1>2. Missing \subseteq Candidates /\ Missing \subseteq EntityKinds
      /\ \A k \in Missing, j \in built : ~(PlatformOfKind(j) = PlatformOfKind(k) /\ IdOf(j) = IdOf(k))
  BY CandidatesAreKinds DEF Missing
<1>3. Missing \subseteq built' /\ built \subseteq built' /\ Missing \cap built = {}
  BY <1>1, <1>2
<1>4. EnergyIsKept' /\ had' \in BOOLEAN
  BY <1>1, <1>3, EnergyIsWritten DEF saying, EntityTypes
<1>5. EntityTypes'
  BY <1>1, <1>2, <1>4 DEF EntityTypes, saying
<1>6. Unique(built)'
  <2>1. \A j, k \in Missing : PlatformOfKind(j) = PlatformOfKind(k) /\ IdOf(j) = IdOf(k) => j = k
    BY <1>2, CandidatesAreUnique DEF Unique
  <2> QED
    BY <1>1, <1>2, <2>1 DEF Unique
<1>7. QuantityIsShown'
  <2>1. hidden => Candidates \cap Local = {}
    BY HiddenIsNotBuilt
  <2>2. hidden => Missing \cap Local = {}
    BY <1>2, <2>1
  <2>3. (InReads' <=> InReads) /\ (InPrimary' <=> InPrimary)
    BY <1>1 DEF InReads, InPrimary
  <2>4. hidden' => built' \cap Local = {}
    BY <1>1, <2>2 DEF QuantityIsShown
  <2>5. built # {} => built' # {}
    BY <1>1
  <2>6. built \cap {"wideq", "legacy", "legacyRead"} # {} =>
        built' \cap {"wideq", "legacy", "legacyRead"} # {}
    BY <1>1
  <2> QED
    BY <1>1, <2>3, <2>4, <2>5, <2>6 DEF QuantityIsShown
<1>8. LegacyFits'
  <2>1. /\ "legacy" \in built' => quantity.pilotUnit = quantity.wideq
        /\ "legacyRead" \in built' => quantity.unit = quantity.wideq
    BY <1>1, <1>2, LegacyCandidatesFit DEF LegacyFits
  <2> QED
    BY <1>1, <2>1 DEF LegacyFits
<1>9. WrittenIsSo'
  <2> SUFFICES ASSUME NEW k \in built'
               PROVE  written'[k] = Says(k)'
    BY DEF WrittenIsSo
  <2>1. k \in EntityKinds
    BY <1>5 DEF EntityTypes
  <2>2. CASE k \in Missing
    BY <1>1, <2>1, <2>2 DEF Write
  <2>3. CASE k \notin Missing
    <3>1. k \in built /\ written'[k] = written[k] /\ written[k] = Says(k)
      BY <1>1, <2>1, <2>3 DEF Write, WrittenIsSo
    <3>2. k = "wideq" => last' = last
      BY <1>1, <1>3, <2>3, <3>1 DEF Write
    <3>3. TankIsLocal' <=> TankIsLocal
      BY <1>1 DEF TankIsLocal, Tank, InPrimary
    <3>5. (InReads' <=> InReads) /\ (InPrimary' <=> InPrimary)
      BY <1>1 DEF InReads, InPrimary
    <3>4. Says(k)' = Says(k)
      BY <1>1, <2>1, <3>2, <3>3, <3>5, SaysAsBefore DEF saying
    <3> QED
      BY <3>1, <3>4
  <2> QED
    BY <2>2, <2>3
<1> QED
  BY <1>4, <1>5, <1>6, <1>7, <1>8, <1>9

(* An edit of the database: what changes its owner is written again.       *)
LEMMA RefreshKeeps ==
  ASSUME EntitiesInv, RefreshMenu
  PROVE  EntitiesInv'
<1> USE DEF EntitiesInv
<1>1. /\ hidden' \in BOOLEAN
      /\ UNCHANGED <<quantity, setup, cloudPat, cloudWideq>>
      /\ localPrimary' \in Refreshed("primary", localPrimary, FieldStates, NoField)
      /\ localReads' \in Refreshed("reads", localReads, ReadsStates, NoReads)
      /\ built' = Candidates' /\ Write(Rewritten)
  BY DEF RefreshMenu
<1>2. Rewritten \subseteq built'
  BY DEF Rewritten
<1>3. "wideq" \in built' => "wideq" \in built \/ "wideq" \in Rewritten
  BY DEF Rewritten
<1>4. EnergyIsKept' /\ had' \in BOOLEAN
  BY <1>1, <1>2, <1>3, EnergyIsWritten DEF EntityTypes
<1>5. EntityTypes'
  <2>1. FieldStates \subseteq Field /\ NoField \in Field /\ localPrimary \in Field
    BY DEF FieldStates, NoField, Field, EntityTypes
  <2>2. ReadsStates \subseteq ReadField /\ NoReads \in ReadField /\ localReads \in ReadField
    BY DEF ReadsStates, NoReads, ReadField, EntityTypes
  <2>3. localPrimary' \in Field
    BY <1>1, <2>1 DEF Refreshed
  <2>4. localReads' \in ReadField
    BY <1>1, <2>2 DEF Refreshed
  <2>5. built' \subseteq EntityKinds
    BY <1>1 DEF Candidates, PatSensor, WideqSensor, FullSensor, PilotSensor, Tank, PatBinary,
           FullBinary, PilotBinary, EventOf, EntityKinds, Local
  <2> QED
    BY <1>1, <1>4, <2>3, <2>4, <2>5 DEF EntityTypes
<1>6. Unique(built)' /\ QuantityIsShown' /\ LegacyFits'
  <2>1. []Unique(Candidates)
    BY CandidatesAreUnique, PTL
  <2>2. [](quantity \in Quantities /\ hidden \in BOOLEAN /\ built = Candidates => QuantityIsShown)
    BY BuiltIsShown, PTL
  <2>5. []( /\ "legacy" \in Candidates => quantity.pilotUnit = quantity.wideq
            /\ "legacyRead" \in Candidates => quantity.unit = quantity.wideq )
    BY LegacyCandidatesFit, PTL
  <2>3. Unique(Candidates)'
    BY <2>1, PTL
  <2>4. (quantity \in Quantities /\ hidden \in BOOLEAN /\ built = Candidates => QuantityIsShown)'
    BY <2>2, PTL
  <2>6. ( /\ "legacy" \in Candidates => quantity.pilotUnit = quantity.wideq
          /\ "legacyRead" \in Candidates => quantity.unit = quantity.wideq )'
    BY <2>5, PTL
  <2>7. LegacyFits'
    BY <1>1, <2>6 DEF LegacyFits
  <2> QED
    BY <1>1, <1>5, <2>3, <2>4, <2>7 DEF EntityTypes, Unique
<1>7. WrittenIsSo'
  <2> SUFFICES ASSUME NEW k \in built'
               PROVE  written'[k] = Says(k)'
    BY DEF WrittenIsSo
  <2>1. k \in EntityKinds
    BY <1>5 DEF EntityTypes
  <2>2. CASE k \in Rewritten
    BY <1>1, <2>1, <2>2 DEF Write
  <2>3. CASE k \notin Rewritten
    <3>1. k \in built /\ written'[k] = written[k] /\ written[k] = Says(k)
      BY <1>1, <2>1, <2>3 DEF Write, WrittenIsSo, Rewritten
    <3>2. Heard(k)' = Heard(k) /\ Heard(k)' \cap {"primary", "reads"} = {}
      BY <2>3, <3>1 DEF Rewritten
    <3>3. k = "wideq" => last' = last
      BY <1>1, <2>3 DEF Write
    <3>4. k \notin Local
      BY <3>2 DEF Heard, Local
    <3>5. k = "tank" => ~TankIsLocal' /\ ~TankIsLocal
      BY <3>2 DEF Heard
    <3>6. Says(k)' = Says(k)
      BY <1>1, <2>1, <3>3, <3>4, <3>5, SaysAsBefore DEF Local
    <3> QED
      BY <3>1, <3>6
  <2> QED
    BY <2>2, <2>3
<1> QED
  BY <1>4, <1>5, <1>6, <1>7

LEMMA EntitiesStart == EntitiesInit => EntitiesInv
<1> SUFFICES ASSUME EntitiesInit PROVE EntitiesInv
  OBVIOUS
<1>1. /\ quantity \in Quantities /\ setup \in Setups /\ hidden = FALSE /\ had = FALSE
      /\ cloudPat \in PatStates /\ cloudWideq = [present |-> FALSE, value |-> Nothing]
      /\ localPrimary = NoField /\ localReads = NoReads
      /\ built = Candidates
      /\ written = [k \in EntityKinds |-> IF k \in built THEN Says(k) ELSE Unavailable]
  BY DEF EntitiesInit
<1>2. EntityTypes
  BY <1>1, CandidatesAreKinds DEF EntityTypes, PatStates, OfWideq, Field, ReadField, NoField, NoReads
<1>3. Unique(built) /\ QuantityIsShown /\ LegacyFits
  BY <1>1, CandidatesAreUnique, BuiltIsShown, LegacyCandidatesFit DEF LegacyFits
<1>4. WrittenIsSo
  BY <1>1, CandidatesAreKinds DEF WrittenIsSo
<1>5. EnergyIsKept
  BY <1>1 DEF EnergyIsKept
<1> QED
  BY <1>2, <1>3, <1>4, <1>5 DEF EntitiesInv

LEMMA EntitiesKeep ==
  ASSUME EntitiesInv, [EntitiesNext]_entityVars
  PROVE  EntitiesInv'
<1>1. CASE UNCHANGED entityVars
  <2>1. UNCHANGED <<quantity, setup, inProfile, hidden, cloudPat, cloudWideq, localPrimary,
                    localReads, built, written, last, had>>
    BY <1>1 DEF entityVars
  <2>2. EntityTypes' /\ EnergyIsKept' /\ Unique(built)' /\ QuantityIsShown' /\ LegacyFits'
    BY <2>1 DEF EntitiesInv, EntityTypes, EnergyIsKept, Unique, QuantityIsShown, InReads, InPrimary,
                LegacyFits
  <2>3. ASSUME NEW k \in built'
        PROVE  written'[k] = Says(k)'
    <3>1. k \in EntityKinds /\ written[k] = Says(k)
      BY <2>1 DEF EntitiesInv, EntityTypes, WrittenIsSo
    <3>2. (TankIsLocal' <=> TankIsLocal) /\ (InReads' <=> InReads) /\ (InPrimary' <=> InPrimary)
      BY <2>1 DEF TankIsLocal, Tank, InReads, InPrimary
    <3> QED
      BY <2>1, <3>1, <3>2, SaysAsBefore
  <2> QED
    BY <2>2, <2>3 DEF EntitiesInv, WrittenIsSo
<1>2. CASE EntitiesNext
  BY <1>2, SourceKeeps, DiscoveryKeeps, RefreshKeeps DEF EntitiesNext
<1> QED
  BY <1>1, <1>2

(* Where a local provider owns the quantity no cloud is shown.             *)
LEMMA LocalSaysLocal ==
  ASSUME NEW k, k \in Local \/ (k = "tank" /\ TankIsLocal)
  PROVE  Says(k).from \in {"primary", "reads", "unavailable"}
<1>1. CASE k = "tank" /\ TankIsLocal
  <2>1. Says(k) = When(localPrimary.available, "primary", localPrimary.value)
    BY <1>1 DEF Says, TankShows
  <2> QED
    BY <2>1 DEF When, Shown, Unavailable
<1>2. Display.from \in {"primary", "reads", "unavailable"}
  BY DEF Display, When, Shown, Unavailable
<1>3. CASE k \in {"legacy", "legacyRead"}
  <2>1. Says(k) \in {InWords(localPrimary, "primary"), DisplayInWords}
    BY <1>3 DEF Says
  <2>2. DisplayInWords.from \in {"primary", "reads", "unavailable"}
    BY <1>2 DEF DisplayInWords, When, Shown, Unavailable
  <2> QED
    BY <2>1, <2>2 DEF InWords, When, Shown, Unavailable
<1>4. CASE k \in {"pilot", "pilotBinary"}
  <2>1. Says(k) = When(localPrimary.available, "primary", localPrimary.value)
    BY <1>4 DEF Says
  <2> QED
    BY <2>1 DEF When, Shown, Unavailable
<1>5. CASE k \in {"full", "fullBinary"}
  BY <1>5, <1>2 DEF Says
<1>6. CASE k = "event"
  BY <1>6 DEF Says, When, Shown, Unavailable
<1> QED
  BY <1>1, <1>3, <1>4, <1>5, <1>6 DEF Local

(* Which of the local providers an entity shows.                           *)
LEMMA SaysItsUnit ==
  ASSUME NEW k \in Local, LegacyFits, k \in built
  PROVE  /\ Says(k).from = "primary" => quantity.pilotUnit = UnitOf(k)
         /\ Says(k).from = "reads" => quantity.unit = UnitOf(k)
<1>1. Display.from = "primary" => quantity.pilotUnit = quantity.unit
  BY DEF Display, StandsIn, When, Shown, Unavailable
<1>2. CASE k = "legacy"
  <2>1. Says(k) = InWords(localPrimary, "primary") /\ UnitOf(k) = quantity.wideq
    BY <1>2 DEF Says, UnitOf
  <2>2. Says(k).from # "reads"
    BY <2>1 DEF InWords, When, Shown, Unavailable
  <2> QED
    BY <1>2, <2>1, <2>2 DEF LegacyFits
<1>3. CASE k = "legacyRead"
  <2>1. Says(k) = DisplayInWords /\ UnitOf(k) = quantity.wideq
    BY <1>3 DEF Says, UnitOf
  <2>2. DisplayInWords.from = "primary" => Display.from = "primary"
    BY DEF DisplayInWords, When, Shown, Unavailable
  <2> QED
    BY <1>1, <1>3, <2>1, <2>2 DEF LegacyFits
<1>4. CASE k \in {"pilot", "pilotBinary"}
  <2>1. Says(k) = When(localPrimary.available, "primary", localPrimary.value)
        /\ UnitOf(k) = quantity.pilotUnit
    BY <1>4 DEF Says, UnitOf
  <2> QED
    BY <2>1 DEF When, Shown, Unavailable
<1>5. CASE k \in {"full", "fullBinary"}
  BY <1>1, <1>5 DEF Says, UnitOf
<1>6. CASE k = "event"
  <2>1. Says(k) = When(localReads.available, "reads", Nothing) /\ UnitOf(k) = quantity.unit
    BY <1>6 DEF Says, UnitOf
  <2> QED
    BY <2>1 DEF When, Shown, Unavailable
<1> QED
  BY <1>2, <1>3, <1>4, <1>5, <1>6 DEF Local

LEMMA EntitiesInvIsEnough == EntitiesInv => ReadingIsSound
<1> SUFFICES ASSUME EntitiesInv PROVE ReadingIsSound
  OBVIOUS
<1> USE DEF EntitiesInv
<1>1. IdsAreUnique
  BY CandidatesAreUnique DEF IdsAreUnique
<1>2. NoTwins
  BY TwinsAreNotBuilt
<1>3. LocalAlone
  BY LocalSaysLocal DEF LocalAlone, WrittenIsSo
<1>4. EnergyStays
  <2> SUFFICES ASSUME had PROVE written["wideq"].value # Nothing
    BY DEF EnergyStays
  <2>1. "wideq" \in built /\ quantity.energy /\ last # Nothing /\ ~quantity.draw
    BY QuantityAssumption DEF EnergyIsKept, EntityTypes
  <2>2. written["wideq"] = WideqShows
    BY <2>1 DEF WrittenIsSo, Says
  <2>3. WideqShows = Shown("wideq", Held)
    BY <2>1 DEF WideqShows, When
  <2>4. Held # Nothing
    BY <2>1 DEF Held
  <2> QED
    BY <2>2, <2>3, <2>4 DEF Shown
<1>5. UnitsAreTheirs
  BY SaysItsUnit DEF UnitsAreTheirs, WrittenIsSo
<1> QED
  BY <1>1, <1>2, <1>3, <1>4, <1>5 DEF ReadingIsSound

(* Whatever the clouds and the providers say, and however the database is  *)
(* edited: the entities of a quantity have ids of their own, show what     *)
(* there is and what their owner says, and a local owner's alone, in their *)
(* own unit, the primary provider's where it stands in for the feed.       *)
THEOREM ReadingStaysSound == EntitiesSpec => []ReadingIsSound
BY EntitiesStart, EntitiesKeep, EntitiesInvIsEnough, PTL DEF EntitiesSpec

=============================================================================
