----------------------- MODULE WideqCoordinatorProofs -----------------------
(***************************************************************************)
(* WideqCoordinator for any devices, polls, commands and changes, any      *)
(* threshold and any number of pauses: the circuit is respected, the       *)
(* caches are honest and the data moves forward.                           *)
(***************************************************************************)
EXTENDS WideqCoordinator, SequenceTheorems, TLAPS

----------------------------------------------------------------------------
(* Leaving the queue for a lock, or joining it, does not take the lock     *)
(* from somebody else who holds it.                                        *)
LEMMA RemoveAtKeepsHead ==
  ASSUME NEW S, NEW q \in Seq(S), NEW i \in 1 .. Len(q)
  PROVE  /\ RemoveAt(q, i) \in Seq(S)
         /\ i > 1 => RemoveAt(q, i) # <<>> /\ Head(RemoveAt(q, i)) = Head(q)
  <1>0. Len(q) \in Nat /\ \A j \in 1 .. Len(q) : q[j] \in S
    BY LenProperties, ElementOfSeq
  <1> DEFINE a == SubSeq(q, 1, i - 1)
             b == SubSeq(q, i + 1, Len(q))
  <1>1. a \in Seq(S) /\ (i > 1 => Len(a) = i - 1 /\ a[1] = q[1])
    BY <1>0, SubSeqProperties
  <1>2. b \in Seq(S)
    BY <1>0, SubSeqProperties
  <1> HIDE DEF a, b
  <1>3. RemoveAt(q, i) = a \o b
    BY DEF RemoveAt, a, b
  <1>4. /\ a \o b \in Seq(S)
        /\ Len(a \o b) = Len(a) + Len(b)
        /\ \A j \in 1 .. Len(a) + Len(b) :
              (a \o b)[j] = IF j <= Len(a) THEN a[j] ELSE b[j - Len(a)]
    BY <1>1, <1>2, ConcatProperties
  <1>5. ASSUME i > 1
        PROVE  a \o b # <<>> /\ Head(a \o b) = Head(q)
    <2>1. Len(a) >= 1 /\ Len(b) \in Nat /\ Len(a) \in Nat
      BY <1>0, <1>1, <1>2, <1>5, LenProperties
    <2>2. Len(a \o b) # 0 /\ (a \o b)[1] = q[1]
      BY <1>1, <1>4, <1>5, <2>1
    <2> QED
      BY <1>4, <2>2
  <1> QED
    BY <1>3, <1>4, <1>5

LEMMA WithoutKeepsHolder ==
  ASSUME NEW S, NEW q \in Seq(S), NEW o
  PROVE  /\ Without(q, o) \in Seq(S)
         /\ q # <<>> /\ Head(q) # o => Without(q, o) # <<>> /\ Head(Without(q, o)) = Head(q)
  <1>1. CASE \E i \in 1 .. Len(q) : q[i] = o
    <2> DEFINE i == CHOOSE i \in 1 .. Len(q) : q[i] = o
    <2>1. i \in 1 .. Len(q) /\ q[i] = o
      BY <1>1
    <2>2. Without(q, o) = RemoveAt(q, i)
      BY <1>1 DEF Without
    <2> HIDE DEF i
    <2>3. Len(q) \in Nat
      BY LenProperties
    <2>4. Head(q) # o => i > 1
      BY <2>1, <2>3
    <2> QED
      BY <2>1, <2>2, <2>4, RemoveAtKeepsHead
  <1>2. CASE ~ \E i \in 1 .. Len(q) : q[i] = o
    BY <1>2 DEF Without
  <1> QED
    BY <1>1, <1>2

LEMMA AppendKeepsHolder ==
  ASSUME NEW S, NEW q \in Seq(S), NEW e \in S
  PROVE  /\ Append(q, e) \in Seq(S)
         /\ q # <<>> => Append(q, e) # <<>> /\ Head(Append(q, e)) = Head(q)
  <1>1. q # <<>> => Len(q) \in Nat \ {0}
    BY EmptySeq
  <1>2. Append(q, e) \in Seq(S) /\ Len(Append(q, e)) = Len(q) + 1 /\ Len(q) \in Nat
    OBVIOUS
  <1>3. q # <<>> => Append(q, e)[1] = q[1]
    BY <1>1
  <1> QED
    BY <1>1, <1>2, <1>3

----------------------------------------------------------------------------
(* The inductive invariant.                                                *)
InHand ==
    [at : Places, req : Requests, dev : Devices, gen : Nat,
     expected : Settings, wanted : Settings \cup {NoSetting},
     shot : Nat, devs : SUBSET Devices, left : SUBSET Devices, tries : Nat]

TypeOK ==
    /\ io \in Seq(Ops)
    /\ line \in [Devices -> Seq(Ops)]
    /\ op \in [Ops -> InHand]
    /\ fails \in Nat /\ interval \in {"normal", "probe"}
    /\ mapped \in SUBSET Devices /\ online \in SUBSET Devices
    /\ data \in [Devices -> Nat]
    /\ night \in [Devices -> Settings \cup {NoSetting}]
    /\ stale \in BOOLEAN
    /\ gate \in [shut : BOOLEAN, gen : Nat, acknowledged : BOOLEAN]
    /\ saved \in [Devices -> Settings]
    /\ seen \in [Devices -> SUBSET Settings]
    /\ spent \in [fetches : Nat, touches : Nat, pauses : Nat]

(* Requests wait and run under the I/O lock.                               *)
Asking(o) == op[o].at \in {"limiter", "call"}
HoldersAsk == \A o \in Ops : Asking(o) => Holds(o)

(* What is shown is no newer than the last snapshot taken, nor than the    *)
(* one a poll still has in hand.                                           *)
ShotsAreNew ==
    /\ \A d \in Devices : data[d] <= spent.fetches
    /\ \A p \in Polls : Asking(p) /\ op[p].req \in {"energy", "tonight"} =>
          /\ op[p].shot <= spent.fetches
          /\ \A d \in Devices : data[d] <= op[p].shot

IInv ==
    /\ TypeOK
    /\ HoldersAsk
    /\ ShotsAreNew
    /\ CircuitIsRespected
    /\ CachesAreHonest
    /\ gate.acknowledged => gate.shut

----------------------------------------------------------------------------
(* What the steps share.                                                   *)
LEMMA IdleInHand == Idle \in InHand /\ Idle.at = "idle"
  <1>1. (CHOOSE d \in Devices : TRUE) \in Devices /\ (CHOOSE v \in Settings : TRUE) \in Settings
    BY OpsAssumption
  <1> QED
    BY <1>1 DEF Idle, Resting, InHand, Places, Requests

(* Who leaves frees both locks, and nobody else notices.                   *)
LEMMA LeavesEffect ==
  ASSUME TypeOK, HoldersAsk, NEW o \in Ops, Leaves(o)
  PROVE  /\ io' \in Seq(Ops) /\ line' \in [Devices -> Seq(Ops)] /\ op' \in [Ops -> InHand]
         /\ HoldersAsk'
         /\ ~Asking(o)'
         /\ \A w \in Ops \ {o} : op'[w] = op[w]
  <1>1. op' = [op EXCEPT ![o] = Idle] /\ io' = Without(io, o)
        /\ line' = [d \in Devices |-> Without(line[d], o)]
    BY DEF Leaves, Frees
  <1>2. io' \in Seq(Ops) /\ (io # <<>> /\ Head(io) # o => io' # <<>> /\ Head(io') = Head(io))
    BY <1>1, WithoutKeepsHolder DEF TypeOK
  <1>3. line' \in [Devices -> Seq(Ops)]
    BY <1>1, WithoutKeepsHolder DEF TypeOK
  <1>4. op' \in [Ops -> InHand] /\ op'[o] = Idle /\ \A w \in Ops \ {o} : op'[w] = op[w]
    BY <1>1, IdleInHand DEF TypeOK
  <1>5. ~Asking(o)'
    BY <1>4, IdleInHand DEF Asking
  <1>6. HoldersAsk'
    BY <1>2, <1>4, <1>5 DEF HoldersAsk, Holds, Asking
  <1> QED
    BY <1>2, <1>3, <1>4, <1>5, <1>6

(* The holder's next request changes nothing but where it is.              *)
LEMMA AsksEffect ==
  ASSUME TypeOK, HoldersAsk, NEW o \in Ops, Holds(o), NEW req \in Requests, Asks(o, req)
  PROVE  /\ io' = io /\ line' = line /\ op' \in [Ops -> InHand]
         /\ HoldersAsk'
         /\ op'[o] = [op[o] EXCEPT !.at = "limiter", !.req = req]
         /\ op'[o].at = "limiter" /\ op'[o].req = req
         /\ \A w \in Ops \ {o} : op'[w] = op[w]
  <1>1. op' = [op EXCEPT ![o].at = "limiter", ![o].req = req] /\ io' = io /\ line' = line
    BY DEF Asks, locks
  <1>2. op'[o] = [op[o] EXCEPT !.at = "limiter", !.req = req] /\ \A w \in Ops \ {o} : op'[w] = op[w]
    BY <1>1 DEF TypeOK
  <1>3. op'[o] \in InHand /\ op'[o].at = "limiter" /\ op'[o].req = req
    <2>1. op[o] \in InHand
      BY DEF TypeOK
    <2> QED
      BY <1>2, <2>1 DEF InHand, Places
  <1>4. op' \in [Ops -> InHand]
    BY <1>1, <1>3 DEF TypeOK
  <1>5. HoldersAsk'
    BY <1>1, <1>2 DEF HoldersAsk, Holds, Asking
  <1> QED
    BY <1>1, <1>2, <1>3, <1>4, <1>5

(* Only one operation asks at a time.                                      *)
LEMMA OneAsks ==
  ASSUME HoldersAsk, NEW o \in Ops, NEW w \in Ops, Asking(o), Asking(w)
  PROVE  o = w
  BY DEF HoldersAsk, Holds

(* A poll ends: nobody asks any more, the circuit opens or closes with its *)
(* interval, and data that is published is no older than what was there.   *)
Forward == \A d \in Devices : data'[d] = NoData \/ data'[d] >= data[d]

LEMMA PollEndsEffect ==
  ASSUME IInv, NEW p \in Polls, Asking(p),
         NEW shot \in Nat, NEW devs \in SUBSET Devices,
         \A d \in Devices : data[d] <= shot,
         PollEnds(p, shot, devs) \/ PollFails(p)
  PROVE  /\ io' \in Seq(Ops) /\ line' \in [Devices -> Seq(Ops)] /\ op' \in [Ops -> InHand]
         /\ fails' \in Nat /\ interval' \in {"normal", "probe"}
         /\ data' \in [Devices -> Nat] /\ stale' \in BOOLEAN
         /\ HoldersAsk' /\ \A w \in Ops : ~Asking(w)'
         /\ CircuitIsRespected'
         /\ Forward /\ \A d \in Devices : data'[d] <= shot
         /\ stale => stale' \/ ~gate.shut
  <1>0. p \in Ops /\ TypeOK /\ HoldersAsk
    BY DEF Ops, IInv
  <1>1. Leaves(p)
    BY DEF PollEnds, PollSucceeds, PollFails
  <1>2. /\ io' \in Seq(Ops) /\ line' \in [Devices -> Seq(Ops)] /\ op' \in [Ops -> InHand]
        /\ HoldersAsk' /\ ~Asking(p)'
        /\ \A w \in Ops \ {p} : op'[w] = op[w]
    BY <1>0, <1>1, LeavesEffect
  <1>3. \A w \in Ops : ~Asking(w)'
    <2> SUFFICES ASSUME NEW w \in Ops \ {p}, Asking(w)
                 PROVE  FALSE
      BY <1>2 DEF Asking
    <2> QED
      BY <1>0, OneAsks
  <1>4. \A c \in Commands : op'[c].at \notin {"limiter", "call"}
    BY <1>3 DEF Ops, Asking
  <1>5. CASE PollFails(p)
    <2>1. data' = data /\ stale' = stale
      BY <1>5 DEF PollFails
    <2>2. /\ fails' = IF fails > Threshold THEN fails ELSE fails + 1
          /\ interval' = IF fails' >= Threshold THEN "probe" ELSE interval
      BY <1>5 DEF PollFails
    <2>3. fails' \in Nat /\ interval' \in {"normal", "probe"}
      BY <1>0, <2>2 DEF TypeOK
    <2>4. CircuitIsRespected'
      BY <1>4, <2>2 DEF CircuitIsRespected, circuitOpen
    <2>5. Forward
      BY <1>0, <2>1 DEF Forward, TypeOK
    <2> QED
      BY <1>0, <1>2, <1>3, <2>1, <2>3, <2>4, <2>5 DEF TypeOK
  <1>6. CASE PollSucceeds(p, shot, devs)
    <2>1. /\ data' = [d \in Devices |-> IF d \in devs THEN shot ELSE NoData]
          /\ stale' = FALSE /\ ~gate.shut
          /\ fails' = 0 /\ interval' = "normal"
      BY <1>6 DEF PollSucceeds
    <2>2. /\ data' \in [Devices -> Nat]
          /\ \A d \in Devices : data'[d] <= shot
      BY <2>1 DEF NoData
    <2>3. Forward
      BY <1>0, <2>1 DEF Forward, TypeOK
    <2>4. CircuitIsRespected'
      BY <2>1, ThresholdAssumption DEF CircuitIsRespected, circuitOpen
    <2> QED
      BY <1>2, <1>3, <2>1, <2>2, <2>3, <2>4
  <1> QED
    BY <1>5, <1>6 DEF PollEnds

(* A poll goes on with another request.                                    *)
LEMMA PollGoesOnEffect ==
  ASSUME IInv, NEW p \in Polls, Holds(p), NEW r \in InHand, r.at = "limiter",
         op' = [op EXCEPT ![p] = r], UNCHANGED <<locks, circuit, data, stale>>
  PROVE  /\ io' \in Seq(Ops) /\ line' \in [Devices -> Seq(Ops)] /\ op' \in [Ops -> InHand]
         /\ fails' \in Nat /\ interval' \in {"normal", "probe"}
         /\ data' \in [Devices -> Nat] /\ stale' \in BOOLEAN
         /\ HoldersAsk' /\ op'[p] = r /\ \A w \in Ops \ {p} : op'[w] = op[w]
         /\ CircuitIsRespected'
         /\ Forward
  <1>0. p \in Ops /\ p \notin Commands /\ TypeOK /\ HoldersAsk
    BY OpsAssumption DEF Ops, IInv
  <1>1. op' \in [Ops -> InHand] /\ op'[p] = r /\ \A w \in Ops \ {p} : op'[w] = op[w]
    BY <1>0 DEF TypeOK
  <1>2. HoldersAsk'
    BY <1>0, <1>1 DEF HoldersAsk, Asking, Holds, locks
  <1>3. CircuitIsRespected'
    BY <1>0, <1>1 DEF CircuitIsRespected, circuitOpen, circuit, IInv, Ops
  <1>4. Forward
    BY <1>0 DEF Forward, TypeOK
  <1> QED
    BY <1>0, <1>1, <1>2, <1>3, <1>4 DEF TypeOK, locks, circuit

(* A step that publishes nothing, leaves the circuit and the gate alone,   *)
(* and lets no command ask while the circuit is open.                      *)
LEMMA QuietStep ==
  ASSUME IInv, NEW o \in Ops,
         io' \in Seq(Ops), line' \in [Devices -> Seq(Ops)], op' \in [Ops -> InHand], HoldersAsk',
         \A w \in Ops \ {o} : op'[w] = op[w],
         ~Asking(o)' \/ /\ o \in Commands => ~circuitOpen
                        /\ o \in Polls /\ op'[o].req \in {"energy", "tonight"} =>
                             Asking(o) /\ op[o].req = op'[o].req /\ op[o].shot = op'[o].shot,
         UNCHANGED <<circuit, account, stale, gate, spent>>,
         night' \in [Devices -> Settings \cup {NoSetting}], saved' \in [Devices -> Settings],
         seen' \in [Devices -> SUBSET Settings], NightModeWasRead'
  PROVE  IInv' /\ Forward
  <1>0. op'[o].at \notin {"limiter", "call"} \/ (o \in Commands => ~circuitOpen)
    BY DEF Asking
  <1>1. TypeOK'
    BY DEF IInv, TypeOK, circuit, account
  <1>2. ShotsAreNew'
    <2>1. \A d \in Devices : data'[d] <= spent'.fetches
      BY DEF IInv, ShotsAreNew, account
    <2>2. ASSUME NEW p \in Polls, Asking(p)', op'[p].req \in {"energy", "tonight"}
          PROVE  op'[p].shot <= spent'.fetches /\ \A d \in Devices : data'[d] <= op'[p].shot
      <3>1. CASE p = o
        <4>1. op'[o].at \in {"limiter", "call"} /\ op'[o].req \in {"energy", "tonight"}
          BY <2>2, <3>1 DEF Asking
        <4>2. Asking(o) /\ op[o].req = op'[o].req /\ op[o].shot = op'[o].shot
          BY <4>1, <3>1 DEF Asking
        <4> QED
          BY <2>2, <3>1, <4>2 DEF IInv, ShotsAreNew, account
      <3>2. CASE p # o
        <4>1. op'[p] = op[p]
          BY <3>2 DEF Ops
        <4>2. Asking(p) /\ op[p].req \in {"energy", "tonight"}
          BY <2>2, <4>1 DEF Asking
        <4> QED
          BY <4>1, <4>2 DEF IInv, ShotsAreNew, account
      <3> QED
        BY <3>1, <3>2
    <2> QED
      BY <2>1, <2>2 DEF ShotsAreNew
  <1>3. CircuitIsRespected'
    <2> SUFFICES ASSUME circuitOpen', circuitOpen
                 PROVE  (\A c \in Commands : op'[c].at \notin {"limiter", "call"}) /\ interval' = "probe"
      BY DEF CircuitIsRespected, circuitOpen, circuit
    <2>1. interval' = "probe" /\ \A c \in Commands : op[c].at \notin {"limiter", "call"}
      BY DEF IInv, CircuitIsRespected, circuit
    <2>2. o \in Commands => op'[o].at \notin {"limiter", "call"}
      BY <1>0 DEF Asking, circuitOpen
    <2> QED
      BY <2>1, <2>2 DEF Ops
  <1>4. CachesAreHonest' /\ (gate'.acknowledged => gate'.shut)
    BY DEF IInv, CachesAreHonest, PausedDataIsStale
  <1>5. Forward
    BY DEF Forward, IInv, TypeOK, account
  <1> QED
    BY <1>1, <1>2, <1>3, <1>4, <1>5 DEF IInv

LEMMA QuietLeave ==
  ASSUME IInv, NEW o \in Ops, Leaves(o),
         UNCHANGED <<circuit, account, stale, gate, spent>>,
         night' \in [Devices -> Settings \cup {NoSetting}], saved' \in [Devices -> Settings],
         seen' \in [Devices -> SUBSET Settings], NightModeWasRead'
  PROVE  IInv' /\ Forward
  <1>1. TypeOK /\ HoldersAsk
    BY DEF IInv
  <1>2. /\ io' \in Seq(Ops) /\ line' \in [Devices -> Seq(Ops)] /\ op' \in [Ops -> InHand]
        /\ HoldersAsk' /\ ~Asking(o)'
        /\ \A w \in Ops \ {o} : op'[w] = op[w]
    BY <1>1, LeavesEffect
  <1> QED
    BY <1>2, QuietStep DEF Asking

LEMMA QuietAsk ==
  ASSUME IInv, NEW o \in Ops, Holds(o), o \in Commands => ~circuitOpen,
         NEW req \in Requests \ {"energy", "tonight"}, Asks(o, req),
         UNCHANGED <<circuit, account, stale, gate, spent>>,
         night' \in [Devices -> Settings \cup {NoSetting}], saved' \in [Devices -> Settings],
         seen' \in [Devices -> SUBSET Settings], NightModeWasRead'
  PROVE  IInv' /\ Forward
  <1>1. TypeOK /\ HoldersAsk
    BY DEF IInv
  <1>2. /\ io' \in Seq(Ops) /\ line' \in [Devices -> Seq(Ops)] /\ op' \in [Ops -> InHand]
        /\ HoldersAsk' /\ op'[o].req = req
        /\ \A w \in Ops \ {o} : op'[w] = op[w]
    BY <1>1, AsksEffect DEF TypeOK
  <1> QED
    BY <1>2, QuietStep

(* The night-mode caches of a step that does not touch them.               *)
LEMMA NightUntouched ==
  ASSUME IInv, UNCHANGED <<night, seen>>
  PROVE  /\ night' \in [Devices -> Settings \cup {NoSetting}]
         /\ seen' \in [Devices -> SUBSET Settings] /\ NightModeWasRead'
  BY DEF IInv, TypeOK, CachesAreHonest, NightModeWasRead

----------------------------------------------------------------------------
(* The steps of a poll.                                                    *)
LEMMA PollBeginsStep ==
  ASSUME IInv, NEW p \in Polls, PollBegins(p)
  PROVE  IInv' /\ Forward
  <1>1. /\ p \in Ops /\ io' = Append(io, p) /\ line' = line
        /\ op' = [op EXCEPT ![p].at = "queued"]
    BY DEF PollBegins, Ops
  <1>2. io' \in Seq(Ops) /\ (io # <<>> => io' # <<>> /\ Head(io') = Head(io))
    BY <1>1, AppendKeepsHolder DEF IInv, TypeOK
  <1>3. /\ op' \in [Ops -> InHand] /\ op'[p].at = "queued"
        /\ \A w \in Ops \ {p} : op'[w] = op[w]
    <2>1. op[p] \in InHand /\ op \in [Ops -> InHand]
      BY <1>1 DEF IInv, TypeOK
    <2>2. [op[p] EXCEPT !.at = "queued"] \in InHand /\ [op[p] EXCEPT !.at = "queued"].at = "queued"
      BY <2>1 DEF InHand, Places
    <2> QED
      BY <1>1, <2>1, <2>2
  <1>4. HoldersAsk'
    BY <1>2, <1>3 DEF IInv, HoldersAsk, Asking, Holds
  <1>5. ~Asking(p)'
    BY <1>3 DEF Asking
  <1>6. /\ line' \in [Devices -> Seq(Ops)] /\ saved' \in [Devices -> Settings]
        /\ UNCHANGED <<circuit, account, stale, gate, spent, night, seen>>
    BY <1>1 DEF PollBegins, IInv, TypeOK
  <1> QED
    BY <1>1, <1>2, <1>3, <1>4, <1>5, <1>6, NightUntouched, QuietStep DEF Asking

LEMMA PollEntersStep ==
  ASSUME IInv, NEW p \in Polls, PollEnters(p)
  PROVE  IInv' /\ Forward
  <1>1. /\ p \in Ops /\ p \notin Commands /\ Holds(p) /\ Asks(p, "snapshots")
        /\ UNCHANGED <<circuit, account, stale, gate, spent, night, seen>>
        /\ saved' \in [Devices -> Settings]
    BY OpsAssumption DEF PollEnters, Ops, IInv, TypeOK
  <1> QED
    BY <1>1, NightUntouched, QuietAsk DEF Requests

(* A poll that ends leaves an invariant state, whatever it has learnt of   *)
(* the devices and read of the night modes.                                *)
LEMMA PollOver ==
  ASSUME IInv, NEW p \in Polls, Asking(p),
         NEW shot \in Nat, NEW devs \in SUBSET Devices,
         \A d \in Devices : data[d] <= shot,
         PollEnds(p, shot, devs) \/ PollFails(p),
         spent' \in [fetches : Nat, touches : Nat, pauses : Nat],
         shot <= spent'.fetches, UNCHANGED <<gate, saved>>,
         mapped' \in SUBSET Devices, online' \in SUBSET Devices,
         night' \in [Devices -> Settings \cup {NoSetting}],
         seen' \in [Devices -> SUBSET Settings], NightModeWasRead'
  PROVE  IInv' /\ Forward
  <1>1. /\ io' \in Seq(Ops) /\ line' \in [Devices -> Seq(Ops)] /\ op' \in [Ops -> InHand]
        /\ fails' \in Nat /\ interval' \in {"normal", "probe"}
        /\ data' \in [Devices -> Nat] /\ stale' \in BOOLEAN
        /\ HoldersAsk' /\ \A w \in Ops : ~Asking(w)'
        /\ CircuitIsRespected'
        /\ Forward /\ \A d \in Devices : data'[d] <= shot
        /\ stale => stale' \/ ~gate.shut
    BY PollEndsEffect
  <1>2. TypeOK'
    BY <1>1 DEF IInv, TypeOK
  <1>3. ShotsAreNew'
    <2>1. \A d \in Devices : data'[d] <= spent'.fetches
      BY <1>1
    <2>2. \A w \in Polls : ~(op'[w].at \in {"limiter", "call"})
      BY <1>1 DEF Asking, Ops
    <2> QED
      BY <2>1, <2>2 DEF ShotsAreNew, Asking
  <1>4. PausedDataIsStale' /\ (gate'.acknowledged => gate'.shut)
    BY <1>1 DEF IInv, CachesAreHonest, PausedDataIsStale
  <1> QED
    BY <1>1, <1>2, <1>3, <1>4 DEF IInv, CachesAreHonest

(* So does a poll that goes on.                                            *)
LEMMA PollGoesOn ==
  ASSUME IInv, NEW p \in Polls, Holds(p), NEW r \in InHand, r.at = "limiter",
         op' = [op EXCEPT ![p] = r], UNCHANGED <<locks, circuit, data, stale>>,
         spent' \in [fetches : Nat, touches : Nat, pauses : Nat],
         spent.fetches <= spent'.fetches, UNCHANGED <<gate, saved>>,
         r.shot <= spent'.fetches, \A d \in Devices : data[d] <= r.shot,
         mapped' \in SUBSET Devices, online' \in SUBSET Devices,
         night' \in [Devices -> Settings \cup {NoSetting}],
         seen' \in [Devices -> SUBSET Settings], NightModeWasRead'
  PROVE  IInv' /\ Forward
  <1>1. /\ io' \in Seq(Ops) /\ line' \in [Devices -> Seq(Ops)] /\ op' \in [Ops -> InHand]
        /\ fails' \in Nat /\ interval' \in {"normal", "probe"}
        /\ data' \in [Devices -> Nat] /\ stale' \in BOOLEAN
        /\ HoldersAsk' /\ op'[p] = r /\ \A w \in Ops \ {p} : op'[w] = op[w]
        /\ CircuitIsRespected'
        /\ Forward
    BY PollGoesOnEffect
  <1>2. TypeOK'
    BY <1>1 DEF IInv, TypeOK
  <1>3. ShotsAreNew'
    <2>1. \A d \in Devices : data'[d] <= spent'.fetches
      <3> SUFFICES ASSUME NEW d \in Devices
                   PROVE  data[d] <= spent'.fetches
        OBVIOUS
      <3>1. data[d] <= spent.fetches /\ data[d] \in Nat /\ spent.fetches \in Nat
        BY DEF IInv, ShotsAreNew, TypeOK
      <3> QED
        BY <3>1
    <2>2. ASSUME NEW w \in Polls, w # p, op'[w].at \in {"limiter", "call"}
          PROVE  FALSE
      <3>1. w \in Ops /\ p \in Ops
        BY DEF Ops
      <3>2. op[w].at \in {"limiter", "call"}
        BY <1>1, <2>2, <3>1
      <3> QED
        BY <2>2, <3>1, <3>2 DEF IInv, HoldersAsk, Asking, Holds
    <2>3. op'[p].shot <= spent'.fetches /\ \A d \in Devices : data'[d] <= op'[p].shot
      BY <1>1
    <2> QED
      BY <2>1, <2>2, <2>3 DEF ShotsAreNew, Asking
  <1>4. PausedDataIsStale' /\ (gate'.acknowledged => gate'.shut)
    BY DEF IInv, CachesAreHonest, PausedDataIsStale
  <1> QED
    BY <1>1, <1>2, <1>3, <1>4 DEF IInv, CachesAreHonest

(* A snapshot is newer than everything shown.                              *)
LEMMA PollTakesSnapshotStep ==
  ASSUME IInv, NEW p \in Polls, PollTakesSnapshot(p)
  PROVE  IInv' /\ Forward
  <1>1. PICK known, up, devs \in SUBSET Devices, energy \in SUBSET {"energy"} :
          \E due \in SUBSET (devs \cap up) :
             /\ Snapshot(known, devs)
             /\ online' = up
             /\ \/ /\ fails = 0 /\ energy \cup due # {}
                   /\ op' = [op EXCEPT ![p] =
                               [@ EXCEPT !.at = "limiter",
                                         !.req = IF energy # {} THEN "energy" ELSE "tonight",
                                         !.shot = spent'.fetches,
                                         !.devs = devs, !.left = due]]
                   /\ UNCHANGED <<locks, circuit, data, stale>>
                \/ /\ fails # 0 \/ energy \cup due = {}
                   /\ PollEnds(p, spent'.fetches, devs)
    BY DEF PollTakesSnapshot
  <1>2. PICK due \in SUBSET (devs \cap up) :
             /\ Snapshot(known, devs)
             /\ online' = up
             /\ \/ /\ op' = [op EXCEPT ![p] =
                               [@ EXCEPT !.at = "limiter",
                                         !.req = IF energy # {} THEN "energy" ELSE "tonight",
                                         !.shot = spent'.fetches,
                                         !.devs = devs, !.left = due]]
                   /\ UNCHANGED <<locks, circuit, data, stale>>
                \/ PollEnds(p, spent'.fetches, devs)
    BY <1>1
  <1>3. p \in Ops /\ TypeOK /\ HoldersAsk /\ Asking(p) /\ Holds(p)
    BY DEF PollTakesSnapshot, Answered, Ops, IInv, Asking, HoldersAsk
  <1>4. /\ spent' \in [fetches : Nat, touches : Nat, pauses : Nat]
        /\ spent'.fetches = spent.fetches + 1
    <2>1. spent' = [spent EXCEPT !.fetches = @ + 1]
      BY DEF PollTakesSnapshot, Spend
    <2>2. spent \in [fetches : Nat, touches : Nat, pauses : Nat]
      BY <1>3 DEF TypeOK
    <2> QED
      BY <2>1, <2>2
  <1>5. /\ spent'.fetches \in Nat /\ spent.fetches <= spent'.fetches
        /\ \A d \in Devices : data[d] <= spent'.fetches
    <2> SUFFICES ASSUME NEW d \in Devices
                 PROVE  /\ spent'.fetches \in Nat /\ spent.fetches <= spent'.fetches
                        /\ data[d] <= spent'.fetches
      BY OpsAssumption
    <2>1. data[d] <= spent.fetches /\ data[d] \in Nat /\ spent.fetches \in Nat
      BY DEF IInv, ShotsAreNew, TypeOK
    <2> QED
      BY <1>4, <2>1
  <1>6. mapped' \in SUBSET Devices /\ online' \in SUBSET Devices
    BY <1>2 DEF Snapshot
  <1>7. UNCHANGED <<night, seen, gate, saved>>
    BY DEF PollTakesSnapshot
  <1>8. CASE PollEnds(p, spent'.fetches, devs)
    <2> HIDE DEF IInv
    <2> QED
      BY <1>3, <1>4, <1>5, <1>6, <1>7, <1>8, NightUntouched, PollOver
  <1>9. CASE /\ op' = [op EXCEPT ![p] =
                         [@ EXCEPT !.at = "limiter",
                                   !.req = IF energy # {} THEN "energy" ELSE "tonight",
                                   !.shot = spent'.fetches,
                                   !.devs = devs, !.left = due]]
             /\ UNCHANGED <<locks, circuit, data, stale>>
    <2> DEFINE r == [op[p] EXCEPT !.at = "limiter",
                                  !.req = IF energy # {} THEN "energy" ELSE "tonight",
                                  !.shot = spent'.fetches,
                                  !.devs = devs, !.left = due]
    <2>1. op[p] \in InHand
      BY <1>3 DEF TypeOK
    <2>2. r \in InHand /\ r.at = "limiter" /\ r.shot = spent'.fetches
      BY <1>2, <1>5, <2>1 DEF InHand, Places, Requests
    <2>3. op' = [op EXCEPT ![p] = r]
      BY <1>9
    <2> HIDE DEF r
    <2>4. r.shot <= spent'.fetches /\ \A d \in Devices : data[d] <= r.shot
      BY <1>5, <2>2
    <2>5. /\ night' \in [Devices -> Settings \cup {NoSetting}]
          /\ seen' \in [Devices -> SUBSET Settings] /\ NightModeWasRead'
      BY <1>7, NightUntouched
    <2> QED
      BY <1>3, <1>4, <1>5, <1>6, <1>7, <1>9, <2>2, <2>3, <2>4, <2>5, PollGoesOn
  <1> QED
    BY <1>2, <1>8, <1>9

LEMMA PollRejectedStep ==
  ASSUME IInv, NEW p \in Polls, PollRejected(p)
  PROVE  IInv' /\ Forward
  <1>1. /\ Asking(p) /\ PollFails(p)
        /\ UNCHANGED <<mapped, online, night, gate, saved, seen, spent>>
    BY DEF PollRejected, Rejected, Asking
  <1>2. /\ \A d \in Devices : data[d] <= spent.fetches
        /\ spent \in [fetches : Nat, touches : Nat, pauses : Nat] /\ spent.fetches \in Nat
        /\ mapped \in SUBSET Devices /\ online \in SUBSET Devices
    BY DEF IInv, ShotsAreNew, TypeOK
  <1>3. {} \in SUBSET Devices /\ spent.fetches <= spent'.fetches
    BY <1>1, <1>2
  <1> QED
    BY <1>1, <1>2, <1>3, NightUntouched, PollOver

(* What a poll has in hand is still newer than what is shown when its next *)
(* optional read is over.                                                  *)
LEMMA ReadsOnStep ==
  ASSUME IInv, NEW p \in Polls, Asking(p), op[p].req \in {"energy", "tonight"},
         NEW left \in SUBSET op[p].left, ReadsOn(p, left),
         UNCHANGED <<mapped, online, gate, saved, spent>>,
         night' \in [Devices -> Settings \cup {NoSetting}],
         seen' \in [Devices -> SUBSET Settings], NightModeWasRead'
  PROVE  IInv' /\ Forward
  <1>1. /\ p \in Ops /\ Holds(p) /\ op[p] \in InHand
        /\ spent \in [fetches : Nat, touches : Nat, pauses : Nat]
        /\ spent.fetches \in Nat
        /\ mapped \in SUBSET Devices /\ online \in SUBSET Devices
    BY DEF Ops, IInv, TypeOK, HoldersAsk
  <1>2. /\ op[p].shot \in Nat /\ op[p].devs \in SUBSET Devices /\ left \in SUBSET Devices
        /\ op[p].shot <= spent.fetches
        /\ \A d \in Devices : data[d] <= op[p].shot
    BY <1>1 DEF InHand, IInv, ShotsAreNew
  <1>3. CASE PollEnds(p, op[p].shot, op[p].devs)
    BY <1>1, <1>2, <1>3, PollOver
  <1>4. CASE /\ op' = [op EXCEPT ![p] = [@ EXCEPT !.at = "limiter", !.req = "tonight", !.left = left]]
             /\ UNCHANGED <<locks, circuit, data, stale>>
    <2> DEFINE r == [op[p] EXCEPT !.at = "limiter", !.req = "tonight", !.left = left]
    <2>1. op' = [op EXCEPT ![p] = r]
      BY <1>4
    <2>2. r \in InHand /\ r.at = "limiter" /\ r.shot = op[p].shot
      BY <1>1, <1>2 DEF InHand, Places, Requests
    <2> HIDE DEF r
    <2>3. r.shot <= spent'.fetches /\ \A d \in Devices : data[d] <= r.shot
      BY <1>2, <2>2
    <2>4. spent.fetches <= spent'.fetches
      BY <1>1
    <2> QED
      BY <1>1, <1>4, <2>1, <2>2, <2>3, <2>4, PollGoesOn
  <1> QED
    BY <1>3, <1>4 DEF ReadsOn

LEMMA PollReadsEnergyStep ==
  ASSUME IInv, NEW p \in Polls, PollReadsEnergy(p)
  PROVE  IInv' /\ Forward
  <1>1. /\ Asking(p) /\ op[p].req = "energy" /\ ReadsOn(p, op[p].left)
        /\ UNCHANGED <<mapped, online, gate, saved, spent, night, seen>>
    BY DEF PollReadsEnergy, Answered, Rejected, Asking
  <1> QED
    BY <1>1, NightUntouched, ReadsOnStep

LEMMA PollReadsNightStep ==
  ASSUME IInv, NEW p \in Polls, NEW d \in Devices, PollReadsNight(p, d)
  PROVE  IInv' /\ Forward
  <1>1. /\ Asking(p) /\ op[p].req = "tonight" /\ ReadsOn(p, op[p].left \ {d})
        /\ UNCHANGED <<mapped, online, gate, saved, spent>>
    BY DEF PollReadsNight, Answered, Rejected, Asking
  <1>2. /\ night \in [Devices -> Settings \cup {NoSetting}]
        /\ seen \in [Devices -> SUBSET Settings]
        /\ saved \in [Devices -> Settings]
        /\ NightModeWasRead
    BY DEF IInv, TypeOK, CachesAreHonest
  <1>3. CASE /\ night' = [night EXCEPT ![d] = saved[d]]
             /\ seen' = [seen EXCEPT ![d] = @ \cup {saved[d]}]
    <2>1. /\ night' \in [Devices -> Settings \cup {NoSetting}]
          /\ seen' \in [Devices -> SUBSET Settings] /\ NightModeWasRead'
      BY <1>2, <1>3 DEF NightModeWasRead
    <2> QED
      BY <1>1, <2>1, ReadsOnStep
  <1>4. CASE night' = [night EXCEPT ![d] = NoSetting] /\ seen' = seen
    <2>1. /\ night' \in [Devices -> Settings \cup {NoSetting}]
          /\ seen' \in [Devices -> SUBSET Settings] /\ NightModeWasRead'
      BY <1>2, <1>4 DEF NightModeWasRead
    <2> QED
      BY <1>1, <2>1, ReadsOnStep
  <1> QED
    BY <1>3, <1>4 DEF PollReadsNight

----------------------------------------------------------------------------
(* The steps of a command and of a change.                                 *)
LEMMA GrantedStep ==
  ASSUME IInv, NEW o \in Ops, Granted(o)
  PROVE  IInv' /\ Forward
  <1>1. /\ op[o] \in InHand /\ op \in [Ops -> InHand] /\ gate.gen \in Nat
        /\ op' = [op EXCEPT ![o].at = "call", ![o].gen = gate.gen]
        /\ io' = io /\ line' = line
        /\ UNCHANGED <<circuit, account, stale, gate, spent, night, seen, saved>>
    BY DEF Granted, IInv, TypeOK, locks
  <1> DEFINE r == [op[o] EXCEPT !.at = "call", !.gen = gate.gen]
  <1>2. r \in InHand /\ r.req = op[o].req /\ r.shot = op[o].shot
    BY <1>1 DEF InHand, Places
  <1>3. op' = [op EXCEPT ![o] = r]
    BY <1>1
  <1> HIDE DEF r
  <1>4. /\ op' \in [Ops -> InHand] /\ op'[o] = r
        /\ \A w \in Ops \ {o} : op'[w] = op[w]
    BY <1>1, <1>2, <1>3
  <1>5. Asking(o)
    BY DEF Granted, Asking
  <1>6. HoldersAsk'
    BY <1>1, <1>4, <1>5 DEF IInv, HoldersAsk, Asking, Holds
  <1>7. o \in Commands => ~circuitOpen
    BY <1>5 DEF IInv, CircuitIsRespected, Asking
  <1>8. /\ io' \in Seq(Ops) /\ line' \in [Devices -> Seq(Ops)]
        /\ saved' \in [Devices -> Settings]
    BY <1>1 DEF IInv, TypeOK
  <1>9. /\ night' \in [Devices -> Settings \cup {NoSetting}]
        /\ seen' \in [Devices -> SUBSET Settings] /\ NightModeWasRead'
    BY <1>1, NightUntouched
  <1> QED
    BY <1>1, <1>2, <1>4, <1>5, <1>6, <1>7, <1>8, <1>9, QuietStep

LEMMA BeginsStep ==
  ASSUME IInv, NEW o \in Commands \cup Changes, NEW d \in Devices, Begins(o, d)
  PROVE  IInv' /\ Forward
  <1>1. /\ o \in Ops /\ op[o] \in InHand /\ op \in [Ops -> InHand]
        /\ line \in [Devices -> Seq(Ops)]
        /\ UNCHANGED <<io, circuit, account, night, stale, gate, saved, seen, spent>>
    BY DEF Begins, Ops, IInv, TypeOK
  <1>2. PICK r \in InHand : r.at = "device" /\ op' = [op EXCEPT ![o] = r]
    <2>1. CASE op' = [op EXCEPT ![o] = [@ EXCEPT !.at = "device", !.dev = d]]
      <3>1. /\ [op[o] EXCEPT !.at = "device", !.dev = d] \in InHand
            /\ [op[o] EXCEPT !.at = "device", !.dev = d].at = "device"
        BY <1>1 DEF InHand, Places
      <3> QED
        BY <2>1, <3>1
    <2>2. ASSUME NEW v \in Settings \cup {Preview}, night[d] # NoSetting,
                 op' = [op EXCEPT ![o] = [@ EXCEPT !.at = "device", !.dev = d,
                                                   !.expected = night[d], !.wanted = v]]
          PROVE  \E r \in InHand : r.at = "device" /\ op' = [op EXCEPT ![o] = r]
      <3> DEFINE r == [op[o] EXCEPT !.at = "device", !.dev = d, !.expected = night[d], !.wanted = v]
      <3>1. night[d] \in Settings /\ v \in Settings \cup {NoSetting}
        BY <2>2 DEF Preview, IInv, TypeOK
      <3>2. r \in InHand /\ r.at = "device"
        BY <1>1, <3>1 DEF InHand, Places
      <3>3. op' = [op EXCEPT ![o] = r]
        BY <2>2
      <3> HIDE DEF r
      <3> QED
        BY <3>2, <3>3
    <2> QED
      BY <2>1, <2>2 DEF Begins
  <1>3. /\ op' \in [Ops -> InHand] /\ op'[o].at = "device"
        /\ \A w \in Ops \ {o} : op'[w] = op[w]
    BY <1>1, <1>2
  <1>4. line' \in [Devices -> Seq(Ops)]
    <2>1. line' = [line EXCEPT ![d] = Append(@, o)] /\ line[d] \in Seq(Ops)
      BY <1>1 DEF Begins
    <2>2. Append(line[d], o) \in Seq(Ops)
      BY <1>1, <2>1, AppendKeepsHolder
    <2> QED
      BY <1>1, <2>1, <2>2
  <1>5. HoldersAsk' /\ op'[o].at \notin {"limiter", "call"}
    BY <1>1, <1>3 DEF IInv, HoldersAsk, Asking, Holds
  <1>6. io' \in Seq(Ops) /\ saved' \in [Devices -> Settings]
    BY <1>1 DEF IInv, TypeOK
  <1> QED
    BY <1>1, <1>3, <1>4, <1>5, <1>6, NightUntouched, QuietStep DEF Asking

LEMMA TakesDeviceStep ==
  ASSUME IInv, NEW o \in Ops, TakesDevice(o)
  PROVE  IInv' /\ Forward
  <1>1. /\ io' = Append(io, o) /\ line' = line
        /\ op' = [op EXCEPT ![o].at = "queued"]
        /\ op[o] \in InHand /\ op \in [Ops -> InHand]
    BY DEF TakesDevice, IInv, TypeOK
  <1>2. io' \in Seq(Ops) /\ (io # <<>> => io' # <<>> /\ Head(io') = Head(io))
    BY <1>1, AppendKeepsHolder DEF IInv, TypeOK
  <1>3. [op[o] EXCEPT !.at = "queued"] \in InHand /\ [op[o] EXCEPT !.at = "queued"].at = "queued"
    BY <1>1 DEF InHand, Places
  <1>4. /\ op' \in [Ops -> InHand] /\ op'[o].at = "queued"
        /\ \A w \in Ops \ {o} : op'[w] = op[w]
    BY <1>1, <1>3
  <1>5. HoldersAsk' /\ op'[o].at \notin {"limiter", "call"}
    BY <1>2, <1>4 DEF IInv, HoldersAsk, Asking, Holds
  <1>6. /\ line' \in [Devices -> Seq(Ops)] /\ saved' \in [Devices -> Settings]
        /\ UNCHANGED <<circuit, account, stale, gate, spent, night, seen>>
    BY <1>1 DEF TakesDevice, IInv, TypeOK
  <1> QED
    BY <1>2, <1>4, <1>5, <1>6, NightUntouched, QuietStep DEF Asking

LEMMA CommandEntersStep ==
  ASSUME IInv, NEW c \in Commands, CommandEnters(c)
  PROVE  IInv' /\ Forward
  <1>1. /\ c \in Ops /\ saved' \in [Devices -> Settings]
        /\ UNCHANGED <<circuit, account, stale, gate, spent, night, seen>>
    BY DEF CommandEnters, Unseen, Ops, IInv, TypeOK
  <1>2. /\ night' \in [Devices -> Settings \cup {NoSetting}]
        /\ seen' \in [Devices -> SUBSET Settings] /\ NightModeWasRead'
    BY <1>1, NightUntouched
  <1>3. CASE Leaves(c)
    BY <1>1, <1>2, <1>3, QuietLeave
  <1>4. CASE ~circuitOpen /\ Asks(c, IF op[c].dev \in mapped THEN "control" ELSE "resolve")
    <2>1. /\ (IF op[c].dev \in mapped THEN "control" ELSE "resolve")
                  \in Requests \ {"energy", "tonight"}
          /\ Holds(c)
      BY DEF Requests, CommandEnters
    <2> QED
      BY <1>1, <1>2, <1>4, <2>1, QuietAsk
  <1> QED
    BY <1>3, <1>4 DEF CommandEnters

(* A snapshot for a command or a change is newer than everything shown, and*)
(* no poll has one in hand.                                                *)
LEMMA ResolvesStep ==
  ASSUME IInv, NEW o \in Commands \cup Changes, Resolves(o)
  PROVE  IInv' /\ Forward
  <1>1. /\ o \in Ops /\ o \notin Polls /\ TypeOK /\ HoldersAsk /\ Asking(o) /\ Holds(o)
    BY OpsAssumption DEF Ops, IInv, Resolves, Answered, Asking, HoldersAsk
  <1>2. UNCHANGED <<circuit, night, stale, gate, saved, seen>>
    BY DEF Resolves, Unseen
  <1>3. /\ spent' \in [fetches : Nat, touches : Nat, pauses : Nat]
        /\ spent'.fetches = spent.fetches + 1 /\ spent.fetches \in Nat
    <2>1. spent' = [spent EXCEPT !.fetches = @ + 1]
      BY DEF Resolves, Spend
    <2>2. spent \in [fetches : Nat, touches : Nat, pauses : Nat]
      BY <1>1 DEF TypeOK
    <2> QED
      BY <2>1, <2>2
  <1>4. PICK known, up, devs \in SUBSET Devices :
          /\ Snapshot(known, devs)
          /\ data' = [d \in Devices |-> IF d \in devs THEN spent'.fetches ELSE data[d]]
          /\ online' = IF o \in Changes THEN up ELSE online
    BY DEF Resolves
  <1>5. mapped' \in SUBSET Devices /\ online' \in SUBSET Devices
    BY <1>1, <1>4 DEF Snapshot, TypeOK
  <1>6. \A d \in Devices : /\ data'[d] \in Nat /\ data'[d] <= spent'.fetches
                           /\ data'[d] >= data[d]
    <2> SUFFICES ASSUME NEW d \in Devices
                 PROVE  /\ data'[d] \in Nat /\ data'[d] <= spent'.fetches
                        /\ data'[d] >= data[d]
      OBVIOUS
    <2>1. data[d] \in Nat /\ data[d] <= spent.fetches
      BY <1>1 DEF TypeOK, IInv, ShotsAreNew
    <2> QED
      BY <1>3, <1>4, <2>1
  <1>7. data' \in [Devices -> Nat]
    BY <1>4, <1>6
  <1>8. \/ Leaves(o)
        \/ \E req \in {"control", "read"} : Asks(o, req)
    BY DEF Resolves
  <1>9. /\ io' \in Seq(Ops) /\ line' \in [Devices -> Seq(Ops)] /\ op' \in [Ops -> InHand]
        /\ HoldersAsk' /\ \A w \in Ops \ {o} : op'[w] = op[w]
    <2>1. CASE Leaves(o)
      BY <1>1, <2>1, LeavesEffect
    <2>2. ASSUME NEW req \in {"control", "read"}, Asks(o, req)
          PROVE  /\ io' \in Seq(Ops) /\ line' \in [Devices -> Seq(Ops)] /\ op' \in [Ops -> InHand]
                 /\ HoldersAsk' /\ \A w \in Ops \ {o} : op'[w] = op[w]
      <3>1. req \in Requests
        BY DEF Requests
      <3> QED
        BY <1>1, <2>2, <3>1, AsksEffect DEF TypeOK
    <2> QED
      BY <1>8, <2>1, <2>2
  <1>10. TypeOK'
    BY <1>1, <1>2, <1>3, <1>5, <1>7, <1>9 DEF TypeOK, circuit
  <1>11. ShotsAreNew'
    <2>1. ASSUME NEW p \in Polls, op'[p].at \in {"limiter", "call"}
          PROVE  FALSE
      <3>1. p \in Ops /\ op[p].at \in {"limiter", "call"}
        BY <1>1, <1>9, <2>1 DEF Ops
      <3> QED
        BY <1>1, <3>1 DEF HoldersAsk, Holds, Asking
    <2> QED
      BY <1>6, <2>1 DEF ShotsAreNew, Asking
  <1>12. CircuitIsRespected'
    <2> SUFFICES ASSUME circuitOpen', circuitOpen
                 PROVE  (\A c \in Commands : op'[c].at \notin {"limiter", "call"}) /\ interval' = "probe"
      BY <1>2 DEF CircuitIsRespected, circuitOpen, circuit
    <2>1. interval' = "probe" /\ \A c \in Commands : op[c].at \notin {"limiter", "call"}
      BY <1>2 DEF IInv, CircuitIsRespected, circuit
    <2>2. o \notin Commands
      BY <1>1, <2>1 DEF Asking
    <2> QED
      BY <1>9, <2>1, <2>2 DEF Ops
  <1>13. CachesAreHonest' /\ (gate'.acknowledged => gate'.shut)
    BY <1>2 DEF IInv, CachesAreHonest, PausedDataIsStale, NightModeWasRead
  <1> QED
    BY <1>6, <1>9, <1>10, <1>11, <1>12, <1>13 DEF IInv, Forward

LEMMA QuietEnds ==
  ASSUME IInv, NEW o \in Ops, ResolveRejected(o) \/ CommandEnds(o)
  PROVE  IInv' /\ Forward
  <1>1. /\ Leaves(o) /\ saved' \in [Devices -> Settings]
        /\ UNCHANGED <<circuit, account, stale, gate, spent, night, seen>>
    BY DEF ResolveRejected, CommandEnds, Unseen, IInv, TypeOK
  <1> QED
    BY <1>1, NightUntouched, QuietLeave

LEMMA ChangeEntersStep ==
  ASSUME IInv, NEW n \in Changes, ChangeEnters(n)
  PROVE  IInv' /\ Forward
  <1>1. /\ n \in Ops /\ n \notin Commands /\ Holds(n) /\ saved' \in [Devices -> Settings]
        /\ UNCHANGED <<circuit, account, stale, gate, spent, night, seen>>
    BY OpsAssumption DEF ChangeEnters, Unseen, Ops, IInv, TypeOK
  <1>2. /\ night' \in [Devices -> Settings \cup {NoSetting}]
        /\ seen' \in [Devices -> SUBSET Settings] /\ NightModeWasRead'
    BY <1>1, NightUntouched
  <1>3. CASE Leaves(n)
    BY <1>1, <1>2, <1>3, QuietLeave
  <1>4. CASE Asks(n, "resolve")
    BY <1>1, <1>2, <1>4, QuietAsk DEF Requests
  <1>5. CASE Asks(n, "read")
    BY <1>1, <1>2, <1>5, QuietAsk DEF Requests
  <1> QED
    BY <1>3, <1>4, <1>5 DEF ChangeEnters

(* A change caches a setting it has just read, or none.                    *)
LEMMA NightRead ==
  ASSUME IInv, NEW d \in Devices,
         seen' = [seen EXCEPT ![d] = @ \cup {saved[d]}],
         \/ night' = [night EXCEPT ![d] = saved[d]]
         \/ night' = [night EXCEPT ![d] = NoSetting]
         \/ night' = night
  PROVE  /\ night' \in [Devices -> Settings \cup {NoSetting}]
         /\ seen' \in [Devices -> SUBSET Settings] /\ NightModeWasRead'
  <1>1. /\ night \in [Devices -> Settings \cup {NoSetting}]
        /\ seen \in [Devices -> SUBSET Settings]
        /\ saved[d] \in Settings /\ NightModeWasRead
    BY DEF IInv, TypeOK, CachesAreHonest
  <1>2. CASE night' = [night EXCEPT ![d] = saved[d]]
    BY <1>1, <1>2 DEF NightModeWasRead
  <1>3. CASE night' = [night EXCEPT ![d] = NoSetting]
    BY <1>1, <1>3 DEF NightModeWasRead
  <1>4. CASE night' = night
    BY <1>1, <1>4 DEF NightModeWasRead
  <1> QED
    BY <1>2, <1>3, <1>4

LEMMA ChangeReadsStep ==
  ASSUME IInv, NEW n \in Changes, ChangeReads(n)
  PROVE  IInv' /\ Forward
  <1> DEFINE d == op[n].dev
  <1>1. /\ n \in Ops /\ n \notin Commands /\ Asking(n) /\ saved' \in [Devices -> Settings]
        /\ UNCHANGED <<circuit, account, stale, gate, spent>>
    BY OpsAssumption DEF ChangeReads, Answered, Asking, Ops, IInv, TypeOK
  <1>2. d \in Devices /\ Holds(n)
    BY <1>1 DEF IInv, TypeOK, InHand, HoldersAsk
  <1>3. /\ seen' = [seen EXCEPT ![d] = @ \cup {saved[d]}]
        /\ \/ night' = [night EXCEPT ![d] = saved[d]]
           \/ night' = [night EXCEPT ![d] = NoSetting]
           \/ night' = night
    BY DEF ChangeReads, Told
  <1> HIDE DEF d
  <1>4. /\ night' \in [Devices -> Settings \cup {NoSetting}]
        /\ seen' \in [Devices -> SUBSET Settings] /\ NightModeWasRead'
    BY <1>2, <1>3, NightRead
  <1>5. CASE Leaves(n)
    BY <1>1, <1>4, <1>5, QuietLeave
  <1>6. CASE Asks(n, "write")
    BY <1>1, <1>2, <1>4, <1>6, QuietAsk DEF Requests
  <1> QED
    BY <1>5, <1>6 DEF ChangeReads

(* What a PUT may leave saved is a setting.                                *)
LEMMA SavedIsSetting ==
  ASSUME IInv, NEW o \in Ops
  PROVE  /\ op[o].dev \in Devices
         /\ saved \in [Devices -> Settings]
         /\ [saved EXCEPT ![op[o].dev] = Sought(o)] \in [Devices -> Settings]
  <1>1. op[o] \in InHand /\ saved \in [Devices -> Settings]
    BY DEF IInv, TypeOK
  <1>2. /\ op[o].dev \in Devices
        /\ op[o].expected \in Settings /\ op[o].wanted \in Settings \cup {NoSetting}
    BY <1>1 DEF InHand
  <1>3. Sought(o) \in Settings
    BY <1>2 DEF Sought, Preview
  <1> QED
    BY <1>1, <1>2, <1>3

LEMMA ChangeWritesStep ==
  ASSUME IInv, NEW n \in Changes, ChangeWrites(n)
  PROVE  IInv' /\ Forward
  <1>1. /\ n \in Ops /\ n \notin Commands /\ Asking(n) /\ Asks(n, "confirm")
        /\ UNCHANGED <<circuit, account, stale, gate, spent, night, seen>>
    BY OpsAssumption DEF ChangeWrites, Answered, Asking, Ops
  <1>2. Holds(n)
    BY <1>1 DEF IInv, HoldersAsk
  <1>3. saved' \in [Devices -> Settings]
    BY <1>1, SavedIsSetting DEF ChangeWrites, SavedBy
  <1> QED
    BY <1>1, <1>2, <1>3, NightUntouched, QuietAsk DEF Requests

LEMMA ChangeConfirmsStep ==
  ASSUME IInv, NEW n \in Changes, ChangeConfirms(n)
  PROVE  IInv' /\ Forward
  <1> DEFINE d == op[n].dev
  <1>1. /\ n \in Ops /\ n \notin Commands /\ n \notin Polls /\ Asking(n)
        /\ op[n].req = "confirm"
        /\ saved' \in [Devices -> Settings]
        /\ UNCHANGED <<circuit, account, stale, gate, spent>>
    BY OpsAssumption DEF ChangeConfirms, Answered, Asking, Ops, IInv, TypeOK
  <1>2. d \in Devices /\ Holds(n)
    BY <1>1 DEF IInv, TypeOK, InHand, HoldersAsk
  <1>3. /\ seen' = [seen EXCEPT ![d] = @ \cup {saved[d]}]
        /\ \/ night' = [night EXCEPT ![d] = saved[d]]
           \/ night' = [night EXCEPT ![d] = NoSetting]
           \/ night' = night
    BY DEF ChangeConfirms, Told
  <1> HIDE DEF d
  <1>4. /\ night' \in [Devices -> Settings \cup {NoSetting}]
        /\ seen' \in [Devices -> SUBSET Settings] /\ NightModeWasRead'
    BY <1>2, <1>3, NightRead
  <1>5. CASE Leaves(n)
    BY <1>1, <1>4, <1>5, QuietLeave
  <1>6. CASE /\ op' = [op EXCEPT ![n].at = "limiter", ![n].tries = @ + 1]
             /\ UNCHANGED locks
    <2> DEFINE r == [op[n] EXCEPT !.at = "limiter", !.tries = @ + 1]
    <2>1. op[n] \in InHand /\ op \in [Ops -> InHand]
      BY <1>1 DEF IInv, TypeOK
    <2>2. op[n].tries + 1 \in Nat
      BY <2>1 DEF InHand
    <2>3. r \in InHand
      BY <2>1, <2>2 DEF InHand, Places
    <2>4. op' = [op EXCEPT ![n] = r]
      BY <1>6
    <2> HIDE DEF r
    <2>5. op' \in [Ops -> InHand] /\ \A w \in Ops \ {n} : op'[w] = op[w]
      BY <2>1, <2>3, <2>4
    <2>6. /\ HoldersAsk' /\ io' \in Seq(Ops) /\ line' \in [Devices -> Seq(Ops)]
      BY <1>2, <1>6, <2>5 DEF IInv, TypeOK, HoldersAsk, Asking, Holds, locks
    <2> QED
      BY <1>1, <1>4, <2>5, <2>6, QuietStep
  <1> QED
    BY <1>5, <1>6 DEF ChangeConfirms

LEMMA ChangeRejectedStep ==
  ASSUME IInv, NEW n \in Changes, ChangeRejected(n)
  PROVE  IInv' /\ Forward
  <1>1. /\ n \in Ops /\ Leaves(n)
        /\ UNCHANGED <<circuit, account, stale, gate, spent, seen>>
    BY DEF ChangeRejected, Ops
  <1>2. op[n].dev \in Devices /\ saved' \in [Devices -> Settings]
    BY <1>1, SavedIsSetting DEF ChangeRejected
  <1>3. /\ night' \in [Devices -> Settings \cup {NoSetting}]
        /\ seen' \in [Devices -> SUBSET Settings] /\ NightModeWasRead'
    BY <1>1, <1>2 DEF ChangeRejected, IInv, TypeOK, CachesAreHonest, NightModeWasRead
  <1> QED
    BY <1>1, <1>2, <1>3, QuietLeave

LEMMA CancelledStep ==
  ASSUME IInv, NEW o \in Ops, Cancelled(o)
  PROVE  IInv' /\ Forward
  <1>1. /\ Leaves(o)
        /\ UNCHANGED <<circuit, account, stale, gate, spent, night, seen>>
    BY DEF Cancelled
  <1>2. saved' \in [Devices -> Settings]
    BY SavedIsSetting DEF Cancelled
  <1> QED
    BY <1>1, <1>2, NightUntouched, QuietLeave

----------------------------------------------------------------------------
(* What happens around the coroutines, and steps of other modules.         *)
LEMMA AroundStep ==
  ASSUME IInv, UNCHANGED <<locks, op, fails, account, night, seen>>,
         interval' \in {"normal", "probe"}, circuitOpen => interval' = "probe",
         stale' \in BOOLEAN, gate' \in [shut : BOOLEAN, gen : Nat, acknowledged : BOOLEAN],
         saved' \in [Devices -> Settings],
         spent' \in [fetches : Nat, touches : Nat, pauses : Nat], spent'.fetches = spent.fetches,
         gate'.acknowledged => stale' /\ gate'.shut
  PROVE  IInv' /\ Forward
  <1>1. TypeOK'
    BY DEF IInv, TypeOK, locks, account
  <1>2. HoldersAsk'
    BY DEF IInv, HoldersAsk, Asking, Holds, locks
  <1>3. ShotsAreNew'
    BY DEF IInv, ShotsAreNew, Asking, account
  <1>4. CircuitIsRespected'
    BY DEF IInv, CircuitIsRespected, circuitOpen
  <1>5. CachesAreHonest' /\ (gate'.acknowledged => gate'.shut)
    BY DEF IInv, CachesAreHonest, PausedDataIsStale, NightModeWasRead
  <1>6. Forward
    BY DEF Forward, IInv, TypeOK, account
  <1> QED
    BY <1>1, <1>2, <1>3, <1>4, <1>5, <1>6 DEF IInv

LEMMA EnvironmentStep ==
  ASSUME IInv,
         \/ Reconcile \/ Pause \/ Acknowledge \/ Resume \/ UNCHANGED vars
         \/ \E d \in Devices, v \in Settings : Touch(d, v)
  PROVE  IInv' /\ Forward
  <1>1. /\ interval \in {"normal", "probe"} /\ (circuitOpen => interval = "probe")
        /\ stale \in BOOLEAN /\ saved \in [Devices -> Settings]
        /\ gate.acknowledged => stale /\ gate.shut
    BY DEF IInv, TypeOK, CircuitIsRespected, CachesAreHonest, PausedDataIsStale
  <1>2. /\ gate \in [shut : BOOLEAN, gen : Nat, acknowledged : BOOLEAN]
        /\ spent \in [fetches : Nat, touches : Nat, pauses : Nat]
    BY DEF IInv, TypeOK
  <1>3. CASE Reconcile
    BY <1>1, <1>2, <1>3, AroundStep DEF Reconcile
  <1>4. CASE Pause
    <2>1. /\ spent' = [spent EXCEPT !.pauses = @ + 1]
          /\ gate' = [gate EXCEPT !.shut = TRUE, !.gen = @ + 1]
          /\ UNCHANGED <<locks, op, circuit, account, night, stale, saved, seen>>
      BY <1>4 DEF Pause, Spend
    <2>2. /\ gate' \in [shut : BOOLEAN, gen : Nat, acknowledged : BOOLEAN]
          /\ gate'.shut /\ gate'.acknowledged = gate.acknowledged
      <3>1. gate.gen \in Nat /\ gate.gen + 1 \in Nat
        BY <1>2
      <3>2. gate' = [shut |-> TRUE, gen |-> gate.gen + 1, acknowledged |-> gate.acknowledged]
        BY <1>2, <2>1
      <3> QED
        BY <1>2, <3>1, <3>2
    <2>3. /\ spent' \in [fetches : Nat, touches : Nat, pauses : Nat]
          /\ spent'.fetches = spent.fetches
      BY <1>2, <2>1
    <2> QED
      BY <1>1, <2>1, <2>2, <2>3, AroundStep DEF circuit
  <1>5. CASE Acknowledge
    <2>1. /\ gate' = [gate EXCEPT !.acknowledged = TRUE] /\ gate.shut /\ stale'
          /\ UNCHANGED <<locks, op, circuit, account, night, saved, seen, spent>>
      BY <1>5 DEF Acknowledge
    <2>2. /\ gate' \in [shut : BOOLEAN, gen : Nat, acknowledged : BOOLEAN]
          /\ gate'.shut
      BY <1>2, <2>1
    <2>3. stale' \in BOOLEAN
      BY <1>5 DEF Acknowledge
    <2> QED
      BY <1>1, <1>2, <2>1, <2>2, <2>3, AroundStep DEF circuit
  <1>6. CASE Resume
    <2>1. /\ gate' = [shut |-> FALSE, gen |-> gate.gen + 1, acknowledged |-> FALSE]
          /\ UNCHANGED <<locks, op, circuit, account, night, stale, saved, seen, spent>>
      BY <1>6 DEF Resume
    <2>2. /\ gate' \in [shut : BOOLEAN, gen : Nat, acknowledged : BOOLEAN]
          /\ ~gate'.acknowledged
      BY <1>2, <2>1
    <2> QED
      BY <1>1, <1>2, <2>1, <2>2, AroundStep DEF circuit
  <1>7. CASE \E d \in Devices, v \in Settings : Touch(d, v)
    <2>1. PICK d \in Devices, v \in Settings :
            /\ spent' = [spent EXCEPT !.touches = @ + 1]
            /\ saved' = [saved EXCEPT ![d] = v]
            /\ UNCHANGED <<locks, op, circuit, account, night, stale, gate, seen>>
      BY <1>7 DEF Touch, Spend
    <2>2. saved' \in [Devices -> Settings]
      BY <1>1, <2>1
    <2>3. /\ spent' \in [fetches : Nat, touches : Nat, pauses : Nat]
          /\ spent'.fetches = spent.fetches
      BY <1>2, <2>1
    <2> QED
      BY <1>1, <1>2, <2>1, <2>2, <2>3, AroundStep DEF circuit
  <1>8. CASE UNCHANGED vars
    BY <1>1, <1>2, <1>8, AroundStep DEF vars, circuit
  <1> QED
    BY <1>3, <1>4, <1>5, <1>6, <1>7, <1>8

----------------------------------------------------------------------------
LEMMA InitHolds == Init => IInv
  <1> SUFFICES ASSUME Init
               PROVE  IInv
    OBVIOUS
  <1>1. op = [o \in Ops |-> Idle] /\ op \in [Ops -> InHand] /\ \A o \in Ops : ~Asking(o)
    BY IdleInHand DEF Init, Asking
  <1>2. <<>> \in Seq(Ops)
    OBVIOUS
  <1>3. TypeOK
    <2>1. saved \in [Devices -> Settings]
      BY OpsAssumption DEF Init
    <2> QED
      BY <1>1, <1>2, <2>1 DEF Init, TypeOK, NoData
  <1>4. ShotsAreNew /\ HoldersAsk
    BY <1>1 DEF Init, ShotsAreNew, HoldersAsk, NoData, Ops
  <1>5. CircuitIsRespected
    BY ThresholdAssumption DEF Init, CircuitIsRespected, circuitOpen
  <1>6. CachesAreHonest /\ ~gate.acknowledged
    BY DEF Init, CachesAreHonest, NightModeWasRead, PausedDataIsStale
  <1> QED
    BY <1>3, <1>4, <1>5, <1>6 DEF IInv

LEMMA NextHolds == IInv /\ [Next]_vars => IInv' /\ Forward
  <1> SUFFICES ASSUME IInv, [Next]_vars
               PROVE  IInv' /\ Forward
    OBVIOUS
  <1>1. ASSUME NEW p \in Polls, PollBegins(p)
        PROVE  IInv' /\ Forward
    BY <1>1, PollBeginsStep
  <1>2. ASSUME NEW o \in Commands \cup Changes, NEW d \in Devices, Begins(o, d)
        PROVE  IInv' /\ Forward
    BY <1>2, BeginsStep
  <1>3. ASSUME NEW o \in Ops, Proceeds(o)
        PROVE  IInv' /\ Forward
    <2>1. CASE Granted(o)
      BY <2>1, GrantedStep
    <2>2. CASE o \in Polls /\ PollStep(o)
      BY <2>2, PollEntersStep, PollTakesSnapshotStep, PollRejectedStep, PollReadsEnergyStep,
         PollReadsNightStep DEF PollStep
    <2>3. CASE o \in Commands /\ CommandStep(o)
      BY <2>3, CommandEntersStep, QuietEnds DEF CommandStep
    <2>4. CASE o \in Changes /\ ChangeStep(o)
      BY <2>4, ChangeEntersStep, ChangeReadsStep, ChangeWritesStep, ChangeConfirmsStep,
         ChangeRejectedStep DEF ChangeStep
    <2>5. CASE o \notin Polls /\ (TakesDevice(o) \/ Resolves(o) \/ ResolveRejected(o))
      <3>1. o \in Commands \cup Changes
        BY <2>5 DEF Ops
      <3> QED
        BY <2>5, <3>1, TakesDeviceStep, ResolvesStep, QuietEnds
    <2> QED
      BY <1>3, <2>1, <2>2, <2>3, <2>4, <2>5 DEF Proceeds
  <1>4. ASSUME NEW o \in Ops, Cancelled(o)
        PROVE  IInv' /\ Forward
    BY <1>4, CancelledStep
  <1>5. CASE \/ Reconcile \/ Pause \/ Acknowledge \/ Resume \/ UNCHANGED vars
             \/ \E d \in Devices, v \in Settings : Touch(d, v)
    BY <1>5, EnvironmentStep
  <1> QED
    BY <1>1, <1>2, <1>3, <1>4, <1>5 DEF Next

LEMMA InvariantHolds == Spec => []IInv
  BY InitHolds, NextHolds, PTL DEF Spec

(* Whatever is asked of the account is asked by whoever holds the I/O lock,*)
(* so the sequence of requests is one operation's at a time.               *)
THEOREM OneOperationAsks == Spec => [](\A o, w \in Ops : Asking(o) /\ Asking(w) => o = w)
  <1>1. IInv => \A o, w \in Ops : Asking(o) /\ Asking(w) => o = w
    BY OneAsks DEF IInv
  <1> QED
    BY <1>1, InvariantHolds, PTL

(* No device command asks while the circuit is open, and the account is    *)
(* polled at the interval of a probe until a poll has succeeded.  Of night-*)
(* mode changes it says nothing: one accepted before the circuit opened    *)
(* asks when its locks are free (_async_change_night_mode).                *)
THEOREM OpenCircuitIsRespected == Spec => []CircuitIsRespected
  <1>1. IInv => CircuitIsRespected
    BY DEF IInv
  <1> QED
    BY <1>1, InvariantHolds, PTL

(* Every cached night mode was read from the account, and the data of an   *)
(* account whose pause is acknowledged is marked as stale.                 *)
THEOREM CachesStayHonest == Spec => []CachesAreHonest
  <1>1. IInv => CachesAreHonest
    BY DEF IInv
  <1> QED
    BY <1>1, InvariantHolds, PTL

(* No step replaces a device's snapshot by an older one.                   *)
THEOREM SnapshotsMoveForward == Spec => DataMovesForward
  <1>1. IInv /\ [Next]_vars => [\A d \in Devices : data'[d] = NoData \/ data'[d] >= data[d]]_vars
    BY NextHolds DEF Forward
  <1> QED
    BY <1>1, InvariantHolds, PTL DEF Spec, DataMovesForward

=============================================================================
