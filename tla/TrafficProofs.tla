---------------------------- MODULE TrafficProofs ----------------------------
(***************************************************************************)
(* What leaves for the cloud and for the bridge.                           *)
(*  - CloudRuntime, for any set of sources, any number of calls, requests, *)
(*    reloads and crashes: late answers are refused, and an acknowledged   *)
(*    protection is kept (CloudRuntime implements CloudProtection).        *)
(*  - LocalSetting, for any capabilities, catalogues, conditions, callers  *)
(*    and edits: what is offered may be sent, is sent once for one intent, *)
(*    and nothing leaves that is not allowed when it does.                 *)
(***************************************************************************)
EXTENDS CloudRuntime, LocalSetting, SequenceTheorems, FiniteSetTheorems, WellFoundedInduction, TLAPS

----------------------------------------------------------------------------
(* Removing one element of a sequence.                                     *)
LEMMA RemoveAtProperties ==
  ASSUME NEW S, NEW q \in Seq(S), NEW i \in 1 .. Len(q)
  PROVE  /\ RemoveAt(q, i) \in Seq(S)
         /\ i > 1 => /\ RemoveAt(q, i) # <<>>
                     /\ Head(RemoveAt(q, i)) = Head(q)
  <1>0. Len(q) \in Nat /\ \A j \in 1 .. Len(q) : q[j] \in S
    BY LenProperties, ElementOfSeq
  <1> DEFINE a == SubSeq(q, 1, i - 1)
             b == SubSeq(q, i + 1, Len(q))
  <1>1. a \in Seq(S) /\ (i > 1 => Len(a) = i - 1 /\ a[1] = q[1])
    BY <1>0, SubSeqProperties
  <1>2. b \in Seq(S)
    BY <1>0, SubSeqProperties
  <1> HIDE DEF a, b
  <1>3. RemoveAt(q, i) = a \o b
    BY DEF RemoveAt, a, b
  <1>4. /\ a \o b \in Seq(S)
        /\ Len(a \o b) = Len(a) + Len(b)
        /\ \A j \in 1 .. Len(a) + Len(b) :
              (a \o b)[j] = IF j <= Len(a) THEN a[j] ELSE b[j - Len(a)]
    BY <1>1, <1>2, ConcatProperties
  <1>5. ASSUME i > 1
        PROVE  a \o b # <<>> /\ Head(a \o b) = Head(q)
    <2>1. Len(a) >= 1 /\ Len(b) \in Nat /\ Len(a) \in Nat
      BY <1>0, <1>1, <1>2, <1>5, LenProperties
    <2>2. Len(a \o b) # 0 /\ (a \o b)[1] = q[1]
      BY <1>1, <1>4, <1>5, <2>1
    <2> QED
      BY <1>4, <2>2
  <1> QED
    BY <1>3, <1>4, <1>5

(* A job that queues up behind others leaves the first of them in place.   *)
LEMMA AppendKeepsHead ==
  ASSUME NEW S, NEW q \in Seq(S), NEW e, q # <<>>
  PROVE  Append(q, e) # <<>> /\ Head(Append(q, e)) = Head(q)
  <1>1. Len(q) \in Nat \ {0}
    BY EmptySeq
  <1>2. Len(Append(q, e)) = Len(q) + 1 /\ Append(q, e)[1] = q[1]
    BY <1>1
  <1> QED
    BY <1>1, <1>2

(* A nonempty tuple of sources as a set: its head and the set of its tail. *)
LEMMA OfHeadTail ==
  ASSUME NEW S, NEW q \in Seq(S), q # <<>>
  PROVE  /\ Of(q) \subseteq S
         /\ Of(q) = {Head(q)} \cup Of(Tail(q))
         /\ Len(q) = 1 => Of(q) = {Head(q)}
         /\ Len(q) > 1 => Tail(q) # <<>>
         /\ Tail(q) \in Seq(S) /\ Head(q) \in S
  <1>1. /\ Len(q) \in Nat \ {0}
        /\ Head(q) = q[1]
        /\ Tail(q) \in Seq(S)
        /\ Len(Tail(q)) = Len(q) - 1
        /\ \A i \in 1 .. Len(Tail(q)) : Tail(q)[i] = q[i + 1]
        /\ \A i \in 1 .. Len(q) : q[i] \in S
    BY HeadTailProperties, EmptySeq, ElementOfSeq
  <1>2. Of(q) \subseteq S
    BY <1>1 DEF Of
  <1>3. Of(q) = {Head(q)} \cup Of(Tail(q))
    <2>1. ASSUME NEW i \in 1 .. Len(q)
          PROVE  q[i] \in {Head(q)} \cup Of(Tail(q))
      <3>1. CASE i = 1
        BY <1>1, <3>1
      <3>2. CASE i # 1
        <4>1. i - 1 \in 1 .. Len(Tail(q)) /\ Tail(q)[i - 1] = q[i]
          BY <1>1, <3>2
        <4> QED
          BY <4>1 DEF Of
      <3> QED
        BY <3>1, <3>2
    <2>2. ASSUME NEW i \in 1 .. Len(Tail(q))
          PROVE  Tail(q)[i] \in Of(q)
      <3>1. i + 1 \in 1 .. Len(q) /\ Tail(q)[i] = q[i + 1]
        BY <1>1
      <3> QED
        BY <3>1 DEF Of
    <2>3. Head(q) \in Of(q)
      BY <1>1 DEF Of
    <2> QED
      BY <2>1, <2>2, <2>3 DEF Of
  <1>4. Len(q) = 1 => Of(q) = {Head(q)}
    BY <1>1 DEF Of
  <1>5. Len(q) > 1 => Tail(q) # <<>>
    <2> DEFINE t == Tail(q)
    <2>1. Len(t) = Len(q) - 1
      BY <1>1
    <2> HIDE DEF t
    <2>2. Len(q) > 1 => t # <<>>
      BY <1>1, <2>1, EmptySeq
    <2> QED
      BY <2>2 DEF t
  <1> QED
    BY <1>1, <1>2, <1>3, <1>4, <1>5

----------------------------------------------------------------------------
(* What MarkLate and Cancelled change of the calls, and what they leave.   *)
CallRecords == [at : {"idle", "running", "cancelling", "cancelled", "applied"}
                        \cup Outcomes,
                gen : Nat, late : BOOLEAN]

LEMMA MarkLateProperties ==
  ASSUME NEW c \in [Sources \X Slots -> CallRecords], NEW S
  PROVE  /\ MarkLate(c, S) \in [Sources \X Slots -> CallRecords]
         /\ \A p \in Sources \X Slots :
               /\ MarkLate(c, S)[p].at = c[p].at
               /\ MarkLate(c, S)[p].gen = c[p].gen
               /\ MarkLate(c, S)[p].late =
                    (c[p].late \/ (p[1] \in S /\ c[p].at \notin {"idle", "applied"}))
  BY DEF MarkLate, CallRecords

LEMMA CancelledProperties ==
  ASSUME NEW c \in [Sources \X Slots -> CallRecords], NEW S
  PROVE  /\ Cancelled(c, S) \in [Sources \X Slots -> CallRecords]
         /\ \A p \in Sources \X Slots :
               /\ Cancelled(c, S)[p].gen = c[p].gen
               /\ Cancelled(c, S)[p].late = c[p].late
               /\ \/ Cancelled(c, S)[p].at = c[p].at
                  \/ c[p].at = "running" /\ Cancelled(c, S)[p].at = "cancelling"
  BY DEF Cancelled, CallRecords

LEMMA BegunProperties ==
  ASSUME NEW c \in [Sources \X Slots -> CallRecords], NEW s \in Sources,
         NEW k \in Slots, gen[s] \in Nat
  PROVE  Begun(c, s, k) \in [Sources \X Slots -> CallRecords]
  BY DEF Begun, CallRecords

----------------------------------------------------------------------------
(* What a reload leaves of the runtime it replaces, and what becomes of it.*)
LEMMA RemainsType ==
  ASSUME NEW q \in Seq(Jobs), NEW at \in Phases, NEW shut, NEW saving,
         q = <<>> \/ (/\ shut \in [Sources -> Reasons \cup {Open}]
                      /\ saving \in [Sources -> Reasons \cup {Open}])
  PROVE  Remains(q, at, shut, saving) \in Lefts
  BY DEF Remains, Lefts, Phases

LEMMA NobodyType == Nobody \in [1 .. MaxRestarts -> Lefts]
  <1>1. <<>> \in Seq(Jobs) /\ "waiting" \in Phases
    BY DEF Phases
  <1>2. Remains(<<>>, "waiting", <<>>, <<>>) \in Lefts
    BY <1>1, RemainsType
  <1> QED
    BY <1>2 DEF Nobody

LEMMA LeftsKeepTypes ==
  ASSUME TypeOK, NEW n \in 1 .. MaxRestarts,
         LeftStep(n) \/ \E i \in 1 .. Len(left[n].queue) : LeftCancelled(n, i)
  PROVE  /\ left' \in [1 .. MaxRestarts -> Lefts]
         /\ disk' \in [Sources -> Reasons \cup {Open}] /\ overtaken' \in BOOLEAN
  <1>l. PICK l \in Lefts : l = left[n]
    BY DEF TypeOK
  <1>0. /\ l.queue \in Seq(Jobs) /\ l.phase \in Phases
        /\ l.reason \in [Sources -> Reasons \cup {Open}]
        /\ l.snapshot \in [Sources -> Reasons \cup {Open}]
        /\ left \in [1 .. MaxRestarts -> Lefts]
        /\ disk \in [Sources -> Reasons \cup {Open}] /\ overtaken \in BOOLEAN
    BY <1>l DEF Lefts, TypeOK
  <1>1. CASE LeftEnters(n)
    <2>1. l.queue # <<>>
      BY <1>l, <1>1 DEF LeftEnters
    <2>2. Head(l.queue).why \in Reasons
      <3>1. PICK j \in Jobs : j = Head(l.queue)
        BY <1>0, <2>1, HeadTailProperties
      <3> QED
        BY <3>1 DEF Jobs
    <2>3. PICK shut \in [Sources -> Reasons \cup {Open}] :
             left' = [left EXCEPT ![n] = [queue |-> l.queue, phase |-> "saving",
                                          reason |-> shut, snapshot |-> shut]]
      <3> DEFINE why == IF Head(l.queue).kind = "pause" THEN Head(l.queue).why ELSE Open
                 f == [s \in Sources |-> IF s \in Of(Head(l.queue).sources) THEN why
                                         ELSE l.reason[s]]
      <3>1. f \in [Sources -> Reasons \cup {Open}]
        BY <1>0, <2>2
      <3>2. left' = [left EXCEPT ![n] = [queue |-> l.queue, phase |-> "saving",
                                         reason |-> f, snapshot |-> f]]
        BY <1>l, <1>1 DEF LeftEnters, Left
      <3> HIDE DEF f
      <3> QED
        BY <3>1, <3>2
    <2> QED
      BY <1>0, <1>1, <2>3 DEF LeftEnters, Lefts, Phases, stored
  <1>2. CASE LeftSaved(n)
    BY <1>0, <1>l, <1>2 DEF LeftSaved, LeftSaves, Lefts, Phases
  <1>3. CASE LeftReturns(n)
    <2> DEFINE q == Tail(l.queue)
    <2>1. q \in Seq(Jobs)
      BY <1>0, <1>l, <1>3, HeadTailProperties DEF LeftReturns
    <2> HIDE DEF q
    <2>2. Remains(q, "waiting", l.reason, l.snapshot) \in Lefts
      BY <1>0, <2>1, RemainsType DEF Phases
    <2>3. left' = [left EXCEPT ![n] = Remains(q, "waiting", l.reason, l.snapshot)]
      BY <1>l, <1>3 DEF LeftReturns, q
    <2> QED
      BY <1>0, <1>3, <2>2, <2>3 DEF LeftReturns, stored
  <1>4. ASSUME NEW i \in 1 .. Len(left[n].queue), LeftCancelled(n, i)
        PROVE  /\ left' \in [1 .. MaxRestarts -> Lefts]
               /\ disk' \in [Sources -> Reasons \cup {Open}] /\ overtaken' \in BOOLEAN
    <2> DEFINE q == RemoveAt(l.queue, i)
               at == IF i = 1 THEN "waiting" ELSE l.phase
    <2>1. q \in Seq(Jobs) /\ at \in Phases
      BY <1>0, <1>l, <1>4, RemoveAtProperties DEF Phases
    <2>2. left' = [left EXCEPT ![n] = Remains(q, at, l.reason, l.snapshot)]
      BY <1>l, <1>4 DEF LeftCancelled
    <2> HIDE DEF q, at
    <2>3. Remains(q, at, l.reason, l.snapshot) \in Lefts
      BY <1>0, <2>1, RemainsType
    <2> QED
      BY <1>0, <1>l, <1>4, <2>2, <2>3 DEF LeftCancelled, LeftSaves, stored
  <1> QED
    BY <1>1, <1>2, <1>3, <1>4 DEF LeftStep

LEMMA TypingStep == TypeOK /\ [Next]_vars => TypeOK'
  <1> SUFFICES ASSUME TypeOK, [Next]_vars PROVE TypeOK'
    OBVIOUS
  <1> USE ReasonsAssumption, SlotsAssumption DEF stored, life
  <1> DEFINE CallType == call' \in [Sources \X Slots -> CallRecords]
  <1>0. call \in [Sources \X Slots -> CallRecords]
    BY DEF TypeOK, CallRecords
  <1>1. ASSUME NEW s \in Sources, NEW k \in Slots, CallStep(s, k)
        PROVE  TypeOK'
    <2> <<s, k>> \in Sources \X Slots
      OBVIOUS
    <2>1. CASE Begin(s, k)
      <3>1. CallType
        BY <1>0, <2>1, BegunProperties DEF Begin, TypeOK
      <3> QED
        BY <2>1, <3>1 DEF Begin, Spend, TypeOK, CallRecords, gates, lock, connections
    <2>2. CASE InnerEnds(s, k)
      <3>1. CallType
        BY <1>0, <2>2 DEF InnerEnds, CallRecords
      <3> QED
        BY <2>2, <3>1 DEF InnerEnds, TypeOK, CallRecords, gates, lock
    <2>3. CASE InnerCancelled(s, k)
      <3>1. CallType
        BY <1>0, <2>3 DEF InnerCancelled, CallRecords
      <3> QED
        BY <2>3, <3>1 DEF InnerCancelled, TypeOK, CallRecords, gates, lock
    <2>4. CASE CallerCancelled(s, k)
      <3>1. CallType
        BY <1>0, <2>4 DEF CallerCancelled, CallRecords
      <3> QED
        BY <2>4, <3>1 DEF CallerCancelled, TypeOK, CallRecords, gates, lock, connections
    <2>5. CASE Deliver(s, k)
      <3>1. CallType
        BY <1>0, <2>5 DEF Deliver, CallRecords
      <3> QED
        BY <2>5, <3>1 DEF Deliver, Finished, TypeOK, CallRecords, gates, lock
    <2>6. CASE Refuse(s, k)
      <3>1. CallType
        BY <1>0, <2>6 DEF Refuse, CallRecords, Idle
      <3> QED
        BY <2>6, <3>1 DEF Refuse, Finished, TypeOK, CallRecords, gates, lock
    <2>7. CASE AccountFailure(s, k)
      <3> DEFINE c == [call EXCEPT ![<<s, k>>] = Idle]
                 j == [kind |-> "pause", sources |-> <<s>>,
                       why |-> "authentication", user |-> FALSE]
      <3>1. c \in [Sources \X Slots -> CallRecords]
        BY <1>0 DEF CallRecords, Idle
      <3> HIDE DEF c
      <3>2. CallType
        BY <2>7, <3>1, MarkLateProperties DEF AccountFailure, c
      <3>3. <<s>> \in Seq(Sources) \ {<<>>}
        OBVIOUS
      <3>4. j \in Jobs
        BY <3>3 DEF Jobs
      <3> HIDE DEF j
      <3>5. queue' \in Seq(Jobs)
        BY <2>7, <3>4 DEF AccountFailure, TypeOK, j
      <3>6. reason' \in [Sources -> Reasons \cup {Open}] /\ gen' \in [Sources -> Nat]
        BY <2>7 DEF AccountFailure, Block, TypeOK
      <3> QED
        BY <2>7, <3>2, <3>5, <3>6 DEF AccountFailure, Finished, TypeOK, CallRecords
    <2> QED
      BY <1>1, <2>1, <2>2, <2>3, <2>4, <2>5, <2>6, <2>7 DEF CallStep
  <1>2. ASSUME NEW kind \in {"pause", "resume"}, NEW t \in Targets,
               NEW why \in Reasons, Request(kind, t, why)
        PROVE  TypeOK'
    <2> DEFINE j == [kind |-> kind, sources |-> t, why |-> why, user |-> TRUE]
    <2>1. j \in Jobs
      BY TargetsAssumption DEF Jobs
    <2> HIDE DEF j
    <2>2. queue' \in Seq(Jobs)
      BY <1>2, <2>1 DEF Request, TypeOK, j
    <2> QED
      BY <1>2, <2>2 DEF Request, Spend, TypeOK, gates, connections
  <1>3. ASSUME JobStep
        PROVE  TypeOK'
    <2>0. ASSUME queue # <<>>
          PROVE  /\ job \in Jobs /\ Tail(queue) \in Seq(Jobs)
                 /\ job.sources \in Seq(Sources) \ {<<>>} /\ job.why \in Reasons
      <3>1. Head(queue) \in Jobs /\ Tail(queue) \in Seq(Jobs)
        BY <2>0, HeadTailProperties DEF TypeOK
      <3> QED
        BY <3>1 DEF job, Jobs
    <2>1. CASE EnterPause
      <3>1. CallType
        BY <1>0, <2>1, MarkLateProperties DEF EnterPause
      <3>2. reason' \in [Sources -> Reasons \cup {Open}] /\ gen' \in [Sources -> Nat]
        BY <2>0, <2>1 DEF EnterPause, Holds, Block, TypeOK
      <3> QED
        BY <2>0, <2>1, <3>1, <3>2
        DEF EnterPause, Holds, TypeOK, CallRecords, Phases, connections
    <2>2. CASE EnterResume
      <3>1. woken' \in SUBSET Sources
        BY <2>0, <2>2, OfHeadTail DEF EnterResume, Holds
      <3>2. reason' \in [Sources -> Reasons \cup {Open}] /\ gen' \in [Sources -> Nat]
        BY <2>2 DEF EnterResume, TypeOK
      <3> QED
        BY <2>2, <3>1, <3>2 DEF EnterResume, TypeOK, Phases, connections
    <2>3. CASE SavedPause
      <3>1. CallType
        BY <1>0, <2>3, CancelledProperties DEF SavedPause
      <3> QED
        BY <2>3, <3>1 DEF SavedPause, Saves, TypeOK, CallRecords, Phases, gates, connections
    <2>4. CASE SavedResume
      <3>1. starts' \in [Sources -> Nat]
        BY <2>4 DEF SavedResume, TypeOK
      <3>2. disk' \in [Sources -> Reasons \cup {Open}] /\ overtaken' \in BOOLEAN
        BY <2>4 DEF SavedResume, Saves, TypeOK
      <3>3. /\ queue' \in Seq(Jobs) /\ phase' \in Phases /\ todo' \in Seq(Sources)
            /\ woken' \in SUBSET Sources
        BY <2>0, <2>4 DEF SavedResume, Holds, Leave, Phases
      <3> QED
        BY <2>4, <3>1, <3>2, <3>3 DEF SavedResume, TypeOK, gates
    <2>5. CASE Drained
      BY <2>5 DEF Drained, TypeOK, Phases, gates, connections
    <2>6. CASE Unlinked
      <3>1. CallType
        BY <1>0, <2>6, CancelledProperties DEF Unlinked
      <3>2. todo # <<>>
        BY <2>6, EmptySeq DEF Unlinked, TypeOK
      <3>3. Head(todo) \in Sources /\ Tail(todo) \in Seq(Sources)
        BY <3>2, HeadTailProperties DEF TypeOK
      <3> QED
        BY <2>6, <3>1, <3>3 DEF Unlinked, TypeOK, CallRecords, Phases, gates
    <2>7. CASE Acknowledge
      <3>1. promised' \in [Sources -> BOOLEAN] /\ link' \in [Sources -> BOOLEAN]
        BY <2>7 DEF Acknowledge, TypeOK
      <3>2. queue' \in Seq(Jobs) /\ phase' \in Phases /\ todo' \in Seq(Sources)
            /\ woken' \in SUBSET Sources
        BY <2>0, <2>7 DEF Acknowledge, Holds, Leave, Phases
      <3> QED
        BY <2>7, <3>1, <3>2 DEF Acknowledge, TypeOK, gates
    <2> QED
      BY <1>3, <2>1, <2>2, <2>3, <2>4, <2>5, <2>6, <2>7 DEF JobStep
  <1>4. ASSUME NEW i \in 1 .. Len(queue), Abandon(i)
        PROVE  TypeOK'
    <2>1. queue' \in Seq(Jobs)
      BY <1>4, RemoveAtProperties DEF Abandon, TypeOK
    <2>2. CASE i = 1
      <3>1. disk' \in [Sources -> Reasons \cup {Open}] /\ overtaken' \in BOOLEAN
        BY <1>4, <2>2 DEF Abandon, MayHaveStored, Saves, TypeOK
      <3>2. phase' \in Phases /\ todo' \in Seq(Sources) /\ woken' \in SUBSET Sources
        BY <1>4, <2>2 DEF Abandon, Phases
      <3> QED
        BY <1>4, <2>1, <3>1, <3>2 DEF Abandon, TypeOK, gates, connections
    <2>3. CASE i > 1
      BY <1>4, <2>1, <2>3 DEF Abandon, TypeOK, gates, connections
    <2> QED
      BY <2>2, <2>3
  <1>5. ASSUME NEW s \in Sources, StartEnter(s) \/ StartConnect(s) \/ StartFails(s)
        PROVE  TypeOK'
    <2>1. CASE StartEnter(s)
      BY <2>1 DEF StartEnter, TypeOK, gates, lock
    <2>2. CASE StartConnect(s)
      <3>1. CallType
        <4>1. call' = call \/ call' = Begun(call, s, Connect)
          BY <2>2 DEF StartConnect
        <4>2. gen[s] \in Nat
          BY DEF TypeOK
        <4> QED
          BY <1>0, <4>1, <4>2, BegunProperties
      <3> QED
        BY <2>2, <3>1 DEF StartConnect, TypeOK, CallRecords, gates, lock
    <2>3. CASE StartFails(s)
      BY <2>3 DEF StartFails, TypeOK, gates, lock
    <2> QED
      BY <1>5, <2>1, <2>2, <2>3
  <1>6. ASSUME Close
        PROVE  TypeOK'
    <2>1. CallType
      BY <1>0, <1>6, CancelledProperties DEF Close
    <2> QED
      BY <1>6, <2>1 DEF Close, TypeOK, CallRecords, gates, lock
  <1>7. ASSUME Reload \/ Crash
        PROVE  TypeOK'
    <2>0. Restart
      BY <1>7 DEF Reload, Crash
    <2>1. disk' \in [Sources -> Reasons \cup {Open}]
      <3>1. ASSUME NEW n \in 1 .. MaxRestarts
            PROVE  left[n].snapshot \in [Sources -> Reasons \cup {Open}]
        BY DEF TypeOK, Lefts
      <3> QED
        BY <1>7, <3>1 DEF Reload, Crash, TypeOK
    <2>2. call' \in [Sources \X Slots -> CallRecords]
      BY <2>0 DEF Restart, NoCalls, Idle, CallRecords
    <2>3. /\ gen' \in [Sources -> Nat] /\ starts' \in [Sources -> Nat]
          /\ starting' \in [Sources -> {"no", "preparing", "connecting"}]
          /\ link' \in [Sources -> BOOLEAN]
          /\ promised' \in [Sources -> BOOLEAN]
      BY <2>0 DEF Restart, RestoredGen, OneStart, NotStarting, NoLink, TypeOK
    <2>4. spent' \in [{"requests", "calls", "restarts"} -> Nat]
      BY <2>0 DEF Restart, Spend, TypeOK
    <2>5. queue' \in Seq(Jobs) /\ todo' \in Seq(Sources) /\ woken' \in SUBSET Sources
      BY <2>0 DEF Restart
    <2>6. left' \in [1 .. MaxRestarts -> Lefts]
      <3>1. CASE Crash
        BY <3>1, NobodyType DEF Crash
      <3>2. CASE Reload
        <4>1. Remains(queue, phase, reason, snapshot) \in Lefts
          BY RemainsType DEF TypeOK
        <4> DEFINE r == Remains(queue, phase, reason, snapshot)
        <4>2. left' = [left EXCEPT ![spent.restarts + 1] = r]
          BY <3>2 DEF Reload
        <4> HIDE DEF r
        <4> QED
          BY <4>1, <4>2 DEF TypeOK, r
      <3> QED
        BY <1>7, <3>1, <3>2
    <2> QED
      BY <2>0, <2>1, <2>2, <2>3, <2>4, <2>5, <2>6 DEF Restart, Phases, TypeOK, CallRecords
  <1>9. ASSUME NEW n \in 1 .. MaxRestarts,
               LeftStep(n) \/ \E i \in 1 .. Len(left[n].queue) : LeftCancelled(n, i)
        PROVE  TypeOK'
    <2>1. UNCHANGED <<gates, call, lock, connections, closed, promised, spent>>
      BY <1>9 DEF LeftStep, LeftEnters, LeftSaved, LeftReturns, LeftCancelled
    <2> QED
      BY <1>9, <2>1, LeftsKeepTypes DEF gates, lock, connections, TypeOK, CallRecords
  <1>8. CASE UNCHANGED vars
    BY <1>8 DEF vars, gates, lock, connections, TypeOK
  <1> QED
    BY <1>1, <1>2, <1>3, <1>4, <1>5, <1>6, <1>7, <1>8, <1>9
    DEF Next, UserCancels, ClosingCancels

(* Every variable of the runtime keeps its type.                           *)
THEOREM RuntimeTypes == Spec => []TypeOK
  <1>1. Init => TypeOK
    <2> SUFFICES ASSUME Init PROVE TypeOK
      OBVIOUS
    <2> USE ReasonsAssumption, SlotsAssumption
    <2>1. call \in [Sources \X Slots -> CallRecords]
      BY DEF Init, NoCalls, Idle, CallRecords
    <2>2. /\ gen \in [Sources -> Nat] /\ starts \in [Sources -> Nat]
          /\ starting \in [Sources -> {"no", "preparing", "connecting"}]
          /\ link \in [Sources -> BOOLEAN] /\ promised \in [Sources -> BOOLEAN]
      BY DEF Init, RestoredGen, OneStart, NotStarting, NoLink
    <2>3. /\ spent \in [{"requests", "calls", "restarts"} -> Nat]
          /\ queue \in Seq(Jobs) /\ todo \in Seq(Sources) /\ woken \in SUBSET Sources
          /\ left \in [1 .. MaxRestarts -> Lefts]
      BY NobodyType DEF Init
    <2> QED
      BY <2>1, <2>2, <2>3 DEF Init, Phases, TypeOK, CallRecords
  <1> QED
    BY <1>1, TypingStep, PTL DEF Spec

----------------------------------------------------------------------------
(* The generation fence: a call that is still pending began at a           *)
(* generation that is not newer than the gate's, and at an older one if    *)
(* its source was shut since.                                              *)
PendingAt == {"running", "cancelling", "ok", "authFailed", "failed", "cancelled"}

Fence ==
    \A p \in Sources \X Slots :
        /\ call[p].at \in PendingAt =>
              /\ call[p].gen <= gen[p[1]]
              /\ call[p].late => call[p].gen < gen[p[1]]
        /\ call[p].at = "applied" => ~call[p].late

(* Calls that do not begin, and are not delivered, stay behind the fence.  *)
LEMMA FenceStays ==
  ASSUME TypeOK, TypeOK', Fence,
         \A p \in Sources \X Slots :
            /\ \/ call'[p].at = "idle"
               \/ /\ call'[p].gen = call[p].gen
                  /\ call'[p].late = call[p].late
                  /\ \/ call'[p].at = call[p].at
                     \/ call'[p].at \in PendingAt /\ call[p].at \in PendingAt
            /\ gen'[p[1]] >= gen[p[1]]
  PROVE  Fence'
  <1> SUFFICES ASSUME NEW p \in Sources \X Slots
               PROVE  (/\ call[p].at \in PendingAt =>
                              /\ call[p].gen <= gen[p[1]]
                              /\ call[p].late => call[p].gen < gen[p[1]]
                       /\ call[p].at = "applied" => ~call[p].late)'
    BY DEF Fence
  <1>1. p[1] \in Sources
    OBVIOUS
  <1>2. gen[p[1]] \in Nat /\ gen'[p[1]] \in Nat /\ call[p].gen \in Nat
    BY <1>1 DEF TypeOK
  <1>3. CASE call'[p].at = "idle"
    BY <1>3 DEF PendingAt
  <1>4. CASE /\ call'[p].gen = call[p].gen
             /\ call'[p].late = call[p].late
             /\ \/ call'[p].at = call[p].at
                \/ call'[p].at \in PendingAt /\ call[p].at \in PendingAt
    BY <1>2, <1>4 DEF Fence, PendingAt
  <1> QED
    BY <1>3, <1>4

(* A gate that shuts makes every pending call of its source late.          *)
LEMMA FenceShuts ==
  ASSUME TypeOK, Fence, NEW c \in [Sources \X Slots -> CallRecords], NEW S, NEW why,
         \A p \in Sources \X Slots : c[p] = call[p] \/ c[p] = Idle,
         Block(S, why), call' = MarkLate(c, S)
  PROVE  Fence'
  <1> SUFFICES ASSUME NEW p \in Sources \X Slots
               PROVE  (/\ call[p].at \in PendingAt =>
                              /\ call[p].gen <= gen[p[1]]
                              /\ call[p].late => call[p].gen < gen[p[1]]
                       /\ call[p].at = "applied" => ~call[p].late)'
    BY DEF Fence
  <1>1. p[1] \in Sources /\ gen[p[1]] \in Nat /\ call[p].gen \in Nat
    BY DEF TypeOK
  <1>2. gen'[p[1]] = IF p[1] \in S THEN gen[p[1]] + 1 ELSE gen[p[1]]
    BY <1>1 DEF Block
  <1>3. /\ call'[p].at = c[p].at /\ call'[p].gen = c[p].gen
        /\ call'[p].late = (c[p].late \/ (p[1] \in S /\ c[p].at \notin {"idle", "applied"}))
    BY MarkLateProperties
  <1>4. CASE c[p] = Idle
    BY <1>3, <1>4 DEF Idle, PendingAt
  <1>5. CASE c[p] = call[p]
    <2>1. /\ call[p].at \in PendingAt => call[p].gen <= gen[p[1]]
          /\ call[p].at \in PendingAt /\ call[p].late => call[p].gen < gen[p[1]]
          /\ call[p].at = "applied" => ~call[p].late
      BY DEF Fence
    <2>2. CASE p[1] \in S
      <3>1. call'[p].at \in PendingAt => call'[p].gen < gen'[p[1]]
        BY <1>1, <1>2, <1>3, <1>5, <2>1, <2>2
      <3>2. call'[p].at = "applied" => ~call'[p].late
        BY <1>3, <1>5, <2>1
      <3>3. call'[p].at \in PendingAt => call'[p].gen <= gen'[p[1]]
        BY <1>1, <1>2, <1>3, <1>5, <2>1, <2>2
      <3> QED
        BY <3>1, <3>2, <3>3
    <2>3. CASE p[1] \notin S
      BY <1>1, <1>2, <1>3, <1>5, <2>1, <2>3 DEF PendingAt
    <2> QED
      BY <2>2, <2>3
  <1> QED
    BY <1>4, <1>5

(* A call that begins takes the gate's generation.                         *)
LEMMA FenceBegins ==
  ASSUME TypeOK, Fence, NEW s \in Sources, NEW k \in Slots,
         call' = Begun(call, s, k), UNCHANGED gen
  PROVE  Fence'
  <1>1. ASSUME NEW p \in Sources \X Slots, p # <<s, k>>
        PROVE  call'[p] = call[p]
    BY <1>1 DEF Begun, TypeOK
  <1>2. call'[<<s, k>>] = [at |-> "running", gen |-> gen[s], late |-> FALSE]
    BY DEF Begun, TypeOK
  <1>3. gen[s] \in Nat
    BY DEF TypeOK
  <1> QED
    BY <1>1, <1>2, <1>3 DEF Fence, PendingAt

LEMMA FenceStep == TypeOK /\ Fence /\ [Next]_vars => Fence'
  <1> SUFFICES ASSUME TypeOK, Fence, [Next]_vars PROVE Fence'
    OBVIOUS
  <1> USE DEF stored, life
  <1>0. TypeOK'
    BY TypingStep
  <1>c. call \in [Sources \X Slots -> CallRecords] /\ gen \in [Sources -> Nat]
    BY DEF TypeOK, CallRecords
  <1>p. \A p \in Sources \X Slots : p[1] \in Sources
    OBVIOUS
  <1>u. ASSUME UNCHANGED <<call, gen>> PROVE Fence'
    BY <1>u DEF Fence
  <1>1. ASSUME NEW s \in Sources, NEW k \in Slots, CallStep(s, k)
        PROVE  Fence'
    <2>1. CASE Begin(s, k)
      BY <2>1, FenceBegins DEF Begin, gates
    <2>2. CASE InnerEnds(s, k) \/ InnerCancelled(s, k) \/ CallerCancelled(s, k)
      <3>1. PICK how \in PendingAt : call' = [call EXCEPT ![<<s, k>>].at = how]
        BY <2>2 DEF InnerEnds, InnerCancelled, CallerCancelled, PendingAt, Outcomes
      <3>2. call[<<s, k>>].at \in PendingAt /\ UNCHANGED gen
        BY <2>2 DEF InnerEnds, InnerCancelled, CallerCancelled, PendingAt, gates
      <3>3. ASSUME NEW p \in Sources \X Slots
            PROVE  /\ call'[p].gen = call[p].gen /\ call'[p].late = call[p].late
                   /\ \/ call'[p].at = call[p].at
                      \/ call'[p].at \in PendingAt /\ call[p].at \in PendingAt
        BY <1>c, <3>1, <3>2 DEF CallRecords
      <3>4. \A p \in Sources \X Slots : gen'[p[1]] >= gen[p[1]]
        BY <1>c, <1>p, <3>2
      <3> QED
        BY <1>0, <3>3, <3>4, FenceStays
    <2>3. CASE Deliver(s, k)
      <3>1. /\ call[<<s, k>>].at = "ok" /\ gen[s] = call[<<s, k>>].gen
            /\ UNCHANGED gen
            /\ call' = [call EXCEPT ![<<s, k>>] = [@ EXCEPT !.at = "applied"]]
        BY <2>3 DEF Deliver, gates
      <3>2. ~call[<<s, k>>].late
        BY <1>c, <3>1 DEF Fence, PendingAt
      <3>3. ASSUME NEW p \in Sources \X Slots, p # <<s, k>>
            PROVE  call'[p] = call[p]
        BY <1>c, <3>1, <3>3
      <3>4. call'[<<s, k>>].at = "applied" /\ ~call'[<<s, k>>].late
        BY <1>c, <3>1, <3>2 DEF CallRecords
      <3> QED
        BY <3>1, <3>3, <3>4 DEF Fence, PendingAt
    <2>4. CASE Refuse(s, k)
      <3>1. call' = [call EXCEPT ![<<s, k>>] = Idle] /\ UNCHANGED gen
        BY <2>4 DEF Refuse, gates
      <3>2. \A p \in Sources \X Slots : call'[p].at = "idle" \/ call'[p] = call[p]
        BY <1>c, <3>1 DEF Idle
      <3>3. \A p \in Sources \X Slots : gen'[p[1]] >= gen[p[1]]
        BY <1>c, <1>p, <3>1
      <3> QED
        BY <1>0, <3>2, <3>3, FenceStays
    <2>5. CASE AccountFailure(s, k)
      <3> DEFINE c == [call EXCEPT ![<<s, k>>] = Idle]
      <3>1. c \in [Sources \X Slots -> CallRecords]
        BY <1>c DEF CallRecords, Idle
      <3>2. \A p \in Sources \X Slots : c[p] = call[p] \/ c[p] = Idle
        BY <1>c
      <3>3. Block({s}, "authentication") /\ call' = MarkLate(c, {s})
        BY <2>5 DEF AccountFailure
      <3> HIDE DEF c
      <3> QED
        BY <3>1, <3>2, <3>3, FenceShuts
    <2> QED
      BY <1>1, <2>1, <2>2, <2>3, <2>4, <2>5 DEF CallStep
  <1>2. CASE EnterPause
    BY <1>c, <1>2, FenceShuts DEF EnterPause
  <1>3. CASE EnterResume
    <2>1. \A p \in Sources \X Slots : gen'[p[1]] >= gen[p[1]]
      BY <1>c, <1>p, <1>3 DEF EnterResume
    <2> QED
      BY <1>0, <1>3, <2>1, FenceStays DEF EnterResume
  <1>4. ASSUME NEW S, call' = Cancelled(call, S), UNCHANGED gen
        PROVE  Fence'
    <2>1. ASSUME NEW p \in Sources \X Slots
          PROVE  /\ call'[p].gen = call[p].gen /\ call'[p].late = call[p].late
                 /\ \/ call'[p].at = call[p].at
                    \/ call'[p].at \in PendingAt /\ call[p].at \in PendingAt
      <3>1. "running" \in PendingAt /\ "cancelling" \in PendingAt
        BY DEF PendingAt
      <3>2. /\ Cancelled(call, S)[p].gen = call[p].gen
            /\ Cancelled(call, S)[p].late = call[p].late
            /\ \/ Cancelled(call, S)[p].at = call[p].at
               \/ call[p].at = "running" /\ Cancelled(call, S)[p].at = "cancelling"
        BY <1>c, <2>1, CancelledProperties
      <3> QED
        BY <1>4, <3>1, <3>2
    <2>2. \A p \in Sources \X Slots : gen'[p[1]] >= gen[p[1]]
      BY <1>c, <1>p, <1>4
    <2> QED
      BY <1>0, <2>1, <2>2, FenceStays
  <1>5. CASE SavedPause \/ Unlinked \/ Close
    BY <1>4, <1>5 DEF SavedPause, Unlinked, Close, gates
  <1>6. CASE SavedResume \/ Drained \/ Acknowledge
    BY <1>6, <1>u DEF SavedResume, Drained, Acknowledge, gates
  <1>7. ASSUME NEW s \in Sources, StartEnter(s) \/ StartConnect(s) \/ StartFails(s)
        PROVE  Fence'
    <2>1. UNCHANGED gen /\ (call' = call \/ call' = Begun(call, s, Connect))
      BY <1>7 DEF StartEnter, StartConnect, StartFails, gates
    <2> QED
      BY <1>u, <2>1, FenceBegins, SlotsAssumption
  <1>8. ASSUME NEW i \in 1 .. Len(queue), Abandon(i)
        PROVE  Fence'
    BY <1>8, <1>u DEF Abandon, gates
  <1>9. ASSUME NEW kind, NEW t, NEW why, Request(kind, t, why)
        PROVE  Fence'
    BY <1>9, <1>u DEF Request, gates
  <1>10. CASE Restart
    <2>1. \A p \in Sources \X Slots : call'[p].at = "idle"
      BY <1>10 DEF Restart, NoCalls, Idle
    <2> QED
      BY <2>1 DEF Fence, PendingAt
  <1>11. CASE UNCHANGED vars
    BY <1>11, <1>u DEF vars, gates
  <1>12. ASSUME NEW n \in 1 .. MaxRestarts,
                LeftStep(n) \/ \E i \in 1 .. Len(left[n].queue) : LeftCancelled(n, i)
         PROVE  Fence'
    BY <1>12, <1>u
    DEF LeftStep, LeftEnters, LeftSaved, LeftReturns, LeftCancelled, gates
  <1> QED
    BY <1>1, <1>2, <1>3, <1>5, <1>6, <1>7, <1>8, <1>9, <1>10, <1>11, <1>12
    DEF Next, JobStep, UserCancels, ClosingCancels, Reload, Crash

(* A result that a pause came between is never delivered, however many     *)
(* pauses, resumes and failures the call outlives.                         *)
THEOREM LateResultsAreRefused == Spec => []NoLateResult
  <1>1. Init => Fence
    BY DEF Init, NoCalls, Idle, Fence, PendingAt
  <1>2. Fence => NoLateResult
    BY DEF Fence, NoLateResult
  <1> QED
    BY <1>1, <1>2, FenceStep, RuntimeTypes, PTL DEF Spec

----------------------------------------------------------------------------
(* Why an acknowledged protection is kept.  Nothing of a protected source  *)
(* is pending, its connection is closed, and neither the store, unless a   *)
(* job left over from before a reload wrote it last, nor a save in         *)
(* progress loses it.  A pause on its way has shut its sources,      *)
(* stored them once it stops saving, and silenced those it is done with.   *)
Quiet(s) == Pending(s) = {} /\ ~link[s]

Kept ==
    \A s \in Sources :
        promised[s] => /\ reason[s] # Open
                       /\ disk[s] # Open \/ overtaken
                       /\ phase = "saving" => snapshot[s] # Open
                       /\ Quiet(s)

PauseOnItsWay ==
    /\ phase # "waiting" => queue # <<>>
    /\ phase = "saving" /\ job.kind = "pause" =>
          /\ todo = job.sources
          /\ \A s \in Of(job.sources) : reason[s] # Open /\ snapshot[s] # Open
    /\ phase \in {"draining", "unlinking"} =>
          /\ job.kind = "pause"
          /\ todo # <<>> /\ Of(todo) \subseteq Of(job.sources)
          /\ \A s \in Of(job.sources) :
                /\ reason[s] # Open /\ (disk[s] # Open \/ overtaken)
                /\ s \in Of(todo) \/ Quiet(s)
    /\ phase = "unlinking" => Pending(Head(todo)) = {}

PInv == TypeOK /\ Kept /\ PauseOnItsWay

(* No source that is shut opens, and none that is quiet gets louder.       *)
NothingLouder ==
    \A s \in Sources :
        /\ reason[s] # Open => reason'[s] # Open
        /\ reason[s] # Open /\ Pending(s) = {} => Pending(s)' = {}
        /\ reason[s] # Open /\ Pending(s) = {} /\ ~link[s] => ~link'[s]

LEMMA JobSources ==
  ASSUME TypeOK, queue # <<>>
  PROVE  job \in Jobs /\ Of(job.sources) \subseteq Sources /\ job.sources # <<>>
  <1>1. job \in Jobs
    BY HeadTailProperties DEF TypeOK, job
  <1>2. job.sources \in Seq(Sources) \ {<<>>}
    BY <1>1 DEF Jobs
  <1> QED
    BY <1>1, <1>2, OfHeadTail

LEMMA QuietStepsKeepPInv ==
  ASSUME PInv, TypeOK', NothingLouder,
         UNCHANGED phase, UNCHANGED todo, UNCHANGED snapshot,
         UNCHANGED stored \/ overtaken',
         UNCHANGED promised,
         queue # <<>> => queue' # <<>> /\ job' = job
  PROVE  PInv'
  <1> USE DEF PInv, stored
  <1>1. Kept'
    BY DEF Kept, NothingLouder, Quiet
  <1>2. (phase # "waiting" => queue # <<>>)'
    BY DEF PauseOnItsWay
  <1>3. (phase = "saving" /\ job.kind = "pause" =>
          /\ todo = job.sources
          /\ \A s \in Of(job.sources) : reason[s] # Open /\ snapshot[s] # Open)'
    BY JobSources DEF PauseOnItsWay, NothingLouder
  <1>4. (phase \in {"draining", "unlinking"} =>
          /\ job.kind = "pause"
          /\ todo # <<>> /\ Of(todo) \subseteq Of(job.sources)
          /\ \A s \in Of(job.sources) :
                /\ reason[s] # Open /\ (disk[s] # Open \/ overtaken)
                /\ s \in Of(todo) \/ Quiet(s))'
    BY JobSources DEF PauseOnItsWay, NothingLouder, Quiet
  <1>5. (phase = "unlinking" => Pending(Head(todo)) = {})'
    <2> SUFFICES ASSUME phase = "unlinking"
                 PROVE  Pending(Head(todo))' = {}
      OBVIOUS
    <2>1. /\ phase = "unlinking" /\ todo # <<>> /\ queue # <<>>
          /\ Of(todo) \subseteq Of(job.sources)
      BY DEF PauseOnItsWay
    <2>s. todo \in Seq(Sources)
      BY DEF TypeOK
    <2>2. Head(todo) \in Of(job.sources)
      BY <2>1, <2>s, OfHeadTail
    <2>3. /\ todo' = todo /\ Pending(Head(todo)) = {}
          /\ phase \in {"draining", "unlinking"}
      BY <2>1 DEF PauseOnItsWay
    <2>4. Head(todo) \in Sources
      BY <2>1, <2>2, JobSources
    <2>5. reason[Head(todo)] # Open
      BY <2>2, <2>3 DEF PauseOnItsWay
    <2> QED
      BY <2>3, <2>4, <2>5 DEF NothingLouder
  <1> QED
    BY <1>1, <1>2, <1>3, <1>4, <1>5 DEF PauseOnItsWay

(* While a call is pending its source is not under a kept promise, and an  *)
(* inner task that ends can only touch its own source.                     *)
LEMMA CallStepsKeepPInv ==
  ASSUME PInv, TypeOK', NEW s \in Sources, NEW k \in Slots, CallStep(s, k)
  PROVE  PInv'
  <1> USE DEF stored, life
  <1>c. /\ call \in [Sources \X Slots -> CallRecords] /\ link \in [Sources -> BOOLEAN]
        /\ reason \in [Sources -> Reasons \cup {Open}]
    BY DEF PInv, TypeOK, CallRecords
  <1>q. \A p \in Sources \X Slots :
           call[p].at \notin {"idle", "applied"} => p[2] \in Pending(p[1])
    BY DEF Pending
  <1>1. CASE Begin(s, k)
    <2>1. reason[s] = Open /\ call' = Begun(call, s, k)
      BY <1>1 DEF Begin
    <2>2. ASSUME NEW t \in Sources, t # s PROVE Pending(t)' = Pending(t)
      BY <1>c, <2>1, <2>2 DEF Begun, Pending
    <2>3. NothingLouder
      BY <1>1, <2>1, <2>2 DEF Begin, NothingLouder, gates, connections
    <2> QED
      BY <1>1, <2>3, QuietStepsKeepPInv DEF Begin, lock, job
  <1>2. CASE InnerEnds(s, k) \/ InnerCancelled(s, k)
    <2>1. PICK how : call' = [call EXCEPT ![<<s, k>>].at = how]
      BY <1>2 DEF InnerEnds, InnerCancelled
    <2>2. PICK up \in BOOLEAN : link' = [link EXCEPT ![s] = @ \/ up]
      BY <1>2 DEF InnerEnds, InnerCancelled
    <2>3. ASSUME NEW t \in Sources, t # s
          PROVE  Pending(t)' = Pending(t) /\ link'[t] = link[t]
      BY <1>c, <2>1, <2>2, <2>3 DEF Pending
    <2>4. k \in Pending(s)
      BY <1>2 DEF InnerEnds, InnerCancelled, Pending
    <2>5. NothingLouder
      BY <1>2, <2>3, <2>4 DEF InnerEnds, InnerCancelled, NothingLouder, gates
    <2> QED
      BY <1>2, <2>5, QuietStepsKeepPInv DEF InnerEnds, InnerCancelled, lock, job
  <1>3. CASE CallerCancelled(s, k)
    <2>1. ASSUME NEW t \in Sources PROVE Pending(t)' = Pending(t)
      BY <1>c, <1>3 DEF CallerCancelled, Pending, CallRecords
    <2>2. NothingLouder
      BY <1>3, <2>1 DEF CallerCancelled, NothingLouder, gates, connections
    <2> QED
      BY <1>3, <2>2, QuietStepsKeepPInv DEF CallerCancelled, lock, job
  <1>4. CASE Deliver(s, k) \/ Refuse(s, k)
    <2>1. \A p \in Sources \X Slots :
             call'[p].at \in {"idle", "applied"} \/ call'[p] = call[p]
      BY <1>c, <1>4 DEF Deliver, Refuse, Idle, CallRecords
    <2>2. ASSUME NEW t \in Sources PROVE Pending(t)' \subseteq Pending(t)
      BY <2>1 DEF Pending
    <2>3. NothingLouder
      BY <1>4, <2>2 DEF Deliver, Refuse, NothingLouder, gates
    <2> QED
      BY <1>4, <2>3, QuietStepsKeepPInv DEF Deliver, Refuse, lock, job
  <1>5. CASE AccountFailure(s, k)
    <2> DEFINE c == [call EXCEPT ![<<s, k>>] = Idle]
               j == [kind |-> "pause", sources |-> <<s>>,
                     why |-> "authentication", user |-> FALSE]
    <2>1. c \in [Sources \X Slots -> CallRecords]
      BY <1>c DEF CallRecords, Idle
    <2>2. \A p \in Sources \X Slots : c[p].at \in {"idle", call[p].at}
      BY <1>c DEF Idle
    <2>3. call' = MarkLate(c, {s})
      BY <1>5 DEF AccountFailure
    <2> HIDE DEF c
    <2>4. ASSUME NEW t \in Sources PROVE Pending(t)' \subseteq Pending(t)
      <3>1. \A p \in Sources \X Slots : call'[p].at \in {"idle", call[p].at}
        <4>1. \A p \in Sources \X Slots : MarkLate(c, {s})[p].at = c[p].at
          BY <2>1, MarkLateProperties
        <4> QED
          BY <2>2, <2>3, <4>1
      <3> QED
        BY <3>1 DEF Pending
    <2>5. \A t \in Sources : reason[t] # Open => reason'[t] # Open
      BY <1>5, ReasonsAssumption DEF AccountFailure, Block, Open
    <2>6. NothingLouder
      BY <1>5, <2>4, <2>5 DEF AccountFailure, NothingLouder
    <2>7. queue # <<>> => queue' # <<>> /\ job' = job
      <3>1. queue' = queue \/ queue' = Append(queue, j)
        BY <1>5 DEF AccountFailure
      <3>2. queue \in Seq(Jobs)
        BY DEF PInv, TypeOK
      <3> HIDE DEF j
      <3> QED
        BY <3>1, <3>2, AppendKeepsHead DEF job
    <2> QED
      BY <1>5, <2>6, <2>7, QuietStepsKeepPInv DEF AccountFailure
  <1> QED
    BY <1>1, <1>2, <1>3, <1>4, <1>5 DEF CallStep

(* A pause and a resume, step by step.                                     *)
LEMMA JobStepsKeepPInv ==
  ASSUME PInv, TypeOK', JobStep
  PROVE  PInv'
  <1> USE DEF PInv, stored, life
  <1>c. /\ call \in [Sources \X Slots -> CallRecords] /\ link \in [Sources -> BOOLEAN]
        /\ reason \in [Sources -> Reasons \cup {Open}]
        /\ promised \in [Sources -> BOOLEAN]
    BY DEF TypeOK, CallRecords
  <1>a. ASSUME NEW S, NEW t \in Sources
        PROVE  {k \in Slots : Cancelled(call, S)[<<t, k>>].at \notin {"idle", "applied"}}
                 = Pending(t)
    <2>1. \A p \in Sources \X Slots :
             Cancelled(call, S)[p].at \in {"idle", "applied"}
               <=> call[p].at \in {"idle", "applied"}
      BY <1>c DEF Cancelled, CallRecords
    <2> QED
      BY <2>1 DEF Pending
  <1>1. CASE EnterPause
    <2>0. queue # <<>> /\ job.kind = "pause"
      BY <1>1 DEF EnterPause, Holds
    <2>1. job.why # Open
      BY <2>0, JobSources, ReasonsAssumption DEF Jobs, Open
    <2>2. ASSUME NEW s \in Sources
          PROVE  /\ reason[s] # Open => reason'[s] # Open
                 /\ s \in Of(job.sources) => reason'[s] # Open
      BY <1>1, <2>1 DEF EnterPause, Block
    <2>3. ASSUME NEW s \in Sources
          PROVE  Pending(s)' = Pending(s)
      <3>1. \A p \in Sources \X Slots : MarkLate(call, Of(job.sources))[p].at = call[p].at
        BY <1>c, MarkLateProperties
      <3> QED
        BY <1>1, <3>1 DEF EnterPause, Pending
    <2>4. Kept'
      BY <1>1, <2>2, <2>3 DEF EnterPause, Kept, Quiet, connections
    <2>5. PauseOnItsWay'
      BY <1>1, <2>0, <2>2, JobSources DEF EnterPause, PauseOnItsWay, job
    <2> QED
      BY <2>4, <2>5
  <1>2. CASE EnterResume
    <2>0. queue # <<>> /\ job.kind = "resume"
      BY <1>2 DEF EnterResume, Holds
    <2>1. \A s \in Sources : promised'[s] => promised[s] /\ reason'[s] = reason[s]
      BY <1>2 DEF EnterResume
    <2>2. Kept'
      BY <1>2, <2>1 DEF EnterResume, Kept, Quiet, Pending, connections
    <2>3. PauseOnItsWay'
      BY <1>2, <2>0 DEF EnterResume, PauseOnItsWay, job
    <2> QED
      BY <2>2, <2>3
  <1>3. CASE SavedPause
    <2>0. queue # <<>> /\ job.kind = "pause" /\ phase = "saving" /\ todo = job.sources
      BY <1>3 DEF SavedPause, Holds, PauseOnItsWay
    <2>1. \A s \in Sources : Pending(s)' = Pending(s)
      BY <1>3, <1>a DEF SavedPause, Pending
    <2>2. Kept'
      BY <1>3, <2>0, <2>1 DEF SavedPause, Saves, Kept, Quiet, gates, connections
    <2>3. PauseOnItsWay'
      BY <1>3, <2>0, JobSources DEF SavedPause, Saves, PauseOnItsWay, job, gates
    <2> QED
      BY <2>2, <2>3
  <1>4. CASE SavedResume
    <2>1. Kept'
      BY <1>4 DEF SavedResume, Saves, Holds, Leave, Kept, Quiet, Pending, gates
    <2>2. PauseOnItsWay'
      BY <1>4 DEF SavedResume, Leave, PauseOnItsWay
    <2> QED
      BY <2>1, <2>2
  <1>5. CASE Drained
    <2>1. Kept'
      BY <1>5 DEF Drained, Holds, Kept, Quiet, Pending, gates, connections
    <2>2. PauseOnItsWay'
      BY <1>5 DEF Drained, Holds, PauseOnItsWay, Quiet, Pending, job, gates, connections
    <2> QED
      BY <2>1, <2>2
  <1>6. CASE Unlinked
    <2>0. /\ queue # <<>> /\ job.kind = "pause" /\ phase = "unlinking"
          /\ todo # <<>> /\ Len(todo) > 1 /\ Pending(Head(todo)) = {}
      BY <1>6 DEF Unlinked, Holds, PauseOnItsWay
    <2> DEFINE S == {Head(Tail(todo))}
    <2>u. call' = Cancelled(call, S)
      BY <1>6 DEF Unlinked
    <2> HIDE DEF S
    <2>1. \A s \in Sources : Pending(s)' = Pending(s)
      BY <2>u, <1>a DEF Pending
    <2>2. \A s \in Sources : link'[s] => link[s] /\ s # Head(todo)
      BY <1>c, <1>6 DEF Unlinked
    <2>3. Kept'
      BY <1>6, <2>0, <2>1, <2>2 DEF Unlinked, Kept, Quiet, gates
    <2>4. /\ Of(todo) = {Head(todo)} \cup Of(Tail(todo)) /\ Tail(todo) # <<>>
          /\ Of(todo) \subseteq Sources
      BY <2>0, OfHeadTail DEF TypeOK
    <2>5. \A s \in Of(job.sources) :
             /\ reason[s] # Open /\ (disk[s] # Open \/ overtaken)
             /\ s \in Of(Tail(todo)) \/ (Pending(s)' = {} /\ ~link'[s])
      BY <2>0, <2>1, <2>2, <2>4, JobSources DEF PauseOnItsWay, Quiet
    <2>6. PauseOnItsWay'
      BY <1>6, <2>0, <2>4, <2>5 DEF Unlinked, PauseOnItsWay, Quiet, job, gates
    <2> QED
      BY <2>3, <2>6
  <1>7. CASE Acknowledge
    <2>0. /\ queue # <<>> /\ job.kind = "pause" /\ phase = "unlinking"
          /\ todo # <<>> /\ Len(todo) = 1 /\ Pending(Head(todo)) = {}
      BY <1>7 DEF Acknowledge, Holds, PauseOnItsWay
    <2>1. Of(todo) = {Head(todo)} /\ Head(todo) \in Sources
      BY <2>0, OfHeadTail DEF TypeOK
    <2>2. \A s \in Sources : link'[s] => link[s] /\ s # Head(todo)
      BY <1>c, <1>7 DEF Acknowledge
    <2>3. \A s \in Of(job.sources) :
             /\ reason[s] # Open /\ (disk[s] # Open \/ overtaken)
             /\ Pending(s) = {} /\ ~link'[s]
      BY <2>0, <2>1, <2>2, JobSources DEF PauseOnItsWay, Quiet
    <2>4. \A s \in Sources : promised'[s] => promised[s] \/ s \in Of(job.sources)
      BY <1>7 DEF Acknowledge
    <2>5. Kept'
      BY <1>7, <2>2, <2>3, <2>4 DEF Acknowledge, Leave, Kept, Quiet, Pending, gates
    <2>6. PauseOnItsWay'
      BY <1>7 DEF Acknowledge, Leave, PauseOnItsWay
    <2> QED
      BY <2>5, <2>6
  <1> QED
    BY <1>1, <1>2, <1>3, <1>4, <1>5, <1>6, <1>7 DEF JobStep

(* Everything else: requests, cancellations, starts, unloads, restarts and *)
(* what is left over from before them.                                     *)
LEMMA OtherStepsKeepPInv ==
  ASSUME PInv, TypeOK',
         \/ \E kind, t, why : Request(kind, t, why)
         \/ \E i \in 1 .. Len(queue) : Abandon(i)
         \/ \E s \in Sources : StartEnter(s) \/ StartConnect(s) \/ StartFails(s)
         \/ Close
         \/ Reload \/ Crash
         \/ \E n \in 1 .. MaxRestarts :
               LeftStep(n) \/ \E i \in 1 .. Len(left[n].queue) : LeftCancelled(n, i)
  PROVE  PInv'
  <1> USE DEF PInv, stored, life
  <1>c. /\ call \in [Sources \X Slots -> CallRecords] /\ link \in [Sources -> BOOLEAN]
        /\ queue \in Seq(Jobs)
    BY DEF TypeOK, CallRecords
  <1>1. ASSUME NEW kind, NEW t, NEW why, Request(kind, t, why)
        PROVE  PInv'
    <2> DEFINE j == [kind |-> kind, sources |-> t, why |-> why, user |-> TRUE]
    <2>1. queue' = Append(queue, j)
      BY <1>1 DEF Request
    <2> HIDE DEF j
    <2>2. queue # <<>> => queue' # <<>> /\ job' = job
      BY <1>c, <2>1, AppendKeepsHead DEF job
    <2>3. NothingLouder
      BY <1>1 DEF Request, NothingLouder, Pending, gates, connections
    <2> QED
      BY <1>1, <2>2, <2>3, QuietStepsKeepPInv DEF Request
  <1>2. ASSUME NEW i \in 1 .. Len(queue), Abandon(i), i = 1
        PROVE  PInv'
    <2>1. /\ phase' = "waiting" /\ MayHaveStored
          /\ UNCHANGED <<gates, call, snapshot, connections, promised>>
      BY <1>2 DEF Abandon
    <2>2. Kept'
      BY <2>1 DEF MayHaveStored, Saves, Kept, Quiet, Pending, gates, connections
    <2>3. PauseOnItsWay'
      BY <2>1 DEF PauseOnItsWay
    <2> QED
      BY <2>2, <2>3
  <1>3. ASSUME NEW i \in 1 .. Len(queue), Abandon(i), i # 1
        PROVE  PInv'
    <2>1. /\ queue' = RemoveAt(queue, i)
          /\ UNCHANGED <<phase, todo, stored, gates, call, snapshot, connections, promised>>
      BY <1>3 DEF Abandon
    <2>2. queue' # <<>> /\ job' = job
      BY <1>c, <1>3, <2>1, RemoveAtProperties DEF job
    <2>3. NothingLouder
      BY <2>1 DEF NothingLouder, Pending, gates, connections
    <2> QED
      BY <2>1, <2>2, <2>3, QuietStepsKeepPInv
  <1>4. ASSUME NEW s \in Sources, StartEnter(s) \/ StartFails(s)
        PROVE  PInv'
    <2>1. NothingLouder
      BY <1>4 DEF StartEnter, StartFails, NothingLouder, Pending, gates
    <2> QED
      BY <1>4, <2>1, QuietStepsKeepPInv DEF StartEnter, StartFails, lock, job
  <1>5. ASSUME NEW s \in Sources, StartConnect(s)
        PROVE  PInv'
    <2>1. \A t \in Sources : link'[t] => link[t]
      BY <1>c, <1>5 DEF StartConnect
    <2>2. \A t \in Sources : reason[t] # Open => Pending(t)' = Pending(t)
      <3>1. CASE call' = call
        BY <3>1 DEF Pending
      <3>2. CASE reason[s] = Open /\ call' = Begun(call, s, Connect)
        BY <1>c, <3>2 DEF Begun, Pending
      <3> QED
        BY <1>5, <3>1, <3>2 DEF StartConnect
    <2>3. NothingLouder
      BY <1>5, <2>1, <2>2 DEF StartConnect, NothingLouder, gates
    <2> QED
      BY <1>5, <2>3, QuietStepsKeepPInv DEF StartConnect, lock, job
  <1>6. CASE Close
    <2>1. \A p \in Sources \X Slots :
             Cancelled(call, Sources)[p].at \in {"idle", "applied"}
               <=> call[p].at \in {"idle", "applied"}
      BY <1>c DEF Cancelled, CallRecords
    <2>2. call' = Cancelled(call, Sources)
      BY <1>6 DEF Close
    <2>3. \A t \in Sources : Pending(t)' = Pending(t)
      BY <2>1, <2>2 DEF Pending
    <2>4. NothingLouder
      BY <1>6, <2>3 DEF Close, NothingLouder, gates
    <2> QED
      BY <1>6, <2>4, QuietStepsKeepPInv DEF Close, lock, job
  <1>7. CASE Reload \/ Crash
    <2>1. /\ phase' = "waiting" /\ reason' = disk' /\ call' = NoCalls /\ link' = NoLink
          /\ promised' = [s \in Sources |-> promised[s] /\ disk'[s] # Open]
      BY <1>7 DEF Reload, Crash, Restart
    <2>2. \A s \in Sources : Pending(s)' = {} /\ ~link'[s]
      BY <2>1 DEF NoCalls, NoLink, Idle, Pending
    <2>3. Kept'
      BY <2>1, <2>2 DEF Kept, Quiet
    <2>4. PauseOnItsWay'
      BY <2>1 DEF PauseOnItsWay
    <2> QED
      BY <2>3, <2>4
  <1>8. ASSUME NEW n \in 1 .. MaxRestarts,
               LeftStep(n) \/ \E i \in 1 .. Len(left[n].queue) : LeftCancelled(n, i)
        PROVE  PInv'
    <2>1. /\ UNCHANGED <<gates, call, lock, connections, closed, promised, spent>>
          /\ UNCHANGED stored \/ overtaken'
      BY <1>8 DEF LeftStep, LeftEnters, LeftSaved, LeftSaves, LeftReturns, LeftCancelled
    <2>2. NothingLouder
      BY <2>1 DEF NothingLouder, Pending, gates, connections
    <2> QED
      BY <2>1, <2>2, QuietStepsKeepPInv DEF lock, job
  <1> QED
    BY <1>1, <1>2, <1>3, <1>4, <1>5, <1>6, <1>7, <1>8

LEMMA PInvStep == PInv /\ [Next]_vars => PInv'
  <1> SUFFICES ASSUME PInv, [Next]_vars PROVE PInv'
    OBVIOUS
  <1>0. TypeOK'
    BY TypingStep DEF PInv
  <1>1. CASE UNCHANGED vars
    <2>1. NothingLouder
      BY <1>1 DEF vars, NothingLouder, Pending, gates, connections
    <2> QED
      BY <1>0, <1>1, <2>1, QuietStepsKeepPInv DEF vars, lock, job, stored
  <1>2. CASE Next
    BY <1>0, <1>2, CallStepsKeepPInv, JobStepsKeepPInv, OtherStepsKeepPInv
    DEF Next, UserCancels, ClosingCancels
  <1> QED
    BY <1>1, <1>2

LEMMA PInvAlways == Spec => []PInv
  <1>1. Init => Kept /\ PauseOnItsWay
    BY DEF Init, Kept, PauseOnItsWay
  <1>2. Kept /\ PauseOnItsWay /\ TypeOK => PInv
    BY DEF PInv
  <1> QED
    BY <1>1, <1>2, PInvStep, RuntimeTypes, PTL DEF Spec

(* Nothing of a source under an acknowledged protection is in flight.      *)
THEOREM ProtectionIsSilent == Spec => []ProtectedHasNoTraffic
  <1>1. PInv => ProtectedHasNoTraffic
    BY DEF PInv, Kept, Quiet, ProtectedHasNoTraffic
  <1> QED
    BY <1>1, PInvAlways, PTL

(* The store, and any save in progress, hold every acknowledged protection *)
(* unless a job left over from before a reload has written the store last. *)
THEOREM ProtectionOutlivesCrashes == Spec => []ProtectionIsStored
  <1>1. PInv => ProtectionIsStored
    BY DEF PInv, Kept, ProtectionIsStored
  <1> QED
    BY <1>1, PInvAlways, PTL

----------------------------------------------------------------------------
(* The refinement: what each kind of step is to CloudProtection.           *)
Shut == {s \in Sources : reason[s] # Open}
Promised == {s \in Sources : promised[s]}
Linked == {s \in Sources : link[s]}

Behind == \E n \in 1 .. MaxRestarts : left[n].queue # <<>>

Past == UNCHANGED <<Behind, overtaken>>
Unseen == UNCHANGED <<Shut, Promised, Linked>> /\ Past

LEMMA StepsSeen ==
  /\ Unseen => UNCHANGED Protection!vars
  /\ \A S \in SUBSET Sources :
        Past =>
        /\ Shut' = Shut \cup S /\ UNCHANGED <<Promised, Linked>> => Protection!Next
        /\ /\ S \subseteq Shut /\ Promised' = Promised \cup S
           /\ Linked' \subseteq Linked \ S /\ Shut' = Shut
           => Protection!Next
        /\ Promised' = Promised \ S /\ Shut' = Shut \ S /\ Linked' = Linked
           => Protection!Next
        /\ Linked' = Linked \ S /\ UNCHANGED <<Shut, Promised>> => Protection!Next
  /\ \A s \in Sources :
        s \notin Promised /\ Linked' = Linked \cup {s} /\ UNCHANGED <<Shut, Promised>>
          /\ Past => Protection!Next
  /\ UNCHANGED <<Shut, Promised, Linked>> =>
        /\ UNCHANGED Behind /\ ~overtaken' => Protection!Next
        /\ Behind /\ overtaken' => Protection!Next
        /\ ~Behind' /\ UNCHANGED overtaken => Protection!Next
  /\ /\ overtaken \/ Behind \/ Promised \subseteq Shut'
     /\ Linked' = {} /\ Promised' = Promised \cap Shut' /\ ~overtaken'
     => Protection!Next
  <1>1. Unseen => UNCHANGED Protection!vars
    BY DEF Unseen, Past, Behind, Shut, Promised, Linked, Protection!vars
  <1>2. ASSUME NEW S \in SUBSET Sources, Past,
               Shut' = Shut \cup S, UNCHANGED <<Promised, Linked>>
        PROVE  Protection!Next
    BY <1>2 DEF Past, Behind, Shut, Promised, Linked, Protection!Next, Protection!Shut
  <1>3. ASSUME NEW S \in SUBSET Sources, Past,
               S \subseteq Shut, Promised' = Promised \cup S,
               Linked' \subseteq Linked \ S, Shut' = Shut
        PROVE  Protection!Next
    BY <1>3 DEF Past, Behind, Shut, Promised, Linked, Protection!Next, Protection!Acknowledge
  <1>4. ASSUME NEW S \in SUBSET Sources, Past,
               Promised' = Promised \ S, Shut' = Shut \ S, Linked' = Linked
        PROVE  Protection!Next
    BY <1>4 DEF Past, Behind, Shut, Promised, Linked, Protection!Next, Protection!Release
  <1>5. ASSUME NEW S \in SUBSET Sources, Past,
               Linked' = Linked \ S, UNCHANGED <<Shut, Promised>>
        PROVE  Protection!Next
    BY <1>5 DEF Past, Behind, Shut, Promised, Linked, Protection!Next, Protection!Unlink
  <1>6. ASSUME NEW s \in Sources, s \notin Promised, Past,
               Linked' = Linked \cup {s}, UNCHANGED <<Shut, Promised>>
        PROVE  Protection!Next
    BY <1>6 DEF Past, Behind, Shut, Promised, Linked, Protection!Next, Protection!Link
  <1>7. ASSUME UNCHANGED <<Shut, Promised, Linked>>, UNCHANGED Behind, ~overtaken'
        PROVE  Protection!Next
    <2>1. overtaken' = FALSE
      BY <1>7
    <2> QED
      BY <1>7, <2>1 DEF Behind, Shut, Promised, Linked, Protection!Next, Protection!Store
  <1>8. ASSUME UNCHANGED <<Shut, Promised, Linked>>, Behind, overtaken'
        PROVE  Protection!Next
    <2>1. overtaken' = TRUE /\ Behind' \in BOOLEAN
      BY <1>8 DEF Behind
    <2> QED
      BY <1>8, <2>1 DEF Behind, Shut, Promised, Linked, Protection!Next, Protection!Overtake
  <1>9. ASSUME UNCHANGED <<Shut, Promised, Linked>>, ~Behind', UNCHANGED overtaken
        PROVE  Protection!Next
    <2>1. Behind' = FALSE
      BY <1>9
    <2> QED
      BY <1>9, <2>1 DEF Behind, Shut, Promised, Linked, Protection!Next, Protection!CatchUp
  <1>10. ASSUME overtaken \/ Behind \/ Promised \subseteq Shut',
               Linked' = {}, Promised' = Promised \cap Shut', ~overtaken'
        PROVE  Protection!Next
    <2>1. overtaken' = FALSE /\ Behind' \in BOOLEAN /\ Shut' \subseteq Sources
      BY <1>10 DEF Behind, Shut
    <2> QED
      BY <1>10, <2>1 DEF Behind, Shut, Promised, Linked, Protection!Next, Protection!Restart
  <1> QED
    BY <1>1, <1>2, <1>3, <1>4, <1>5, <1>6, <1>7, <1>8, <1>9, <1>10

LEMMA RuntimeStepSimulates ==
  ASSUME PInv, TypeOK', Next
  PROVE  Protection!Next \/ UNCHANGED Protection!vars
  <1> USE DEF PInv, stored, life
  <1>c. /\ reason \in [Sources -> Reasons \cup {Open}]
        /\ link \in [Sources -> BOOLEAN] /\ promised \in [Sources -> BOOLEAN]
        /\ reason' \in [Sources -> Reasons \cup {Open}]
    BY DEF TypeOK
  <1>p. UNCHANGED <<left, overtaken>> => Past
    BY DEF Past, Behind
  <1>u. UNCHANGED <<reason, promised, link, left, overtaken>> => Unseen
    BY <1>p DEF Unseen, Shut, Promised, Linked
  <1>o. \A why \in Reasons : why # Open
    BY ReasonsAssumption DEF Open
  <1>s. ASSUME NEW S \in SUBSET Sources, NEW why \in Reasons, Block(S, why)
        PROVE  Shut' = Shut \cup S
    BY <1>c, <1>o, <1>s DEF Block, Shut
  <1>1. ASSUME NEW s \in Sources, NEW k \in Slots, CallStep(s, k)
        PROVE  Protection!Next \/ Unseen
    <2>1. CASE Begin(s, k) \/ CallerCancelled(s, k) \/ Deliver(s, k) \/ Refuse(s, k)
      BY <1>u, <2>1 DEF Begin, CallerCancelled, Deliver, Refuse, gates, connections
    <2>2. CASE InnerEnds(s, k) \/ InnerCancelled(s, k)
      <3>1. PICK up \in BOOLEAN : link' = [link EXCEPT ![s] = @ \/ up]
        BY <2>2 DEF InnerEnds, InnerCancelled
      <3>2. k \in Pending(s) /\ UNCHANGED <<reason, promised, left, overtaken>>
        BY <2>2 DEF InnerEnds, InnerCancelled, Pending, gates
      <3>3. s \notin Promised
        BY <3>2 DEF Kept, Quiet, Promised
      <3>4. CASE ~up
        <4>1. link' = link
          BY <1>c, <3>1, <3>4
        <4> QED
          BY <1>u, <3>2, <4>1
      <3>5. CASE up
        <4>1. Linked' = Linked \cup {s}
          BY <1>c, <3>1, <3>5 DEF Linked
        <4>2. UNCHANGED <<Shut, Promised>>
          BY <3>2 DEF Shut, Promised
        <4> QED
          BY <1>p, <3>2, <3>3, <4>1, <4>2, StepsSeen
      <3> QED
        BY <3>4, <3>5
    <2>3. CASE AccountFailure(s, k)
      <3>1. Shut' = Shut \cup {s}
        BY <1>s, <2>3, ReasonsAssumption DEF AccountFailure
      <3>2. UNCHANGED <<Promised, Linked>> /\ Past
        BY <1>p, <2>3 DEF AccountFailure, Promised, Linked
      <3> QED
        BY <3>1, <3>2, StepsSeen
    <2> QED
      BY <1>1, <2>1, <2>2, <2>3 DEF CallStep
  <1>2. CASE EnterPause
    <2>1. Of(job.sources) \in SUBSET Sources /\ job.why \in Reasons
      BY <1>2, JobSources DEF EnterPause, Holds, Jobs
    <2>2. Shut' = Shut \cup Of(job.sources)
      BY <1>2, <1>s, <2>1 DEF EnterPause
    <2>3. UNCHANGED <<Promised, Linked>> /\ Past
      BY <1>2, <1>p DEF EnterPause, Promised, Linked, connections
    <2> QED
      BY <2>1, <2>2, <2>3, StepsSeen
  <1>3. CASE EnterResume
    <2>1. Of(job.sources) \subseteq Sources
      BY <1>3, JobSources DEF EnterResume, Holds
    <2> DEFINE W == {s \in Of(job.sources) : reason[s] # Open}
    <2>2. /\ woken' = W /\ link' = link
          /\ reason' = [s \in Sources |-> IF s \in woken' THEN Open ELSE reason[s]]
          /\ promised' = [s \in Sources |-> promised[s] /\ s \notin woken']
      BY <1>3 DEF EnterResume, connections
    <2>3. W \in SUBSET Sources
      BY <2>1
    <2> HIDE DEF W
    <2>4. Shut' = Shut \ W
      BY <2>2 DEF Shut
    <2>5. Promised' = Promised \ W
      BY <2>2 DEF Promised
    <2>6. Linked' = Linked /\ Past
      BY <1>3, <1>p, <2>2 DEF EnterResume, Linked
    <2> QED
      BY <2>3, <2>4, <2>5, <2>6, StepsSeen
  <1>v. ASSUME UNCHANGED <<reason, promised, link, left>>, Saves
        PROVE  Protection!Next
    <2>1. UNCHANGED <<Shut, Promised, Linked>> /\ UNCHANGED Behind /\ ~overtaken'
      BY <1>v DEF Saves, Shut, Promised, Linked, Behind
    <2> QED
      BY <2>1, StepsSeen
  <1>4. CASE SavedPause \/ SavedResume \/ Drained
    BY <1>4, <1>u, <1>v, StepsSeen
    DEF SavedPause, SavedResume, Drained, gates, connections
  <1>5. ASSUME NEW s \in Sources, link' = [link EXCEPT ![s] = FALSE],
               UNCHANGED <<reason, promised, left, overtaken>>
        PROVE  Protection!Next
    <2>1. Linked' = Linked \ {s}
      BY <1>c, <1>5 DEF Linked
    <2>2. UNCHANGED <<Shut, Promised>> /\ Past
      BY <1>5, <1>p DEF Shut, Promised
    <2> QED
      BY <2>1, <2>2, StepsSeen
  <1>6. CASE Unlinked
    <2>1. Head(todo) \in Sources
      BY <1>6, OfHeadTail DEF Unlinked, Holds, PauseOnItsWay, TypeOK
    <2> QED
      BY <1>5, <1>6, <2>1 DEF Unlinked, gates
  <1>7. CASE Acknowledge
    <2>0. /\ queue # <<>> /\ phase = "unlinking" /\ todo # <<>> /\ Len(todo) = 1
          /\ Of(todo) \subseteq Of(job.sources)
          /\ \A s \in Of(job.sources) :
                reason[s] # Open /\ (s \in Of(todo) \/ Quiet(s))
      BY <1>7 DEF Acknowledge, Holds, PauseOnItsWay
    <2>1. Of(todo) = {Head(todo)} /\ Of(job.sources) \in SUBSET Sources
      BY <2>0, OfHeadTail, JobSources DEF TypeOK
    <2>2. Of(job.sources) \subseteq Shut
      BY <2>0, <2>1 DEF Shut
    <2>3. Promised' = Promised \cup Of(job.sources)
      BY <1>c, <1>7, <2>1 DEF Acknowledge, Promised
    <2>4. Linked' \subseteq Linked \ Of(job.sources)
      <3>1. ASSUME NEW s \in Sources, link'[s]
            PROVE  link[s] /\ s # Head(todo)
        BY <1>c, <1>7, <3>1 DEF Acknowledge
      <3> QED
        BY <2>0, <2>1, <3>1 DEF Linked, Quiet
    <2>5. Shut' = Shut /\ Past
      BY <1>7, <1>p DEF Acknowledge, Shut, gates
    <2> QED
      BY <2>1, <2>2, <2>3, <2>4, <2>5, StepsSeen
  <1>8. ASSUME NEW kind, NEW t, NEW why, Request(kind, t, why)
        PROVE  Unseen
    BY <1>8, <1>u DEF Request, gates, connections
  <1>9. ASSUME NEW i \in 1 .. Len(queue), Abandon(i)
        PROVE  Protection!Next \/ Unseen
    BY <1>9, <1>u, <1>v DEF Abandon, MayHaveStored, gates, connections
  <1>10. ASSUME NEW s \in Sources, StartEnter(s) \/ StartFails(s)
         PROVE  Unseen
    BY <1>10, <1>u DEF StartEnter, StartFails, gates
  <1>11. ASSUME NEW s \in Sources, StartConnect(s)
         PROVE  Protection!Next
    BY <1>5, <1>11 DEF StartConnect, gates
  <1>12. CASE Close
    BY <1>12, <1>u, StepsSeen DEF Close, gates
  <1>13. CASE Reload \/ Crash
    <2>1. /\ promised' = [s \in Sources |-> promised[s] /\ disk'[s] # Open]
          /\ reason' = disk' /\ link' = NoLink /\ ~overtaken'
      BY <1>13 DEF Reload, Crash, Restart
    <2>2. overtaken \/ Behind \/ \A s \in Sources : promised[s] => reason'[s] # Open
      <3>1. CASE disk' = disk
        BY <2>1, <3>1 DEF Kept
      <3>2. CASE phase = "saving" /\ disk' = snapshot
        BY <2>1, <3>2 DEF Kept
      <3>3. CASE \E n \in 1 .. MaxRestarts : left[n].queue # <<>>
        BY <3>3 DEF Behind
      <3> QED
        BY <1>13, <3>1, <3>2, <3>3 DEF Reload, Crash
    <2>3. /\ overtaken \/ Behind \/ Promised \subseteq Shut'
          /\ Linked' = {} /\ Promised' = Promised \cap Shut'
      BY <2>1, <2>2 DEF NoLink, Promised, Shut, Linked
    <2> QED
      BY <2>1, <2>3, StepsSeen
  <1>14. ASSUME NEW n \in 1 .. MaxRestarts,
                LeftStep(n) \/ \E i \in 1 .. Len(left[n].queue) : LeftCancelled(n, i)
         PROVE  Protection!Next \/ Unseen
    <2>1. UNCHANGED <<Shut, Promised, Linked>>
      BY <1>14 DEF LeftStep, LeftEnters, LeftSaved, LeftReturns, LeftCancelled,
                   Shut, Promised, Linked, gates, connections
    <2>2. Behind
      <3>1. left[n].queue # <<>>
        BY <1>14 DEF LeftStep, LeftEnters, LeftSaved, LeftSaves, LeftReturns, TypeOK, Lefts
      <3> QED
        BY <3>1 DEF Behind
    <2>3. overtaken' \/ UNCHANGED overtaken
      BY <1>14 DEF LeftStep, LeftEnters, LeftSaved, LeftSaves, LeftReturns, LeftCancelled
    <2>4. CASE overtaken'
      BY <2>1, <2>2, <2>4, StepsSeen
    <2>5. CASE UNCHANGED overtaken /\ Behind'
      BY <2>1, <2>2, <2>5 DEF Unseen, Past, Behind
    <2>6. CASE UNCHANGED overtaken /\ ~Behind'
      BY <2>1, <2>6, StepsSeen
    <2> QED
      BY <2>3, <2>4, <2>5, <2>6
  <1> QED
    BY <1>1, <1>2, <1>3, <1>4, <1>6, <1>7, <1>8, <1>9, <1>10, <1>11, <1>12, <1>13, <1>14,
       StepsSeen
    DEF Next, JobStep, UserCancels, ClosingCancels

(* The runtime implements CloudProtection: an acknowledged pause holds     *)
(* until it is resumed, through reloads and crashes too unless a job left  *)
(* over from before a reload has written the store last.                   *)
THEOREM RuntimeKeepsItsPromise == Spec => ImplementsProtection
  <1>1. Init => Protection!Init
    <2>1. Init => ~\E n \in 1 .. MaxRestarts : left[n].queue # <<>>
      BY DEF Init, Nobody, Remains
    <2> QED
      BY <2>1 DEF Init, NoLink, Protection!Init
  <1>2. PInv /\ TypeOK' /\ [Next]_vars => [Protection!Next]_(Protection!vars)
    <2>1. UNCHANGED vars => UNCHANGED Protection!vars
      BY StepsSeen DEF vars, Unseen, Past, Behind, Shut, Promised, Linked, gates,
                       connections, stored, life
    <2> QED
      BY <2>1, RuntimeStepSimulates
  <1> QED
    BY <1>1, <1>2, PInvAlways, RuntimeTypes, PTL DEF Spec, ImplementsProtection, Protection!Spec

----------------------------------------------------------------------------
(* LocalSetting: sets of numbers and their grids.                          *)

(* A set of numbers has a least one.                                       *)
LEMMA LeastNatural ==
    ASSUME NEW T \in SUBSET Nat, T # {}
    PROVE  \E x \in T : \A y \in T : x <= y
<1> DEFINE R == {p \in Nat \X Nat : p[1] < p[2]}
<1>1. IsWellFoundedOn(R, Nat)
  BY NatLessThanWellFounded DEF OpToRel
<1>2. PICK x \in T : \A y \in T : ~(<<y, x>> \in R)
  BY <1>1, WFMin
<1>3. x \in Nat /\ \A y \in T : y \in Nat
  OBVIOUS
<1>4. \A y \in T : ~(y < x)
  BY <1>2, <1>3
<1> QED
  BY <1>3, <1>4

(* A finite set of integers has a greatest one.                            *)
LEMMA GreatestInteger ==
    ASSUME NEW S \in SUBSET Int, IsFiniteSet(S), S # {}
    PROVE  \E x \in S : \A y \in S : y <= x
<1> DEFINE Bad == {n \in Nat : \E A \in SUBSET Int :
                      /\ IsFiniteSet(A) /\ A # {} /\ Cardinality(A) = n
                      /\ ~\E x \in A : \A y \in A : y <= x}
<1>1. Bad = {}
  <2> SUFFICES ASSUME Bad # {} PROVE FALSE
    OBVIOUS
  <2>1. PICK n \in Bad : \A m \in Bad : n <= m
    BY LeastNatural, Bad \in SUBSET Nat
  <2>2. PICK A \in SUBSET Int : /\ IsFiniteSet(A) /\ A # {} /\ Cardinality(A) = n
                                /\ ~\E x \in A : \A y \in A : y <= x
    BY <2>1
  <2>3. PICK a \in A : TRUE
    BY <2>2
  <2>4. IsFiniteSet(A \ {a}) /\ Cardinality(A \ {a}) = n - 1 /\ n \in Nat
    BY <2>1, <2>2, <2>3, FS_RemoveElement
  <2>5. A \ {a} # {}
    <3>1. ASSUME A \ {a} = {} PROVE FALSE
      <4>1. \A y \in A : y = a
        BY <3>1
      <4> QED
        BY <2>2, <2>3, <4>1
    <3> QED
      BY <3>1
  <2>6. Cardinality(A \ {a}) \in Nat
    BY <2>4, FS_CardinalityType
  <2>7. n - 1 \notin Bad
    BY <2>1, <2>4
  <2>8. \E x \in A \ {a} : \A y \in A \ {a} : y <= x
    BY <2>2, <2>4, <2>5, <2>6, <2>7
  <2>9. PICK x \in A \ {a} : \A y \in A \ {a} : y <= x
    BY <2>8
  <2>10. x \in Int /\ a \in Int /\ (x <= a \/ a <= x) /\ \A y \in A : y \in Int
    BY <2>2, <2>3
  <2>11. CASE x <= a
    <3>1. \A y \in A : y <= a
      BY <2>9, <2>10, <2>11
    <3> QED
      BY <2>2, <2>3, <3>1
  <2>12. CASE a <= x
    <3>1. \A y \in A : y <= x
      BY <2>9, <2>10, <2>12
    <3> QED
      BY <2>2, <2>9, <3>1
  <2> QED
    BY <2>10, <2>11, <2>12
<1>2. Cardinality(S) \in Nat
  BY FS_CardinalityType
<1>3. Cardinality(S) \notin Bad
  BY <1>1
<1> QED
  BY <1>2, <1>3

(* A remainder of nothing stays one below.                                 *)
LEMMA OneStepDown ==
    ASSUME NEW a \in Int, NEW g \in Nat, g > 0, a % g = 0
    PROVE  (a - g) % g = 0
<1>1. /\ a = g * (a \div g) + (a % g) /\ a \div g \in Int
      /\ a - g = g * ((a - g) \div g) + ((a - g) % g) /\ (a - g) \div g \in Int
      /\ (a - g) % g \in 0 .. g - 1
  OBVIOUS
<1> DEFINE q == a \div g
           p == (a - g) \div g
           r == (a - g) % g
<1>2. q \in Int /\ p \in Int /\ r \in 0 .. g - 1 /\ g * q - g = g * p + r
  BY <1>1
<1> HIDE DEF p, q, r
<1>3. r = g * (q - 1 - p)
  BY <1>2
<1>4. PICK k \in Int : k = q - 1 - p
  BY <1>2
<1>5. r = g * k
  BY <1>3, <1>4
<1>6. k >= 1 => g * k >= g
  OBVIOUS
<1>7. k <= -1 => g * k <= -g
  OBVIOUS
<1>8. k = 0
  BY <1>2, <1>5, <1>6, <1>7
<1>9. r = 0
  BY <1>5, <1>8
<1> QED
  BY <1>9 DEF r

(* A finite set of integers has a least one.                               *)
LEMMA LeastInteger ==
    ASSUME NEW S \in SUBSET Int, IsFiniteSet(S), S # {}
    PROVE  \E x \in S : \A y \in S : x <= y
<1> DEFINE T == {n \in Int : -n \in S}
           f == [x \in S |-> -x]
<1>1. f \in Surjection(S, T)
  <2>1. f \in [S -> T]
    OBVIOUS
  <2>2. \A t \in T : \E x \in S : f[x] = t
    <3>1. ASSUME NEW t \in T PROVE -t \in S /\ f[-t] = t
      OBVIOUS
    <3> QED
      BY <3>1
  <2> QED
    BY <2>1, <2>2 DEF Surjection
<1>2. IsFiniteSet(T) /\ T # {} /\ T \in SUBSET Int
  <2>1. PICK x \in S : TRUE
    OBVIOUS
  <2>2. -x \in T
    BY <2>1
  <2>3. IsFiniteSet(T)
    BY <1>1, FS_Surjection
  <2> QED
    BY <2>2, <2>3
<1>3. PICK t \in T : \A u \in T : u <= t
  BY <1>2, GreatestInteger
<1>4. -t \in S /\ t \in Int
  BY <1>3
<1>5. \A y \in S : -y \in T /\ y \in Int
  OBVIOUS
<1>6. \A y \in S : -t <= y
  BY <1>3, <1>4, <1>5
<1> QED
  BY <1>4, <1>6

(* Values whose gaps are all the same are the grid from the least to the   *)
(* greatest of them.                                                       *)
LEMMA EvenIsAGrid ==
    ASSUME NEW S \in SUBSET Int, IsFiniteSet(S), Even(S),
           NEW d, d.min = Least(S), d.max = Most(S),
           d.step = (CHOOSE p \in Neighbours(S) : TRUE)[2] - (CHOOSE p \in Neighbours(S) : TRUE)[1]
    PROVE  Grid(d) \subseteq S
<1> DEFINE N == Neighbours(S)
           Gaps == {p[2] - p[1] : p \in N}
           f == [p \in N |-> p[2] - p[1]]
<1>1. IsFiniteSet(N) /\ N \subseteq S \X S
  <2>1. IsFiniteSet(S \X S)
    BY FS_Product
  <2> QED
    BY <2>1, FS_Subset DEF Neighbours
<1>2. f \in Surjection(N, Gaps)
  <2>1. f \in [N -> Gaps]
    OBVIOUS
  <2>2. \A t \in Gaps : \E p \in N : f[p] = t
    <3>1. ASSUME NEW t \in Gaps PROVE \E p \in N : f[p] = t
      <4>1. PICK p \in N : t = p[2] - p[1]
        BY <3>1
      <4>2. f[p] = p[2] - p[1]
        OBVIOUS
      <4> QED
        BY <4>1, <4>2
    <3> QED
      BY <3>1
  <2> QED
    BY <2>1, <2>2 DEF Surjection
<1>3. IsFiniteSet(Gaps)
  BY <1>1, <1>2, FS_Surjection
<1>4. PICK g : Gaps = {g}
  BY <1>3, FS_Singleton DEF Even
<1>5. PICK one \in N : g = one[2] - one[1]
  BY <1>4
<1>6. \A p \in N : p[2] - p[1] = g /\ p[1] \in S /\ p[2] \in S /\ p[1] < p[2]
  BY <1>1, <1>4 DEF Neighbours
<1>7. g \in Nat /\ g > 0 /\ S # {}
  <2>1. one[2] - one[1] = g /\ one[1] \in S /\ one[2] \in S /\ one[1] < one[2]
    BY <1>5, <1>6
  <2>2. one[1] \in Int /\ one[2] \in Int
    BY <2>1
  <2> QED
    BY <2>1, <2>2
<1>8. d.step = g
  <2>1. (CHOOSE p \in N : TRUE) \in N
    BY <1>5
  <2> QED
    BY <1>6, <2>1
<1>9. d.min \in S /\ \A v \in S : d.min <= v
  BY <1>7, LeastInteger DEF Least
<1>10. d.max \in S /\ \A v \in S : v <= d.max
  BY <1>7, GreatestInteger DEF Most
<1>11. d.min \in Int /\ d.max \in Int
  BY <1>9, <1>10
<1> DEFINE Missing == {n \in Nat : d.min + n \in Grid(d) \ S}
<1>12. Missing = {}
  <2> SUFFICES ASSUME Missing # {} PROVE FALSE
    OBVIOUS
  <2>1. PICK n \in Missing : \A m \in Missing : n <= m
    BY LeastNatural, Missing \in SUBSET Nat
  <2>2. /\ n \in Nat /\ d.min + n \notin S /\ d.min + n <= d.max
        /\ ((d.min + n) - d.min) % g = 0
    BY <1>8, <1>11, <2>1 DEF Grid
  <2>3. n > 0
    BY <1>9, <1>11, <2>2
  <2>4. n % g = 0
    BY <1>11, <2>2
  <2>5. n >= g
    <3>1. ASSUME n < g PROVE FALSE
      <4>1. n % g = n
        BY <1>7, <2>2, <3>1
      <4> QED
        BY <2>3, <2>4, <4>1
    <3> QED
      BY <1>7, <2>2, <3>1
  <2>6. PICK m : m = n - g
    OBVIOUS
  <2>7. m \in Nat /\ m < n /\ m % g = 0
    BY <1>7, <2>2, <2>4, <2>5, <2>6, OneStepDown
  <2>8. d.min + m \in Grid(d)
    <3>1. (d.min + m) - d.min = m /\ d.min + m \in d.min .. d.max
      BY <1>11, <2>2, <2>7
    <3> QED
      BY <1>8, <2>7, <3>1 DEF Grid
  <2>9. PICK v : v = d.min + m
    OBVIOUS
  <2>10. v \in S /\ v \in Int /\ v < d.max /\ v + g = d.min + n
    <3>1. m \notin Missing
      BY <2>1, <2>2, <2>7
    <3>2. v \in S
      BY <2>7, <2>8, <2>9, <3>1
    <3> QED
      BY <1>7, <1>11, <2>2, <2>6, <2>7, <2>9, <3>2
  <2> DEFINE Above == {x \in S : v < x}
  <2>11. IsFiniteSet(Above) /\ Above # {} /\ Above \in SUBSET Int
    <3>1. Above \subseteq S /\ d.max \in Above
      BY <1>10, <2>10
    <3>2. IsFiniteSet(Above)
      BY <3>1, FS_Subset
    <3> QED
      BY <3>1, <3>2
  <2>12. PICK w \in Above : \A x \in Above : w <= x
    BY <2>11, LeastInteger
  <2>13. <<v, w>> \in N
    <3>1. v \in S /\ w \in S /\ v < w
      BY <2>10, <2>12
    <3>2. \A x \in S : ~(v < x /\ x < w)
      <4>1. ASSUME NEW x \in S, v < x, x < w PROVE FALSE
        <5>1. w <= x /\ x \in Int /\ w \in Int
          BY <2>12, <4>1, <3>1
        <5> QED
          BY <4>1, <5>1
      <4> QED
        BY <4>1
    <3> QED
      BY <3>1, <3>2 DEF Neighbours
  <2>14. w - v = g /\ w \in S /\ w \in Int
    BY <1>6, <2>13
  <2> QED
    BY <1>7, <2>2, <2>10, <2>14
<1>13. ASSUME NEW x \in Grid(d) PROVE x \in S
  <2>1. x \in Int /\ d.min <= x
    BY <1>11 DEF Grid
  <2>2. PICK n : n = x - d.min
    OBVIOUS
  <2>3. n \in Nat /\ x = d.min + n
    BY <1>11, <2>1, <2>2
  <2>4. n \notin Missing
    BY <1>12
  <2> QED
    BY <1>13, <2>3, <2>4
<1> QED
  BY <1>13

----------------------------------------------------------------------------
(* The menus of a content of the database.                                 *)

(* What a menu may hold of a capability: a number has every point of its   *)
(* grid, and only a draft, an action or a parameter is sent otherwise.     *)
Sound(c, d) ==
    /\ d.domain \in Domains
    /\ d.domain = "number" => Grid(d) \subseteq d.values
    /\ d.domain = "draft" => c \in Drafts
    /\ d.domain = "action" => c \in Actions
    /\ d.domain = "parameter" => d.values = {}

SoundMenu(m, db) ==
    \A c \in DOMAIN m.contract : Sound(c, m.contract[c]) /\ c \notin Disabled(db)

(* The contract of the release, and that of the rows of the database.      *)
LEMMA ContractIsSound ==
    ASSUME NEW n \in Names, NEW db, db = Databases[n]
    PROVE  \A c \in DOMAIN Contract(db) :
              /\ Loaded(c, Contract(db)[c]) /\ WellFormed(Contract(db)[c])
              /\ c \notin Disabled(db)
<1>1. CASE db.rollout \in {"ours", "all"}
  <2>1. Contract(db) = RowContract(db)
    BY <1>1 DEF Contract
  <2>2. ASSUME NEW c \in DOMAIN RowContract(db)
        PROVE  /\ c \in DOMAIN db.rows /\ c \notin Off(db)
               /\ WellFormed(RowContract(db)[c]) /\ RowContract(db)[c] = db.rows[c].descriptor
    BY <2>2 DEF RowContract
  <2>3. \A c \in DOMAIN db.rows : Loaded(c, db.rows[c].descriptor)
    BY CatalogueAssumption
  <2> QED
    BY <2>1, <2>2, <2>3, <1>1 DEF Disabled
<1>2. CASE ~(db.rollout \in {"ours", "all"})
  BY <1>2, CatalogueAssumption DEF Contract, Disabled
<1> QED
  BY <1>1, <1>2

(* A descriptor that is well formed is sound.                              *)
LEMMA WellFormedIsSound ==
    ASSUME NEW c, NEW d, Loaded(c, d), WellFormed(d)
    PROVE  Sound(c, d)
<1>1. d.domain = "number" => Grid(d) \subseteq d.values
  BY DEF WellFormed
<1> QED
  BY <1>1 DEF Sound, Loaded

(* What confirmed features make of it.                                     *)
LEMMA FeaturesAreLoaded ==
    ASSUME NEW n \in Names, NEW db, db = Databases[n]
    PROVE  \A c \in DOMAIN Features(db) : LoadedFeature(c, Features(db)[c]) /\ c \notin Disabled(db)
<1>1. CASE db.rollout \in {"ours", "all"}
  <2> DEFINE On == {x \in DOMAIN db.rows \ Off(db) : db.rows[x].confirmed = "on"}
  <2>1. Features(db) = [c \in On |-> db.rows[c].feature]
    BY <1>1 DEF Features
  <2>2. \A c \in On : LoadedFeature(c, db.rows[c].feature) /\ c \notin Off(db)
    BY CatalogueAssumption
  <2> QED
    BY <1>1, <2>1, <2>2 DEF Disabled
<1>2. CASE ~(db.rollout \in {"ours", "all"})
  BY <1>2, CatalogueAssumption DEF Features, Disabled
<1> QED
  BY <1>1, <1>2

(* An extension keeps a control sound: irregular values make it a select.  *)
LEMMA ExtendedIsSound ==
    ASSUME NEW c, NEW old, Loaded(c, old), WellFormed(old), old.domain \in {"number", "select", "switch"},
           NEW new \in SUBSET Int, IsFiniteSet(new)
    PROVE  Sound(c, Extended(old, new))
<1> DEFINE values == old.values \cup new
<1>1. values \in SUBSET Int /\ IsFiniteSet(values)
  BY FS_Union DEF Loaded
<1>2. CASE old.domain = "switch"
  <2>1. Extended(old, new) = [old EXCEPT !.values = values]
    BY <1>2 DEF Extended
  <2>2. [old EXCEPT !.values = values].domain = "switch"
    BY <1>2 DEF Loaded
  <2> QED
    BY <2>1, <2>2 DEF Sound, Domains
<1>3. CASE old.domain # "switch" /\ StaysNumber(old, values)
  <2> DEFINE one == CHOOSE p \in Neighbours(values) : TRUE
             d == [old EXCEPT !.values = values, !.min = Least(values), !.max = Most(values),
                              !.step = one[2] - one[1]]
  <2>1. Extended(old, new) = d
    BY <1>3 DEF Extended
  <2>2. d.domain = "number" /\ d.values = values /\ d.min = Least(values) /\ d.max = Most(values)
        /\ d.step = one[2] - one[1]
    BY <1>3 DEF StaysNumber, Loaded
  <2>3. Even(values)
    BY <1>3 DEF StaysNumber
  <2> HIDE DEF values, d
  <2>4. Grid(d) \subseteq values
    BY <1>1, <2>2, <2>3, EvenIsAGrid
  <2> QED
    BY <2>1, <2>2, <2>4 DEF Sound, Domains
<1>4. CASE old.domain # "switch" /\ ~StaysNumber(old, values)
  <2>1. Extended(old, new) = [old EXCEPT !.values = values, !.domain = "select"]
    BY <1>4 DEF Extended
  <2>2. [old EXCEPT !.values = values, !.domain = "select"].domain = "select"
    BY DEF Loaded
  <2> QED
    BY <2>1, <2>2 DEF Sound, Domains
<1> QED
  BY <1>2, <1>3, <1>4

(* Whatever an edit or the set-up puts in force is sound.                  *)
LEMMA MenusAreSound ==
    ASSUME NEW n \in Names, NEW db, db = Databases[n], NEW o
    PROVE  /\ SoundMenu(AtSetup(db, o), db)
           /\ AtEdit(db, o).ok => SoundMenu(AtEdit(db, o), db)
<1> DEFINE contract == Contract(db)
           el == Eligibility(contract, FromDatabase(db), o)
           features == Features(db)
           all == Augmented(contract, el, features)
<1>1. \A c \in DOMAIN contract : Loaded(c, contract[c]) /\ WellFormed(contract[c]) /\ c \notin Disabled(db)
  BY ContractIsSound
<1>2. \A c \in DOMAIN features : LoadedFeature(c, features[c]) /\ c \notin Disabled(db)
  BY FeaturesAreLoaded
<1>3. /\ Menu(db, o).base.contract = contract
      /\ Menu(db, o).full.contract = all.contract
      /\ Menu(db, o).full.ok => all.ok
  BY DEF Menu
<1> HIDE DEF contract, el, features
<1>4. \A c \in DOMAIN contract : Sound(c, contract[c]) /\ c \notin Disabled(db)
  BY <1>1, WellFormedIsSound
<1>5. ASSUME all.ok
      PROVE  \A c \in DOMAIN all.contract : Sound(c, all.contract[c]) /\ c \notin Disabled(db)
  <2>1. CASE ~el.bound
    <3>1. all.contract = contract
      BY <2>1 DEF Augmented
    <3> QED
      BY <1>4, <3>1
  <2>2. CASE el.bound
    <3>1. /\ \A c \in DOMAIN features : Fits(contract, c, features[c])
          /\ all.contract = [c \in DOMAIN contract \cup DOMAIN features |->
                               IF c \notin DOMAIN features THEN contract[c]
                               ELSE IF c \in DOMAIN contract
                               THEN Extended(contract[c], features[c].descriptor.values)
                               ELSE features[c].descriptor]
      BY <1>5, <2>2 DEF Augmented
    <3>2. ASSUME NEW c \in DOMAIN contract \cup DOMAIN features
          PROVE  Sound(c, all.contract[c]) /\ c \notin Disabled(db)
      <4>1. CASE c \notin DOMAIN features
        BY <1>4, <3>1, <4>1
      <4>2. CASE c \in DOMAIN features /\ c \in DOMAIN contract
        <5>1. contract[c].domain \in {"number", "select", "switch"}
          BY <3>1, <4>2 DEF Fits
        <5>2. features[c].descriptor.values \in SUBSET Int /\ IsFiniteSet(features[c].descriptor.values)
          BY <1>2, <4>2 DEF LoadedFeature, Loaded
        <5>3. Sound(c, Extended(contract[c], features[c].descriptor.values))
          BY <1>1, <4>2, <5>1, <5>2, ExtendedIsSound
        <5> QED
          BY <1>1, <3>1, <4>2, <5>3
      <4>3. CASE c \in DOMAIN features /\ c \notin DOMAIN contract
        <5>1. ~features[c].extends
          BY <3>1, <4>3 DEF Fits
        <5>2. Sound(c, features[c].descriptor)
          BY <1>2, <4>3, <5>1 DEF LoadedFeature, Loaded, Sound
        <5> QED
          BY <1>2, <3>1, <4>3, <5>2
      <4> QED
        BY <4>1, <4>2, <4>3
    <3> QED
      BY <3>1, <3>2
  <2> QED
    BY <2>1, <2>2
<1>6. SoundMenu(AtSetup(db, o), db)
  <2>1. CASE ~db.valid
    BY <2>1 DEF AtSetup, SoundMenu
  <2>2. CASE db.valid /\ Menu(db, o).full.ok
    BY <1>3, <1>5, <2>2 DEF AtSetup, SoundMenu
  <2>3. CASE db.valid /\ ~Menu(db, o).full.ok
    BY <1>3, <1>4, <2>3 DEF AtSetup, SoundMenu
  <2> QED
    BY <2>1, <2>2, <2>3
<1>7. AtEdit(db, o).ok => SoundMenu(AtEdit(db, o), db)
  BY <1>3, <1>5 DEF AtEdit, SoundMenu
<1> QED
  BY <1>6, <1>7

(* Every input of an entity that a sound menu offers may be sent.          *)
LEMMA SoundIsSent ==
    ASSUME NEW m, NEW db, SoundMenu(m, db), NEW c \in Offered(m) \ (Drafts \cup Actions),
           NEW v \in Inputs(m.contract[c])
    PROVE  ValueAuthorized(m, c, v) /\ c \notin Disabled(db)
<1>1. /\ c \in DOMAIN m.contract /\ m.el.bound /\ c \in DOMAIN m.el.allowed
      /\ m.el.allowed[c] = m.contract[c].values
  BY DEF Offered, AllowedExactly
<1>2. Sound(c, m.contract[c]) /\ c \notin Disabled(db)
  BY <1>1 DEF SoundMenu
<1>3. v \in m.contract[c].values
  BY <1>2 DEF Inputs, Sound
<1>4. m.contract[c].domain \notin {"draft", "action", "parameter"}
  BY <1>2, <1>3 DEF Sound
<1> QED
  BY <1>1, <1>2, <1>3, <1>4 DEF ValueAuthorized

----------------------------------------------------------------------------
(* Who holds an intent, and what may leave.                                *)

(* A record of a call, whatever it asks of whom.                           *)
IsCall(q) ==
    q = [step |-> q.step, kind |-> q.kind, cap |-> q.cap, value |-> q.value,
         object |-> q.object, intent |-> q.intent, commands |-> q.commands]

\* a call that has not led to a command yet, of an intent
Before(q) == q.step \in {"queued", "posted"} /\ q.intent # 0

Unsent(us, i) == i \in 1 .. Len(us) /\ us[i] = 0

CallFits(us, q) ==
    /\ IsCall(q) /\ q.commands \in {0, 1}
    /\ q.step \in {"queued", "posted", "cloud"} => q.commands = 0
    /\ Before(q) => Unsent(us, q.intent)

(* Every intent has one holder at most: the draft, the choice, or a call   *)
(* that has sent nothing yet.                                              *)
OneHolder(cs, us, dr, ch) ==
    /\ cs = [c \in Callers |-> cs[c]]
    /\ \A c \in Callers : CallFits(us, cs[c])
    /\ us \in Seq({0, 1})
    /\ dr.value # Nothing => Unsent(us, dr.intent)
    /\ ch.cap # Nothing => Unsent(us, ch.intent)
    /\ dr.value # Nothing /\ ch.cap # Nothing => dr.intent # ch.intent
    /\ \A c \in Callers : Before(cs[c]) =>
          /\ dr.value # Nothing => cs[c].intent # dr.intent
          /\ ch.cap # Nothing => cs[c].intent # ch.intent
          /\ \A d \in Callers \ {c} : Before(cs[d]) => cs[c].intent # cs[d].intent

IntentInv == OneHolder(calls, used, draft, choice)

(* A call goes from step to step and stays what it asks.                   *)
LEMMA Stepped ==
    ASSUME NEW q, IsCall(q), NEW s, NEW x, x = [q EXCEPT !.step = s]
    PROVE  /\ IsCall(x) /\ x.step = s /\ x.kind = q.kind /\ x.cap = q.cap /\ x.value = q.value
           /\ x.object = q.object /\ x.intent = q.intent /\ x.commands = q.commands
<1>1. x = [step |-> s, kind |-> q.kind, cap |-> q.cap, value |-> q.value,
           object |-> q.object, intent |-> q.intent, commands |-> q.commands]
  BY DEF IsCall
<1> QED
  BY <1>1 DEF IsCall

(* A caller without a call, and one that asks.                             *)
LEMMA NoCallIsIdle == IsCall(NoCall) /\ NoCall.step = "idle" /\ NoCall.commands = 0 /\ NoCall.intent = 0
BY DEF IsCall, NoCall

LEMMA AskedIsACall ==
    ASSUME NEW kind, NEW cap, NEW v, NEW i
    PROVE  \E q : /\ q = Asked(kind, cap, v, i) /\ IsCall(q) /\ q.step = "idle" /\ q.commands = 0
                  /\ q.intent = i /\ q.cap = cap /\ q.value = v /\ q.kind = kind
<1>1. PICK o : o = IF cap \in Factory THEN entities[cap].object ELSE 0
  OBVIOUS
<1>2. Asked(kind, cap, v, i) = [NoCall EXCEPT !.kind = kind, !.cap = cap, !.value = v, !.intent = i, !.object = o]
  BY <1>1 DEF Asked
<1> QED
  BY <1>2 DEF NoCall, IsCall

(* What a call becomes when it is sent.                                    *)
LEMMA SentIsACall ==
    ASSUME NEW q, IsCall(q), q.commands = 0, NEW x, x = Sent(q)
    PROVE  /\ IsCall(x) /\ x.commands = 0 /\ x.step \in {"idle", "cloud", "posted"}
           /\ Before(x) => x.intent = q.intent /\ x.intent # 0
           /\ x.step \in {"posted", "cloud"} => x.cap = q.cap /\ x.value = q.value /\ MayGo(q)
           /\ x.step = "posted" => alive /\ Authorised(q.cap, q.value)
<1>1. CASE ~MayGo(q)
  BY <1>1, NoCallIsIdle DEF Sent, Before
<1>2. CASE MayGo(q) /\ (~alive \/ ~Authorised(q.cap, q.value))
  <2>1. CASE q.kind = "card"
    <3>1. x = [q EXCEPT !.step = "cloud"]
      BY <1>2, <2>1 DEF Sent, Refusal
    <3> QED
      BY <1>2, <3>1, Stepped DEF Before
  <2>2. CASE q.kind # "card"
    BY <1>2, <2>2, NoCallIsIdle DEF Sent, Refusal, Before
  <2> QED
    BY <2>1, <2>2
<1>3. CASE MayGo(q) /\ alive /\ Authorised(q.cap, q.value)
  <2>1. x = [q EXCEPT !.step = "posted"]
    BY <1>3 DEF Sent
  <2> QED
    BY <1>3, <2>1, Stepped DEF Before
<1> QED
  BY <1>1, <1>2, <1>3

(* One caller's call becomes another: it holds no intent it did not hold.  *)
LEMMA HoldersStay ==
    ASSUME NEW cs, NEW us, NEW dr, NEW ch, OneHolder(cs, us, dr, ch), NEW c \in Callers,
           NEW x, CallFits(us, x), Before(x) => Before(cs[c]) /\ x.intent = cs[c].intent
    PROVE  OneHolder([cs EXCEPT ![c] = x], us, dr, ch)
<1> DEFINE xs == [cs EXCEPT ![c] = x]
<1>1. xs = [d \in Callers |-> IF d = c THEN x ELSE cs[d]]
  BY DEF OneHolder
<1> HIDE DEF xs
<1>2. \A d \in Callers : Before(xs[d]) => Before(cs[d]) /\ xs[d].intent = cs[d].intent
  BY <1>1
<1>3. \A d \in Callers : CallFits(us, xs[d])
  BY <1>1 DEF OneHolder
<1>4. xs = [d \in Callers |-> xs[d]]
  BY <1>1
<1>5. OneHolder(xs, us, dr, ch)
  BY <1>2, <1>3, <1>4 DEF OneHolder
<1> QED
  BY <1>5 DEF xs

(* A command is counted for the intent its call held, which has none now.  *)
LEMMA HolderSpent ==
    ASSUME NEW cs, NEW us, NEW dr, NEW ch, OneHolder(cs, us, dr, ch), NEW c \in Callers,
           cs[c].step = "posted", NEW x, IsCall(x), x.commands \in {0, 1},
           x.step \notin {"queued", "posted", "cloud"},
           NEW us2, us2 = IF cs[c].intent = 0 THEN us ELSE [us EXCEPT ![cs[c].intent] = @ + 1]
    PROVE  OneHolder([cs EXCEPT ![c] = x], us2, dr, ch)
<1>1. CallFits(us, x) /\ CallFits(us2, x) /\ ~Before(x)
  BY DEF CallFits, Before
<1>2. CASE cs[c].intent = 0
  BY <1>1, <1>2, HoldersStay
<1>3. CASE cs[c].intent # 0
  <2> DEFINE i == cs[c].intent
             xs == [cs EXCEPT ![c] = x]
  <2>1. Before(cs[c]) /\ Unsent(us, i) /\ us \in Seq({0, 1})
    BY <1>3 DEF OneHolder, CallFits, Before
  <2>2. us2 = [us EXCEPT ![i] = 1]
    BY <1>3, <2>1 DEF Unsent
  <2>3. /\ us2 \in Seq({0, 1}) /\ Len(us2) = Len(us)
        /\ \A j \in 1 .. Len(us) : j # i => us2[j] = us[j]
    <3>1. us \in [1 .. Len(us) -> {0, 1}] /\ Len(us) \in Nat /\ DOMAIN us = 1 .. Len(us)
      BY <2>1
    <3>2. us2 \in [1 .. Len(us) -> {0, 1}]
      BY <2>2, <3>1
    <3>3. us2 \in Seq({0, 1})
      BY <3>1, <3>2, SeqDef
    <3>4. Len(us2) = Len(us)
      BY <3>1, <3>2, <3>3
    <3>5. \A j \in 1 .. Len(us) : j # i => us2[j] = us[j]
      BY <2>2, <3>1
    <3> QED
      BY <3>3, <3>4, <3>5
  <2>4. \A j : Unsent(us, j) /\ j # i => Unsent(us2, j)
    BY <2>3 DEF Unsent
  <2>5. xs = [d \in Callers |-> IF d = c THEN x ELSE cs[d]]
    BY DEF OneHolder
  <2> HIDE DEF xs, i
  <2>6. \A d \in Callers : d # c => xs[d] = cs[d]
    BY <2>5
  <2>7. xs[c] = x /\ xs = [d \in Callers |-> xs[d]]
    BY <2>5
  <2>8. ASSUME NEW d \in Callers PROVE CallFits(us2, xs[d])
    <3>1. CASE d = c
      BY <1>1, <2>7, <3>1
    <3>2. CASE d # c
      <4>1. CallFits(us, cs[d]) /\ (Before(cs[d]) => cs[d].intent # i)
        BY <2>1, <3>2 DEF OneHolder, i
      <4> QED
        BY <2>4, <2>6, <3>2, <4>1 DEF CallFits
    <3> QED
      BY <3>1, <3>2
  <2>9. /\ dr.value # Nothing => Unsent(us, dr.intent) /\ dr.intent # i
        /\ ch.cap # Nothing => Unsent(us, ch.intent) /\ ch.intent # i
    BY <2>1 DEF OneHolder, i
  <2>10. /\ dr.value # Nothing => Unsent(us2, dr.intent)
         /\ ch.cap # Nothing => Unsent(us2, ch.intent)
    BY <2>4, <2>9
  <2>11. \A d \in Callers : Before(xs[d]) => d # c /\ xs[d] = cs[d]
    BY <1>1, <2>6, <2>7
  <2>12. dr.value # Nothing /\ ch.cap # Nothing => dr.intent # ch.intent
    BY DEF OneHolder
  <2>13. ASSUME NEW d \in Callers, Before(xs[d])
         PROVE  /\ dr.value # Nothing => xs[d].intent # dr.intent
                /\ ch.cap # Nothing => xs[d].intent # ch.intent
                /\ \A e \in Callers \ {d} : Before(xs[e]) => xs[d].intent # xs[e].intent
    BY <2>11, <2>13 DEF OneHolder
  <2>14. OneHolder(xs, us2, dr, ch)
    BY <2>3, <2>7, <2>8, <2>10, <2>12, <2>13 DEF OneHolder
  <2> QED
    BY <2>14 DEF xs
<1> QED
  BY <1>2, <1>3

(* A new intent is nobody's but the one who has it.                        *)
LEMMA NewIntent ==
    ASSUME NEW cs, NEW us, NEW dr, NEW ch, OneHolder(cs, us, dr, ch),
           NEW us2, us2 = Append(us, 0)
    PROVE  /\ \A dr2 : dr2.intent = Len(us) + 1 => OneHolder(cs, us2, dr2, ch)
           /\ \A ch2 : ch2.intent = Len(us) + 1 => OneHolder(cs, us2, dr, ch2)
<1>1. us \in Seq({0, 1}) /\ Len(us) \in Nat
  BY DEF OneHolder
<1>2. /\ us2 \in Seq({0, 1}) /\ Len(us2) = Len(us) + 1
      /\ \A i \in 1 .. Len(us) : us2[i] = us[i]
      /\ us2[Len(us) + 1] = 0
  BY <1>1
<1>3. \A i : Unsent(us, i) => Unsent(us2, i) /\ i # Len(us) + 1
  BY <1>1, <1>2 DEF Unsent
<1>4. Unsent(us2, Len(us) + 1)
  BY <1>1, <1>2 DEF Unsent
<1>5. \A q : CallFits(us, q) => CallFits(us2, q)
  BY <1>3 DEF CallFits
<1>6. \A c \in Callers : Before(cs[c]) => cs[c].intent # Len(us) + 1
  BY <1>3 DEF OneHolder, CallFits
<1>7. ASSUME NEW dr2, dr2.intent = Len(us) + 1 PROVE OneHolder(cs, us2, dr2, ch)
  BY <1>2, <1>3, <1>4, <1>5, <1>6, <1>7 DEF OneHolder
<1>8. ASSUME NEW ch2, ch2.intent = Len(us) + 1 PROVE OneHolder(cs, us2, dr, ch2)
  BY <1>2, <1>3, <1>4, <1>5, <1>6, <1>8 DEF OneHolder
<1> QED
  BY <1>7, <1>8

(* The draft, or the choice, gives its intent to a call, or up.            *)
LEMMA HolderHandsOver ==
    ASSUME NEW cs, NEW us, NEW dr, NEW ch, OneHolder(cs, us, dr, ch), NEW c \in Callers,
           NEW x, IsCall(x), x.commands = 0, NEW i, Before(x) => x.intent = i,
           ~Before(cs[c])
    PROVE  /\ dr.value # Nothing /\ i = dr.intent =>
                  \A dr2 : dr2.value = Nothing => OneHolder([cs EXCEPT ![c] = x], us, dr2, ch)
           /\ ch.cap # Nothing /\ i = ch.intent =>
                  \A ch2 : ch2.cap = Nothing => OneHolder([cs EXCEPT ![c] = x], us, dr, ch2)
<1> DEFINE xs == [cs EXCEPT ![c] = x]
<1>1. xs = [d \in Callers |-> IF d = c THEN x ELSE cs[d]]
  BY DEF OneHolder
<1> HIDE DEF xs
<1>2. \A d \in Callers : d # c => xs[d] = cs[d]
  BY <1>1
<1>3. xs[c] = x /\ xs = [d \in Callers |-> xs[d]]
  BY <1>1
<1>4. ASSUME dr.value # Nothing, i = dr.intent, NEW dr2, dr2.value = Nothing
      PROVE  OneHolder(xs, us, dr2, ch)
  <2>1. Unsent(us, i)
    BY <1>4 DEF OneHolder
  <2>2. CallFits(us, x)
    BY <2>1 DEF CallFits
  <2>3. \A d \in Callers : CallFits(us, xs[d])
    BY <1>2, <1>3, <2>2 DEF OneHolder
  <2>4. \A d \in Callers : Before(cs[d]) => cs[d].intent # i
    BY <1>4 DEF OneHolder
  <2>5. ch.cap # Nothing => i # ch.intent
    BY <1>4 DEF OneHolder
  <2> QED
    BY <1>2, <1>3, <1>4, <2>3, <2>4, <2>5 DEF OneHolder
<1>5. ASSUME ch.cap # Nothing, i = ch.intent, NEW ch2, ch2.cap = Nothing
      PROVE  OneHolder(xs, us, dr, ch2)
  <2>1. Unsent(us, i)
    BY <1>5 DEF OneHolder
  <2>2. CallFits(us, x)
    BY <2>1 DEF CallFits
  <2>3. \A d \in Callers : CallFits(us, xs[d])
    BY <1>2, <1>3, <2>2 DEF OneHolder
  <2>4. \A d \in Callers : Before(cs[d]) => cs[d].intent # i
    BY <1>5 DEF OneHolder
  <2>5. dr.value # Nothing => i # dr.intent
    BY <1>5 DEF OneHolder
  <2> QED
    BY <1>2, <1>3, <1>5, <2>3, <2>4, <2>5 DEF OneHolder
<1> QED
  BY <1>4, <1>5 DEF xs

(* So does a draft that is given up without a call.                        *)
LEMMA DraftGivenUp ==
    ASSUME NEW cs, NEW us, NEW dr, NEW ch, OneHolder(cs, us, dr, ch), NEW dr2, dr2.value = Nothing
    PROVE  OneHolder(cs, us, dr2, ch)
BY DEF OneHolder

(* What sending makes of a call, for the intents.                          *)
LEMMA OutcomesAreCalls ==
    ASSUME NEW q, IsCall(q), q.commands = 0,
           NEW x \in {NoCall, [q EXCEPT !.step = "queued"], [q EXCEPT !.step = "posted"],
                      [q EXCEPT !.step = "cloud"]}
    PROVE  IsCall(x) /\ x.commands = 0 /\ (Before(x) => x.intent = q.intent)
<1>1. CASE x = NoCall
  BY <1>1, NoCallIsIdle DEF Before
<1>2. CASE x = [q EXCEPT !.step = "queued"]
  BY <1>2, Stepped
<1>3. CASE x = [q EXCEPT !.step = "posted"]
  BY <1>3, Stepped
<1>4. CASE x = [q EXCEPT !.step = "cloud"]
  BY <1>4, Stepped
<1> QED
  BY <1>1, <1>2, <1>3, <1>4

(* A step that neither calls nor answers leaves the intents as they are.   *)
LEMMA IntentsStay ==
    ASSUME IntentInv, UNCHANGED <<calls, intentVars>>
    PROVE  IntentInv'
BY DEF IntentInv, OneHolder, intentVars

(* What a user does.                                                       *)
LEMMA UsersKeepIntents ==
    ASSUME IntentInv,
           \/ \E c \in Callers :
                 \/ \E r \in Requests : Ask(c, r[1], r[2]) \/ UseCard(c, r[1], r[2])
                 \/ \E cap \in Actions : Press(c, cap)
                 \/ Start(c)
           \/ \E cap \in Drafts, v \in Values : EnterDraft(cap, v)
           \/ \E r \in Requests : ChooseProgram(r[1], r[2])
    PROVE  IntentInv'
<1>1. PICK cs, us, dr, ch : cs = calls /\ us = used /\ dr = draft /\ ch = choice
  OBVIOUS
<1>2. PICK cs2, us2, dr2, ch2 : cs2 = calls' /\ us2 = used' /\ dr2 = draft' /\ ch2 = choice'
  OBVIOUS
<1>3. OneHolder(cs, us, dr, ch)
  BY <1>1 DEF IntentInv, OneHolder
<1> SUFFICES OneHolder(cs2, us2, dr2, ch2)
  BY <1>2 DEF IntentInv, OneHolder
<1> DEFINE Ways(p) == {NoCall, [p EXCEPT !.step = "queued"], [p EXCEPT !.step = "posted"],
                       [p EXCEPT !.step = "cloud"]}
<1>4. ASSUME NEW c \in Callers, NEW cap, NEW v, Ask(c, cap, v)
      PROVE  OneHolder(cs2, us2, dr2, ch2)
  <2>1. PICK q : q = Asked("factory", cap, v, 0) /\ IsCall(q) /\ q.commands = 0 /\ q.intent = 0
    BY AskedIsACall
  <2>2. PICK x \in Ways(q) : cs2 = [cs EXCEPT ![c] = x]
    BY <1>1, <1>2, <1>4, <2>1 DEF Ask, SendLocked, Send, Sent, Refusal
  <2>3. IsCall(x) /\ x.commands = 0 /\ ~Before(x)
    BY <2>1, OutcomesAreCalls, ZenonT(40) DEF Before
  <2>4. us2 = us /\ dr2 = dr /\ ch2 = ch
    BY <1>1, <1>2, <1>4 DEF Ask, intentVars
  <2> QED
    BY <1>3, <2>2, <2>3, <2>4, HoldersStay DEF CallFits
<1>5. ASSUME NEW c \in Callers, NEW cap, NEW v, UseCard(c, cap, v)
      PROVE  OneHolder(cs2, us2, dr2, ch2)
  <2>1. PICK q : q = Asked("card", cap, v, 0) /\ IsCall(q) /\ q.commands = 0 /\ q.intent = 0
    BY AskedIsACall
  <2>2. PICK x \in Ways(q) : cs2 = [cs EXCEPT ![c] = x]
    BY <1>1, <1>2, <1>5, <2>1 DEF UseCard, Send, Sent, Refusal
  <2>3. IsCall(x) /\ x.commands = 0 /\ ~Before(x)
    BY <2>1, OutcomesAreCalls, ZenonT(40) DEF Before
  <2>4. us2 = us /\ dr2 = dr /\ ch2 = ch
    BY <1>1, <1>2, <1>5 DEF UseCard, intentVars
  <2> QED
    BY <1>3, <2>2, <2>3, <2>4, HoldersStay DEF CallFits
<1>6. ASSUME NEW c \in Callers, NEW cap, Press(c, cap)
      PROVE  OneHolder(cs2, us2, dr2, ch2)
  <2>1. /\ us2 = us /\ ch2 = ch /\ dr.value # Nothing /\ cs[c].step = "idle"
        /\ dr2 \in {dr, NoDraft} /\ (dr2 = dr => cs2 = cs \/ dr = NoDraft)
    BY <1>1, <1>2, <1>6 DEF Press, Consumed
  <2>2. PICK q : /\ q = Asked("action", cap, dr.value, dr.intent) /\ IsCall(q)
                 /\ q.commands = 0 /\ q.intent = dr.intent
    BY AskedIsACall
  <2>3. cs2 = cs \/ \E x \in Ways(q) : cs2 = [cs EXCEPT ![c] = x]
    <3>1. q = Asked("action", cap, draft.value, draft.intent)
      BY <1>1, <2>2 DEF Asked
    <3> QED
      BY <1>1, <1>2, <1>6, <3>1 DEF Press, SendLocked, Send, Sent, Refusal
  <2>4. NoDraft.value = Nothing
    BY DEF NoDraft
  <2>5. CASE cs2 = cs
    BY <1>3, <2>1, <2>4, <2>5, DraftGivenUp
  <2>6. CASE cs2 # cs
    <3>1. PICK x \in Ways(q) : cs2 = [cs EXCEPT ![c] = x]
      BY <2>3, <2>6
    <3>2. dr2 = NoDraft
      BY <2>1, <2>4, <2>6
    <3>3. IsCall(x) /\ x.commands = 0 /\ (Before(x) => x.intent = dr.intent)
      <4>1. IsCall(q) /\ q.commands = 0
        BY <2>2
      <4>2. IsCall(x) /\ x.commands = 0 /\ (Before(x) => x.intent = q.intent)
        BY <4>1, OutcomesAreCalls
      <4> QED
        BY <2>2, <4>2
    <3>4. ~Before(cs[c])
      BY <2>1 DEF Before
    <3> QED
      BY <1>3, <2>1, <2>4, <3>1, <3>2, <3>3, <3>4, HolderHandsOver
  <2> QED
    BY <2>5, <2>6
<1>7. ASSUME NEW c \in Callers, Start(c)
      PROVE  OneHolder(cs2, us2, dr2, ch2)
  <2>1. /\ us2 = us /\ dr2 = dr /\ ch.cap # Nothing /\ cs[c].step = "idle"
        /\ ch2 = NoChoice
    BY <1>1, <1>2, <1>7 DEF Start
  <2>2. PICK q : /\ q = Asked("start", ch.cap, ch.value, ch.intent) /\ IsCall(q)
                 /\ q.commands = 0 /\ q.intent = ch.intent
    BY AskedIsACall
  <2>3. PICK x \in Ways(q) : cs2 = [cs EXCEPT ![c] = x]
    <3>1. q = Asked("start", choice.cap, choice.value, choice.intent)
      BY <1>1, <2>2 DEF Asked
    <3> QED
      BY <1>1, <1>2, <1>7, <3>1 DEF Start, Send, Sent, Refusal
  <2>4. NoChoice.cap = Nothing
    BY DEF NoChoice
  <2>5. IsCall(x) /\ x.commands = 0 /\ (Before(x) => x.intent = ch.intent)
    <3>1. IsCall(q) /\ q.commands = 0
      BY <2>2
    <3>2. IsCall(x) /\ x.commands = 0 /\ (Before(x) => x.intent = q.intent)
      BY <3>1, OutcomesAreCalls
    <3> QED
      BY <2>2, <3>2
  <2>6. ~Before(cs[c])
    BY <2>1 DEF Before
  <2> QED
    BY <1>3, <2>1, <2>3, <2>4, <2>5, <2>6, HolderHandsOver
<1>8. ASSUME NEW cap, NEW v, EnterDraft(cap, v)
      PROVE  OneHolder(cs2, us2, dr2, ch2)
  <2>1. cs2 = cs /\ us2 = Append(us, 0) /\ ch2 = ch /\ dr2.intent = Len(us) + 1
    BY <1>1, <1>2, <1>8 DEF EnterDraft
  <2> QED
    BY <1>3, <2>1, NewIntent
<1>9. ASSUME NEW cap, NEW v, ChooseProgram(cap, v)
      PROVE  OneHolder(cs2, us2, dr2, ch2)
  <2>1. cs2 = cs /\ us2 = Append(us, 0) /\ dr2 = dr /\ ch2.intent = Len(us) + 1
    BY <1>1, <1>2, <1>9 DEF ChooseProgram
  <2> QED
    BY <1>3, <2>1, NewIntent
<1> QED
  BY <1>4, <1>5, <1>6, <1>7, <1>8, <1>9

(* Sending from the queue, the answers and what follows them.              *)
LEMMA AnswersKeepIntents ==
    ASSUME IntentInv, NEW c \in Callers, Goes(c)
    PROVE  IntentInv'
<1>1. PICK cs, us, dr, ch : cs = calls /\ us = used /\ dr = draft /\ ch = choice
  OBVIOUS
<1>2. PICK cs2, us2, dr2, ch2 : cs2 = calls' /\ us2 = used' /\ dr2 = draft' /\ ch2 = choice'
  OBVIOUS
<1>3. OneHolder(cs, us, dr, ch)
  BY <1>1 DEF IntentInv, OneHolder
<1> SUFFICES OneHolder(cs2, us2, dr2, ch2)
  BY <1>2 DEF IntentInv, OneHolder
<1> DEFINE q == cs[c]
<1>4. CallFits(us, q)
  BY <1>3 DEF OneHolder
<1> HIDE DEF q
<1>5. CASE Enter(c)
  <2>1. q.step = "queued" /\ IsCall(q) /\ q.commands = 0
    BY <1>1, <1>4, <1>5 DEF Enter, CallFits, q
  <2>2. PICK x \in {NoCall, [q EXCEPT !.step = "queued"], [q EXCEPT !.step = "posted"],
                    [q EXCEPT !.step = "cloud"]} : cs2 = [cs EXCEPT ![c] = x]
    BY <1>1, <1>2, <1>5 DEF Enter, Send, Sent, Refusal, q
  <2>3. IsCall(x) /\ x.commands = 0 /\ (Before(x) => x.intent = q.intent)
    BY <2>1, OutcomesAreCalls
  <2>4. Before(x) => Before(q)
    BY <2>1, <2>3 DEF Before
  <2>5. us2 = us /\ dr2 = dr /\ ch2 = ch
    BY <1>1, <1>2, <1>5 DEF Enter, intentVars
  <2>6. CallFits(us, x)
    BY <1>4, <2>3, <2>4 DEF CallFits
  <2> QED
    BY <1>3, <2>2, <2>3, <2>4, <2>5, <2>6, HoldersStay DEF q
<1>6. ASSUME Confirmed(c) \/ Unclear(c)
      PROVE  OneHolder(cs2, us2, dr2, ch2)
  <2>1. /\ q.step = "posted" /\ dr2 = dr /\ ch2 = ch
        /\ us2 = IF q.intent = 0 THEN us ELSE [us EXCEPT ![q.intent] = @ + 1]
    BY <1>1, <1>2, <1>6 DEF Confirmed, Unclear, Commanded, q
  <2>2. IsCall(q) /\ q.commands = 0
    BY <1>4, <2>1 DEF CallFits
  <2>3. PICK s \in {"update", "done"} : s = IF q.cap \in Remembered THEN "update" ELSE "done"
    OBVIOUS
  <2>4. PICK a : a = [q EXCEPT !.step = s, !.commands = @ + 1]
    OBVIOUS
  <2>5. IsCall(a) /\ a.step = s /\ a.commands = 1
    <3>1. a = [q EXCEPT !.step = s, !.commands = 1]
      BY <2>2, <2>4
    <3>2. a = [step |-> s, kind |-> q.kind, cap |-> q.cap, value |-> q.value,
              object |-> q.object, intent |-> q.intent, commands |-> 1]
      BY <2>2, <3>1 DEF IsCall
    <3> QED
      BY <3>2 DEF IsCall
  <2>6. PICK x \in {a, [a EXCEPT !.step = "done"]} : cs2 = [cs EXCEPT ![c] = x]
    <3>1. a = After(q)
      BY <2>3, <2>4 DEF After
    <3> QED
      BY <1>1, <1>2, <1>6, <3>1 DEF Confirmed, Unclear, OnUnclear, After, q
  <2>7. IsCall(x) /\ x.step \in {"update", "done"} /\ x.commands = 1
    <3>1. CASE x = a
      BY <2>5, <3>1
    <3>2. CASE x = [a EXCEPT !.step = "done"]
      BY <2>5, <3>2, Stepped
    <3> QED
      BY <3>1, <3>2
  <2> QED
    BY <1>3, <2>1, <2>6, <2>7, HolderSpent DEF q
<1>7. ASSUME Refused(c) \/ Retryable(c)
      PROVE  OneHolder(cs2, us2, dr2, ch2)
  <2>1. q.step = "posted" /\ us2 = us /\ dr2 = dr /\ ch2 = ch
    BY <1>1, <1>2, <1>7 DEF Refused, Retryable, intentVars, q
  <2>2. PICK x \in {NoCall, [q EXCEPT !.step = "cloud"]} : cs2 = [cs EXCEPT ![c] = x]
    BY <1>1, <1>2, <1>7 DEF Refused, Retryable, Refusal, q
  <2>3. IsCall(q) /\ q.commands = 0
    BY <1>4, <2>1 DEF CallFits
  <2>4. IsCall(x) /\ x.commands = 0 /\ ~Before(x)
    <3>1. CASE x = NoCall
      BY <3>1, NoCallIsIdle DEF Before
    <3>2. CASE x = [q EXCEPT !.step = "cloud"]
      BY <2>3, <3>2, Stepped DEF Before
    <3> QED
      BY <3>1, <3>2
  <2> QED
    BY <1>3, <2>1, <2>2, <2>4, HoldersStay DEF CallFits
<1>8. CASE Cloud(c)
  <2>1. q.step = "cloud" /\ us2 = us /\ dr2 = dr /\ ch2 = ch
    BY <1>1, <1>2, <1>8 DEF Cloud, intentVars, q
  <2>2. PICK x : x = [q EXCEPT !.step = "done", !.commands = @ + 1]
    OBVIOUS
  <2>5. cs2 = [cs EXCEPT ![c] = x]
    <3>1. cs = [d \in Callers |-> cs[d]]
      BY <1>3 DEF OneHolder
    <3> QED
      BY <1>1, <1>2, <1>8, <2>2, <3>1 DEF Cloud, q
  <2>3. IsCall(q) /\ q.commands = 0
    BY <1>4, <2>1 DEF CallFits
  <2>4. IsCall(x) /\ x.commands = 1 /\ x.step = "done" /\ ~Before(x)
    <3>1. x = [q EXCEPT !.step = "done", !.commands = 1]
      BY <2>2, <2>3
    <3>2. x = [step |-> "done", kind |-> q.kind, cap |-> q.cap, value |-> q.value,
              object |-> q.object, intent |-> q.intent, commands |-> 1]
      BY <2>3, <3>1 DEF IsCall
    <3> QED
      BY <3>2 DEF Before, IsCall
  <2> QED
    BY <1>3, <2>1, <2>5, <2>4, HoldersStay DEF CallFits
<1>9. ASSUME ReadBack(c) \/ Land(c) \/ Return(c)
      PROVE  OneHolder(cs2, us2, dr2, ch2)
  <2>1. us2 = us /\ dr2 = dr /\ ch2 = ch
    BY <1>1, <1>2, <1>9 DEF ReadBack, Land, Return, intentVars
  <2>2. PICK v : v = IF alive THEN device.setting ELSE Nothing
    OBVIOUS
  <2>3. PICK x \in {[q EXCEPT !.step = "landing", !.value = v], [q EXCEPT !.step = "done"], NoCall} :
           cs2 = [cs EXCEPT ![c] = x]
    BY <1>1, <1>2, <1>9, <2>2 DEF ReadBack, Land, Return, q
  <2>4. IsCall(q) /\ q.commands \in {0, 1}
    BY <1>4 DEF CallFits
  <2>5. IsCall(x) /\ x.commands \in {0, 1} /\ x.step \in {"landing", "done", "idle"}
    <3>1. CASE x = NoCall
      BY <3>1, NoCallIsIdle
    <3>2. CASE x = [q EXCEPT !.step = "landing", !.value = v]
      <4>1. x = [step |-> "landing", kind |-> q.kind, cap |-> q.cap, value |-> v,
                object |-> q.object, intent |-> q.intent, commands |-> q.commands]
        BY <2>4, <3>2 DEF IsCall
      <4> QED
        BY <2>4, <4>1 DEF IsCall
    <3>3. CASE x = [q EXCEPT !.step = "done"]
      <4>1. IsCall(x) /\ x.step = "done" /\ x.commands = q.commands
        BY <2>4, <3>3, Stepped
      <4> QED
        BY <2>4, <4>1
    <3> QED
      BY <3>1, <3>2, <3>3
  <2>6. CallFits(us, x) /\ ~Before(x)
    BY <2>5 DEF CallFits, Before
  <2> QED
    BY <1>3, <2>1, <2>3, <2>6, HoldersStay
<1> QED
  BY <1>5, <1>6, <1>7, <1>8, <1>9 DEF Goes, Answer

(* Every step keeps the intents' one holder.                               *)
LEMMA StepsKeepIntents ==
    ASSUME IntentInv, [SettingNext]_settingVars
    PROVE  IntentInv'
<1>1. CASE UNCHANGED settingVars
  BY <1>1, IntentsStay DEF settingVars
<1>2. ASSUME \/ \E cap \in Remembered : Poll(cap)
             \/ PollLands \/ PollFails
             \/ Touch \/ Presence
             \/ Report \/ Expires
             \/ \E n \in Names : Edit(n)
             \/ \E cap \in Factory : Replace(cap)
      PROVE  IntentInv'
  BY <1>2, IntentsStay DEF Poll, PollLands, PollFails, Touch, Presence, Report, Expires, Edit, Replace
<1> QED
  BY <1>1, <1>2, UsersKeepIntents, AnswersKeepIntents DEF SettingNext

(* The menu in force is sound for the content it was made of.              *)
MenuInv == applied \in Names /\ SoundMenu(menu, Databases[applied])

SettingInv == MenuInv /\ IntentInv

(* The invariant holds at the start.                                       *)
LEMMA SettingStarts == SettingInit => SettingInv
<1> SUFFICES ASSUME SettingInit PROVE SettingInv
  OBVIOUS
<1>1. MenuInv
  <2>1. PICK n, o, m : n = applied /\ o = options /\ m = menu
    OBVIOUS
  <2>2. PICK db : db = Databases[n]
    OBVIOUS
  <2>3. n \in Names /\ m = AtSetup(db, o)
    BY <2>1, <2>2, ZenonT(40) DEF SettingInit, AtSetup, Menu, Eligibility, Unbound, Error
  <2>4. SoundMenu(m, db)
    BY <2>2, <2>3, MenusAreSound
  <2>5. SoundMenu(menu, Databases[applied])
    BY <2>1, <2>2, <2>4 DEF SoundMenu
  <2> QED
    BY <2>1, <2>3, <2>5 DEF MenuInv
<1>2. IntentInv
  <2>1. PICK cs, us, dr, ch : cs = calls /\ us = used /\ dr = draft /\ ch = choice
    OBVIOUS
  <2>2. cs = [c \in Callers |-> NoCall] /\ us = <<>> /\ dr = NoDraft /\ ch = NoChoice
    BY <2>1 DEF SettingInit
  <2>3. \A c \in Callers : CallFits(us, cs[c]) /\ ~Before(cs[c])
    BY <2>2, NoCallIsIdle DEF CallFits, Before
  <2>4. us \in Seq({0, 1}) /\ dr.value = Nothing /\ ch.cap = Nothing
    BY <2>2 DEF NoDraft, NoChoice
  <2>5. OneHolder(cs, us, dr, ch)
    BY <2>2, <2>3, <2>4 DEF OneHolder
  <2> QED
    BY <2>1, <2>5 DEF IntentInv, OneHolder
<1> QED
  BY <1>1, <1>2 DEF SettingInv

(* A live edit puts a sound menu in force, and nothing else changes it.    *)
LEMMA StepsKeepMenu ==
    ASSUME MenuInv, [SettingNext]_settingVars
    PROVE  MenuInv'
<1>1. CASE UNCHANGED menuVars
  BY <1>1 DEF MenuInv, SoundMenu, menuVars
<1>2. ASSUME NEW n \in Names, Edit(n)
      PROVE  MenuInv'
  <2>1. PICK db, o, m : db = Databases[n] /\ o = options /\ m = menu'
    OBVIOUS
  <2>2. m = AtEdit(db, o) /\ AtEdit(db, o).ok /\ applied' = n
    BY <1>2, <2>1 DEF Edit, AtEdit, Menu, Augmented
  <2>3. SoundMenu(m, db)
    BY <2>1, <2>2, MenusAreSound
  <2>4. SoundMenu(menu', Databases[applied'])
    BY <2>1, <2>2, <2>3 DEF SoundMenu
  <2> QED
    BY <2>2, <2>4 DEF MenuInv, SoundMenu
<1>3. CASE UNCHANGED settingVars
  BY <1>1, <1>3 DEF settingVars
<1>4. ASSUME SettingNext, ~\E n \in Names : Edit(n)
      PROVE  UNCHANGED menuVars
  <2>1. ASSUME NEW c \in Callers, Goes(c) PROVE UNCHANGED menuVars
    BY <2>1 DEF Goes, Answer, Enter, Confirmed, Unclear, Refused, Retryable, Cloud, ReadBack, Land, Return
  <2>2. ASSUME NEW c \in Callers,
               \/ \E r \in Requests : Ask(c, r[1], r[2]) \/ UseCard(c, r[1], r[2])
               \/ \E cap \in Actions : Press(c, cap)
               \/ Start(c)
        PROVE  UNCHANGED menuVars
    BY <2>2 DEF Ask, UseCard, Press, Start
  <2>3. ASSUME \/ \E cap \in Drafts, v \in Values : EnterDraft(cap, v)
               \/ \E r \in Requests : ChooseProgram(r[1], r[2])
               \/ \E cap \in Remembered : Poll(cap)
               \/ PollLands \/ PollFails
               \/ Touch \/ Presence
               \/ Report \/ Expires
               \/ \E cap \in Factory : Replace(cap)
        PROVE  UNCHANGED menuVars
    BY <2>3 DEF EnterDraft, ChooseProgram, Poll, PollLands, PollFails, Touch, Presence, Report, Expires, Replace
  <2> QED
    BY <1>4, <2>1, <2>2, <2>3 DEF SettingNext
<1> QED
  BY <1>1, <1>2, <1>3, <1>4

(* Every step keeps the invariant.                                         *)
LEMMA SettingKept == SettingInv /\ [SettingNext]_settingVars => SettingInv'
BY StepsKeepIntents, StepsKeepMenu DEF SettingInv

(* The inductive invariant holds of every state.                           *)
THEOREM SettingInvariant == SettingSpec => []SettingInv
<1>1. SettingInit => SettingInv
  BY SettingStarts
<1>2. SettingInv /\ [SettingNext]_settingVars => SettingInv'
  BY SettingKept
<1> QED
  BY <1>1, <1>2, PTL DEF SettingSpec

(* It implies what is promised of the offers.                              *)
LEMMA InvKeepsOffers == SettingInv => OffersAreKept
<1> SUFFICES ASSUME SettingInv PROVE OffersAreKept
  OBVIOUS
<1>1. OnePerIntent
  <2>1. PICK cs, us, dr, ch : cs = calls /\ us = used /\ dr = draft /\ ch = choice
    OBVIOUS
  <2>2. OneHolder(cs, us, dr, ch)
    BY <2>1 DEF SettingInv, IntentInv, OneHolder
  <2>3. \A c \in Callers : cs[c].commands \in {0, 1}
    BY <2>2 DEF OneHolder, CallFits
  <2>4. \A i \in DOMAIN us : us[i] \in {0, 1}
    BY <2>2 DEF OneHolder
  <2>5. \A k \in {0, 1} : k <= 1
    OBVIOUS
  <2> QED
    BY <2>1, <2>3, <2>4, <2>5 DEF OnePerIntent
<1>2. OfferedCanBeSent
  <2>1. PICK m, db, es : m = menu /\ db = Databases[applied] /\ es = entities
    OBVIOUS
  <2>2. SoundMenu(m, db)
    BY <2>1 DEF SettingInv, MenuInv, SoundMenu
  <2>3. SUFFICES ASSUME NEW cap \in Factory \ (Drafts \cup Actions), There(cap),
                        es[cap].desc = Wanted(cap), NEW v \in Inputs(es[cap].desc)
                 PROVE  Authorised(cap, v)
    BY <2>1 DEF OfferedCanBeSent
  <2>4. cap \in Offered(m) /\ es[cap].desc = m.contract[cap]
    BY <2>1, <2>3 DEF There, Wanted, Offered, AllowedExactly
  <2>5. ValueAuthorized(m, cap, v) /\ cap \notin Disabled(db)
    BY <2>2, <2>3, <2>4, SoundIsSent
  <2> QED
    BY <2>1, <2>5 DEF Authorised, IsDisabled, ValueAuthorized, AllowedExactly, Disabled, Off
<1> QED
  BY <1>1, <1>2 DEF OffersAreKept

(* What a control offers can be sent, and one intent leads to one command, *)
(* for any catalogue, scope, content of the database, callers and edits.   *)
THEOREM OffersStayKept == SettingSpec => []OffersAreKept
BY SettingInvariant, InvKeepsOffers, PTL

\* what must be true of a call that has just been posted, or handed to the cloud
MayBeThere(x) ==
    /\ x.step = "posted" => Authorised(x.cap, x.value) /\ alive /\ ConditionMet(x.cap, {x.value})
    /\ x.step = "cloud" => ~IsDisabled(x.cap)

(* What is sent may be sent when it is.                                    *)
LEMMA SentMayBeThere ==
    ASSUME NEW q, IsCall(q), q.commands = 0, NEW x, x = Sent(q)
    PROVE  MayBeThere(x)
<1>1. /\ x.step \in {"posted", "cloud"} => x.cap = q.cap /\ x.value = q.value /\ MayGo(q)
      /\ x.step = "posted" => alive /\ Authorised(q.cap, q.value)
  BY SentIsACall
<1> QED
  BY <1>1 DEF MayBeThere, MayGo

(* So no step posts, or hands to the cloud, what may not go there.         *)
LEMMA StepsSendWhatMayGo ==
    ASSUME IntentInv, [SettingNext]_settingVars
    PROVE  \A c \in Callers :
              calls[c].step # calls'[c].step /\ calls[c].step # "posted" =>
                  \E x : x = calls'[c] /\ MayBeThere(x)
<1> SUFFICES ASSUME NEW c \in Callers, NEW q, q = calls[c], NEW x, x = calls'[c],
                    q.step # x.step, q.step # "posted"
             PROVE  MayBeThere(x)
  OBVIOUS
<1>1. calls = [d \in Callers |-> calls[d]] /\ IsCall(q)
      /\ (q.step \in {"queued", "posted", "cloud"} => q.commands = 0)
  <2>1. PICK cs, us, dr, ch : cs = calls /\ us = used /\ dr = draft /\ ch = choice
    OBVIOUS
  <2>2. OneHolder(cs, us, dr, ch)
    BY <2>1 DEF IntentInv, OneHolder
  <2> QED
    BY <2>1, <2>2 DEF OneHolder, CallFits
<1>2. ASSUME x.step \notin {"posted", "cloud"} PROVE MayBeThere(x)
  BY <1>2 DEF MayBeThere
<1>3. ASSUME NEW p, IsCall(p), p.commands = 0, calls' = [calls EXCEPT ![c] = Sent(p)]
      PROVE  MayBeThere(x)
  <2>1. x = Sent(p)
    BY <1>1, <1>3
  <2> QED
    BY <1>3, <2>1, SentMayBeThere
<1>4. NoCall.step = "idle"
  BY NoCallIsIdle
<1>5. ASSUME NEW d \in Callers, Goes(d)
      PROVE  MayBeThere(x)
  <2>1. CASE d # c
    <3>1. calls'[c] = calls[c]
      BY <1>1, <1>5, <2>1 DEF Goes, Answer, Enter, Send, Confirmed, Unclear, Refused, Retryable, Cloud, ReadBack,
                              Land, Return
    <3> QED
      BY <3>1
  <2>2. CASE d = c /\ Enter(c)
    <3>1. q.step = "queued" /\ calls' = [calls EXCEPT ![c] = Sent(q)]
      BY <2>2 DEF Enter, Send, Sent, MayGo, Refusal, Authorised, IsDisabled, ConditionMet, EvaluateCondition,
                  ValueAuthorized
    <3> QED
      BY <1>1, <1>3, <3>1
  <2>3. CASE d = c /\ Answer(c)
    BY <2>3 DEF Answer, Confirmed, Unclear, Refused, Retryable
  <2>4. CASE d = c /\ (Cloud(c) \/ ReadBack(c) \/ Land(c) \/ Return(c))
    <3>1. x.step \notin {"posted", "cloud"}
      BY <1>1, <1>4, <2>4 DEF Cloud, ReadBack, Land, Return, IsCall
    <3> QED
      BY <1>2, <3>1
  <2> QED
    BY <1>5, <2>1, <2>2, <2>3, <2>4 DEF Goes
<1>6. ASSUME NEW d \in Callers, NEW cap, NEW v, Ask(d, cap, v)
      PROVE  MayBeThere(x)
  <2>1. CASE d # c
    <3>1. calls'[c] = calls[c]
      BY <1>1, <1>6, <2>1 DEF Ask, SendLocked, Send
    <3> QED
      BY <3>1
  <2>2. CASE d = c
    <3>1. PICK p : p = Asked("factory", cap, v, 0) /\ IsCall(p) /\ p.commands = 0
      BY AskedIsACall
    <3>2. \/ calls' = [calls EXCEPT ![c] = [p EXCEPT !.step = "queued"]]
          \/ calls' = [calls EXCEPT ![c] = Sent(p)]
      BY <1>6, <2>2, <3>1 DEF Ask, SendLocked, Send, Sent, MayGo, Refusal, Authorised, IsDisabled, ConditionMet,
                              EvaluateCondition, ValueAuthorized
    <3>3. CASE calls' = [calls EXCEPT ![c] = [p EXCEPT !.step = "queued"]]
      <4>1. x.step = "queued"
        BY <1>1, <3>1, <3>3 DEF IsCall
      <4> QED
        BY <1>2, <4>1
    <3> QED
      BY <1>3, <3>1, <3>2, <3>3
  <2> QED
    BY <2>1, <2>2
<1>7. ASSUME NEW d \in Callers, NEW cap, NEW v, UseCard(d, cap, v)
      PROVE  MayBeThere(x)
  <2>1. CASE d # c
    <3>1. calls'[c] = calls[c]
      BY <1>1, <1>7, <2>1 DEF UseCard, Send
    <3> QED
      BY <3>1
  <2>2. CASE d = c
    <3>1. PICK p : p = Asked("card", cap, v, 0) /\ IsCall(p) /\ p.commands = 0
      BY AskedIsACall
    <3>2. calls' = [calls EXCEPT ![c] = Sent(p)]
      BY <1>7, <2>2, <3>1 DEF UseCard, Send, Sent, MayGo, Refusal, Authorised, IsDisabled, ConditionMet,
                              EvaluateCondition, ValueAuthorized
    <3> QED
      BY <1>3, <3>1, <3>2
  <2> QED
    BY <2>1, <2>2
<1>8. ASSUME NEW d \in Callers, NEW cap, Press(d, cap)
      PROVE  MayBeThere(x)
  <2>1. CASE d # c
    <3>1. calls'[c] = calls[c]
      BY <1>1, <1>8, <2>1 DEF Press, SendLocked, Send
    <3> QED
      BY <3>1
  <2>2. CASE d = c
    <3>1. PICK dr : dr = draft
      OBVIOUS
    <3>2. PICK p : p = Asked("action", cap, dr.value, dr.intent) /\ IsCall(p) /\ p.commands = 0
      BY AskedIsACall
    <3>3. p = Asked("action", cap, draft.value, draft.intent)
      BY <3>1, <3>2 DEF Asked
    <3>4. \/ calls' = calls
          \/ calls' = [calls EXCEPT ![c] = [p EXCEPT !.step = "queued"]]
          \/ calls' = [calls EXCEPT ![c] = Sent(p)]
      BY <1>8, <2>2, <3>3 DEF Press, SendLocked, Send, Sent, MayGo, Refusal, Authorised, IsDisabled, ConditionMet,
                              EvaluateCondition, ValueAuthorized
    <3>5. CASE calls' = calls
      BY <3>5
    <3>6. CASE calls' = [calls EXCEPT ![c] = [p EXCEPT !.step = "queued"]]
      <4>1. x.step = "queued"
        BY <1>1, <3>2, <3>6 DEF IsCall
      <4> QED
        BY <1>2, <4>1
    <3> QED
      BY <1>3, <3>2, <3>4, <3>5, <3>6
  <2> QED
    BY <2>1, <2>2
<1>9. ASSUME NEW d \in Callers, Start(d)
      PROVE  MayBeThere(x)
  <2>1. CASE d # c
    <3>1. calls'[c] = calls[c]
      BY <1>1, <1>9, <2>1 DEF Start, Send
    <3> QED
      BY <3>1
  <2>2. CASE d = c
    <3>1. PICK ch : ch = choice
      OBVIOUS
    <3>2. PICK p : p = Asked("start", ch.cap, ch.value, ch.intent) /\ IsCall(p) /\ p.commands = 0
      BY AskedIsACall
    <3>3. p = Asked("start", choice.cap, choice.value, choice.intent)
      BY <3>1, <3>2 DEF Asked
    <3>4. calls' = [calls EXCEPT ![c] = Sent(p)]
      BY <1>9, <2>2, <3>3 DEF Start, Send, Sent, MayGo, Refusal, Authorised, IsDisabled, ConditionMet,
                              EvaluateCondition, ValueAuthorized
    <3> QED
      BY <1>3, <3>2, <3>4
  <2> QED
    BY <2>1, <2>2
<1>10. CASE UNCHANGED calls
  BY <1>10
<1>11. ASSUME \/ \E cap \in Drafts, v \in Values : EnterDraft(cap, v)
              \/ \E r \in Requests : ChooseProgram(r[1], r[2])
              \/ \E cap \in Remembered : Poll(cap)
              \/ PollLands \/ PollFails
              \/ Touch \/ Presence
              \/ Report \/ Expires
              \/ \E n \in Names : Edit(n)
              \/ \E cap \in Factory : Replace(cap)
       PROVE  UNCHANGED calls
  BY <1>11 DEF EnterDraft, ChooseProgram, Poll, PollLands, PollFails, Touch, Presence, Report, Expires, Edit, Replace
<1>12. CASE UNCHANGED settingVars
  BY <1>10, <1>12 DEF settingVars
<1> QED
  BY <1>5, <1>6, <1>7, <1>8, <1>9, <1>10, <1>11, <1>12 DEF SettingNext

(* Nothing is posted, or handed to the cloud, that is not allowed then,    *)
(* however long it waited for its lock and whatever was edited meanwhile.  *)
THEOREM NothingLeavesUnauthorised == SettingSpec => NothingUnauthorisedLeaves
<1>1. SettingInv /\ [SettingNext]_settingVars =>
        [\A c \in Callers :
          LET now == calls'[c] IN
          calls[c].step # now.step /\ calls[c].step # "posted" =>
              /\ now.step = "posted" =>
                     /\ Authorised(now.cap, now.value) /\ alive
                     /\ ConditionMet(now.cap, {now.value})
              /\ now.step = "cloud" => ~IsDisabled(now.cap)]_settingVars
  <2> SUFFICES ASSUME SettingInv, [SettingNext]_settingVars, NEW c \in Callers,
                      calls[c].step # calls'[c].step, calls[c].step # "posted"
               PROVE  /\ calls'[c].step = "posted" =>
                             /\ Authorised(calls'[c].cap, calls'[c].value) /\ alive
                             /\ ConditionMet(calls'[c].cap, {calls'[c].value})
                      /\ calls'[c].step = "cloud" => ~IsDisabled(calls'[c].cap)
    OBVIOUS
  <2>1. PICK x : x = calls'[c] /\ MayBeThere(x)
    BY StepsSendWhatMayGo DEF SettingInv
  <2>2. calls'[c].step = "posted" => Authorised(calls'[c].cap, calls'[c].value) /\ alive
    BY <2>1 DEF MayBeThere, Authorised, IsDisabled, ValueAuthorized, AllowedExactly
  <2>3. calls'[c].step = "posted" => ConditionMet(calls'[c].cap, {calls'[c].value})
    BY <2>1 DEF MayBeThere, ConditionMet, EvaluateCondition, Policy, Reported, Satisfied
  <2>4. calls'[c].step = "cloud" => ~IsDisabled(calls'[c].cap)
    BY <2>1 DEF MayBeThere, IsDisabled
  <2> QED
    BY <2>2, <2>3, <2>4
<1> QED
  BY <1>1, SettingInvariant, PTL DEF SettingSpec, NothingUnauthorisedLeaves
=============================================================================
