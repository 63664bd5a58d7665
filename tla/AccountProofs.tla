---------------------------- MODULE AccountProofs ----------------------------
(***************************************************************************)
(* What every request of the WideQ account goes through.  The limiter: the *)
(* hourly cap, the minimum spacing and the discipline of the lock, for     *)
(* every number of callers, every limit and an unbounded clock.  The       *)
(* session and the settings kept at LG: nothing is written twice, and what *)
(* is shown was read, for any products, faults and changes in the app.     *)
(***************************************************************************)
EXTENDS RateLimiter, AppSettings, SequenceTheorems, TLAPS

----------------------------------------------------------------------------
(* The calls that the limiter still counts are the last permissions given, *)
(* and every permission it no longer counts is an hour old.                *)
Recent(live) ==
    LET gone == Len(grants) - Len(live) IN
    /\ gone >= 0
    /\ \A i \in 1 .. Len(live) : live[i] = grants[gone + i]
    /\ \A i \in 1 .. gone : now - grants[i] >= Window

HistoryInOrder ==
    /\ \A i \in 1 .. Len(grants) : grants[i] <= now
    /\ Len(grants) > 0 => last = grants[Len(grants)]
    /\ \A i, j \in 1 .. Len(grants) : i <= j => grants[i] <= grants[j]

SleepersWakeInTime ==
    \A c \in Callers :
        /\ pc[c] = "capSleep" => /\ Len(calls) >= MaxPerHour
                                 /\ wake[c] = calls[1] + Window
        /\ pc[c] = "gapSleep" => /\ Len(calls) < MaxPerHour
                                 /\ wake[c] = last + Spacing

IInv ==
    /\ TypeOK
    /\ LockHeldBySleeper
    /\ Recent(calls)
    /\ Len(calls) <= MaxPerHour
    /\ HistoryInOrder
    /\ SleepersWakeInTime
    /\ HourlyCap
    /\ MinimumSpacing

----------------------------------------------------------------------------
LEMMA InitIInv == Init => IInv
  <1> SUFFICES ASSUME Init PROVE IInv
    OBVIOUS
  <1> USE CallersAssumption, LimitsAssumption
  <1>1. TypeOK /\ LockHeldBySleeper
    BY DEF Init, TypeOK, LockHeldBySleeper, Suspended
  <1>2. Recent(calls) /\ Len(calls) <= MaxPerHour
    BY DEF Init, Recent
  <1>3. HistoryInOrder /\ SleepersWakeInTime
    BY DEF Init, HistoryInOrder, SleepersWakeInTime
  <1>4. HourlyCap /\ MinimumSpacing
    BY DEF Init, HourlyCap, MinimumSpacing
  <1> QED
    BY <1>1, <1>2, <1>3, <1>4 DEF IInv

(* The popleft loop forgets only permissions that are an hour old.         *)
LEMMA DroppingKeepsRecent ==
  ASSUME IInv, NEW k \in 1 .. Len(calls) + 1, DroppedTo(calls, k)
  PROVE  LET live == SubSeq(calls, k, Len(calls)) IN
         /\ live \in Seq(Nat)
         /\ Len(live) = Len(calls) - k + 1
         /\ Recent(live)
  <1> DEFINE live == SubSeq(calls, k, Len(calls))
  <1> USE DEF IInv, TypeOK
  <1>1. Len(calls) \in Nat /\ Len(grants) \in Nat
    BY LenProperties
  <1>2. \A i \in k .. Len(calls) : calls[i] \in Nat
    BY <1>1, ElementOfSeq
  <1>3. /\ live \in Seq(Nat)
        /\ Len(live) = Len(calls) - k + 1
        /\ \A i \in 1 .. Len(live) : live[i] = calls[k + i - 1]
    <2>1. /\ live \in Seq(Nat)
          /\ Len(live) = IF k <= Len(calls) THEN Len(calls) - k + 1 ELSE 0
          /\ \A i \in 1 .. Len(calls) - k + 1 : live[i] = calls[k + i - 1]
      BY <1>1, <1>2, SubSeqProperties
    <2> QED
      BY <1>1, <2>1
  <1> HIDE DEF live
  <1>4. Recent(live)
    <2>1. \A i \in 1 .. Len(live) : live[i] = grants[Len(grants) - Len(live) + i]
      BY <1>1, <1>3 DEF Recent
    <2>2. \A i \in 1 .. Len(grants) - Len(live) : now - grants[i] >= Window
      <3> SUFFICES ASSUME NEW i \in 1 .. Len(grants) - Len(live)
                   PROVE  now - grants[i] >= Window
        OBVIOUS
      <3> DEFINE gone == Len(grants) - Len(calls)
      <3>1. CASE i <= gone
        BY <1>1, <1>3, <3>1 DEF Recent
      <3>2. CASE i > gone
        <4>1. i - gone \in 1 .. k - 1 /\ i - gone \in 1 .. Len(calls)
          BY <1>1, <1>3, <3>2
        <4>2. Expired(calls, i - gone)
          BY <4>1 DEF DroppedTo
        <4>3. calls[i - gone] = grants[i]
          <5>1. calls[i - gone] = grants[gone + (i - gone)]
            BY <4>1 DEF Recent
          <5> QED
            BY <1>1, <1>3, <5>1
        <4> QED
          BY <4>2, <4>3 DEF Expired
      <3> QED
        BY <1>1, <1>3, <3>1, <3>2
    <2> QED
      BY <1>1, <1>3, <2>1, <2>2 DEF Recent
  <1> QED
    BY <1>3, <1>4 DEF live

----------------------------------------------------------------------------
(* What every step of the lock's holder leaves as it was.                  *)
LockStep(c) ==
    /\ holder \in {c, NoCaller}
    /\ now' = now
    /\ queue' \in Seq(Callers)

(* A permission given with room under the cap and a full gap behind it.    *)
LEMMA GrantKeepsIInv ==
  ASSUME IInv, NEW c \in Callers, NEW live \in Seq(Nat), LockStep(c),
         Recent(live), Len(live) < MaxPerHour, now - last >= Spacing,
         Grant(c, live)
  PROVE  IInv'
  <1> USE CallersAssumption, LimitsAssumption
  <1> DEFINE n == Len(grants)
             m == Len(live)
  <1>0. /\ TypeOK /\ LockHeldBySleeper /\ HistoryInOrder
        /\ HourlyCap /\ MinimumSpacing
        /\ grants' = Append(grants, now) /\ calls' = Append(live, now)
        /\ last' = now /\ now' = now
    BY DEF IInv, LockStep, Grant
  <1>1. /\ n \in Nat /\ m \in Nat /\ now \in Nat /\ last \in Nat
        /\ calls' \in Seq(Nat) /\ grants' \in Seq(Nat)
        /\ Len(calls') = m + 1 /\ Len(grants') = n + 1
        /\ \A i \in 1 .. m : calls'[i] = live[i]
        /\ \A i \in 1 .. n : grants'[i] = grants[i] /\ grants[i] \in Nat
        /\ calls'[m + 1] = now /\ grants'[n + 1] = now
    BY <1>0, LenProperties, ElementOfSeq DEF TypeOK
  <1>2. /\ m <= n
        /\ \A i \in 1 .. m : live[i] = grants[n - m + i]
        /\ \A i \in 1 .. n - m : now - grants[i] >= Window
    BY <1>1 DEF Recent
  <1>3. TypeOK' /\ LockHeldBySleeper'
    BY <1>0, <1>1 DEF LockStep, Grant, TypeOK, LockHeldBySleeper, Suspended
  <1> HIDE DEF n, m
  <1>4. Recent(calls)'
    <2>1. Len(grants') - Len(calls') = n - m
      BY <1>1
    <2>2. \A i \in 1 .. m + 1 : calls'[i] = grants'[n - m + i]
      BY <1>1, <1>2
    <2>3. \A i \in 1 .. n - m : now' - grants'[i] >= Window
      BY <1>0, <1>1, <1>2
    <2> QED
      BY <1>1, <1>2, <2>1, <2>2, <2>3 DEF Recent
  <1>5. (Len(calls) <= MaxPerHour)'
    BY <1>1 DEF m
  <1>6. HistoryInOrder'
    <2>1. \A i \in 1 .. n : grants[i] <= now
      BY <1>0 DEF HistoryInOrder, n
    <2>2. \A i, j \in 1 .. n : i <= j => grants[i] <= grants[j]
      BY <1>0 DEF HistoryInOrder, n
    <2>3. /\ \A i \in 1 .. n + 1 : grants'[i] <= now'
          /\ grants'[n + 1] = last'
      BY <1>0, <1>1, <2>1
    <2>4. ASSUME NEW i \in 1 .. n + 1, NEW j \in 1 .. n + 1, i <= j
          PROVE  grants'[i] <= grants'[j]
      <3>1. CASE j = n + 1
        BY <1>0, <1>1, <2>3, <3>1
      <3>2. CASE j \in 1 .. n
        BY <1>1, <2>2, <2>4, <3>2
      <3> QED
        BY <1>1, <3>1, <3>2
    <2> QED
      BY <1>1, <2>3, <2>4 DEF HistoryInOrder
  <1>7. SleepersWakeInTime'
    BY <1>0, <1>3 DEF SleepersWakeInTime, LockHeldBySleeper, TypeOK, Suspended, Grant
  <1>8. HourlyCap'
    <2> SUFFICES ASSUME NEW i \in 1 .. n + 1, NEW j \in 1 .. n + 1,
                        j = i + MaxPerHour
                 PROVE  grants'[j] - grants'[i] >= Window
      BY <1>1 DEF HourlyCap
    <2>1. CASE j <= n
      <3>1. grants[j] - grants[i] >= Window
        BY <1>0, <1>1, <2>1 DEF HourlyCap, n
      <3> QED
        BY <1>1, <2>1, <3>1
    <2>2. CASE j = n + 1
      <3>1. i \in 1 .. n - m /\ i \in 1 .. n
        BY <1>1, <1>2, <2>2 DEF m
      <3>2. now - grants[i] >= Window
        BY <1>2, <3>1
      <3> QED
        BY <1>1, <2>2, <3>1, <3>2
    <2> QED
      BY <1>1, <2>1, <2>2
  <1>9. MinimumSpacing'
    <2> SUFFICES ASSUME NEW i \in 1 .. n, NEW j \in 1 .. n + 1, j = i + 1
                 PROVE  grants'[j] - grants'[i] >= Spacing
      BY <1>1 DEF MinimumSpacing
    <2>1. CASE j <= n
      <3>1. grants[j] - grants[i] >= Spacing
        BY <1>0, <1>1, <2>1 DEF MinimumSpacing, n
      <3> QED
        BY <1>1, <2>1, <3>1
    <2>2. CASE j = n + 1
      <3>1. grants[n] = last
        BY <1>0, <1>1, <2>2 DEF HistoryInOrder, n
      <3> QED
        BY <1>1, <2>2, <3>1
    <2> QED
      BY <1>1, <2>1, <2>2
  <1> QED
    BY <1>3, <1>4, <1>5, <1>6, <1>7, <1>8, <1>9 DEF IInv

(* A sleep in the lock, with the wake-up time of the sleep it is.          *)
LEMMA SleepKeepsIInv ==
  ASSUME IInv, NEW c \in Callers, NEW live \in Seq(Nat), LockStep(c),
         Recent(live), Len(live) <= MaxPerHour, UNCHANGED now,
         NEW where \in {"capSleep", "gapSleep"}, NEW until \in Nat,
         where = "capSleep" => Len(live) >= MaxPerHour /\ until = live[1] + Window,
         where = "gapSleep" => Len(live) < MaxPerHour /\ until = last + Spacing,
         Sleep(c, where, until, live)
  PROVE  IInv'
  <1> USE CallersAssumption, LimitsAssumption DEF IInv, LockStep, Sleep
  <1>1. TypeOK' /\ LockHeldBySleeper'
    BY DEF TypeOK, LockHeldBySleeper, Suspended
  <1>2. Recent(calls)' /\ (Len(calls) <= MaxPerHour)'
    BY DEF Recent
  <1>3. SleepersWakeInTime'
    BY DEF SleepersWakeInTime, TypeOK, LockHeldBySleeper, Suspended
  <1>4. HistoryInOrder' /\ HourlyCap' /\ MinimumSpacing'
    BY DEF HistoryInOrder, HourlyCap, MinimumSpacing
  <1> QED
    BY <1>1, <1>2, <1>3, <1>4

LEMMA SpaceOrGrantKeepsIInv ==
  ASSUME IInv, NEW c \in Callers, NEW live \in Seq(Nat), LockStep(c),
         Recent(live), Len(live) < MaxPerHour, SpaceOrGrant(c, live)
  PROVE  IInv'
  <1>1. CASE now - last < Spacing /\ Sleep(c, "gapSleep", last + Spacing, live)
    <2>1. last + Spacing \in Nat /\ Len(live) <= MaxPerHour
      BY LimitsAssumption, LenProperties DEF IInv, TypeOK
    <2> QED
      BY <1>1, <2>1, SleepKeepsIInv DEF LockStep
  <1>2. CASE now - last >= Spacing /\ Grant(c, live)
    BY <1>2, GrantKeepsIInv
  <1> QED
    BY <1>1, <1>2 DEF SpaceOrGrant

LEMMA EnterLockKeepsIInv ==
  ASSUME IInv, NEW c \in Callers, LockStep(c), EnterLock(c)
  PROVE  IInv'
  <1> PICK k \in 1 .. Len(calls) + 1 :
        LET live == SubSeq(calls, k, Len(calls)) IN
        /\ DroppedTo(calls, k)
        /\ \/ /\ Len(live) >= MaxPerHour
              /\ Sleep(c, "capSleep", live[1] + Window, live)
           \/ /\ Len(live) < MaxPerHour
              /\ SpaceOrGrant(c, live)
    BY DEF EnterLock
  <1> DEFINE live == SubSeq(calls, k, Len(calls))
  <1>1. live \in Seq(Nat) /\ Len(live) = Len(calls) - k + 1 /\ Recent(live)
    BY DroppingKeepsRecent
  <1>2. Len(live) <= MaxPerHour
    BY <1>1, LenProperties, LimitsAssumption DEF IInv, TypeOK
  <1>3. CASE Len(live) >= MaxPerHour /\ Sleep(c, "capSleep", live[1] + Window, live)
    <2> HIDE DEF live
    <2>1. live[1] + Window \in Nat
      BY <1>1, <1>3, LimitsAssumption, LenProperties, ElementOfSeq
    <2> QED
      BY <1>1, <1>2, <1>3, <2>1, SleepKeepsIInv DEF LockStep
  <1>4. CASE Len(live) < MaxPerHour /\ SpaceOrGrant(c, live)
    BY <1>1, <1>4, SpaceOrGrantKeepsIInv
  <1> QED
    BY <1>3, <1>4

----------------------------------------------------------------------------
LEMMA StepKeepsIInv ==
  ASSUME IInv, NEW c \in Callers, Step(c)
  PROVE  IInv'
  <1> USE CallersAssumption, LimitsAssumption
  <1>0. TypeOK /\ LockHeldBySleeper
    BY DEF IInv
  <1>1. CASE AcquireNow(c)
    <2>1. LockStep(c) /\ EnterLock(c)
      BY <1>0, <1>1 DEF AcquireNow, LockStep, TypeOK
    <2> QED
      BY <2>1, EnterLockKeepsIInv
  <1>2. CASE AcquireLater(c)
    <2>1. TypeOK' /\ LockHeldBySleeper'
      BY <1>0, <1>2 DEF AcquireLater, TypeOK, LockHeldBySleeper, Suspended
    <2>2. Recent(calls)' /\ (Len(calls) <= MaxPerHour)'
      BY <1>2 DEF AcquireLater, IInv, Recent
    <2>3. HistoryInOrder' /\ HourlyCap' /\ MinimumSpacing'
      BY <1>2 DEF AcquireLater, IInv, HistoryInOrder, HourlyCap, MinimumSpacing
    <2>4. SleepersWakeInTime'
      BY <1>0, <1>2 DEF AcquireLater, IInv, SleepersWakeInTime, TypeOK
    <2> QED
      BY <2>1, <2>2, <2>3, <2>4 DEF IInv
  <1>3. CASE Handoff(c)
    <2>1. LockStep(c) /\ EnterLock(c)
      BY <1>0, <1>3, HeadTailProperties DEF Handoff, LockStep, TypeOK
    <2> QED
      BY <2>1, EnterLockKeepsIInv
  <1>4. CASE WakeFromCap(c)
    <2>0. PICK k \in 1 .. Len(calls) + 1 :
            DroppedTo(calls, k) /\ SpaceOrGrant(c, SubSeq(calls, k, Len(calls)))
      BY <1>4 DEF WakeFromCap
    <2> DEFINE live == SubSeq(calls, k, Len(calls))
    <2>1. live \in Seq(Nat) /\ Len(live) = Len(calls) - k + 1 /\ Recent(live)
      BY <2>0, DroppingKeepsRecent
    <2>2. LockStep(c)
      BY <1>0, <1>4 DEF WakeFromCap, LockStep, TypeOK, LockHeldBySleeper
    <2>3. Len(calls) >= 1 /\ Expired(calls, 1) /\ Len(calls) <= MaxPerHour
      BY <1>0, <1>4, LenProperties, ElementOfSeq
      DEF WakeFromCap, IInv, SleepersWakeInTime, Expired, TypeOK
    <2>4. k # 1
      BY <1>0, <2>0, <2>3 DEF DroppedTo
    <2>5. Len(live) < MaxPerHour
      BY <1>0, <2>1, <2>3, <2>4, LenProperties DEF TypeOK
    <2> QED
      BY <2>0, <2>1, <2>2, <2>5, SpaceOrGrantKeepsIInv
  <1>5. CASE WakeFromGap(c)
    <2>1. LockStep(c) /\ Grant(c, calls) /\ calls \in Seq(Nat) /\ Recent(calls)
      BY <1>0, <1>5 DEF WakeFromGap, LockStep, TypeOK, LockHeldBySleeper, IInv
    <2>2. Len(calls) < MaxPerHour /\ now - last >= Spacing
      BY <1>0, <1>5 DEF WakeFromGap, IInv, SleepersWakeInTime, TypeOK
    <2> QED
      BY <2>1, <2>2, GrantKeepsIInv
  <1>6. CASE CancelQueued(c)
    <2>1. queue' \in Seq(Callers)
      <3> PICK i \in 1 .. Len(queue) : queue' = RemoveAt(queue, i)
        BY <1>6 DEF CancelQueued
      <3>0. Len(queue) \in Nat /\ \A j \in 1 .. Len(queue) : queue[j] \in Callers
        BY <1>0, LenProperties, ElementOfSeq DEF TypeOK
      <3>1. SubSeq(queue, 1, i - 1) \in Seq(Callers)
        BY <3>0, SubSeqProperties
      <3>2. SubSeq(queue, i + 1, Len(queue)) \in Seq(Callers)
        BY <3>0, SubSeqProperties
      <3> QED
        BY <3>1, <3>2, ConcatProperties DEF RemoveAt
    <2>2. TypeOK' /\ LockHeldBySleeper'
      BY <1>0, <1>6, <2>1 DEF CancelQueued, TypeOK, LockHeldBySleeper, Suspended
    <2>3. Recent(calls)' /\ (Len(calls) <= MaxPerHour)'
      BY <1>6 DEF CancelQueued, IInv, Recent
    <2>4. HistoryInOrder' /\ HourlyCap' /\ MinimumSpacing'
      BY <1>6 DEF CancelQueued, IInv, HistoryInOrder, HourlyCap, MinimumSpacing
    <2>5. SleepersWakeInTime'
      BY <1>0, <1>6 DEF CancelQueued, IInv, SleepersWakeInTime, TypeOK
    <2> QED
      BY <2>2, <2>3, <2>4, <2>5 DEF IInv
  <1>7. CASE CancelSleeper(c)
    <2>1. TypeOK' /\ LockHeldBySleeper'
      BY <1>0, <1>7 DEF CancelSleeper, TypeOK, LockHeldBySleeper, Suspended
    <2>2. Recent(calls)' /\ (Len(calls) <= MaxPerHour)'
      BY <1>7 DEF CancelSleeper, IInv, Recent
    <2>3. HistoryInOrder' /\ HourlyCap' /\ MinimumSpacing'
      BY <1>7 DEF CancelSleeper, IInv, HistoryInOrder, HourlyCap, MinimumSpacing
    <2>4. SleepersWakeInTime'
      BY <1>0, <1>7 DEF CancelSleeper, IInv, SleepersWakeInTime, TypeOK
    <2> QED
      BY <2>1, <2>2, <2>3, <2>4 DEF IInv
  <1> QED
    BY <1>1, <1>2, <1>3, <1>4, <1>5, <1>6, <1>7 DEF Step

(* The clock only makes permissions older.                                 *)
LEMMA TickKeepsIInv ==
  ASSUME IInv, Tick
  PROVE  IInv'
  <1> USE LimitsAssumption
  <1>0. /\ TypeOK /\ Len(grants) \in Nat /\ Len(calls) \in Nat
        /\ \A i \in 1 .. Len(grants) : grants[i] \in Nat
    BY LenProperties, ElementOfSeq DEF IInv, TypeOK
  <1>1. TypeOK' /\ LockHeldBySleeper'
    BY <1>0 DEF Tick, IInv, TypeOK, LockHeldBySleeper
  <1>2. Recent(calls)' /\ (Len(calls) <= MaxPerHour)'
    <2>1. /\ Len(calls) <= Len(grants)
          /\ \A i \in 1 .. Len(calls) :
                calls[i] = grants[Len(grants) - Len(calls) + i]
          /\ \A i \in 1 .. Len(grants) - Len(calls) : now - grants[i] >= Window
      BY <1>0 DEF IInv, Recent
    <2>2. now' \in Nat /\ now' >= now
      BY <1>0 DEF Tick, TypeOK
    <2>3. \A i \in 1 .. Len(grants) - Len(calls) : now' - grants[i] >= Window
      BY <1>0, <2>1, <2>2 DEF TypeOK
    <2>4. (Recent(calls))'
      BY <1>0, <2>1, <2>3 DEF Tick, Recent
    <2> QED
      BY <2>4 DEF Tick, IInv
  <1>3. HistoryInOrder' /\ HourlyCap' /\ MinimumSpacing'
    BY <1>0 DEF Tick, IInv, TypeOK, HistoryInOrder, HourlyCap, MinimumSpacing
  <1>4. SleepersWakeInTime'
    BY DEF Tick, IInv, SleepersWakeInTime
  <1> QED
    BY <1>1, <1>2, <1>3, <1>4 DEF IInv

LEMMA NextKeepsIInv == IInv /\ [Next]_vars => IInv'
  <1>1. ASSUME IInv, Tick PROVE IInv'
    BY <1>1, TickKeepsIInv
  <1>2. ASSUME IInv, NEW c \in Callers, Step(c) PROVE IInv'
    BY <1>2, StepKeepsIInv
  <1>3. ASSUME IInv, UNCHANGED vars PROVE IInv'
    BY <1>3 DEF vars, IInv, TypeOK, LockHeldBySleeper, Recent, HistoryInOrder,
                SleepersWakeInTime, HourlyCap, MinimumSpacing
  <1> QED
    BY <1>1, <1>2, <1>3 DEF Next

THEOREM LimiterInvariant == Spec => []IInv
  <1> QED
    BY InitIInv, NextKeepsIInv, PTL DEF Spec

----------------------------------------------------------------------------
(* Every variable of the limiter keeps its type.                           *)
THEOREM LimiterTypes == Spec => []TypeOK
  <1>1. IInv => TypeOK
    BY DEF IInv
  <1> QED
    BY <1>1, LimiterInvariant, PTL

(* No hour, wherever it starts, holds more than MaxPerHour permissions of  *)
(* acquire(), for any number of callers and any interleaving of them.      *)
THEOREM LimiterKeepsHourlyCap == Spec => []HourlyCap
  <1>1. IInv => HourlyCap
    BY DEF IInv
  <1> QED
    BY <1>1, LimiterInvariant, PTL

(* Two permissions of acquire() are never closer than Spacing.             *)
THEOREM LimiterKeepsSpacing == Spec => []MinimumSpacing
  <1>1. IInv => MinimumSpacing
    BY DEF IInv
  <1> QED
    BY <1>1, LimiterInvariant, PTL

(* Both limits hold together, as the coordinator relies on.                *)
THEOREM LimiterKeepsItsLimits == Spec => []LimitsAreKept
  <1>1. HourlyCap /\ MinimumSpacing => LimitsAreKept
    BY DEF LimitsAreKept
  <1> QED
    BY <1>1, LimiterKeepsHourlyCap, LimiterKeepsSpacing, PTL

(* The lock is held exactly by the caller that sleeps in acquire().        *)
THEOREM LimiterLockDiscipline == Spec => []LockHeldBySleeper
  <1>1. IInv => LockHeldBySleeper
    BY DEF IInv
  <1> QED
    BY <1>1, LimiterInvariant, PTL

----------------------------------------------------------------------------
(***************************************************************************)
(* The settings at LG and the session of the account.  A call is the only  *)
(* one there is, and belongs to who holds the lock; a write that may have  *)
(* reached LG ends its call; and a list of devices that is recent is not   *)
(* old.                                                                    *)
(***************************************************************************)
CallStates ==
    [who : {Nobody, Home, Reader, Setter},
     kind : {"snapshots", "control", "history", "get", "context", "write"},
     step : {"idle", "connect", "auth", "token", "request", "ended"},
     again : BOOLEAN, error : Errors \cup {"none"}, applied : {0, 1}]
ClientStates ==
    [open : BOOLEAN, token : {"none", "good", "bad"}, due : BOOLEAN,
     devices : {"none", "fresh", "old"}, recent : BOOLEAN]

SessionInv ==
    /\ call \in CallStates /\ client \in ClientStates
    /\ call.step # "ended" => call.applied = 0
    /\ client.recent => client.devices # "old"
    /\ call.step = "ended" /\ call.error = "none" /\ Lists(call.kind) => client.devices # "old"

CallersInv ==
    /\ call.who = Nobody => call.step = "idle"
    /\ call.who = Home => call.kind \in {"snapshots", "control", "history"}
    /\ call.who = Reader =>
          cloud = Reader /\ reader.device \in Settings /\ call.kind \in {"get", "context"}
    /\ call.who = Setter =>
          cloud = Setter /\ setter.step # "idle" /\ call.kind = CallOf(setter.step)

(* What LG has had of a setting since our last write, or nothing.          *)
Had(d) == since[d] \cup {Unknown}

HandsInv ==
    /\ saved \in [Settings -> Values] /\ since \in [Settings -> SUBSET Values]
    /\ \A d \in Settings : saved[d] \in since[d]
    /\ shown \in [Settings -> Values \cup {Unknown}] /\ seen \in Values \cup {Unknown}
    /\ reader \in [todo : SUBSET Settings, device : Settings \cup {"none", "context"},
                   got : [Settings -> Values \cup {Unknown}]]
    /\ setter \in [step : {"idle", "context", "read", "write", "confirm"},
                   device : Settings, value : Values]
    /\ doubt \subseteq Settings
    /\ cloud \in {Nobody, Reader, Setter} /\ (cloud = Setter <=> setter.step # "idle")

(* What was read is of LG, as long as no write of ours replaces it; what   *)
(* is shown is too, but for the setting that is being written.             *)
ReadInv ==
    /\ cloud = Nobody => seen = Unknown
    /\ cloud = Reader =>
          /\ \A d \in Settings : reader.got[d] \in Had(d)
          /\ reader.device = "none" => seen = Unknown
          /\ reader.device \in Settings => seen \in Had(reader.device)
          /\ reader.device = "context" => seen \in Had("pairing")
    /\ cloud = Setter =>
          /\ seen \in Had(setter.device)
          /\ setter.step \in {"context", "write"} => seen = Unknown

ShownInv ==
    \A d \in Settings \ doubt :
        \/ cloud = Setter /\ d = setter.device /\ setter.step \in {"write", "confirm"}
        \/ shown[d] \in Had(d)

SettingsInv == SessionInv /\ CallersInv /\ HandsInv /\ ReadInv /\ ShownInv

(* How a request ends, whoever sent it.                                    *)
LEMMA EndsAsGoesOn ==
    ASSUME client \in ClientStates, client.recent => client.devices # "old",
           NEW sent \in CallStates, NEW error \in Errors \cup {"none"}, EndsAs(sent, error),
           error = "denied" => sent.applied = 0,
           error = "none" /\ Lists(call.kind) => client.devices # "old",
           sent.who = call.who, sent.kind = call.kind
    PROVE  SessionInv' /\ call'.who = call.who /\ call'.kind = call.kind
<1>1. CASE Reconnecting /\ Reconnects(error)
  <2>1. error = "denied" /\ client' = Closed /\ call' = [sent EXCEPT !.step = "connect", !.again = TRUE]
    BY <1>1 DEF EndsAs, Reconnects
  <2>2. call' \in CallStates /\ call'.applied = 0 /\ call'.step = "connect" /\ call'.who = sent.who
        /\ call'.kind = sent.kind
    BY <2>1 DEF CallStates
  <2>3. client' \in ClientStates /\ ~client'.recent
    BY <2>1 DEF ClientStates, Closed
  <2> QED
    BY <2>2, <2>3 DEF SessionInv
<1>2. CASE ~(Reconnecting /\ Reconnects(error))
  <2>1. client' = client /\ call' = [sent EXCEPT !.step = "ended", !.error = error]
    BY <1>2 DEF EndsAs
  <2>2. call' \in CallStates /\ call'.step = "ended" /\ call'.error = error /\ call'.who = sent.who
        /\ call'.kind = sent.kind
    BY <2>1 DEF CallStates
  <2> QED
    BY <2>1, <2>2 DEF SessionInv, Lists
<1> QED
  BY <1>1, <1>2

(* A request goes on to its next step, and the client is as it should be.  *)
LEMMA StepsOnGoesOn ==
    ASSUME SessionInv, NEW step \in {"auth", "token", "request"}, Goes(step), call.step # "ended",
           client' \in ClientStates, client'.recent => client'.devices # "old"
    PROVE  SessionInv' /\ call'.who = call.who /\ call'.kind = call.kind
<1>1. call' = [call EXCEPT !.step = step]
  BY DEF Goes
<1>2. /\ call' \in CallStates /\ call'.step = step /\ call'.applied = 0
      /\ call'.who = call.who /\ call'.kind = call.kind
  BY <1>1 DEF SessionInv, CallStates
<1> QED
  BY <1>2 DEF SessionInv

(* A step that fails ends the call, or reconnects once.                    *)
LEMMA FailsGoesOn ==
    ASSUME SessionInv, NEW error \in Errors, Fails(error), call.step # "ended"
    PROVE  SessionInv' /\ call'.who = call.who /\ call'.kind = call.kind
<1>1. PICK sent : sent = call
  OBVIOUS
<1>2. EndsAs(sent, error) /\ sent \in CallStates /\ sent.applied = 0
  BY <1>1 DEF Fails, EndsAs, SessionInv
<1>3. error # "none" /\ error \in Errors \cup {"none"}
  BY DEF Errors
<1> QED
  BY <1>1, <1>2, <1>3, EndsAsGoesOn DEF SessionInv

(* Each step of a call keeps the session sound, and is of that call.       *)
LEMMA SessionGoesOn ==
    ASSUME SessionInv,
           \/ \E o \in {"ok", "denied", "refused", "down"}, ds \in {"fresh", "none"} : Connect(o, ds)
           \/ Auth
           \/ \E o \in {"ok", "denied", "down"} : Token(o)
           \/ Denied
           \/ \E o \in {"ok"} \cup Errors, ds \in {"fresh", "old", "none"} : Devices(o, ds)
           \/ \E o \in {"ok"} \cup Errors, applies \in BOOLEAN : Request(o, applies)
    PROVE  SessionInv' /\ call'.who = call.who /\ call'.kind = call.kind /\ call.step # "idle"
<1>1. client \in ClientStates /\ call \in CallStates /\ (client.recent => client.devices # "old")
  BY DEF SessionInv
<1>2. ASSUME NEW o \in {"ok", "denied", "refused", "down"}, NEW ds \in {"fresh", "none"}, Connect(o, ds)
      PROVE  SessionInv' /\ call'.who = call.who /\ call'.kind = call.kind /\ call.step # "idle"
  <2>1. call.step = "connect"
    BY <1>2 DEF Connect
  <2>2. CASE o \in Errors /\ call.kind = "control"
    BY <1>2, <2>1, <2>2, FailsGoesOn DEF Connect
  <2>3. CASE o \in Errors /\ call.kind # "control"
    <3>1. client' = client /\ call' = [call EXCEPT !.step = "ended", !.error = o]
      BY <1>2, <2>3 DEF Connect, Ends
    <3>2. /\ call' \in CallStates /\ call'.step = "ended" /\ call'.error = o
          /\ call'.who = call.who /\ call'.kind = call.kind /\ o # "none"
      BY <1>1, <2>3, <3>1 DEF CallStates, Errors
    <3> QED
      BY <1>1, <2>1, <3>1, <3>2 DEF SessionInv
  <2>4. CASE o \notin Errors
    <3>1. /\ client' = [open |-> TRUE, token |-> "good", due |-> FALSE, devices |-> ds, recent |-> TRUE]
          /\ Goes(AfterConnect) /\ AfterConnect \in {"auth", "request"}
      BY <1>2, <2>4 DEF Connect, AfterConnect
    <3>2. client' \in ClientStates /\ client'.devices # "old"
      BY <3>1 DEF ClientStates
    <3>3. PICK step \in {"auth", "request"} : Goes(step)
      BY <3>1 DEF Goes
    <3> QED
      BY <2>1, <3>2, <3>3, StepsOnGoesOn
  <2> QED
    BY <2>2, <2>3, <2>4
<1>3. CASE Auth
  <2>1. call.step = "auth"
    BY <1>3 DEF Auth
  <2>2. \/ Goes("request") /\ client' = client
        \/ Goes("token") /\ client' = [client EXCEPT !.token = "none"]
    BY <1>3 DEF Auth
  <2>3. client' \in ClientStates /\ (client'.recent => client'.devices # "old")
    BY <1>1, <2>2 DEF ClientStates
  <2> QED
    BY <2>1, <2>2, <2>3, StepsOnGoesOn
<1>4. ASSUME NEW o \in {"ok", "denied", "down"}, Token(o)
      PROVE  SessionInv' /\ call'.who = call.who /\ call'.kind = call.kind /\ call.step # "idle"
  <2>1. call.step = "token"
    BY <1>4 DEF Token
  <2>2. CASE o \in Errors
    BY <1>4, <2>1, <2>2, FailsGoesOn DEF Token
  <2>3. CASE o \notin Errors
    <3>1. Goes("request") /\ client' = [client EXCEPT !.token = "good", !.due = FALSE]
      BY <1>4, <2>3 DEF Token
    <3>2. client' \in ClientStates /\ (client'.recent => client'.devices # "old")
      BY <1>1, <3>1 DEF ClientStates
    <3> QED
      BY <2>1, <3>1, <3>2, StepsOnGoesOn
  <2> QED
    BY <2>2, <2>3
<1>5. CASE Denied
  <2>1. call.step = "request" /\ Fails("denied") /\ "denied" \in Errors
    BY <1>5 DEF Denied, Errors
  <2> QED
    BY <2>1, FailsGoesOn
<1>6. ASSUME NEW o \in {"ok"} \cup Errors, NEW ds \in {"fresh", "old", "none"}, Devices(o, ds)
      PROVE  SessionInv' /\ call'.who = call.who /\ call'.kind = call.kind /\ call.step # "idle"
  <2>1. call.step = "request" /\ call.applied = 0
    BY <1>6 DEF Devices, SessionInv
  <2>2. CASE ~client.recent /\ o = "denied"
    <3>1. Fails("denied") /\ "denied" \in Errors
      BY <1>6, <2>2 DEF Devices, Errors
    <3> QED
      BY <2>1, <3>1, FailsGoesOn
  <2>3. CASE client.recent \/ o # "denied"
    <3>1. \E e \in Errors \cup {"none"} :
             /\ call' = [call EXCEPT !.step = "ended", !.error = e]
             /\ \/ client' = client /\ (e = "none" => client.devices # "old")
                \/ client' = [client EXCEPT !.devices = ds, !.recent = TRUE] /\ ds # "old"
      <4>1. CASE client.recent
        BY <1>1, <1>6, <4>1 DEF Devices, Ends
      <4>2. CASE ~client.recent /\ o \in Errors \ {"denied"}
        <5>1. client' = client /\ call' = [call EXCEPT !.step = "ended", !.error = o] /\ o # "none"
          BY <1>6, <4>2 DEF Devices, Ends, LoadFails, Errors
        <5> QED
          BY <4>2, <5>1
      <4>3. CASE ~client.recent /\ o \notin Errors
        BY <1>6, <4>3 DEF Devices, Ends, Errors
      <4> QED
        BY <2>3, <4>1, <4>2, <4>3
    <3>2. PICK e \in Errors \cup {"none"} :
             /\ call' = [call EXCEPT !.step = "ended", !.error = e]
             /\ \/ client' = client /\ (e = "none" => client.devices # "old")
                \/ client' = [client EXCEPT !.devices = ds, !.recent = TRUE] /\ ds # "old"
      BY <3>1
    <3>3. /\ call' \in CallStates /\ call'.step = "ended" /\ call'.error = e
          /\ call'.who = call.who /\ call'.kind = call.kind
      BY <1>1, <3>2 DEF CallStates
    <3>4. /\ client' \in ClientStates /\ (client'.recent => client'.devices # "old")
          /\ e = "none" => client'.devices # "old"
      BY <1>1, <3>2 DEF ClientStates
    <3> QED
      BY <2>1, <3>3, <3>4 DEF SessionInv
  <2> QED
    BY <2>2, <2>3
<1>7. ASSUME NEW o \in {"ok"} \cup Errors, NEW applies \in BOOLEAN, Request(o, applies)
      PROVE  SessionInv' /\ call'.who = call.who /\ call'.kind = call.kind /\ call.step # "idle"
  <2>1. call.step = "request" /\ call.applied = 0 /\ ~Lists(call.kind)
    BY <1>7 DEF Request, SessionInv
  <2>2. PICK sent, error : /\ sent = [call EXCEPT !.applied = IF applies THEN @ + 1 ELSE @]
                           /\ error = (IF o \in Errors THEN o ELSE "none") /\ EndsAs(sent, error)
    BY <1>7 DEF Request
  <2>3. /\ sent \in CallStates /\ sent.who = call.who /\ sent.kind = call.kind
        /\ sent.applied = IF applies THEN 1 ELSE 0
    BY <1>1, <2>1, <2>2 DEF CallStates
  <2>4. error \in Errors \cup {"none"} /\ (error = "denied" => ~applies)
    BY <1>7, <2>2 DEF Request, Errors
  <2> QED
    BY <1>1, <2>1, <2>2, <2>3, <2>4, EndsAsGoesOn
<1> QED
  BY <1>2, <1>3, <1>4, <1>5, <1>6, <1>7

(* What neither side of the lock touches stays as it is.                   *)
LEMMA HandsStay ==
    ASSUME HandsInv, ReadInv, ShownInv, UNCHANGED appVars
    PROVE  HandsInv' /\ ReadInv' /\ ShownInv'
BY DEF HandsInv, ReadInv, ShownInv, Had, appVars

(* A step of the session is one of the call under way.                     *)
LEMMA CallKeepsItsCaller ==
    ASSUME CallersInv, call'.who = call.who, call'.kind = call.kind, call.step # "idle",
           UNCHANGED <<cloud, reader, setter>>
    PROVE  CallersInv'
BY DEF CallersInv

(* The steps of a call that neither write nor read a setting.              *)
LEMMA SessionStepGoesOn ==
    ASSUME SettingsInv, UNCHANGED appVars,
           \/ \E o \in {"ok", "denied", "refused", "down"}, ds \in {"fresh", "none"} : Connect(o, ds)
           \/ Auth
           \/ \E o \in {"ok", "denied", "down"} : Token(o)
           \/ Denied
           \/ \E o \in {"ok"} \cup Errors, ds \in {"fresh", "old", "none"} : Devices(o, ds)
    PROVE  SettingsInv'
<1>1. SessionInv' /\ call'.who = call.who /\ call'.kind = call.kind /\ call.step # "idle"
  BY SessionGoesOn DEF SettingsInv
<1>2. CallersInv'
  BY <1>1, CallKeepsItsCaller DEF SettingsInv, appVars
<1> QED
  BY <1>1, <1>2, HandsStay DEF SettingsInv

(* An answer, and perhaps a write: what is read is what LG has, and only   *)
(* the setting that is being written may differ from what is shown.        *)
LEMMA RequestGoesOn ==
    ASSUME SettingsInv, NEW o \in {"ok"} \cup Errors, NEW applies \in BOOLEAN,
           Request(o, applies), Applied(applies),
           seen' = IF call.kind = "get" /\ o = "ok" THEN saved[Asked] ELSE seen,
           UNCHANGED <<shown, cloud, reader, setter, touches, doubt>>
    PROVE  SettingsInv'
<1> USE CallersDiffer
<1>1. SessionInv' /\ call'.who = call.who /\ call'.kind = call.kind /\ call.step # "idle"
  BY SessionGoesOn DEF SettingsInv
<1>2. CallersInv'
  BY <1>1, CallKeepsItsCaller DEF SettingsInv
<1>3. HandsInv /\ ReadInv /\ ShownInv /\ CallersInv /\ call \in CallStates
  BY DEF SettingsInv, SessionInv
<1>4. CASE applies /\ call.who = Setter
  <2>1. /\ cloud = Setter /\ setter.step = "write" /\ call.kind = "write"
        /\ setter.device \in Settings /\ setter.value \in Values
    BY <1>3, <1>4 DEF CallersInv, Request, IsWrite, CallOf, HandsInv
  <2>2. /\ saved' = [saved EXCEPT ![setter.device] = setter.value]
        /\ since' = [since EXCEPT ![setter.device] = {setter.value}]
        /\ UNCHANGED seen
    BY <1>4, <2>1 DEF Applied
  <2>3. HandsInv'
    BY <1>3, <2>1, <2>2 DEF HandsInv
  <2>4. ReadInv'
    BY <1>3, <2>1, <2>2 DEF ReadInv, Had
  <2>5. ShownInv'
    BY <1>3, <2>1, <2>2 DEF ShownInv, Had, HandsInv
  <2> QED
    BY <1>1, <1>2, <2>3, <2>4, <2>5 DEF SettingsInv
<1>5. CASE ~(applies /\ call.who = Setter)
  <2>1. UNCHANGED <<saved, since>>
    BY <1>5 DEF Applied
  <2>2. ASSUME call.kind = "get"
        PROVE  /\ cloud = Reader => reader.device \in Settings /\ Asked = reader.device
               /\ cloud = Setter => /\ setter.device \in Settings /\ Asked = setter.device
                                    /\ setter.step \in {"read", "confirm"}
               /\ cloud # Nobody
    <3>1. call.who \in {Reader, Setter}
      BY <1>1, <1>3, <2>2 DEF CallersInv, CallStates
    <3> QED
      BY <1>3, <2>2, <3>1 DEF CallersInv, CallOf, HandsInv, Asked
  <2>3. \A d \in Settings : saved[d] \in Had(d) /\ saved[d] \in Values
    BY <1>3 DEF HandsInv, Had
  <2>4. HandsInv'
    <3>1. seen' \in Values \cup {Unknown}
      BY <1>3, <2>2, <2>3 DEF HandsInv
    <3> QED
      BY <1>3, <2>1, <3>1 DEF HandsInv
  <2>5. ReadInv'
    <3>1. CASE cloud = Nobody
      BY <1>3, <2>1, <2>2, <3>1 DEF ReadInv
    <3>2. CASE cloud = Reader
      <4>1. \A d \in Settings : reader.got[d] \in Had(d)
        BY <1>3, <3>2 DEF ReadInv
      <4>2. CASE call.kind = "get" /\ o = "ok"
        <5>1. seen' \in Had(reader.device) /\ reader.device \in Settings
          BY <2>2, <2>3, <3>2, <4>2
        <5> QED
          BY <2>1, <3>2, <4>1, <5>1 DEF ReadInv, Had, Settings
      <4>3. CASE ~(call.kind = "get" /\ o = "ok")
        BY <1>3, <2>1, <3>2, <4>3 DEF ReadInv, Had
      <4> QED
        BY <4>2, <4>3
    <3>3. CASE cloud = Setter
      <4>1. CASE call.kind = "get" /\ o = "ok"
        <5>1. seen' \in Had(setter.device) /\ setter.step \in {"read", "confirm"}
          BY <2>2, <2>3, <3>3, <4>1
        <5> QED
          BY <2>1, <3>3, <5>1 DEF ReadInv, Had
      <4>2. CASE ~(call.kind = "get" /\ o = "ok")
        BY <1>3, <2>1, <3>3, <4>2 DEF ReadInv, Had
      <4> QED
        BY <4>1, <4>2
    <3> QED
      BY <1>3, <3>1, <3>2, <3>3 DEF HandsInv
  <2>6. ShownInv'
    BY <1>3, <2>1 DEF ShownInv, Had
  <2> QED
    BY <1>1, <1>2, <2>4, <2>5, <2>6 DEF SettingsInv
<1> QED
  BY <1>4, <1>5

(* LG and the owner.                                                       *)
LEMMA OutsideGoesOn ==
    ASSUME SettingsInv,
           \/ (Revoke \/ ComesDue \/ Ages) /\ UNCHANGED appVars
           \/ \E d \in Settings : \E v \in Options(d) : Touch(d, v)
    PROVE  SettingsInv'
<1>1. HandsInv /\ ReadInv /\ ShownInv /\ CallersInv /\ SessionInv
  BY DEF SettingsInv
<1>2. CASE (Revoke \/ ComesDue \/ Ages) /\ UNCHANGED appVars
  <2>1. UNCHANGED call
    BY <1>2 DEF Revoke, ComesDue, Ages
  <2>2. /\ client' \in ClientStates /\ (client'.recent => client'.devices # "old")
        /\ call.step = "ended" => client'.devices = client.devices
    BY <1>1, <1>2 DEF SessionInv, ClientStates, Revoke, ComesDue, Ages
  <2>3. SessionInv' /\ CallersInv'
    BY <1>1, <1>2, <2>1, <2>2 DEF SessionInv, CallersInv, appVars, Lists
  <2> QED
    BY <1>1, <1>2, <2>3, HandsStay DEF SettingsInv
<1>3. ASSUME NEW d \in Settings, NEW v \in Options(d), Touch(d, v)
      PROVE  SettingsInv'
  <2>1. /\ saved' = [saved EXCEPT ![d] = v] /\ since' = [since EXCEPT ![d] = @ \cup {v}]
        /\ UNCHANGED <<client, call, shown, cloud, reader, setter, seen, doubt>> /\ v \in Values
    BY <1>3 DEF Touch, sessionVars, Values
  <2>2. SessionInv' /\ CallersInv'
    BY <1>1, <2>1 DEF SessionInv, CallersInv, Lists
  <2>3. HandsInv'
    BY <1>1, <2>1 DEF HandsInv
  <2>4. \A s \in Settings : since[s] \subseteq since'[s]
    BY <1>1, <2>1 DEF HandsInv
  <2>5. ReadInv'
    <3>1. setter.device \in Settings /\ "pairing" \in Settings
      BY <1>1 DEF HandsInv, Settings
    <3> QED
      BY <1>1, <2>1, <2>4, <3>1 DEF ReadInv, Had
  <2>6. ShownInv'
    BY <1>1, <2>1, <2>4 DEF ShownInv, Had
  <2> QED
    BY <2>2, <2>3, <2>5, <2>6 DEF SettingsInv
<1> QED
  BY <1>2, <1>3

(* A call begins, and is over.                                             *)
LEMMA BeginsGoesOn ==
    ASSUME SessionInv, NEW who \in {Home, Reader, Setter},
           NEW kind \in {"snapshots", "control", "history", "get", "context", "write"},
           Begins(who, kind), UNCHANGED client
    PROVE  SessionInv' /\ call'.who = who /\ call'.kind = kind
<1>1. call' = [NoCall EXCEPT !.who = who, !.kind = kind, !.step = FirstStep(kind)]
      /\ FirstStep(kind) \in {"connect", "request", "auth"}
  BY DEF Begins, FirstStep
<1>2. /\ call' \in CallStates /\ call'.who = who /\ call'.kind = kind
      /\ call'.applied = 0 /\ call'.step # "ended"
  BY <1>1 DEF CallStates, NoCall
<1> QED
  BY <1>2 DEF SessionInv

(* The call is over: nobody is on the line.                                *)
LEMMA AnsweringGoesOn ==
    ASSUME SessionInv, call' = NoCall, UNCHANGED client
    PROVE  SessionInv' /\ CallersInv'
<1>1. /\ call' \in CallStates /\ call'.who = Nobody
      /\ call'.applied = 0 /\ call'.step = "idle"
  BY DEF CallStates, NoCall
<1> QED
  BY <1>1, CallersDiffer DEF SessionInv, CallersInv

(* The appliances' coordinator.                                            *)
LEMMA HomeGoesOn ==
    ASSUME SettingsInv,
           HomePolls \/ (\E kind \in {"control", "history"} : HomeAsks(kind)) \/ HomeAnswered
    PROVE  SettingsInv'
<1>1. HandsInv /\ ReadInv /\ ShownInv /\ CallersInv /\ SessionInv
  BY DEF SettingsInv
<1>2. UNCHANGED appVars /\ UNCHANGED client
  BY DEF HomePolls, HomeAsks, HomeAnswered
<1>3. ASSUME NEW kind \in {"snapshots", "control", "history"}, Begins(Home, kind)
      PROVE  SettingsInv'
  <2>1. SessionInv' /\ call'.who = Home /\ call'.kind = kind
    BY <1>1, <1>2, <1>3, BeginsGoesOn
  <2>2. CallersInv'
    BY <2>1, CallersDiffer DEF CallersInv
  <2> QED
    BY <1>1, <1>2, <2>1, <2>2, HandsStay DEF SettingsInv
<1>4. CASE HomeAnswered
  <2>1. SessionInv' /\ CallersInv'
    BY <1>1, <1>2, <1>4, AnsweringGoesOn DEF HomeAnswered
  <2> QED
    BY <1>1, <1>2, <2>1, HandsStay DEF SettingsInv
<1> QED
  BY <1>3, <1>4 DEF HomePolls, HomeAsks

(* The poll of the settings.                                               *)
LEMMA ReaderGoesOn ==
    ASSUME SettingsInv,
           ReaderStarts \/ (\E d \in Settings : ReaderAsks(d)) \/ ReaderAsksContext
           \/ ReaderAnswered \/ ReaderDone
    PROVE  SettingsInv'
<1> USE CallersDiffer
<1>1. HandsInv /\ ReadInv /\ ShownInv /\ CallersInv /\ SessionInv
  BY DEF SettingsInv
<1>2. CASE ReaderStarts
  <2>1. /\ cloud = Nobody /\ cloud' = Reader /\ reader' = [NoPoll EXCEPT !.todo = Settings]
        /\ UNCHANGED <<client, call, saved, shown, setter, seen, since, doubt>>
    BY <1>2 DEF ReaderStarts, sessionVars
  <2>2. SessionInv' /\ CallersInv'
    BY <1>1, <2>1 DEF SessionInv, CallersInv, Lists
  <2>3. /\ reader'.todo = Settings /\ reader'.device = "none"
        /\ reader'.got = [d \in Settings |-> Unknown]
        /\ reader' \in [todo : SUBSET Settings, device : Settings \cup {"none", "context"},
                        got : [Settings -> Values \cup {Unknown}]]
    BY <2>1 DEF NoPoll
  <2>4. HandsInv'
    BY <1>1, <2>1, <2>3 DEF HandsInv
  <2>5. ReadInv' /\ ShownInv'
    BY <1>1, <2>1, <2>3 DEF ReadInv, ShownInv, Had, Settings
  <2> QED
    BY <2>2, <2>4, <2>5 DEF SettingsInv
<1>3. ASSUME NEW d \in Settings, ReaderAsks(d)
      PROVE  SettingsInv'
  <2>1. /\ cloud = Reader /\ reader.device = "none" /\ seen = Unknown
        /\ reader' = [reader EXCEPT !.todo = @ \ {d}, !.device = d] /\ Begins(Reader, "get")
        /\ UNCHANGED <<client, saved, shown, cloud, setter, seen, since, doubt>>
    BY <1>1, <1>3 DEF ReaderAsks, ReadInv
  <2>2. SessionInv' /\ call'.who = Reader /\ call'.kind = "get"
    BY <1>1, <2>1, BeginsGoesOn
  <2>3. /\ reader'.device = d /\ reader'.got = reader.got
        /\ reader' \in [todo : SUBSET Settings, device : Settings \cup {"none", "context"},
                        got : [Settings -> Values \cup {Unknown}]]
    BY <1>1, <2>1 DEF HandsInv
  <2>4. CallersInv'
    BY <2>1, <2>2, <2>3 DEF CallersInv
  <2>5. HandsInv'
    BY <1>1, <2>1, <2>3 DEF HandsInv
  <2>6. ReadInv' /\ ShownInv'
    BY <1>1, <2>1, <2>3 DEF ReadInv, ShownInv, Had, Settings
  <2> QED
    BY <2>2, <2>4, <2>5, <2>6 DEF SettingsInv
<1>4. CASE ReaderAsksContext
  <2>1. /\ cloud = Reader /\ reader.device = "context" /\ seen \in Had("pairing")
        /\ reader' = [reader EXCEPT !.device = "pairing"] /\ Begins(Reader, "context")
        /\ UNCHANGED <<client, saved, shown, cloud, setter, seen, since, doubt>>
    BY <1>1, <1>4 DEF ReaderAsksContext, ReadInv
  <2>2. SessionInv' /\ call'.who = Reader /\ call'.kind = "context"
    BY <1>1, <2>1, BeginsGoesOn
  <2>3. /\ reader'.device = "pairing" /\ reader'.got = reader.got /\ "pairing" \in Settings
        /\ reader' \in [todo : SUBSET Settings, device : Settings \cup {"none", "context"},
                        got : [Settings -> Values \cup {Unknown}]]
    BY <1>1, <2>1 DEF HandsInv, Settings
  <2>4. CallersInv'
    BY <2>1, <2>2, <2>3 DEF CallersInv
  <2>5. HandsInv'
    BY <1>1, <2>1, <2>3 DEF HandsInv
  <2>6. ReadInv' /\ ShownInv'
    BY <1>1, <2>1, <2>3 DEF ReadInv, ShownInv, Had, Settings
  <2> QED
    BY <2>2, <2>4, <2>5, <2>6 DEF SettingsInv
<1>5. CASE ReaderAnswered
  <2>1. /\ call.who = Reader /\ cloud = Reader /\ reader.device \in Settings
        /\ \A d \in Settings : reader.got[d] \in Had(d)
        /\ seen \in Had(reader.device) /\ seen \in Values \cup {Unknown}
        /\ UNCHANGED <<client, saved, shown, cloud, setter, since, doubt>> /\ call' = NoCall
    BY <1>1, <1>5 DEF ReaderAnswered, Answered, CallersInv, ReadInv, HandsInv
  <2>2. SessionInv' /\ CallersInv'
    BY <1>1, <2>1, AnsweringGoesOn
  <2>3. CASE call.error = "none" /\ reader.device = "pairing" /\ call.kind = "get"
    <3>1. reader' = [reader EXCEPT !.device = "context"] /\ UNCHANGED seen
      BY <1>1, <1>5, <2>3 DEF ReaderAnswered, HandsInv
    <3>2. /\ reader'.device = "context" /\ reader'.got = reader.got
          /\ reader' \in [todo : SUBSET Settings, device : Settings \cup {"none", "context"},
                          got : [Settings -> Values \cup {Unknown}]]
      BY <1>1, <3>1 DEF HandsInv
    <3>3. HandsInv'
      BY <1>1, <2>1, <3>1, <3>2 DEF HandsInv
    <3>4. ReadInv' /\ ShownInv'
      BY <1>1, <2>1, <2>3, <3>1, <3>2 DEF ReadInv, ShownInv, Had, Settings
    <3> QED
      BY <2>2, <3>3, <3>4 DEF SettingsInv
  <2>4. CASE ~(call.error = "none" /\ reader.device = "pairing" /\ call.kind = "get")
    <3>1. \/ reader' = [reader EXCEPT !.device = "none"]
          \/ reader' = [reader EXCEPT !.device = "none", !.got[reader.device] = seen]
      BY <1>5, <2>4 DEF ReaderAnswered
    <3>2. /\ reader'.device = "none"
          /\ reader'.got = reader.got \/ reader'.got = [reader.got EXCEPT ![reader.device] = seen]
          /\ reader' \in [todo : SUBSET Settings, device : Settings \cup {"none", "context"},
                          got : [Settings -> Values \cup {Unknown}]]
      <4>1. CASE reader' = [reader EXCEPT !.device = "none"]
        BY <1>1, <4>1 DEF HandsInv
      <4>2. CASE reader' = [reader EXCEPT !.device = "none", !.got[reader.device] = seen]
        <5>1. reader' = [reader EXCEPT !.device = "none",
                                       !.got = [reader.got EXCEPT ![reader.device] = seen]]
          BY <1>1, <4>2 DEF HandsInv
        <5>2. [reader.got EXCEPT ![reader.device] = seen] \in [Settings -> Values \cup {Unknown}]
          BY <1>1, <2>1 DEF HandsInv
        <5> QED
          BY <1>1, <5>1, <5>2 DEF HandsInv
      <4> QED
        BY <3>1, <4>1, <4>2
    <3>3. seen' = Unknown
      BY <1>5, <3>2 DEF ReaderAnswered
    <3>4. \A d \in Settings : reader'.got[d] \in Had(d)
      BY <1>1, <2>1, <3>2 DEF HandsInv
    <3>5. HandsInv'
      BY <1>1, <2>1, <3>2, <3>3 DEF HandsInv
    <3>6. ReadInv' /\ ShownInv'
      BY <1>1, <2>1, <3>2, <3>3, <3>4 DEF ReadInv, ShownInv, Had, Settings
    <3> QED
      BY <2>2, <3>5, <3>6 DEF SettingsInv
  <2> QED
    BY <2>3, <2>4
<1>6. CASE ReaderDone
  <2>1. /\ cloud = Reader /\ reader.device = "none" /\ seen = Unknown
        /\ shown' = reader.got /\ doubt' = {} /\ cloud' = Nobody /\ reader' = NoPoll
        /\ UNCHANGED <<client, call, saved, setter, seen, since>>
    BY <1>1, <1>6 DEF ReaderDone, ReadInv, sessionVars
  <2>2. SessionInv' /\ CallersInv'
    BY <1>1, <2>1 DEF SessionInv, CallersInv, Lists, Settings
  <2>3. /\ reader'.device = "none"
        /\ reader' \in [todo : SUBSET Settings, device : Settings \cup {"none", "context"},
                        got : [Settings -> Values \cup {Unknown}]]
    BY <2>1 DEF NoPoll
  <2>4. HandsInv'
    BY <1>1, <2>1, <2>3 DEF HandsInv
  <2>5. ReadInv' /\ ShownInv'
    BY <1>1, <2>1, <2>3 DEF ReadInv, ShownInv, Had
  <2> QED
    BY <2>2, <2>4, <2>5 DEF SettingsInv
<1> QED
  BY <1>2, <1>3, <1>4, <1>5, <1>6

(* A change: it begins, it asks, and what it was answered decides what is  *)
(* shown.                                                                  *)
LEMMA SetterStartsGoesOn ==
    ASSUME SettingsInv, NEW d \in Settings, NEW v \in Options(d), SetterStarts(d, v)
    PROVE  SettingsInv'
<1> USE CallersDiffer
<1>1. HandsInv /\ ReadInv /\ ShownInv /\ CallersInv /\ SessionInv
  BY DEF SettingsInv
<1>2. /\ cloud = Nobody /\ cloud' = Setter /\ v \in Values
      /\ setter' = [step |-> IF d = "pairing" THEN "context" ELSE "read", device |-> d, value |-> v]
      /\ UNCHANGED <<client, call, saved, shown, reader, seen, since, doubt>>
  BY DEF SetterStarts, sessionVars, Values
<1>3. /\ setter'.step \in {"context", "read"} /\ setter'.device = d
      /\ setter' \in [step : {"idle", "context", "read", "write", "confirm"},
                      device : Settings, value : Values]
  BY <1>2
<1>4. SessionInv' /\ CallersInv'
  BY <1>1, <1>2 DEF SessionInv, CallersInv, Lists
<1>5. HandsInv'
  BY <1>1, <1>2, <1>3 DEF HandsInv
<1>6. ReadInv' /\ ShownInv'
  BY <1>1, <1>2, <1>3 DEF ReadInv, ShownInv, Had
<1> QED
  BY <1>4, <1>5, <1>6 DEF SettingsInv

(* The request of the step the change is at.                               *)
LEMMA SetterAsksGoesOn ==
    ASSUME SettingsInv, SetterAsks
    PROVE  SettingsInv'
<1>1. HandsInv /\ ReadInv /\ ShownInv /\ CallersInv /\ SessionInv
  BY DEF SettingsInv
<1>2. /\ setter.step # "idle" /\ Begins(Setter, CallOf(setter.step))
      /\ UNCHANGED appVars /\ UNCHANGED client
  BY DEF SetterAsks
<1>3. PICK kind : kind = CallOf(setter.step)
  OBVIOUS
<1>4. kind \in {"get", "context", "write"}
  BY <1>3 DEF CallOf
<1>5. SessionInv' /\ call'.who = Setter /\ call'.kind = kind
  BY <1>1, <1>2, <1>3, <1>4, BeginsGoesOn
<1>6. CallersInv'
  <2>1. cloud' = cloud /\ setter' = setter /\ cloud = Setter
    BY <1>1, <1>2 DEF appVars, HandsInv
  <2> QED
    BY <1>2, <1>3, <1>5, <2>1, CallersDiffer DEF CallersInv
<1> QED
  BY <1>1, <1>2, <1>5, <1>6, HandsStay DEF SettingsInv

(* The answer: the change goes on without a trace of it, or it ends and    *)
(* shows what it read, or nothing.                                         *)
LEMMA SetterAnsweredGoesOn ==
    ASSUME SettingsInv, NEW allowed \in BOOLEAN, SetterAnswered(allowed)
    PROVE  SettingsInv'
<1> USE CallersDiffer
<1>1. HandsInv /\ ReadInv /\ ShownInv /\ CallersInv /\ SessionInv
  BY DEF SettingsInv
<1>2. /\ call' = NoCall /\ seen' = Unknown /\ cloud = Setter /\ setter.step # "idle"
      /\ UNCHANGED <<client, saved, reader, since>>
  BY <1>1 DEF SetterAnswered, Answered, CallersInv
<1>3. SessionInv' /\ CallersInv'
  BY <1>1, <1>2, AnsweringGoesOn
<1>4. /\ setter.device \in Settings /\ setter.value \in Values
      /\ setter.step \in {"context", "read", "write", "confirm"}
      /\ seen \in Had(setter.device)
  BY <1>1, <1>2 DEF HandsInv, ReadInv
<1>5. \/ \E step \in {"read", "write", "confirm"} :
            SetterGoes(step) /\ (step = "read" => setter.step = "context")
      \/ SetterSucceeds /\ seen = setter.value
      \/ SetterFails
  BY <1>4 DEF SetterAnswered
<1>6. ASSUME NEW step \in {"read", "write", "confirm"}, SetterGoes(step),
             step = "read" => setter.step = "context"
      PROVE  HandsInv' /\ ReadInv' /\ ShownInv'
  <2>1. /\ setter' = [setter EXCEPT !.step = step] /\ UNCHANGED <<shown, cloud, doubt>>
    BY <1>6 DEF SetterGoes
  <2>2. /\ setter'.step = step /\ setter'.device = setter.device
        /\ setter' \in [step : {"idle", "context", "read", "write", "confirm"},
                        device : Settings, value : Values]
    BY <1>1, <2>1 DEF HandsInv
  <2>3. HandsInv'
    BY <1>1, <1>2, <2>1, <2>2 DEF HandsInv
  <2>4. ReadInv'
    BY <1>1, <1>2, <2>1, <2>2 DEF ReadInv, Had
  <2>5. ShownInv'
    BY <1>1, <1>2, <1>6, <2>1, <2>2 DEF ShownInv, Had
  <2> QED
    BY <2>3, <2>4, <2>5
<1>7. ASSUME cloud' = Nobody, setter' = Idle, doubt' = doubt \ {setter.device},
             NEW value \in Had(setter.device), value \in Values \cup {Unknown},
             shown' = [shown EXCEPT ![setter.device] = value]
      PROVE  HandsInv' /\ ReadInv' /\ ShownInv'
  <2>1. /\ setter'.step = "idle"
        /\ setter' \in [step : {"idle", "context", "read", "write", "confirm"},
                        device : Settings, value : Values]
    BY <1>7 DEF Idle, Values, Settings, Options
  <2>2. HandsInv'
    BY <1>1, <1>2, <1>4, <1>7, <2>1 DEF HandsInv
  <2>3. ReadInv'
    BY <1>1, <1>2, <1>7 DEF ReadInv
  <2>4. \A d \in Settings \ doubt' : shown'[d] \in Had(d)
    BY <1>1, <1>2, <1>4, <1>7 DEF ShownInv, HandsInv
  <2>5. ShownInv'
    BY <1>2, <2>4 DEF ShownInv, Had
  <2> QED
    BY <2>2, <2>3, <2>5
<1>8. CASE SetterSucceeds /\ seen = setter.value
  <2>1. setter.value \in Had(setter.device)
    BY <1>4, <1>8
  <2> QED
    BY <1>3, <1>4, <1>7, <1>8, <2>1 DEF SetterSucceeds, SettingsInv
<1>9. CASE SetterFails
  <2>1. Unknown \in Had(setter.device)
    BY DEF Had
  <2> QED
    BY <1>3, <1>7, <1>9, <2>1 DEF SetterFails, AfterFailure, SettingsInv
<1> QED
  BY <1>3, <1>5, <1>6, <1>8, <1>9 DEF SettingsInv

(* A cancelled call: only a change that may have been sent leaves what is  *)
(* shown in doubt.                                                         *)
LEMMA CancelGoesOn ==
    ASSUME SettingsInv, NEW who \in {Home, Reader, Setter}, NEW applies \in BOOLEAN,
           Cancel(who, applies)
    PROVE  SettingsInv'
<1> USE CallersDiffer
<1>1. HandsInv /\ ReadInv /\ ShownInv /\ CallersInv /\ SessionInv
  BY DEF SettingsInv
<1>2. /\ who \in {Reader, Setter} => cloud = who
      /\ call' = IF call.who = who THEN NoCall ELSE call
      /\ cloud' = IF cloud = who THEN Nobody ELSE cloud
      /\ reader' = IF who = Reader THEN NoPoll ELSE reader
      /\ setter' = IF who = Setter THEN Idle ELSE setter
      /\ doubt' = IF who = Setter /\ setter.step \in {"write", "confirm"}
                  THEN doubt \cup {setter.device} ELSE doubt
      /\ seen' = IF cloud = who THEN Unknown ELSE seen
      /\ UNCHANGED <<client, shown>>
  BY DEF Cancel
<1>3. SessionInv' /\ CallersInv'
  <2>1. CASE call.who = who
    BY <1>1, <1>2, <2>1, AnsweringGoesOn
  <2>2. CASE call.who # who
    BY <1>1, <1>2, <2>2 DEF SessionInv, CallersInv, Lists
  <2> QED
    BY <2>1, <2>2
<1>4. CASE who = Home
  <2>1. UNCHANGED <<saved, since>>
    BY <1>4 DEF Cancel, Applied
  <2>2. cloud # Home
    BY <1>1 DEF HandsInv
  <2>3. UNCHANGED <<cloud, reader, setter, doubt, seen, shown>>
    BY <1>2, <1>4, <2>2
  <2>4. HandsInv' /\ ReadInv' /\ ShownInv'
    BY <1>1, <2>1, <2>3 DEF HandsInv, ReadInv, ShownInv, Had
  <2> QED
    BY <1>3, <2>4 DEF SettingsInv
<1>5. CASE who = Reader
  <2>1. UNCHANGED <<saved, since>>
    BY <1>5 DEF Cancel, Applied
  <2>2. /\ cloud = Reader /\ cloud' = Nobody /\ reader' = NoPoll /\ seen' = Unknown
        /\ UNCHANGED <<setter, doubt, shown>>
    BY <1>2, <1>5
  <2>3. reader' \in [todo : SUBSET Settings, device : Settings \cup {"none", "context"},
                     got : [Settings -> Values \cup {Unknown}]]
    BY <2>2 DEF NoPoll
  <2>4. HandsInv'
    BY <1>1, <2>1, <2>2, <2>3 DEF HandsInv
  <2>5. ReadInv' /\ ShownInv'
    BY <1>1, <2>1, <2>2 DEF ReadInv, ShownInv, Had
  <2> QED
    BY <1>3, <2>4, <2>5 DEF SettingsInv
<1>6. CASE who = Setter
  <2>1. /\ cloud = Setter /\ cloud' = Nobody /\ setter' = Idle /\ seen' = Unknown
        /\ UNCHANGED <<reader, shown>>
    BY <1>2, <1>6
  <2>2. setter.device \in Settings /\ setter.value \in Values
    BY <1>1 DEF HandsInv
  <2>3. /\ setter'.step = "idle"
        /\ setter' \in [step : {"idle", "context", "read", "write", "confirm"},
                        device : Settings, value : Values]
    BY <2>1 DEF Idle, Values, Settings, Options
  <2>4. \/ UNCHANGED <<saved, since>>
        \/ /\ setter.step = "write"
           /\ saved' = [saved EXCEPT ![setter.device] = setter.value]
           /\ since' = [since EXCEPT ![setter.device] = {setter.value}]
    <3>1. CASE applies
      <4>1. call.who = Setter /\ call.kind = "write" /\ Applied(applies)
        BY <3>1 DEF Cancel
      <4>2. setter.step = "write"
        BY <1>1, <4>1 DEF CallersInv, HandsInv, CallOf
      <4> QED
        BY <3>1, <4>1, <4>2 DEF Applied
    <3>2. CASE ~applies
      BY <3>2 DEF Cancel, Applied
    <3> QED
      BY <3>1, <3>2
  <2>5. doubt' = IF setter.step \in {"write", "confirm"} THEN doubt \cup {setter.device} ELSE doubt
    BY <1>2, <1>6
  <2>6. HandsInv'
    BY <1>1, <2>1, <2>2, <2>3, <2>4, <2>5 DEF HandsInv
  <2>7. ReadInv'
    BY <2>1 DEF ReadInv
  <2>8. \A d \in Settings \ doubt' : shown[d] \in Had(d) /\ since'[d] = since[d]
    BY <1>1, <2>1, <2>2, <2>4, <2>5 DEF ShownInv, HandsInv
  <2>9. ShownInv'
    BY <2>1, <2>8 DEF ShownInv, Had
  <2> QED
    BY <1>3, <2>6, <2>7, <2>9 DEF SettingsInv
<1> QED
  BY <1>4, <1>5, <1>6

(* The account's settings as they begin.                                   *)
LEMMA SettingsBegin == SettingsInit => SettingsInv
<1> SUFFICES ASSUME SettingsInit PROVE SettingsInv
  OBVIOUS
<1> USE CallersDiffer
<1>1. /\ client = Closed /\ call = NoCall /\ cloud = Nobody /\ reader = NoPoll /\ setter = Idle
      /\ seen = Unknown /\ doubt = {}
      /\ saved = [d \in Settings |-> IF d = "food" THEN "off" ELSE Unpaired]
      /\ shown = [d \in Settings |-> Unknown] /\ since = [d \in Settings |-> {saved[d]}]
  BY DEF SettingsInit, InitSession
<1>2. SessionInv
  BY <1>1 DEF SessionInv, CallStates, ClientStates, Closed, NoCall
<1>3. CallersInv
  BY <1>1 DEF CallersInv, NoCall
<1>4. \A d \in Settings : saved[d] \in Values
  BY <1>1 DEF Values, Settings, Options
<1>5. /\ reader \in [todo : SUBSET Settings, device : Settings \cup {"none", "context"},
                     got : [Settings -> Values \cup {Unknown}]]
      /\ setter \in [step : {"idle", "context", "read", "write", "confirm"},
                     device : Settings, value : Values]
      /\ setter.step = "idle"
  BY <1>1 DEF NoPoll, Idle, Values, Settings, Options
<1>6. saved \in [Settings -> Values] /\ since \in [Settings -> SUBSET Values]
  BY <1>1, <1>4
<1>7. HandsInv
  BY <1>1, <1>5, <1>6 DEF HandsInv
<1>8. ReadInv /\ ShownInv
  BY <1>1 DEF ReadInv, ShownInv, Had
<1> QED
  BY <1>2, <1>3, <1>7, <1>8 DEF SettingsInv

(* Every step keeps the invariant.                                         *)
LEMMA SettingsStep == SettingsInv /\ [SettingsNext]_settingsVars => SettingsInv'
<1> SUFFICES ASSUME SettingsInv, [SettingsNext]_settingsVars PROVE SettingsInv'
  OBVIOUS
<1>1. CASE \/ (Revoke \/ ComesDue \/ Ages) /\ UNCHANGED appVars
           \/ \E d \in Settings : \E v \in Options(d) : Touch(d, v)
  BY <1>1, OutsideGoesOn
<1>2. CASE CallSteps
  <2>1. CASE /\ UNCHANGED appVars
             /\ \/ \E o \in {"ok", "denied", "refused", "down"}, ds \in {"fresh", "none"} : Connect(o, ds)
                \/ Auth
                \/ \E o \in {"ok", "denied", "down"} : Token(o)
                \/ Denied
                \/ \E o \in {"ok"} \cup Errors, ds \in {"fresh", "old", "none"} : Devices(o, ds)
    BY <2>1, SessionStepGoesOn
  <2>2. CASE \E o \in {"ok"} \cup Errors, applies \in BOOLEAN :
                /\ Request(o, applies) /\ Applied(applies)
                /\ seen' = IF call.kind = "get" /\ o = "ok" THEN saved[Asked] ELSE seen
                /\ UNCHANGED <<shown, cloud, reader, setter, touches, doubt>>
    BY <2>2, RequestGoesOn
  <2> QED
    BY <1>2, <2>1, <2>2 DEF CallSteps
<1>3. CASE HomePolls \/ (\E kind \in {"control", "history"} : HomeAsks(kind)) \/ HomeAnswered
  BY <1>3, HomeGoesOn
<1>4. CASE \/ ReaderStarts \/ (\E d \in Settings : ReaderAsks(d)) \/ ReaderAsksContext
           \/ ReaderAnswered \/ ReaderDone
  BY <1>4, ReaderGoesOn
<1>5. CASE \E d \in Settings : \E v \in Options(d) : SetterStarts(d, v)
  BY <1>5, SetterStartsGoesOn
<1>6. CASE SetterAsks
  BY <1>6, SetterAsksGoesOn
<1>7. CASE \E allowed \in BOOLEAN : SetterAnswered(allowed)
  BY <1>7, SetterAnsweredGoesOn
<1>8. CASE \E who \in {Home, Reader, Setter}, applies \in BOOLEAN : Cancel(who, applies)
  BY <1>8, CancelGoesOn
<1>9. CASE UNCHANGED settingsVars
  <2>1. UNCHANGED appVars /\ UNCHANGED <<client, call>>
    BY <1>9 DEF settingsVars, sessionVars
  <2>2. HandsInv /\ ReadInv /\ ShownInv /\ CallersInv /\ SessionInv
    BY DEF SettingsInv
  <2>3. SessionInv' /\ CallersInv'
    BY <2>1, <2>2 DEF SessionInv, CallersInv, Lists, appVars
  <2> QED
    BY <2>1, <2>2, <2>3, HandsStay DEF SettingsInv
<1> QED
  BY <1>1, <1>2, <1>3, <1>4, <1>5, <1>6, <1>7, <1>8, <1>9 DEF SettingsNext

(* What the account keeps true while polls, changes and cancellations mix  *)
(* with the calls of the appliances (WideqClient, AppSettingsCoordinator). *)
THEOREM SettingsInvariant == SettingsSpec => []SettingsInv
<1>1. SettingsInit => SettingsInv
  BY SettingsBegin
<1>2. SettingsInv /\ [SettingsNext]_settingsVars => SettingsInv'
  BY SettingsStep
<1> QED
  BY <1>1, <1>2, PTL DEF SettingsSpec

(* A setting is written once per call, no poll passes off an old list of   *)
(* devices as new, and what is shown of a setting was confirmed            *)
(* (AppSettingsCoordinator.async_set, ClientAsync.refresh_devices).        *)
THEOREM SettingsStayConfirmed == SettingsSpec => []SettingIsConfirmed
<1>1. SettingsInv => SettingIsConfirmed
  <2> SUFFICES ASSUME SettingsInv PROVE SettingIsConfirmed
    OBVIOUS
  <2>1. HandsInv /\ ReadInv /\ ShownInv /\ SessionInv
    BY DEF SettingsInv
  <2>2. WritesOnce
    BY <2>1 DEF WritesOnce, SessionInv, CallStates
  <2>3. PollIsFresh
    BY <2>1 DEF PollIsFresh, SessionInv, Answered, Lists
  <2>4. cloud = Nobody => \A d \in Settings \ doubt : shown[d] \in since[d] \cup {Unknown}
    BY <2>1, CallersDiffer DEF ShownInv, Had
  <2> QED
    BY <2>2, <2>3, <2>4 DEF SettingIsConfirmed, ShownWasConfirmed
<1> QED
  BY <1>1, SettingsInvariant, PTL
=============================================================================
