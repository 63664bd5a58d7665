---------------------------- MODULE RateLimiter ----------------------------
(***************************************************************************)
(* GlobalRateLimiter of rate_limiter.py: every WideQ request of the        *)
(* integration awaits acquire() first.  acquire() runs under one FIFO      *)
(* asyncio.Lock and may sleep twice in it: once for the hourly cap, once   *)
(* for the minimum spacing.  A step of the model is what one coroutine     *)
(* does between two awaits; the clock may advance between any two steps,   *)
(* and a caller may be cancelled wherever it is suspended.                 *)
(***************************************************************************)
EXTENDS Integers, Sequences, SequencesExt

CONSTANTS Callers,       \* coroutines that may await acquire()
          NoCaller,      \* the lock is free
          MaxPerHour,    \* WIDEQ_MAX_CALLS_PER_HOUR
          Spacing,       \* WIDEQ_MIN_CALL_SPACING
          Window,        \* one hour
          MaxTime        \* bound on the clock

ASSUME CallersAssumption == NoCaller \notin Callers
ASSUME LimitsAssumption ==
    /\ MaxPerHour \in Nat \ {0}
    /\ Spacing \in Nat
    /\ Window \in Nat \ {0}
    /\ MaxTime \in Nat

VARIABLES now,      \* the event loop's monotonic clock
          last,     \* self._last
          calls,    \* self._calls, oldest first
          queue,    \* callers waiting for self._lock, in arrival order
          holder,   \* the caller inside self._lock
          pc,       \* where each caller is suspended
          wake,     \* the earliest moment each sleeper may resume
          grants    \* history: the moment of every permission given

vars == <<now, last, calls, queue, holder, pc, wake, grants>>

Suspended == {"idle", "queued", "capSleep", "gapSleep"}

Init ==
    /\ now \in 0 .. MaxTime
    /\ last = 0
    /\ calls = <<>>
    /\ queue = <<>>
    /\ holder = NoCaller
    /\ pc = [c \in Callers |-> "idle"]
    /\ wake = [c \in Callers |-> 0]
    /\ grants = <<>>

----------------------------------------------------------------------------
Expired(s, i) == now - s[i] >= Window

(* What the popleft loop leaves of the calls s: everything from the first  *)
(* call that is younger than an hour.                                      *)
DroppedTo(s, k) ==
    /\ \A i \in 1 .. k - 1 : Expired(s, i)
    /\ k <= Len(s) => ~Expired(s, k)

(* The last two statements of acquire(): the permission is recorded, and   *)
(* leaving the block releases the lock.                                    *)
Grant(c, live) ==
    /\ last' = now
    /\ calls' = Append(live, now)
    /\ grants' = Append(grants, now)
    /\ holder' = NoCaller
    /\ pc' = [pc EXCEPT ![c] = "idle"]
    /\ UNCHANGED wake

Sleep(c, where, until, live) ==
    /\ pc' = [pc EXCEPT ![c] = where]
    /\ wake' = [wake EXCEPT ![c] = until]
    /\ calls' = live
    /\ holder' = c
    /\ UNCHANGED <<last, grants>>

\* Mutant of SpaceOrGrant: the spacing is not waited for.
GrantUnspaced(c, live) == Grant(c, live)

\* Mutant of SpaceOrGrant: the sleep is gap - spacing, the wrong way round.
SpaceOrGrantSwapped(c, live) ==
    \/ /\ now - last < Spacing
       /\ Sleep(c, "gapSleep", now + (now - last) - Spacing, live)
    \/ /\ now - last >= Spacing
       /\ Grant(c, live)

(* The minimum-spacing half of acquire().                                  *)
SpaceOrGrant(c, live) ==
    \/ /\ now - last < Spacing
       /\ Sleep(c, "gapSleep", last + Spacing, live)
    \/ /\ now - last >= Spacing
       /\ Grant(c, live)

\* Mutant of EnterLock: the hourly cap is not looked at.
EnterLockOverCap(c) ==
    \E k \in 1 .. Len(calls) + 1 :
        /\ DroppedTo(calls, k)
        /\ SpaceOrGrant(c, SubSeq(calls, k, Len(calls)))

(* acquire() from the moment the lock is held up to its first suspension.  *)
EnterLock(c) ==
    \E k \in 1 .. Len(calls) + 1 :
        LET live == SubSeq(calls, k, Len(calls)) IN
        /\ DroppedTo(calls, k)
        /\ \/ /\ Len(live) >= MaxPerHour
              /\ Sleep(c, "capSleep", live[1] + Window, live)
           \/ /\ Len(live) < MaxPerHour
              /\ SpaceOrGrant(c, live)

----------------------------------------------------------------------------
(* acquire() is called and takes a free lock that nobody waits for.        *)
AcquireNow(c) ==
    /\ pc[c] = "idle"
    /\ holder = NoCaller
    /\ queue = <<>>
    /\ EnterLock(c)
    /\ UNCHANGED <<now, queue>>

(* acquire() is called while the lock is held or promised to a waiter.     *)
AcquireLater(c) ==
    /\ pc[c] = "idle"
    /\ holder # NoCaller \/ queue # <<>>
    /\ queue' = Append(queue, c)
    /\ pc' = [pc EXCEPT ![c] = "queued"]
    /\ UNCHANGED <<now, last, calls, holder, wake, grants>>

(* The released lock goes to the longest-waiting caller.                   *)
Handoff(c) ==
    /\ holder = NoCaller
    /\ queue # <<>>
    /\ c = Head(queue)
    /\ queue' = Tail(queue)
    /\ EnterLock(c)
    /\ UNCHANGED now

(* The cap sleep is over: the clock is read again, old calls are dropped   *)
(* again, and the spacing is looked at next.                               *)
WakeFromCap(c) ==
    /\ pc[c] = "capSleep"
    /\ now >= wake[c]
    /\ \E k \in 1 .. Len(calls) + 1 :
          /\ DroppedTo(calls, k)
          /\ SpaceOrGrant(c, SubSeq(calls, k, Len(calls)))
    /\ UNCHANGED <<now, queue>>

WakeFromGap(c) ==
    /\ pc[c] = "gapSleep"
    /\ now >= wake[c]
    /\ Grant(c, calls)
    /\ UNCHANGED <<now, queue>>

(* CancelledError in a queued caller: it leaves the queue.                 *)
CancelQueued(c) ==
    /\ pc[c] = "queued"
    /\ \E i \in 1 .. Len(queue) : queue[i] = c /\ queue' = RemoveAt(queue, i)
    /\ pc' = [pc EXCEPT ![c] = "idle"]
    /\ UNCHANGED <<now, last, calls, holder, wake, grants>>

\* Mutant of CancelSleeper: the lock stays held.
CancelLeavesLock(c) ==
    /\ pc[c] \in {"capSleep", "gapSleep"}
    /\ pc' = [pc EXCEPT ![c] = "idle"]
    /\ UNCHANGED <<now, last, calls, queue, wake, grants, holder>>

(* CancelledError in a sleeper: the lock is released, nothing is recorded. *)
CancelSleeper(c) ==
    /\ pc[c] \in {"capSleep", "gapSleep"}
    /\ holder' = NoCaller
    /\ pc' = [pc EXCEPT ![c] = "idle"]
    /\ UNCHANGED <<now, last, calls, queue, wake, grants>>

Tick ==
    /\ now < MaxTime
    /\ now' = now + 1
    /\ UNCHANGED <<last, calls, queue, holder, pc, wake, grants>>

Step(c) ==
    \/ AcquireNow(c)
    \/ AcquireLater(c)
    \/ Handoff(c)
    \/ WakeFromCap(c)
    \/ WakeFromGap(c)
    \/ CancelQueued(c)
    \/ CancelSleeper(c)

Next == Tick \/ \E c \in Callers : Step(c)

Spec == Init /\ [][Next]_vars

----------------------------------------------------------------------------
(* Every variable has its type.                                            *)
TypeOK ==
    /\ now \in Nat
    /\ last \in Nat
    /\ calls \in Seq(Nat)
    /\ queue \in Seq(Callers)
    /\ holder \in Callers \cup {NoCaller}
    /\ pc \in [Callers -> Suspended]
    /\ wake \in [Callers -> Nat]
    /\ grants \in Seq(Nat)

(* "caps calls/hour": any MaxPerHour + 1 permissions in a row span at      *)
(* least an hour, so no window of an hour, wherever it starts, holds more  *)
(* than MaxPerHour of them.                                                *)
HourlyCap ==
    \A i, j \in 1 .. Len(grants) :
        j = i + MaxPerHour => grants[j] - grants[i] >= Window

(* "spaces them": two permissions are never closer than Spacing, whoever   *)
(* got them and however long the callers slept or were cancelled.          *)
MinimumSpacing ==
    \A i, j \in 1 .. Len(grants) :
        j = i + 1 => grants[j] - grants[i] >= Spacing

(* What LG's limits ask of the whole integration.                          *)
LimitsAreKept == HourlyCap /\ MinimumSpacing

(* "serializes calls": a caller sleeps in acquire() only as the lock's     *)
(* holder, and a cancelled sleeper never leaves the lock held behind it.   *)
LockHeldBySleeper ==
    \A c \in Callers :
        holder = c <=> pc[c] \in {"capSleep", "gapSleep"}

(* Whoever awaits acquire() comes out of it: with a permission, or         *)
(* cancelled; other callers' sleeps and cancellations never strand it.     *)
NobodyStarves ==
    \A c \in Callers : pc[c] # "idle" ~> pc[c] = "idle"

=============================================================================
