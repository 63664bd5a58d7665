--------------------------- MODULE MCRateLimiter ---------------------------
(***************************************************************************)
(* Instances of RateLimiter for TLC.                                       *)
(***************************************************************************)
EXTENDS RateLimiter

CONSTANTS Cutoff,   \* requests arrive up to here
          Late      \* a due sleeper resumes before it is Late

----------------------------------------------------------------------------
(* The event loop keeps running: a due timer and a released lock are       *)
(* served before the clock moves more than Late past them.  The clock has  *)
(* to stop somewhere; requests stop early enough that the last of them can *)
(* still sleep as long as it has to.                                       *)
Timely ==
    /\ holder = NoCaller => queue = <<>>
    /\ \A c \in Callers :
          pc[c] \in {"capSleep", "gapSleep"} => now < wake[c] + Late

Request(c) == AcquireNow(c) \/ AcquireLater(c)

Resume(c) == Handoff(c) \/ WakeFromCap(c) \/ WakeFromGap(c)

TimelyTick == Timely /\ Tick

LiveNext ==
    \/ TimelyTick
    \/ \E c \in Callers :
          \/ now <= Cutoff /\ Request(c)
          \/ Resume(c)
          \/ CancelQueued(c)
          \/ CancelSleeper(c)

StartInit == Init /\ now = 0

LiveSpec ==
    /\ StartInit
    /\ [][LiveNext]_vars
    /\ WF_vars(TimelyTick)
    /\ \A c \in Callers : WF_vars(Resume(c))

=============================================================================
