--------------------------- MODULE EnergyHistory ---------------------------
(***************************************************************************)
(* The energy history WideqCoordinator keeps of coordinator_wideq.py: what *)
(* each appliance used today and this month, read from LG one appliance    *)
(* after the other, cached with the period each value is of, saved with a  *)
(* delay, and restored at the next start, out of two older stores too.  A  *)
(* step is what the poll does between two awaits.  The moments polls are   *)
(* due at are left out: a poll may come at any time.                       *)
(***************************************************************************)
EXTENDS Naturals, FiniteSets

CONSTANTS Targets,     \* PAT ids with a history route, numbers in their order,
          Hourly,      \*   and those of them that are read by two requests
          Aliases,     \* names appliances may have
          Days,        \* 1 .. n
          MonthOf,     \* the month of each day
          NoData,      \* no number: NO_DATA, nothing, or no valid number
          MaxCounts,   \* bound on what LG's service counts
          MaxFailures, \*   on reads that fail and identities that are lost
          MaxRestarts  \*   on restarts

ASSUME HistoryAssumption ==
    /\ Days # {} /\ IsFiniteSet(Days) /\ Days = 1 .. Cardinality(Days)
    /\ DOMAIN MonthOf = Days
    /\ Targets \subseteq Nat /\ Hourly \subseteq Targets
    /\ NoData \notin Nat

VARIABLES day,      \* today
          meter,    \* LG: the energy of each day, of each appliance
          paired,   \* the domain of self._pat_to_wideq
          history,  \* self._energy_history
          restored, \* self._energy_history_restored
          refused,  \* self._energy_history_unsupported
          failing,  \* the domain of self._energy_history_failures
          missing,  \* self._energy_history_missing
          poll,     \* the poll under way
          stored,     \* the store of version 3
          delayed,  \* a save of it is due
          legacy,   \* the older stores, and what appliances are called
          heard,    \* history: the fields the last poll to end has read
          faults    \* bounds: what was counted, failed and restarted so far

service == <<day, meter, paired>>
cache == <<history, restored, refused, failing, missing>>
disk == <<stored, delayed, legacy>>
historyVars == <<service, cache, poll, disk, heard, faults>>

Keys == {"today", "month"}
None == [value |-> NoData, period |-> 0]
NoHistory == [k \in Keys |-> None]
Period(k, d) == IF k = "today" THEN d ELSE MonthOf[d]

----------------------------------------------------------------------------
(* What an answer for the day d says: the row of the day, and the sum of   *)
(* the rows of its month that are numbers, if there is one.                *)
Counted(rows, d) ==
    {e \in DOMAIN rows : MonthOf[e] = MonthOf[d] /\ rows[e] # NoData}

SumUpTo(rows, d) ==
    LET sum[e \in {0} \cup Days] ==
            IF e = 0 THEN 0
            ELSE sum[e - 1] + (IF e \in Counted(rows, d) THEN rows[e] ELSE 0)
    IN  sum[Cardinality(Days)]

\* Mutant of MonthTotal: a month without a number is one of zero.
MonthTotalOrZero(rows, d) == SumUpTo(rows, d)

MonthTotal(rows, d) ==
    IF Counted(rows, d) = {} THEN NoData ELSE SumUpTo(rows, d)

Usage(rows, d) ==
    [k \in Keys |-> IF k = "today" THEN rows[d] ELSE MonthTotal(rows, d)]

(* What energy_history_value shows on the day d: a value of its period.    *)
ShownOn(fields, k, d) ==
    IF fields[k].period = Period(k, d) THEN fields[k].value ELSE NoData

Displayed(t, k) == ShownOn(history[t], k, day)

(* energy_history_attributes: the value is marked stale.                   *)
Stale(t, k) ==
    \/ <<t, k>> \in restored
    \/ t \in failing
    \/ k \in missing[t]
    \/ Displayed(t, k) = NoData

----------------------------------------------------------------------------
(* async_restore_energy_history.  A field of version 3 is of the present   *)
(* period or left out; ...                                                 *)
Verified(fields, d) ==
    [k \in Keys |-> IF ShownOn(fields, k, d) # NoData THEN fields[k] ELSE None]

\* Mutant of LegacyField: a legacy zero is believed.
LegacyFieldOrZero(item, k, d) ==
    IF item.day # 0 /\ Period(k, item.day) = Period(k, d)
    THEN [value |-> item.used[k], period |-> Period(k, d)] ELSE None

(* ... an older item has one date for both values, and its zero may stand  *)
(* for no data.                                                            *)
LegacyField(item, k, d) ==
    IF item.day # 0 /\ Period(k, item.day) = Period(k, d) /\ item.used[k] # 0
    THEN [value |-> item.used[k], period |-> Period(k, d)] ELSE None

Migrated(fields, item, d) ==
    [k \in Keys |-> IF fields[k] # None THEN fields[k] ELSE LegacyField(item, k, d)]

NoItem == [day |-> 0, used |-> [k \in Keys |-> 0]]

\* Mutant of ItemByAlias: any appliance of that name will do.
ItemByAliasOfAny(t) == legacy.byAlias[legacy.alias[t]]

(* The first store has items by name; a name two targets share is nobody's.*)
ItemByAlias(t) ==
    IF \E u \in Targets \ {t} : legacy.alias[u] = legacy.alias[t] THEN NoItem
    ELSE legacy.byAlias[legacy.alias[t]]

Restored(contents, d) ==
    [t \in Targets |->
        Migrated(Migrated(Verified(contents[t], d), legacy.byId[t], d), ItemByAlias(t), d)]

Complete(contents, d) == [t \in Targets |-> Verified(contents[t], d)]

NoPoll == [on |-> FALSE, day |-> 0, left |-> {}, changed |-> FALSE,
           half |-> FALSE, first |-> NoData, read |-> {}]

(* A new start out of what the store holds: the older stores complement    *)
(* it, and it is saved if they did.                                        *)
Restore(contents) ==
    /\ history' = Restored(contents, day)
    /\ restored' = {f \in Targets \X Keys : history'[f[1]][f[2]] # None}
    /\ stored' = IF history' # Complete(contents, day) THEN history' ELSE contents
    /\ delayed' = FALSE
    /\ refused' = {} /\ failing' = {}
    /\ missing' = [t \in Targets |-> {}]
    /\ poll' = NoPoll
    /\ heard' = {}
    /\ faults.restarts < MaxRestarts
    /\ faults' = [faults EXCEPT !.restarts = @ + 1]
    /\ UNCHANGED <<service, legacy>>

(* What an old version had in its store on the first day: no data was zero.*)
OldItem(rows) ==
    [day |-> 1, used |-> [k \in Keys |->
        IF Usage(rows, 1)[k] = NoData THEN 0 ELSE Usage(rows, 1)[k]]]

(* The first start of the present version, on the first day.               *)
HistoryInit ==
    /\ day = 1
    /\ meter \in [Targets -> {[d \in Days |-> IF d = 1 THEN v ELSE NoData] : v \in {NoData, 0, 1}}]
    /\ paired \in SUBSET Targets
    /\ \E old \in [Targets -> {TRUE, FALSE}], alias \in [Targets -> Aliases] :
          \E writer \in [Aliases -> Targets \cup {NoData}] :
             /\ \A a \in Aliases : writer[a] # NoData => alias[writer[a]] = a
             /\ legacy = [alias |-> alias,
                          byId |-> [t \in Targets |->
                              IF old[t] THEN OldItem(meter[t]) ELSE NoItem],
                          byAlias |-> [a \in Aliases |->
                              IF writer[a] = NoData THEN NoItem ELSE OldItem(meter[writer[a]])]]
    /\ history = Restored([t \in Targets |-> NoHistory], 1)
    /\ restored = {f \in Targets \X Keys : history[f[1]][f[2]] # None}
    /\ refused = {} /\ failing = {}
    /\ missing = [t \in Targets |-> {}]
    /\ poll = NoPoll
    /\ stored = history
    /\ delayed = FALSE
    /\ heard = {}
    /\ faults = [counts |-> 0, failures |-> 0, restarts |-> 0]

----------------------------------------------------------------------------
Midnight ==
    /\ day + 1 \in Days
    /\ day' = day + 1
    /\ UNCHANGED <<meter, paired, cache, poll, disk, heard, faults>>

(* LG's service counts what t used, of a day that is over perhaps.         *)
Counts(t, d) ==
    /\ faults.counts < MaxCounts
    /\ d \in 1 .. day
    /\ meter' = [meter EXCEPT ![t][d] = IF @ = NoData THEN 0 ELSE @ + 1]
    /\ faults' = [faults EXCEPT !.counts = @ + 1]
    /\ UNCHANGED <<day, paired, cache, poll, disk, heard>>

(* An account snapshot finds t, or can no longer tell which one it is: it  *)
(* is resolved before the poll, under the same lock.                       *)
Resolves(t) ==
    /\ ~poll.on
    /\ paired' = (paired \ {t}) \cup ({t} \ paired)
    /\ t \in paired => faults.failures < MaxFailures
    /\ faults' = [faults EXCEPT !.failures = IF t \in paired THEN @ + 1 ELSE @]
    /\ UNCHANGED <<day, meter, cache, poll, disk, heard>>

PollBegins ==
    /\ ~poll.on
    /\ poll' = [NoPoll EXCEPT !.on = TRUE, !.day = day, !.left = Targets]
    /\ UNCHANGED <<service, cache, disk, heard, faults>>

(* The poll has done with the appliance t, whose fields ks it has read.    *)
Done(t, ks, changes) ==
    poll' = [poll EXCEPT !.left = @ \ {t}, !.half = FALSE, !.first = NoData,
                         !.changed = @ \/ changes, !.read = @ \cup ({t} \X ks)]

(* They are read in the order of self._energy_history_targets.             *)
Reads(t) == t \in poll.left /\ \A u \in poll.left : t <= u

PassesRefused(t) ==
    /\ Reads(t) /\ t \in refused
    /\ Done(t, {}, FALSE)
    /\ UNCHANGED <<service, cache, disk, heard, faults>>

MissesIdentity(t) ==
    /\ Reads(t) /\ t \notin refused \cup paired
    /\ failing' = failing \cup {t}
    /\ Done(t, {}, FALSE)
    /\ UNCHANGED <<service, history, restored, refused, missing, disk, heard, faults>>

Requested(t) == Reads(t) /\ t \in paired \ refused

(* The first of two requests: the hours of the day.                        *)
ReadsHours(t) ==
    /\ Requested(t) /\ t \in Hourly /\ ~poll.half
    /\ poll' = [poll EXCEPT !.half = TRUE, !.first = meter[t][poll.day]]
    /\ UNCHANGED <<service, cache, disk, heard, faults>>

LastRequest(t) == Requested(t) /\ (t \in Hourly => poll.half)

(* The parsers: what the rows of the answer say, and no more.              *)
Answer(t, rows) ==
    [k \in Keys |-> IF t \in Hourly /\ k = "today" THEN poll.first
                    ELSE Usage(rows, poll.day)[k]]

Valid(answer) == {k \in Keys : answer[k] # NoData}

\* Mutant of Field: a value is of the day it arrives on.
FieldOfNow(value, k) == [value |-> value, period |-> Period(k, day)]

Field(value, k) == [value |-> value, period |-> Period(k, poll.day)]

\* Mutant of TakesValues: what the answer lacks is not marked.
TakesValuesOnly(t, answer) ==
    /\ Valid(answer) # {}
    /\ history' = [history EXCEPT ![t] =
          [k \in Keys |-> IF k \in Valid(answer) THEN Field(answer[k], k) ELSE @[k]]]
    /\ restored' = restored \ ({t} \X Valid(answer))
    /\ missing' = [missing EXCEPT ![t] = {}]
    /\ failing' = failing \ {t}
    /\ Done(t, Valid(answer), TRUE)

TakesValues(t, answer) ==
    /\ Valid(answer) # {}
    /\ history' = [history EXCEPT ![t] =
          [k \in Keys |-> IF k \in Valid(answer) THEN Field(answer[k], k) ELSE @[k]]]
    /\ restored' = restored \ ({t} \X Valid(answer))
    /\ missing' = [missing EXCEPT ![t] = Keys \ Valid(answer)]
    /\ failing' = failing \ {t}
    /\ Done(t, Valid(answer), TRUE)

TakesNothing(t, answer) ==
    /\ Valid(answer) = {}
    /\ failing' = failing \cup {t}
    /\ missing' = [missing EXCEPT ![t] = Keys]
    /\ Done(t, {}, FALSE)
    /\ UNCHANGED <<history, restored>>

Answers(t) ==
    /\ LastRequest(t)
    /\ \/ TakesValues(t, Answer(t, meter[t]))
       \/ TakesNothing(t, Answer(t, meter[t]))
    /\ UNCHANGED <<service, refused, disk, heard, faults>>

(* The service leaves the day out, as it may until it has added it up.     *)
WithoutTheDay(t) == [meter[t] EXCEPT ![poll.day] = NoData]

AnswersInPart(t) ==
    /\ LastRequest(t)
    /\ faults.failures < MaxFailures
    /\ faults' = [faults EXCEPT !.failures = @ + 1]
    /\ \/ TakesValues(t, Answer(t, WithoutTheDay(t)))
       \/ TakesNothing(t, Answer(t, WithoutTheDay(t)))
    /\ UNCHANGED <<service, refused, disk, heard>>

Fails(t) ==
    /\ Requested(t)
    /\ faults.failures < MaxFailures
    /\ faults' = [faults EXCEPT !.failures = @ + 1]
    /\ UNCHANGED <<service, disk, heard>>

(* Code 0005: the appliance has no history, and is not asked again.        *)
IsRefused(t) ==
    /\ Fails(t)
    /\ refused' = refused \cup {t}
    /\ failing' = failing \ {t}
    /\ missing' = [missing EXCEPT ![t] = Keys]
    /\ history' = [history EXCEPT ![t] = NoHistory]
    /\ restored' = {f \in restored : f[1] # t}
    /\ Done(t, {}, history[t] # NoHistory)

ReadFails(t) ==
    /\ Fails(t)
    /\ failing' = failing \cup {t}
    /\ Done(t, {}, FALSE)
    /\ UNCHANGED <<history, restored, refused, missing>>

\* Mutant of ServerIsDown: those that are not reached keep their state.
ServerIsDownForOne(t) ==
    /\ Fails(t)
    /\ failing' = failing \cup {t}
    /\ poll' = [poll EXCEPT !.left = {}]
    /\ UNCHANGED <<history, restored, refused, missing>>

(* LG is down: the poll stops, and those it has not reached are failing.   *)
ServerIsDown(t) ==
    /\ Fails(t)
    /\ failing' = failing \cup {t} \cup (poll.left \ refused)
    /\ poll' = [poll EXCEPT !.left = {}]
    /\ UNCHANGED <<history, restored, refused, missing>>

PollEnds ==
    /\ poll.on /\ poll.left = {}
    /\ delayed' = (delayed \/ poll.changed)
    /\ heard' = poll.read
    /\ poll' = NoPoll
    /\ UNCHANGED <<service, cache, stored, legacy, faults>>

(* The poll is cancelled while it waits: what it has read stays.           *)
PollCancelled ==
    /\ poll.on /\ poll.left # {}
    /\ heard' = heard \cup poll.read
    /\ poll' = NoPoll
    /\ UNCHANGED <<service, cache, disk, faults>>

(* The delayed save, with what is cached by then.                          *)
SaveDue ==
    /\ delayed
    /\ stored' = history
    /\ delayed' = FALSE
    /\ UNCHANGED <<service, cache, poll, legacy, heard, faults>>

(* A crash, and an unload, which cancels the poll and saves; both with the *)
(* next start.                                                             *)
Crash == Restore(stored)

Reload == Restore(history)

ReadStep(t) ==
    \/ PassesRefused(t) \/ MissesIdentity(t)
    \/ ReadsHours(t) \/ Answers(t) \/ AnswersInPart(t)
    \/ IsRefused(t) \/ ReadFails(t) \/ ServerIsDown(t)

HistoryNext ==
    \/ Midnight
    \/ \E t \in Targets, d \in Days : Counts(t, d)
    \/ \E t \in Targets : Resolves(t) \/ ReadStep(t)
    \/ PollBegins \/ PollEnds \/ PollCancelled
    \/ SaveDue \/ Crash \/ Reload

HistorySpec == HistoryInit /\ [][HistoryNext]_historyVars

----------------------------------------------------------------------------
(* A value that is shown was measured: LG has a number for that period of  *)
(* that appliance, and no smaller one, whatever happened between a request *)
(* and its answer, at midnight, at a restart, and to the older stores.     *)
ShownWasMeasured ==
    \A t \in Targets, k \in Keys :
        Displayed(t, k) # NoData =>
            /\ \E e \in Days : meter[t][e] # NoData /\ Period(k, e) = Period(k, day)
            /\ Displayed(t, k) <= Usage(meter[t], day)[k]

(* A value that is not marked stale was read by the last poll to end, or   *)
(* by one after it; never by one before, nor taken out of a store.         *)
UnmarkedIsFresh ==
    \A t \in Targets, k \in Keys :
        ~Stale(t, k) => <<t, k>> \in heard \cup poll.read

(* What the history shows was measured in the period it is shown for, and  *)
(* what it does not mark as stale was read since the last failure: the two *)
(* together are what the energy sensors promise.                           *)
HistoryIsHonest == ShownWasMeasured /\ UnmarkedIsFresh

=============================================================================
