---------------------------- MODULE CloudRuntime ----------------------------
(***************************************************************************)
(* CloudGate and CloudRuntime of cloud_runtime.py with the two callers     *)
(* that drive them: the cloud_connection service and start_cloud.  A step  *)
(* is what one coroutine does between two awaits.  The inner task of       *)
(* CloudGate.call ends in one step; its caller resumes in another.         *)
(***************************************************************************)
EXTENDS Integers, Sequences, SequencesExt

CONSTANTS Sources,       \* the members of SOURCES
          Configured,    \* those the entry has an account for: WideQ is optional
          Targets,       \* the source tuples the service accepts
          Reasons,       \* the reasons a pause may give
          Slots,         \* gated calls that may be in flight for a source
          Connect,       \* the slot of the call that connects the source
          MaxRequests,   \* bounds: service calls made,
          MaxCalls,      \*         gated calls begun,
          MaxRestarts,   \*         reloads and crashes,
          MaxSpent       \*         and all of these together

ASSUME ReasonsAssumption == "authentication" \in Reasons /\ "open" \notin Reasons
ASSUME ConfiguredAssumption == Configured \subseteq Sources
ASSUME SlotsAssumption == Connect \in Slots
ASSUME TargetsAssumption ==
    \A t \in Targets : t \in Seq(Sources) /\ t # <<>>
ASSUME BoundsAssumption == {MaxRequests, MaxCalls, MaxRestarts, MaxSpent} \subseteq Nat

VARIABLES reason,     \* gate.reason of each source, Open for None
          gen,        \* gate.generation
          call,       \* gate.tasks and their callers, by source and slot
          queue,      \* async_pause and async_resume at self._lock, in order
          phase,      \* where the first of them, the lock's holder, is
          todo,       \* the sources a pause has not finished with
          woken,      \* the sources a resume has opened
          snapshot,   \* what the holder is saving
          disk,       \* self.store: the reasons on disk
          overtaken,  \* history: the store was written last by an unloaded runtime
          starts,     \* start_source tasks of configured sources, not begun
          starting,   \* where the start_source task with the lock is
          link,       \* may the source's connection be open?
          closed,     \* self._closed
          left,       \* what each reload left of the runtime it replaced: the
                      \* service's jobs on it, its lock and its gates
          promised,   \* history: a pause this runtime, or the store it was restored
                      \* from, has acknowledged, not resumed since
          spent       \* bounds: requests, calls and restarts so far

gates == <<reason, gen>>
lock == <<queue, phase, todo, woken, snapshot>>
connections == <<starts, starting, link>>
stored == <<disk, overtaken>>
life == <<closed, left>>
vars == <<gates, call, lock, stored, connections, life, promised, spent>>

Open == "open"
Outcomes == {"ok", "authFailed", "failed"}
Phases == {"waiting", "saving", "draining", "unlinking"}

Jobs == [kind : {"pause", "resume"}, sources : Seq(Sources) \ {<<>>},
         why : Reasons, user : BOOLEAN]
Lefts == [queue : Seq(Jobs), phase : Phases,
          reason : [Sources -> Reasons \cup {Open}],
          snapshot : [Sources -> Reasons \cup {Open}]]
Idle == [at |-> "idle", gen |-> 0, late |-> FALSE]

job == Head(queue)
Of(sources) == {sources[i] : i \in 1 .. Len(sources)}
Pending(s) == {k \in Slots : call[<<s, k>>].at \notin {"idle", "applied"}}

(* What __init__ and async_restore make of the reasons in the store.       *)
RestoredGen(saved) == [s \in Sources |-> IF saved[s] = Open THEN 0 ELSE 1]
NoCalls == [p \in Sources \X Slots |-> Idle]
OneStart == [s \in Sources |-> IF s \in Configured THEN 1 ELSE 0]
NotStarting == [s \in Sources |-> "no"]
NoLink == [s \in Sources |-> FALSE]
(* What is left of a runtime with these jobs: nothing once they are done.  *)
Remains(jobs, at, shut, saving) ==
    IF jobs = <<>> THEN [queue |-> <<>>, phase |-> "waiting",
                         reason |-> [s \in Sources |-> Open],
                         snapshot |-> [s \in Sources |-> Open]]
    ELSE [queue |-> jobs, phase |-> at, reason |-> shut, snapshot |-> saving]
Nobody == [n \in 1 .. MaxRestarts |-> Remains(<<>>, "waiting", <<>>, <<>>)]

Init ==
    /\ reason \in [Sources -> Reasons \cup {Open}]
    /\ gen = RestoredGen(reason)
    /\ call = NoCalls
    /\ queue = <<>> /\ phase = "waiting" /\ todo = <<>> /\ woken = {}
    /\ snapshot = reason
    /\ disk = reason /\ overtaken = FALSE
    /\ starts = OneStart /\ starting = NotStarting
    /\ link = NoLink
    /\ closed = FALSE /\ left = Nobody
    /\ promised = [s \in Sources |-> FALSE]
    /\ spent = [requests |-> 0, calls |-> 0, restarts |-> 0]

Spend(what, bound) ==
    /\ spent[what] < bound
    /\ spent.requests + spent.calls + spent.restarts < MaxSpent
    /\ spent' = [spent EXCEPT ![what] = @ + 1]

----------------------------------------------------------------------------
(* CloudGate.block for every source of S; calls in flight become late.     *)
Block(S, why) ==
    /\ reason' = [s \in Sources |-> IF s \in S THEN why ELSE reason[s]]
    /\ gen' = [s \in Sources |-> IF s \in S THEN gen[s] + 1 ELSE gen[s]]

MarkLate(c, S) ==
    [p \in Sources \X Slots |->
        IF p[1] \in S /\ c[p].at \notin {"idle", "applied"}
        THEN [c[p] EXCEPT !.late = TRUE] ELSE c[p]]

Cancelled(c, S) ==
    [p \in Sources \X Slots |->
        IF p[1] \in S /\ c[p].at = "running"
        THEN [c[p] EXCEPT !.at = "cancelling"] ELSE c[p]]

(* CloudGate.call up to its await: the inner task is created.              *)
Begun(c, s, k) ==
    [c EXCEPT ![<<s, k>>] = [at |-> "running", gen |-> gen[s], late |-> FALSE]]

\* Mutant of Begin: the gate is not looked at.
BeginUngated(s, k) ==
    /\ s \in Configured /\ k # Connect
    /\ call[<<s, k>>].at \in {"idle", "applied"}
    /\ Spend("calls", MaxCalls)
    /\ call' = Begun(call, s, k)
    /\ UNCHANGED <<gates, lock, stored, connections, life, promised>>

Begin(s, k) ==
    /\ s \in Configured /\ k # Connect
    /\ call[<<s, k>>].at \in {"idle", "applied"}
    /\ reason[s] = Open
    /\ Spend("calls", MaxCalls)
    /\ call' = Begun(call, s, k)
    /\ UNCHANGED <<gates, lock, stored, connections, life, promised>>

(* The inner task ends by itself.  It may have opened the connection, even *)
(* if it fails: MyLgMqtt.async_start does, and WideqClient connects inside *)
(* whatever call needs it.                                                 *)
InnerEnds(s, k) ==
    /\ call[<<s, k>>].at = "running"
    /\ \E how \in Outcomes : call' = [call EXCEPT ![<<s, k>>].at = how]
    /\ \E up \in BOOLEAN : link' = [link EXCEPT ![s] = @ \/ up]
    /\ UNCHANGED <<gates, lock, stored, starts, starting, life, promised, spent>>

InnerCancelled(s, k) ==
    /\ call[<<s, k>>].at = "cancelling"
    /\ call' = [call EXCEPT ![<<s, k>>].at = "cancelled"]
    /\ \E up \in BOOLEAN : link' = [link EXCEPT ![s] = @ \/ up]
    /\ UNCHANGED <<gates, lock, stored, starts, starting, life, promised, spent>>

(* The caller is cancelled while it waits for the inner task.              *)
CallerCancelled(s, k) ==
    /\ k # Connect
    /\ call[<<s, k>>].at = "running"
    /\ call' = [call EXCEPT ![<<s, k>>].at = "cancelling"]
    /\ UNCHANGED <<gates, lock, stored, connections, life, promised, spent>>

Finished(s, k) ==
    starting' = IF k = Connect THEN [starting EXCEPT ![s] = "no"] ELSE starting

\* Mutant of Deliver: the generation is not compared.
DeliverUnfenced(s, k) ==
    /\ call[<<s, k>>].at = "ok"
    /\ reason[s] = Open
    /\ call' = [call EXCEPT ![<<s, k>>] = [@ EXCEPT !.at = "applied"]]
    /\ Finished(s, k)
    /\ UNCHANGED <<gates, lock, stored, starts, link, life, promised, spent>>

(* The caller resumes with a result it may use.                            *)
Deliver(s, k) ==
    /\ call[<<s, k>>].at = "ok"
    /\ reason[s] = Open
    /\ gen[s] = call[<<s, k>>].gen
    /\ call' = [call EXCEPT ![<<s, k>>] = [@ EXCEPT !.at = "applied"]]
    /\ Finished(s, k)
    /\ UNCHANGED <<gates, lock, stored, starts, link, life, promised, spent>>

(* The caller resumes with CloudPausedError, CancelledError or the inner   *)
(* task's own error, none of them an account failure.                      *)
Refuse(s, k) ==
    /\ \/ call[<<s, k>>].at \in {"failed", "cancelled"}
       \/ /\ call[<<s, k>>].at = "ok"
          /\ reason[s] # Open \/ gen[s] # call[<<s, k>>].gen
    /\ call' = [call EXCEPT ![<<s, k>>] = Idle]
    /\ Finished(s, k)
    /\ UNCHANGED <<gates, lock, stored, starts, link, life, promised, spent>>

(* The caller resumes with an account failure: the gate shuts at once, and *)
(* _failed leaves the rest to a task of its own.                           *)
AccountFailure(s, k) ==
    /\ call[<<s, k>>].at = "authFailed"
    /\ Block({s}, "authentication")
    /\ call' = MarkLate([call EXCEPT ![<<s, k>>] = Idle], {s})
    /\ queue' = IF closed THEN queue
                ELSE Append(queue, [kind |-> "pause", sources |-> <<s>>,
                                    why |-> "authentication", user |-> FALSE])
    /\ Finished(s, k)
    /\ UNCHANGED <<phase, todo, woken, snapshot, stored, starts, link, life, promised, spent>>

----------------------------------------------------------------------------
(* The first job in line holds the lock, is of this kind and got this far; *)
(* a task of the runtime goes no further once async_close cancelled it.    *)
Holds(kind, where) ==
    /\ queue # <<>>
    /\ job.kind = kind
    /\ phase = where
    /\ job.user \/ ~closed

(* The cloud_connection service awaits async_pause or async_resume of the  *)
(* entry's runtime, one that is being unloaded included.                   *)
Request(kind, sources, why) ==
    /\ Spend("requests", MaxRequests)
    /\ queue' = Append(queue, [kind |-> kind, sources |-> sources,
                               why |-> why, user |-> TRUE])
    /\ UNCHANGED <<gates, call, phase, todo, woken, snapshot, stored, connections,
                   life, promised>>

(* async_pause gets the lock: the gates shut and the save begins.          *)
EnterPause ==
    /\ Holds("pause", "waiting")
    /\ Block(Of(job.sources), job.why)
    /\ call' = MarkLate(call, Of(job.sources))
    /\ snapshot' = reason'
    /\ todo' = job.sources
    /\ phase' = "saving"
    /\ UNCHANGED <<queue, woken, stored, connections, life, promised, spent>>

(* async_resume gets the lock: sources that are shut open, and the save    *)
(* begins.                                                                 *)
EnterResume ==
    /\ Holds("resume", "waiting")
    /\ woken' = {s \in Of(job.sources) : reason[s] # Open}
    /\ reason' = [s \in Sources |-> IF s \in woken' THEN Open ELSE reason[s]]
    /\ gen' = [s \in Sources |-> IF s \in woken' THEN gen[s] + 1 ELSE gen[s]]
    /\ promised' = [s \in Sources |-> promised[s] /\ s \notin woken']
    /\ snapshot' = reason'
    /\ phase' = "saving"
    /\ UNCHANGED <<call, queue, todo, stored, connections, life, spent>>

(* The lock's holder returns and the lock goes to the next in line.        *)
Leave ==
    /\ queue' = Tail(queue)
    /\ phase' = "waiting"
    /\ todo' = <<>>
    /\ woken' = {}

(* The holder's save reaches the store.                                    *)
Saves == disk' = snapshot /\ overtaken' = FALSE

\* Mutant of SavedPause: nothing is stored.
SavedPauseUnsaved ==
    /\ Holds("pause", "saving")
    /\ call' = Cancelled(call, {Head(todo)})
    /\ phase' = "draining"
    /\ UNCHANGED <<gates, queue, todo, woken, snapshot, stored, connections, life,
                   promised, spent>>

\* Mutant of SavedPause: the calls in flight are not cancelled.
SavedPauseUncancelled ==
    /\ Holds("pause", "saving")
    /\ Saves
    /\ phase' = "draining"
    /\ UNCHANGED <<gates, call, queue, todo, woken, snapshot, connections, life,
                   promised, spent>>

(* async_pause has stored the reasons and turns to its first source.       *)
SavedPause ==
    /\ Holds("pause", "saving")
    /\ Saves
    /\ call' = Cancelled(call, {Head(todo)})
    /\ phase' = "draining"
    /\ UNCHANGED <<gates, queue, todo, woken, snapshot, connections, life, promised, spent>>

(* async_resume has stored the reasons, and starts its sources.            *)
SavedResume ==
    /\ Holds("resume", "saving")
    /\ Saves
    /\ starts' = [s \in Sources |->
                     IF s \in woken \cap Configured /\ ~closed THEN starts[s] + 1 ELSE starts[s]]
    /\ Leave
    /\ UNCHANGED <<gates, call, snapshot, starting, link, life, promised, spent>>

(* cancel_pending is over: every call of the source has left gate.tasks.   *)
(* The connection begins to close.                                         *)
Drained ==
    /\ Holds("pause", "draining")
    /\ Pending(Head(todo)) = {}
    /\ phase' = "unlinking"
    /\ UNCHANGED <<gates, call, queue, todo, woken, snapshot, stored, connections,
                   life, promised, spent>>

(* The source's connection is closed: on to the next source.               *)
Unlinked ==
    /\ Holds("pause", "unlinking")
    /\ Len(todo) > 1
    /\ link' = [link EXCEPT ![Head(todo)] = FALSE]
    /\ todo' = Tail(todo)
    /\ call' = Cancelled(call, {Head(Tail(todo))})
    /\ phase' = "draining"
    /\ UNCHANGED <<gates, queue, woken, snapshot, stored, starts, starting, life,
                   promised, spent>>

(* The last connection is closed: the pause is acknowledged.               *)
Acknowledge ==
    /\ Holds("pause", "unlinking")
    /\ Len(todo) = 1
    /\ link' = [link EXCEPT ![Head(todo)] = FALSE]
    /\ promised' = [s \in Sources |-> promised[s] \/ s \in Of(job.sources)]
    /\ Leave
    /\ UNCHANGED <<gates, call, snapshot, stored, starts, starting, life, spent>>

(* A save under way when its job ends has reached the store, or not.       *)
MayHaveStored ==
    \/ UNCHANGED stored
    \/ phase = "saving" /\ Saves

(* A job is cancelled, before it has the lock or in it: its service call   *)
(* is, or it is a task of the runtime, and async_close cancelled that.     *)
Abandon(i) ==
    /\ queue' = RemoveAt(queue, i)
    /\ \/ /\ i = 1
          /\ phase' = "waiting" /\ todo' = <<>> /\ woken' = {}
          /\ MayHaveStored
       \/ /\ i > 1
          /\ UNCHANGED <<phase, todo, woken, stored>>
    /\ UNCHANGED <<gates, call, snapshot, connections, life, promised, spent>>

UserCancels(i) == queue[i].user /\ Abandon(i)
ClosingCancels(i) == closed /\ ~queue[i].user /\ Abandon(i)

----------------------------------------------------------------------------
(* start_cloud gets the source's lock; it does nothing for a source that   *)
(* is shut.  (Nor for one the entry has no account for: no task of that is *)
(* counted in starts.)                                                     *)
StartEnter(s) ==
    /\ starts[s] > 0 /\ starting[s] = "no"
    /\ starts' = [starts EXCEPT ![s] = @ - 1]
    /\ starting' = [starting EXCEPT ![s] = IF reason[s] = Open THEN "preparing" ELSE "no"]
    /\ UNCHANGED <<gates, call, lock, stored, link, life, promised, spent>>

\* Mutant of StartConnect: async_start outside the gate.
StartConnectUngated(s) ==
    /\ starting[s] = "preparing"
    /\ link' = [link EXCEPT ![s] = FALSE]
    /\ starting' = [starting EXCEPT ![s] = "connecting"]
    /\ call' = Begun(call, s, Connect)
    /\ UNCHANGED <<gates, lock, stored, starts, life, promised, spent>>

(* The lists are read and the previous connection is shut down; the gated  *)
(* connecting call is next, and a gate that has shut since refuses it.     *)
StartConnect(s) ==
    /\ starting[s] = "preparing"
    /\ link' = [link EXCEPT ![s] = FALSE]
    /\ \/ /\ reason[s] = Open
          /\ starting' = [starting EXCEPT ![s] = "connecting"]
          /\ call' = Begun(call, s, Connect)
       \/ /\ reason[s] # Open
          /\ starting' = [starting EXCEPT ![s] = "no"]
          /\ UNCHANGED call
    /\ UNCHANGED <<gates, lock, stored, starts, life, promised, spent>>

StartFails(s) ==
    /\ starting[s] = "preparing"
    /\ starting' = [starting EXCEPT ![s] = "no"]
    /\ UNCHANGED <<gates, call, lock, stored, starts, link, life, promised, spent>>

----------------------------------------------------------------------------
(* async_close: the runtime's own tasks are cancelled, then every call.    *)
Close ==
    /\ ~closed
    /\ closed' = TRUE
    /\ starts' = [s \in Sources |-> 0]
    /\ starting' = [s \in Sources |-> IF starting[s] = "connecting"
                                      THEN "connecting" ELSE "no"]
    /\ call' = Cancelled(call, Sources)
    /\ UNCHANGED <<gates, lock, stored, link, left, promised, spent>>

(* What async_close could not stop: pauses and resumes that the service    *)
(* awaits on a runtime the entry has replaced.  They go on under the old   *)
(* runtime's lock and on its gates, which nothing else looks at any more,  *)
(* and they save to the same store.                                        *)
Left(n) == Head(left[n].queue)

LeftEnters(n) ==
    /\ left[n].queue # <<>> /\ left[n].phase = "waiting"
    /\ LET why == IF Left(n).kind = "pause" THEN Left(n).why ELSE Open
           shut == [s \in Sources |-> IF s \in Of(Left(n).sources) THEN why
                                      ELSE left[n].reason[s]]
       IN  left' = [left EXCEPT ![n] = [queue |-> left[n].queue, phase |-> "saving",
                                        reason |-> shut, snapshot |-> shut]]
    /\ UNCHANGED <<gates, call, lock, stored, connections, closed, promised, spent>>

LeftSaves(n) ==
    /\ left[n].queue # <<>> /\ left[n].phase = "saving"
    /\ disk' = left[n].snapshot /\ overtaken' = TRUE

LeftSaved(n) ==
    /\ LeftSaves(n)
    /\ left' = [left EXCEPT ![n].phase = "unlinking"]
    /\ UNCHANGED <<gates, call, lock, connections, closed, promised, spent>>

(* It returns: a pause is acknowledged that the new gates know nothing of, *)
(* a resume starts no source of a closed runtime.                          *)
LeftReturns(n) ==
    /\ left[n].queue # <<>> /\ left[n].phase \in {"draining", "unlinking"}
    /\ left' = [left EXCEPT ![n] =
                  Remains(Tail(left[n].queue), "waiting", left[n].reason, left[n].snapshot)]
    /\ UNCHANGED <<gates, call, lock, stored, connections, closed, promised, spent>>

LeftCancelled(n, i) ==
    /\ \/ i = 1 /\ LeftSaves(n)
       \/ UNCHANGED stored
    /\ left' = [left EXCEPT ![n] =
                  Remains(RemoveAt(left[n].queue, i),
                          IF i = 1 THEN "waiting" ELSE left[n].phase,
                          left[n].reason, left[n].snapshot)]
    /\ UNCHANGED <<gates, call, lock, connections, closed, promised, spent>>

(* A new runtime restores its gates from the store, and setup starts the   *)
(* sources anew.                                                           *)
Restart ==
    /\ Spend("restarts", MaxRestarts)
    /\ reason' = disk'
    /\ gen' = RestoredGen(disk')
    /\ call' = NoCalls
    /\ queue' = <<>> /\ phase' = "waiting" /\ todo' = <<>> /\ woken' = {}
    /\ snapshot' = disk'
    /\ starts' = OneStart /\ starting' = NotStarting
    /\ link' = NoLink
    /\ closed' = FALSE
    /\ overtaken' = FALSE
    /\ promised' = [s \in Sources |-> promised[s] /\ disk'[s] # Open]

(* The entry is set up again after an unload, which awaited the end of the *)
(* runtime's own tasks; the service's jobs are left to themselves.         *)
Reload ==
    /\ closed
    /\ \A i \in 1 .. Len(queue) : queue[i].user
    /\ disk' = disk
    /\ Restart
    /\ left' = [left EXCEPT ![spent.restarts + 1] =
                              Remains(queue, phase, reason, snapshot)]

(* Home Assistant dies and comes back, at any moment; of each save that is *)
(* under way it is open whether it reached the store.                      *)
Crash ==
    /\ \/ disk' = disk
       \/ phase = "saving" /\ disk' = snapshot
       \/ \E n \in 1 .. MaxRestarts :
             left[n].queue # <<>> /\ left[n].phase = "saving" /\ disk' = left[n].snapshot
    /\ left' = Nobody
    /\ Restart

LeftStep(n) == LeftEnters(n) \/ LeftSaved(n) \/ LeftReturns(n)

CallStep(s, k) ==
    \/ Begin(s, k)
    \/ InnerEnds(s, k)
    \/ InnerCancelled(s, k)
    \/ CallerCancelled(s, k)
    \/ Deliver(s, k)
    \/ Refuse(s, k)
    \/ AccountFailure(s, k)

JobStep ==
    \/ EnterPause
    \/ EnterResume
    \/ SavedPause
    \/ SavedResume
    \/ Drained
    \/ Unlinked
    \/ Acknowledge

Next ==
    \/ \E s \in Sources, k \in Slots : CallStep(s, k)
    \/ \E t \in Targets :
          \/ \E why \in Reasons : Request("pause", t, why)
          \/ Request("resume", t, "authentication")
    \/ JobStep
    \/ \E i \in 1 .. Len(queue) : UserCancels(i) \/ ClosingCancels(i)
    \/ \E s \in Sources : StartEnter(s) \/ StartConnect(s) \/ StartFails(s)
    \/ \E n \in 1 .. MaxRestarts :
          LeftStep(n) \/ \E i \in 1 .. Len(left[n].queue) : LeftCancelled(n, i)
    \/ Close
    \/ Reload
    \/ Crash

Spec == Init /\ [][Next]_vars

(* The event loop runs what is ready, storage answers, and a cancelled     *)
(* request ends.  Nothing is assumed of requests, answers or new calls.    *)
Fairness ==
    /\ WF_vars(JobStep)
    /\ \A n \in 1 .. MaxRestarts : WF_vars(LeftStep(n))
    /\ WF_vars(\E i \in 1 .. Len(queue) : ClosingCancels(i))
    /\ \A s \in Sources, k \in Slots :
          WF_vars(InnerCancelled(s, k) \/ Deliver(s, k) \/ Refuse(s, k)
                    \/ AccountFailure(s, k))

FairSpec == Spec /\ Fairness

----------------------------------------------------------------------------
(* Every variable has its type.                                            *)
TypeOK ==
    /\ reason \in [Sources -> Reasons \cup {Open}]
    /\ gen \in [Sources -> Nat]
    /\ call \in [Sources \X Slots ->
                   [at : {"idle", "running", "cancelling", "cancelled", "applied"}
                            \cup Outcomes,
                    gen : Nat, late : BOOLEAN]]
    /\ queue \in Seq(Jobs)
    /\ phase \in Phases
    /\ todo \in Seq(Sources)
    /\ woken \in SUBSET Sources
    /\ snapshot \in [Sources -> Reasons \cup {Open}]
    /\ disk \in [Sources -> Reasons \cup {Open}] /\ overtaken \in BOOLEAN
    /\ starts \in [Sources -> Nat]
    /\ starting \in [Sources -> {"no", "preparing", "connecting"}]
    /\ link \in [Sources -> BOOLEAN]
    /\ closed \in BOOLEAN
    /\ left \in [1 .. MaxRestarts -> Lefts]
    /\ promised \in [Sources -> BOOLEAN]
    /\ spent \in [{"requests", "calls", "restarts"} -> Nat]

(* A call never hands its caller a result if its source was shut at any    *)
(* moment since the call began, even if it has been opened again since     *)
(* (the late-answer check of CloudGate.call).                              *)
NoLateResult ==
    \A s \in Sources, k \in Slots : call[<<s, k>>].at = "applied" => ~call[<<s, k>>].late

(* While a source is under an acknowledged protection nothing of it is in  *)
(* flight, whatever was running, starting or queued when it was paused.    *)
ProtectedHasNoTraffic ==
    \A s \in Sources : promised[s] => Pending(s) = {}

(* "Persist before acknowledging": the store holds every acknowledged      *)
(* protection, also while another job is saving over it, unless a job left *)
(* over from before a reload has written the store last.                   *)
ProtectionIsStored ==
    \A s \in Sources :
        promised[s] => /\ disk[s] # Open \/ overtaken
                       /\ phase = "saving" => snapshot[s] # Open

(* The protection of a source, seen from outside, is CloudProtection: an   *)
(* acknowledged pause holds until it is resumed, and it outlives crashes   *)
(* and reloads unless a job that outlived a reload wrote the store last.   *)
Protection == INSTANCE CloudProtection WITH
    shut <- {s \in Sources : reason[s] # Open},
    promised <- {s \in Sources : promised[s]},
    linked <- {s \in Sources : link[s]},
    behind <- \E n \in 1 .. MaxRestarts : left[n].queue # <<>>

ImplementsProtection == Protection!Spec

(* Pauses and resumes, those left over from before a reload included,      *)
(* never wait for each other, or for the calls they cancel, for ever.      *)
JobsDrain ==
    []<>(queue = <<>> /\ \A n \in 1 .. MaxRestarts : left[n].queue = <<>>)

=============================================================================
