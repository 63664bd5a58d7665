---------------------------- MODULE FeatureRuntime ----------------------------
(***************************************************************************)
(* The running feature menu of an entry (feature_runtime.py) and the       *)
(* watcher that keeps it at the content of the database (__init__.py):     *)
(*  - check: read the token; when it differs from the remembered one,      *)
(*    refresh, and remember the token of the copy the refresh loaded;      *)
(*  - async_refresh: load, hand providers and contracts the new            *)
(*    definitions and build every entity (all of it undone on an error),   *)
(*    then, platform by platform, remove what goes and add what comes;     *)
(*  - async_discover: add what a failed first read had left out;           *)
(*  - async_unload, and close() at Home Assistant's stop, which takes no   *)
(*    lock.                                                                *)
(* Locals of the refresh are in "menu"; the runtime's own record of what   *)
(* runs, entities and definitions, is "known".                             *)
(***************************************************************************)
EXTENDS FeatureDatabase, Sequences

CONSTANTS
    Keys,        \* unique IDs of entities
    Definitions, \* what can differ between two entities of one ID
    Absent,
    Menu,        \* Menu[c][k]: the definition content c gives k, or Absent
    Broken,      \* contents the providers or factories reject
    Late,        \* entities whose factory waits for the appliance's first status
    Platforms,   \* the platforms, in the order they registered
    PlatformOf   \* PlatformOf[k]: the index of k's platform

ASSUME MenuAssumption ==
    /\ Absent \notin Definitions
    /\ Menu \in [Contents -> [Keys -> Definitions \union {Absent}]]
    /\ Broken \subseteq Contents \ {FirstContent} /\ Late \subseteq Keys
    /\ Platforms \in Seq({Platforms[i] : i \in DOMAIN Platforms})
    /\ PlatformOf \in [Keys -> DOMAIN Platforms]

Parts == {"primary", "reads", "controls", "features"}

VARIABLES
    sequence,    \* the token the watcher remembers
    parts,       \* the content each provider and contract holds
    known,       \* _platforms: definition of each entity, Absent when there is none
    live,        \* the platforms' own entities
    lock,        \* who holds FeatureEntityRuntime._lock
    menu,        \* the refresh: content loaded, entities built, platform under way
    startup,     \* the late appliance: ready, what the listener observed, discoveries due
    entry,       \* _closed, whether _platforms is emptied, the watcher's stopped
    unloaded,    \* history: async_unload succeeded
    skewed       \* history: why what runs may differ from the remembered content

menuVars == <<sequence, parts, known, live, lock, menu, skewed>>
lifeVars == <<startup, entry, unloaded>>
runtimeVars == <<menuVars, lifeVars>>
vars == <<dbVars, runtimeVars>>

NoMenu == [content |-> NoToken, next |-> [k \in Keys |-> Absent], at |-> 0]
Nothing == [k \in Keys |-> Absent]

\* the factories: they read the contracts and the appliance's startup state
Build(c, isReady) == [k \in Keys |-> IF k \in Late /\ ~isReady THEN Absent ELSE Menu[c][k]]

\* the token is taken before the providers load: an edit may fall between
Init ==
    /\ InitDatabase
    /\ sequence \in Contents
    /\ parts = [p \in Parts |-> FirstContent]
    /\ \E isReady \in BOOLEAN :
           /\ startup = [ready |-> isReady, observed |-> isReady, due |-> 0]
           /\ live = Build(FirstContent, isReady)
    /\ known = live
    /\ lock = "free" /\ menu = NoMenu
    /\ entry = [closed |-> FALSE, cleared |-> FALSE, stopped |-> FALSE]
    /\ unloaded = FALSE
    /\ skewed = IF sequence # FirstContent THEN {"start"} ELSE {}

(***************************************************************************)
(* The watcher.                                                            *)
(***************************************************************************)
Check ==
    /\ reading.step = "idle" /\ ~entry.stopped
    /\ Files
    /\ UNCHANGED runtimeVars

CheckStep == ReadStep /\ UNCHANGED runtimeVars

CheckFails == ReadFails /\ UNCHANGED runtimeVars

EndCheck == reading' = Idle /\ during' = {} /\ UNCHANGED <<db, versions, cache>>
Step(name) ==
    /\ reading' = [Idle EXCEPT !.step = name]
    /\ during' = {}
    /\ UNCHANGED <<db, versions, cache, faults>>

Same ==
    /\ reading.step = "answer" /\ (entry.stopped \/ reading.token = sequence)
    /\ EndCheck
    /\ UNCHANGED <<faults, runtimeVars>>

Differs ==
    /\ reading.step = "answer" /\ ~entry.stopped /\ reading.token # sequence
    /\ Step("refresh")
    /\ UNCHANGED runtimeVars

(***************************************************************************)
(* async_refresh.                                                          *)
(***************************************************************************)
Raise == lock' = "free" /\ menu' = NoMenu /\ EndCheck

Waits == reading.step = "refresh" /\ lock = "free"

Refused ==      \* RuntimeError: the runtime is unloading
    /\ Waits /\ entry.closed
    /\ EndCheck
    /\ UNCHANGED <<faults, runtimeVars>>

Load ==         \* one SQLite view, copied, parsed and tokenised in the executor
    /\ Waits /\ ~entry.closed
    /\ lock' = "refresh"
    /\ menu' = [NoMenu EXCEPT !.content = db.content]
    /\ Step("apply")
    /\ UNCHANGED <<sequence, parts, known, live, skewed, lifeVars>>

LoadFails ==
    /\ Waits /\ ~entry.closed /\ faults < MaxFaults
    /\ faults' = faults + 1
    /\ EndCheck
    /\ UNCHANGED runtimeVars

\* mutant: the read providers keep the profiles of the rejected content
RestoredButReads == Parts \ {"reads"}
\* what an error while applying puts back
Restored == Parts

Reject ==       \* a profile is missing, or a factory raises: nothing of it remains
    /\ reading.step = "apply" /\ (entry.closed \/ menu.content \in Broken)
    /\ parts' = [p \in Parts |-> IF entry.closed \/ p \in Restored THEN parts[p] ELSE menu.content]
    /\ Raise
    /\ UNCHANGED <<faults, sequence, known, live, skewed, lifeVars>>

Apply ==        \* no await: the profiles, the contracts and all factories
    /\ reading.step = "apply" /\ ~entry.closed /\ menu.content \notin Broken
    /\ parts' = [p \in Parts |-> menu.content]
    /\ menu' = [menu EXCEPT !.next = Build(menu.content, startup.ready), !.at = 1]
    /\ Step(IF entry.cleared THEN "done" ELSE "platforms")
    /\ UNCHANGED <<sequence, known, live, lock, skewed, lifeVars>>

OfPlatform == {k \in Keys : PlatformOf[k] = menu.at}
\* mutant: every entity of the platform is rebuilt
RetiresAll(was, next) == was # Absent
Retires(was, next) == was # Absent /\ next # was
Retiring == {k \in OfPlatform : Retires(known[k], menu.next[k])}
Missing == {k \in OfPlatform : known[k] = Absent /\ menu.next[k] # Absent}

\* the loop's own check, before each platform
Interrupted ==
    /\ reading.step = "platforms" /\ entry.closed
    /\ skewed' = skewed \union {"half-way"}
    /\ Raise
    /\ UNCHANGED <<faults, sequence, parts, known, live, lifeVars>>

\* a platform once begun is finished, whatever closes meanwhile
OnPlatform == reading.step = "inside" \/ (reading.step = "platforms" /\ ~entry.closed)

Remove(k) ==
    /\ OnPlatform /\ k \in Retiring
    /\ live' = [live EXCEPT ![k] = Absent]
    /\ known' = [known EXCEPT ![k] = Absent]
    /\ Step("inside")
    /\ UNCHANGED <<sequence, parts, lock, menu, skewed, lifeVars>>

Adopted(f) == [k \in Keys |-> IF k \in Missing THEN menu.next[k] ELSE f[k]]
AddPlatform ==
    /\ OnPlatform /\ Retiring = {}
    /\ live' = Adopted(live) /\ known' = Adopted(known)
    /\ menu' = [menu EXCEPT !.at = @ + 1]
    /\ Step(IF menu.at = Len(Platforms) THEN "done" ELSE "platforms")
    /\ UNCHANGED <<sequence, parts, lock, skewed, lifeVars>>

\* a removal or an addition raises: what is done stays done, the token stays old
PlatformFails ==
    /\ OnPlatform /\ faults < MaxFaults /\ Retiring \union Missing # {}
    /\ faults' = faults + 1 /\ skewed' = skewed \union {"half-way"}
    /\ Raise
    /\ UNCHANGED <<sequence, parts, known, live, lifeVars>>

\* mutant: the token is read again once everything is applied
RememberedNow == db.content
\* the token of the copy that was loaded, not of what the path has become
Remembered == menu.content

Finish ==
    /\ reading.step = "done"
    /\ sequence' = Remembered
    /\ skewed' = {}
    /\ Raise
    /\ UNCHANGED <<faults, parts, known, live, lifeVars>>

(***************************************************************************)
(* Late startup.  A coordinator tells its listeners at every update.       *)
(***************************************************************************)
BecomesReady ==
    /\ ~startup.ready
    /\ startup' = [startup EXCEPT !.ready = TRUE]
    /\ UNCHANGED <<dbVars, menuVars, entry, unloaded>>

Recovered ==
    /\ ~entry.closed /\ startup.ready # startup.observed
    /\ startup' = [startup EXCEPT !.observed = startup.ready, !.due = @ + 1]
    /\ UNCHANGED <<dbVars, menuVars, entry, unloaded>>

Due == startup.due > 0 /\ lock = "free"
Discovered == [startup EXCEPT !.due = @ - 1]
\* mutant: nothing is added after the first setup
CompletedNot(f) == f
Completed(f) ==
    LET built == Build(parts["controls"], startup.ready)
    IN  [k \in Keys |-> IF known[k] = Absent THEN built[k] ELSE f[k]]

\* under the lock; the awaited additions are one step here
Discover ==
    /\ Due
    /\ startup' = Discovered
    /\ IF entry.closed \/ entry.cleared THEN UNCHANGED <<known, live>>
       ELSE live' = Completed(live) /\ known' = Completed(known)
    /\ UNCHANGED <<dbVars, sequence, parts, lock, menu, skewed, entry, unloaded>>

DiscoverFails ==    \* the task ends; its listener does not run it again
    /\ Due /\ ~entry.closed /\ ~entry.cleared /\ faults < MaxFaults
    /\ startup' = Discovered
    /\ faults' = faults + 1 /\ skewed' = skewed \union {"discovery"}
    /\ UNCHANGED <<db, versions, cache, reading, during, sequence, parts, known, live, lock, menu, entry, unloaded>>

(***************************************************************************)
(* Unload and stop.                                                        *)
(***************************************************************************)
Close(life) == [life EXCEPT !.closed = TRUE, !.cleared = TRUE]

\* mutant: unloading does not wait for an edit under way
MayUnloadAnyTime == lock # "unload"
\* async_unload serialises with edits
MayUnload == lock = "free"

Unload ==
    /\ MayUnload /\ ~unloaded
    /\ lock' = "unload"
    /\ entry' = [entry EXCEPT !.closed = TRUE]
    /\ UNCHANGED <<dbVars, sequence, parts, known, live, menu, skewed, startup, unloaded>>

Unloaded ==
    /\ lock = "unload" /\ lock' = "free"
    /\ entry' = Close(entry) /\ startup' = [startup EXCEPT !.due = 0]
    /\ live' = [k \in Keys |-> Absent] /\ unloaded' = TRUE
    /\ UNCHANGED <<dbVars, sequence, parts, known, menu, skewed>>

UnloadRefused ==
    /\ lock = "unload" /\ lock' = "free"
    /\ entry' = [entry EXCEPT !.closed = FALSE]
    /\ UNCHANGED <<dbVars, sequence, parts, known, live, menu, skewed, startup, unloaded>>

StopRuntime ==  \* close() at Home Assistant's stop, without the lock
    /\ ~entry.cleared
    /\ entry' = Close(entry) /\ startup' = [startup EXCEPT !.due = 0]
    /\ UNCHANGED <<dbVars, menuVars, unloaded>>

StopWatcher ==
    /\ ~entry.stopped /\ entry.cleared
    /\ entry' = [entry EXCEPT !.stopped = TRUE]
    /\ UNCHANGED <<dbVars, menuVars, startup, unloaded>>

Edit == (\E c \in Contents : Commit(c) \/ ReplaceFile(c)) /\ UNCHANGED runtimeVars

Refresh ==
    \/ Same \/ Differs \/ Refused \/ Load \/ Reject \/ Apply \/ Interrupted
    \/ (\E k \in Keys : Remove(k)) \/ AddPlatform \/ Finish

Next ==
    \/ Edit \/ Check \/ CheckStep \/ CheckFails
    \/ Refresh \/ LoadFails \/ PlatformFails
    \/ BecomesReady \/ Recovered \/ Discover \/ DiscoverFails
    \/ Unload \/ Unloaded \/ UnloadRefused \/ StopRuntime \/ StopWatcher

\* the interval fires while the entry is loaded, awaited calls end, the lock is first come first served
Fairness ==
    /\ WF_vars(Check) /\ WF_vars(CheckStep \/ Refresh)
    /\ WF_vars(Recovered) /\ SF_vars(Discover)

Spec == Init /\ [][Next]_vars /\ Fairness

(***************************************************************************)
(* Providers, contracts and entity factories hold one content, whatever    *)
(* failed while another was being applied.  What the watcher remembers is  *)
(* what runs: the contracts hold it and each platform has exactly its      *)
(* entities, but for those the appliance's first status is still awaited   *)
(* for.  Edits that land while one is applied, and discoveries between,    *)
(* failed ones included, do not change that; a failure half-way does, and  *)
(* so does an edit between the token and the providers of the start, until *)
(* the next refresh.  Once the platforms are unloaded nothing is added to  *)
(* them, whatever was under way or waiting.                                *)
(***************************************************************************)
RememberedRuns ==
    /\ \A p, q \in Parts : parts[p] = parts[q]
    /\ lock = "free" /\ skewed \subseteq {"discovery"} /\ ~entry.cleared =>
          /\ parts["controls"] = sequence
          /\ \A k \in Keys : live[k] = Menu[sequence][k] \/ (k \in Late /\ live[k] = Absent)
    /\ unloaded => \A k \in Keys : live[k] = Absent

(* What the watcher is told, and what then runs, is the content there is.  *)
MenuIsCurrent == AnswerIsCurrent /\ RememberedRuns

(***************************************************************************)
(* An edit takes away only entities it removes or redefines: what runs     *)
(* under the definition the new content gives goes on running.             *)
(***************************************************************************)
KeepsRunning ==
    [][\A k \in Keys :
          lock = "refresh" /\ live[k] # Absent /\ live'[k] = Absent => menu.next[k] # live[k]]_vars

(***************************************************************************)
(* A content that stays, and is acceptable, comes to run without a reload  *)
(* and with every entity, the late ones included, once reads and platforms *)
(* stop failing, with two exceptions.  The watcher believes it runs when   *)
(* the database has returned to the token it remembers: after a failure    *)
(* half-way, which leaves a mixture, and after a start whose token was read*)
(* before, and whose providers after, an edit, which leaves the start's    *)
(* content whole.  And the late entities, and only they, may stay missing  *)
(* once a discovery has failed, until the next refresh.                    *)
(***************************************************************************)
Believed(c) ==
    /\ sequence = c /\ skewed \intersect {"start", "half-way"} # {}
    /\ "half-way" \notin skewed => parts["controls"] = FirstContent

EditsAreApplied ==
    \A c \in Contents \ Broken :
        <>[](db.content = c /\ ~entry.closed /\ ~entry.cleared)
            => <>[](\/ Believed(c)
                    \/ \A k \in Keys :
                          \/ live[k] = Build(c, startup.ready)[k]
                          \/ "discovery" \in skewed /\ k \in Late /\ live[k] = Absent)
==============================================================================
