----------------------------- MODULE LocalSetup -----------------------------
(***************************************************************************)
(* The local side of an entry: _setup_local_shadows, _start_local_control, *)
(* _register_local_shutdown and _stop_local_shadows of __init__.py with the*)
(* start and the stop of the MQTT subscribers.  What is loaded may fail one*)
(* by one; so may the start of a binding; the entry may be unloaded, Home  *)
(* Assistant may stop, and both at once.                                   *)
(***************************************************************************)
EXTENDS FiniteSets

CONSTANTS Bindings,  \* the bindings there may be
          Entries    \* what an entry, its account and its options may be

ASSUME EntriesAssumption ==
    Entries \subseteq
        [bound : SUBSET Bindings,        \* the options' bindings,
         valid : BOOLEAN,                \*   and whether the options are a configuration
         database : BOOLEAN,             \* there is a feature database,
         edited : SUBSET Bindings,       \*   which has the model of a binding
         listed : SUBSET Bindings,       \* the account has the device, of that model
         tanks : SUBSET Bindings,        \* of the water-tank profile,
         dehumidifiers : SUBSET Bindings,
         identified : SUBSET Bindings,   \* with an identity proof,
         presence : SUBSET Bindings,     \*   and of a profile with presence
         readable : SUBSET Bindings,     \* the catalogue of full reads has the model
         metered : SUBSET Bindings,      \* the model has an energy ledger
         controls : SUBSET Bindings,     \* the contract has controls for the model
         scope : {"none", "listed", "stale", "invalid"},
         scoped : SUBSET Bindings,       \* the bindings an explicit scope lists
         wideq : BOOLEAN]                \* WideQ is set up

VARIABLES facts,   \* one of Entries
          at,      \* how far the set-up, or the entry, is
          loaded,  \* what was loaded
          todo,    \* the bindings still to be started
          line,    \* the subscriber of a binding
          feeds,   \* the providers of full reads and energy that are open
          data,    \* the maps of MyLgData
          router,  \* data.local_control
          stops,   \* what each _stop_local_shadows under way has in hand
          broken   \* history: what failed

setupVars == <<facts, at, loaded, todo, line, feeds, data, router, stops, broken>>
running == <<todo, line, feeds, data, router, stops>>

Kinds == {"reads", "energy"}
Stoppers == {"unload", "core"}
Empty == [providers |-> {}, subscribers |-> {}, reads |-> {}, energy |-> {}, eligible |-> {}]
Stop(now) == [doing |-> now, lines |-> {}, feeds |-> {}]

SetupInit ==
    /\ facts \in Entries
    /\ at = "options" /\ loaded = {} /\ todo = {}
    /\ line = [b \in Bindings |-> "none"] /\ feeds = {}
    /\ data = Empty /\ router = FALSE
    /\ stops = [s \in Stoppers |-> Stop("not yet")]
    /\ broken = {}

----------------------------------------------------------------------------
(* What is loaded, one after the other.                                    *)

ReadOptions ==
    /\ at = "options"
    /\ at' = IF ~facts.valid \/ facts.bound = {} THEN "control"
             ELSE IF facts.database THEN "database" ELSE "catalogue"
    /\ UNCHANGED <<facts, loaded, running, broken>>

(* The four loads of the feature database: without it there is no shadow.  *)
LoadDatabase ==
    /\ at = "database"
    /\ \/ at' = "catalogue" /\ UNCHANGED broken
       \/ at' = "control" /\ broken' = broken \cup {"database"}
    /\ UNCHANGED <<facts, loaded, running>>

(* Bindings whose model the database has need no pins.                     *)
Unpinned == facts.bound \subseteq (IF facts.database THEN facts.edited ELSE {})

AfterCatalogue == IF Unpinned THEN "contract" ELSE "authority"

\* Mutant of Follows: without the catalogue of full reads nothing is set up.
FollowsCatalogueOnly(part, works) ==
    CASE part = "catalogue" -> IF works THEN AfterCatalogue ELSE "control"
      [] part = "authority" -> "pins"
      [] part = "pins" -> "contract"
      [] part = "contract" -> IF works THEN "scope" ELSE "domain"
      [] part = "scope" -> IF works THEN "confirmed" ELSE "domain"
      [] part = "confirmed" -> "domain"
      [] part = "domain" -> IF works THEN "extension" ELSE "bindings"
      [] part = "extension" -> "bindings"

(* What follows a part, whether it could be loaded or not.                 *)
Follows(part, works) ==
    CASE part = "catalogue" -> AfterCatalogue
      [] part = "authority" -> "pins"
      [] part = "pins" -> "contract"
      [] part = "contract" -> IF works THEN "scope" ELSE "domain"
      [] part = "scope" -> IF works THEN "confirmed" ELSE "domain"
      [] part = "confirmed" -> "domain"
      [] part = "domain" -> IF works THEN "extension" ELSE "bindings"
      [] part = "extension" -> "bindings"

Parted == {"catalogue", "authority", "pins", "contract", "scope", "confirmed", "domain",
           "extension"}

ASSUME BindingsAssumption == Bindings \cap (Parted \cup {"database"}) = {}

\* Mutant of Eligible: a stale scope counts as none.
EligibleDespiteStale ==
    IF facts.scope = "listed" THEN facts.scoped \cap facts.controls
    ELSE facts.bound \cap facts.controls

(* resolve_local_control_binding_eligibility: without a scope every binding*)
(* whose model has controls; a stale one allows nothing.                   *)
Eligible ==
    CASE facts.scope = "none" -> facts.bound \cap facts.controls
      [] facts.scope = "listed" -> facts.scoped \cap facts.controls
      [] facts.scope = "stale" -> {}

(* A load that fails says so and leaves what it would have set as it was.  *)
LoadPart ==
    /\ at \in Parted
    /\ \E works \in BOOLEAN :
          /\ at = "scope" => works = (facts.scope # "invalid")
          /\ loaded' = IF works THEN loaded \cup {at} ELSE loaded
          /\ broken' = IF works THEN broken ELSE broken \cup {at}
          /\ at' = Follows(at, works)
          /\ data' = IF at = "scope" /\ works THEN [data EXCEPT !.eligible = Eligible] ELSE data
          /\ todo' = IF at' = "bindings" THEN facts.bound ELSE todo
    /\ UNCHANGED <<facts, line, feeds, router, stops>>

----------------------------------------------------------------------------
(* One binding after the other.                                            *)

Starting == {b \in Bindings : line[b] = "starting"}

(* The target is the device the binding names; a water tank needs WideQ.   *)
Fits(b) ==
    /\ b \in facts.listed
    /\ b \in facts.tanks => b \in facts.dehumidifiers /\ facts.wideq

Skip(b) ==
    /\ at = "bindings" /\ Starting = {} /\ b \in todo /\ ~Fits(b)
    /\ todo' = todo \ {b}
    /\ UNCHANGED <<facts, at, loaded, line, feeds, data, router, stops, broken>>

(* The providers of a binding: without an identity neither is made.        *)
Providers(b) ==
    {<<b, k>> : k \in {k \in Kinds :
        /\ b \in facts.identified
        /\ IF k = "energy" THEN b \in facts.metered
           ELSE "catalogue" \in loaded /\ b \in facts.readable /\ b \in facts.presence}}

Start(b) ==
    /\ at = "bindings" /\ Starting = {} /\ b \in todo /\ Fits(b)
    /\ todo' = todo \ {b}
    /\ line' = [line EXCEPT ![b] = "starting"]
    /\ feeds' = feeds \cup Providers(b)
    /\ UNCHANGED <<facts, at, loaded, data, router, stops, broken>>

Of(b, k) == IF <<b, k>> \in feeds THEN {b} ELSE {}

Started(b) ==
    /\ line[b] = "starting"
    /\ line' = [line EXCEPT ![b] = "running"]
    /\ data' = [data EXCEPT !.providers = @ \cup {b}, !.subscribers = @ \cup {b},
                            !.reads = @ \cup Of(b, "reads"), !.energy = @ \cup Of(b, "energy")]
    /\ UNCHANGED <<facts, at, loaded, todo, feeds, router, stops, broken>>

\* Mutant of StartFails: the read provider stays on its primary's listeners.
StartFailsOpen(b) ==
    /\ line[b] = "starting"
    /\ line' = [line EXCEPT ![b] = "stopped"]
    /\ feeds' = feeds \ {<<b, "energy">>}
    /\ broken' = broken \cup {b}
    /\ UNCHANGED <<facts, at, loaded, todo, data, router, stops>>

(* async_start cleans up behind itself; what was made for it is closed.    *)
StartFails(b) ==
    /\ line[b] = "starting"
    /\ line' = [line EXCEPT ![b] = "stopped"]
    /\ feeds' = feeds \ ({b} \X Kinds)
    /\ broken' = broken \cup {b}
    /\ UNCHANGED <<facts, at, loaded, todo, data, router, stops>>

AllStarted ==
    /\ at = "bindings" /\ Starting = {} /\ todo = {}
    /\ at' = "control"
    /\ UNCHANGED <<facts, loaded, running, broken>>

----------------------------------------------------------------------------
(* _start_local_control and what a request needs then.                     *)

StartControl ==
    /\ at = "control"
    /\ router' = (data.providers # {} /\ facts.wideq)
    /\ at' = "settings"
    /\ UNCHANGED <<facts, loaded, todo, line, feeds, data, stops, broken>>

(* local_control_capability_authorized.                                    *)
Authorized(b) ==
    router /\ b \in data.providers /\ "contract" \in loaded /\ b \in data.eligible

(* ... with the composite domain, for a frame of several fields.           *)
Composable(b) == Authorized(b) /\ "domain" \in loaded

(* The settings at LG are loaded.  An error is not caught here: the entry  *)
(* has failed, a retry starts from maps of its own, and what the old ones  *)
(* held is out of everyone's reach and goes on.                            *)
LoadSettings ==
    /\ at = "settings"
    /\ \/ at' = "platforms" /\ UNCHANGED <<data, router>>
       \/ at' = "failed" /\ data' = Empty /\ router' = FALSE
    /\ UNCHANGED <<facts, loaded, todo, line, feeds, stops, broken>>

Forward == at = "platforms" /\ at' = "up" /\ UNCHANGED <<facts, loaded, running, broken>>

----------------------------------------------------------------------------
(* _stop_local_shadows: the maps are emptied at once, then every subscriber*)
(* is stopped on its own, and the providers are closed in the end.         *)

\* Mutant of Taken: the subscribers stay in their map.
TakenKept == [Empty EXCEPT !.subscribers = data.subscribers]

Taken == Empty

StopShadows(s) ==
    /\ stops[s].doing = "not yet"
    /\ stops' = [stops EXCEPT ![s] = [doing |-> "now", lines |-> data.subscribers,
        feeds |-> data.reads \X {"reads"} \cup data.energy \X {"energy"}]]
    /\ line' = [b \in Bindings |-> IF b \in data.subscribers THEN "stopping" ELSE line[b]]
    /\ data' = Taken

StopLine(b) ==
    /\ line[b] = "stopping"
    /\ line' = [line EXCEPT ![b] = "stopped"]
    /\ UNCHANGED <<facts, at, loaded, todo, feeds, data, router, stops, broken>>

CloseFeeds(s) ==
    /\ stops[s].doing = "now" /\ \A b \in stops[s].lines : line[b] = "stopped"
    /\ feeds' = feeds \ stops[s].feeds
    /\ stops' = [stops EXCEPT ![s] = Stop("done")]
    /\ at' = IF s = "unload" THEN "down" ELSE at
    /\ UNCHANGED <<facts, loaded, todo, line, data, router, broken>>

(* The except branch of async_setup_entry: the listener for Home           *)
(* Assistant's stop is removed first.                                      *)
RollBack ==
    /\ at = "platforms"
    /\ at' = "rollback"
    /\ StopShadows("unload")
    /\ UNCHANGED <<facts, loaded, todo, feeds, router, broken>>

(* async_unload_entry, once the platforms have agreed.                     *)
TearDown ==
    /\ at = "up"
    /\ at' = "unloading"
    /\ StopShadows("unload")
    /\ UNCHANGED <<facts, loaded, todo, feeds, router, broken>>

(* Home Assistant stops: the entry is not unloaded.                        *)
CoreStops ==
    /\ at \in {"platforms", "up", "unloading"}
    /\ StopShadows("core")
    /\ UNCHANGED <<facts, at, loaded, todo, feeds, router, broken>>

SetupNext ==
    \/ ReadOptions \/ LoadDatabase \/ LoadPart
    \/ \E b \in Bindings : Skip(b) \/ Start(b) \/ Started(b) \/ StartFails(b) \/ StopLine(b)
    \/ AllStarted \/ StartControl \/ LoadSettings \/ Forward
    \/ RollBack \/ TearDown \/ CoreStops
    \/ \E s \in Stoppers : CloseFeeds(s)

SetupSpec == SetupInit /\ [][SetupNext]_setupVars

----------------------------------------------------------------------------
(***************************************************************************)
(* What runs has an owner: a subscriber that is connected is in its map,   *)
(* one that is being stopped is in hand of a stop, a provider that listens *)
(* belongs to a binding that is starting, to a map or to a stop; and when  *)
(* the entry is down the maps are empty.  So nothing outlives the entry,   *)
(* whatever could not be loaded or started, and whoever stops it           *)
(* (_stop_local_shadows, the except branches of _setup_local_shadows and   *)
(* of async_setup_entry): with one exception, an error while the settings  *)
(* at LG are loaded, after which all that was started has no owner.        *)
(***************************************************************************)
InHand(s) == stops[s].doing = "now"

EverythingIsOwned ==
    /\ \A b \in Bindings :
          /\ line[b] = "running" => b \in data.subscribers
          /\ line[b] = "stopping" => \E s \in Stoppers : InHand(s) /\ b \in stops[s].lines
    /\ \A f \in feeds :
          \/ line[f[1]] = "starting" \/ f[1] \in data[f[2]]
          \/ \E s \in Stoppers : InHand(s) /\ f \in stops[s].feeds
    /\ at = "down" => data = Empty

NothingIsLeft == at # "failed" => EverythingIsOwned

(***************************************************************************)
(* A failure takes away what needs the thing that failed and nothing else  *)
(* ("failure isolation" of _setup_local_shadows and the comments at its    *)
(* except branches): each binding has its subscriber, its full reads, its  *)
(* energy, its generic controls and its composed frames as if the failures *)
(* of the others had not been.                                             *)
(***************************************************************************)
Ready == at \in {"platforms", "up"} /\ \A s \in Stoppers : stops[s].doing = "not yet"

Serves(b) ==
    facts.valid /\ b \in facts.bound /\ Fits(b) /\ "database" \notin broken /\ b \notin broken

FailureIsIsolated ==
    Ready => \A b \in Bindings :
        /\ b \in data.providers <=> Serves(b)
        /\ b \in data.reads <=>
              /\ Serves(b) /\ "catalogue" \notin broken
              /\ b \in facts.identified \cap facts.readable \cap facts.presence
        /\ b \in data.energy <=> Serves(b) /\ b \in facts.identified \cap facts.metered
        /\ Authorized(b) <=>
              /\ Serves(b) /\ facts.wideq /\ b \in facts.controls
              /\ broken \cap {"contract", "scope"} = {}
              /\ \/ facts.scope = "none"
                 \/ facts.scope = "listed" /\ b \in facts.scoped
        /\ Composable(b) <=> Authorized(b) /\ "domain" \notin broken

(***************************************************************************)
(* No request is authorized that nothing stands behind: its subscriber     *)
(* runs, the contract has controls for its model, and an explicit scope is *)
(* never widened, whatever failed and however far the entry is.            *)
(***************************************************************************)
AuthorityIsBacked ==
    \A b \in Bindings : Authorized(b) =>
        /\ line[b] = "running" /\ b \in facts.controls
        /\ facts.scope \in {"none", "listed"}
        /\ facts.scope = "listed" => b \in facts.scoped

(* What a run checks.                                                      *)
SetupIsSound == NothingIsLeft /\ FailureIsIsolated /\ AuthorityIsBacked
=============================================================================
