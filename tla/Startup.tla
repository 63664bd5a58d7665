-------------------------------- MODULE Startup --------------------------------
(***************************************************************************)
(* How an entry starts: async_setup_entry with the inventory CloudRuntime  *)
(* keeps, start_cloud, start_pat, startup.py and the discovery of entities *)
(* that a first read left out.  A device of LG's account is a PAT device   *)
(* with a coordinator once it was listed; what is known of it is whether   *)
(* its status was read (startup_status_ready) and whether its profile was. *)
(***************************************************************************)
EXTENDS Integers, Sequences, FiniteSets

CONSTANTS Owned,        \* devices LG's account may list
          Supported,    \* those of SUPPORTED_DEVICE_TYPES
          Named,        \* those whose deviceInfo has a modelName
          Fanout,       \* PAT_PREPARE_CONCURRENCY
          StartTries,   \* the attempts of start_pat
          RecoverTries, \* and of async_recover_startup
          MaxResumes,   \* bounds: resumes of the source,
          MaxLives      \*         set-ups of the entry

ASSUME StartupAssumption ==
    /\ Supported \subseteq Owned /\ Named \subseteq Owned
    /\ {Fanout, StartTries} \subseteq Nat \ {0}
    /\ {RecoverTries, MaxResumes, MaxLives} \subseteq Nat

VARIABLES owned,     \* what LG's account lists, old or new
          inventory, \* inventory_store: devices and those with a profile
          writes,    \* async_save of it, in order: by whom and what
          stage,     \* how far async_setup_entry is
          have,      \* data.coordinators
          answered,  \* startup_status_ready of a coordinator
          profiled,  \* whether its profile is a dict
          fresh,     \* initial_list_ready
          fan,       \* where a fan-out of calls is with a device
          refused,      \* calls a pause has refused
          holder,    \* who holds start_cloud's lock
          inside,    \* and how far start_cloud is
          first,     \* how far start_pat is, its attempts and its rounds
          resumes,   \* tasks of async_resume before the lock
          watched,   \* _startup_listeners
          observed,  \* what the listener of a device saw last
          wanted,    \* is a discovery task waiting?
          menu,      \* the discovery with the lock, and what it adds
          offered,   \* the devices' entities of either origin
          blocked,   \* the gate's reason is not None
          junked,    \* history: profiles LG answered without content
          used       \* bounds: resumes and lives so far

boot == <<stage, have, fresh>>
progress == <<answered, profiled>>
calls == <<fan, refused>>
cloud == <<holder, inside>>
listeners == <<watched, observed, wanted>>
startupVars == <<owned, inventory, writes, boot, progress, calls, cloud, first, resumes,
                 listeners, menu, offered, blocked, junked, used>>

Groups == {"start", "recover"}
List == <<"list", "all">>      \* async_get_device_list, among the calls
NoFan == [p \in Groups \X Supported |-> "none"]
Asleep == [at |-> "none", tries |-> 0, rounds |-> 0]
NoMenu == [by |-> "none", adds |-> [d \in Supported |-> {}]]
NothingOffered == [d \in Supported |-> {}]

(* What the entities of a device are built from.                           *)
SeenOf(d, A, P) == (IF d \in A THEN {"status"} ELSE {}) \cup
                   (IF d \in P THEN {"profile"} ELSE {})
Seen(d) == SeenOf(d, answered, profiled)
Both == {"status", "profile"}

\* Mutant of Inventory: the devices that answered.
InventoryAnswered == [devices |-> have \cap answered, profiles |-> have \cap answered \cap profiled]

(* async_save_inventory: every coordinator there is.                       *)
Inventory == [devices |-> have, profiles |-> have \cap profiled]

Down ==
    /\ stage = "off" /\ have = {} /\ fresh = FALSE
    /\ answered = {} /\ profiled = {}
    /\ fan = NoFan /\ refused = {}
    /\ holder = "none" /\ inside = "free"
    /\ first = Asleep /\ resumes = 0
    /\ watched = {} /\ observed = NothingOffered /\ wanted = FALSE
    /\ menu = NoMenu /\ offered = NothingOffered
    /\ writes = <<>>

StartupInit ==
    /\ owned \in SUBSET Owned
    /\ \E D \in SUBSET Supported : \E P \in SUBSET D :
          inventory = [devices |-> D, profiles |-> P]
    /\ Down
    /\ blocked = FALSE
    /\ junked = {}
    /\ used \in [resumes : 0 .. MaxResumes, lives : 0 .. MaxLives]

----------------------------------------------------------------------------
\* Mutant of Restore: the coordinators start without their profiles.
RestoreBare ==
    /\ stage = "off" /\ used.lives < MaxLives
    /\ used' = [used EXCEPT !.lives = @ + 1]
    /\ have' = inventory.devices \cap Named
    /\ UNCHANGED profiled
    /\ fresh' = (have' = {})
    /\ stage' = IF have' = {} THEN "listing" ELSE "forwarding"
    /\ UNCHANGED <<owned, inventory, writes, answered, calls, cloud, first, resumes,
                   listeners, menu, offered, blocked, junked>>

(* async_restore keeps the devices it can identify, and their profiles;    *)
(* with none of them the set-up asks LG first.                             *)
Restore ==
    /\ stage = "off" /\ used.lives < MaxLives
    /\ used' = [used EXCEPT !.lives = @ + 1]
    /\ have' = inventory.devices \cap Named
    /\ profiled' = inventory.profiles \cap have'
    /\ fresh' = (have' = {})
    /\ stage' = IF have' = {} THEN "listing" ELSE "forwarding"
    /\ UNCHANGED <<owned, inventory, writes, answered, calls, cloud, first, resumes,
                   listeners, menu, offered, blocked, junked>>

FanOut(g, D) ==
    fan' = [p \in Groups \X Supported |->
               IF p[1] = g /\ p[2] \in D THEN "wait" ELSE fan[p]]
FanDone(g) == \A d \in Supported : fan[<<g, d>>] = "none"
Running(g) == {d \in Supported : fan[<<g, d>>] \in {"status", "profile"}}

(* The first device list is there: everything of it gets prepared.         *)
SetupListed ==
    /\ stage = "listing" /\ ~blocked
    /\ have' = owned \cap Supported
    /\ FanOut("start", have')
    /\ stage' = "preparing"
    /\ UNCHANGED <<owned, inventory, writes, fresh, progress, refused, cloud, first, resumes,
                   listeners, menu, offered, blocked, junked, used>>

SetupPrepared ==
    /\ stage = "preparing" /\ FanDone("start")
    /\ writes' = Append(writes, [by |-> "setup", what |-> Inventory])
    /\ stage' = "saving"
    /\ UNCHANGED <<owned, inventory, have, fresh, progress, calls, cloud, first, resumes,
                   listeners, menu, offered, blocked, junked, used>>

(* The platforms build their entities and register their menus: what is    *)
(* not complete gets a listener.  start_pat begins.                        *)
Forwarded ==
    /\ stage = "forwarding"
    /\ offered' = [d \in Supported |-> IF d \in have THEN Seen(d) ELSE {}]
    /\ watched' = {d \in have : Seen(d) # Both}
    /\ observed' = offered'
    /\ first' = [Asleep EXCEPT !.at = "sleeping"]
    /\ stage' = "running"
    /\ UNCHANGED <<owned, inventory, writes, have, fresh, progress, calls, cloud, resumes,
                   wanted, menu, blocked, junked, used>>

(* The entry is unloaded, its set-up fails, or Home Assistant stops: what  *)
(* was being written may be in the store.                                  *)
GoesDown ==
    /\ stage # "off"
    /\ inventory' \in {inventory} \cup {writes[i].what : i \in DOMAIN writes}
    /\ stage' = "off" /\ have' = {} /\ fresh' = FALSE
    /\ answered' = {} /\ profiled' = {}
    /\ fan' = NoFan /\ refused' = {}
    /\ holder' = "none" /\ inside' = "free"
    /\ first' = Asleep /\ resumes' = 0
    /\ watched' = {} /\ observed' = NothingOffered /\ wanted' = FALSE
    /\ menu' = NoMenu /\ offered' = NothingOffered
    /\ writes' = <<>>
    /\ UNCHANGED <<owned, blocked, junked, used>>

(* The last set-up the bound allows is over.                               *)
StaysDown == stage = "off" /\ used.lives = MaxLives /\ UNCHANGED startupVars

----------------------------------------------------------------------------
\* Mutant of Tell: the listener leaves as soon as anything is known.
TellOnce(d, now) ==
    LET hears == d \in watched /\ now # observed[d] IN
    /\ observed' = IF hears THEN [observed EXCEPT ![d] = now] ELSE observed
    /\ watched' = IF hears THEN watched \ {d} ELSE watched
    /\ wanted' = (wanted \/ hears)

(* A coordinator tells its listeners; recovered() asks for a discovery if  *)
(* the device is known better than it saw last, and leaves when all is.    *)
Tell(d, now) ==
    LET hears == d \in watched /\ now # observed[d] IN
    /\ observed' = IF hears THEN [observed EXCEPT ![d] = now] ELSE observed
    /\ watched' = IF hears /\ now = Both THEN watched \ {d} ELSE watched
    /\ wanted' = (wanted \/ hears)

(* A device gets its turn: _prepare_one begins with the status, recover    *)
(* with the profile, and asks only for what is missing.                    *)
Begins(g, d) == IF g = "start" THEN "status"
                ELSE IF d \notin profiled THEN "profile"
                ELSE IF d \notin answered THEN "status" ELSE "none"
NextAfter(g, d, what) ==
    IF g = "start" THEN IF what = "status" THEN "profile" ELSE "none"
    ELSE IF what = "profile" /\ d \notin answered THEN "status" ELSE "none"

Turn(g, d) ==
    /\ fan[<<g, d>>] = "wait" /\ Cardinality(Running(g)) < Fanout
    /\ fan' = [fan EXCEPT ![<<g, d>>] = Begins(g, d)]
    /\ UNCHANGED <<owned, inventory, writes, boot, progress, refused, cloud, first, resumes,
                   listeners, menu, offered, blocked, junked, used>>

(* async_refresh ends: with a status, or without, late, empty or in vain.  *)
StatusEnds(g, d) ==
    /\ fan[<<g, d>>] = "status"
    /\ \/ /\ ~blocked /\ <<g, d>> \notin refused
          /\ answered' = answered \cup {d}
          /\ Tell(d, SeenOf(d, answered \cup {d}, profiled))
       \/ UNCHANGED answered /\ (UNCHANGED listeners \/ Tell(d, Seen(d)))
    /\ fan' = [fan EXCEPT ![<<g, d>>] = NextAfter(g, d, "status")]
    /\ refused' = refused \ {<<g, d>>}
    /\ UNCHANGED <<owned, inventory, writes, boot, profiled, cloud, first, resumes,
                   menu, offered, blocked, junked, used>>

(* async_load_profile ends: a failure keeps the profile there is, an       *)
(* answer replaces it, one without content too.  recover tells listeners.  *)
ProfileEnds(g, d) ==
    /\ fan[<<g, d>>] = "profile"
    /\ \/ /\ ~blocked /\ <<g, d>> \notin refused
          /\ profiled' = profiled \cup {d}
          /\ IF g = "recover" THEN Tell(d, SeenOf(d, answered, profiled \cup {d}))
             ELSE UNCHANGED listeners
          /\ UNCHANGED junked
       \/ /\ ~blocked /\ <<g, d>> \notin refused
          /\ profiled' = profiled \ {d}
          /\ junked' = junked \cup {d}
          /\ UNCHANGED listeners
       \/ UNCHANGED <<profiled, junked, listeners>>
    /\ fan' = [fan EXCEPT ![<<g, d>>] = NextAfter(g, d, "profile")]
    /\ refused' = refused \ {<<g, d>>}
    /\ UNCHANGED <<owned, inventory, writes, boot, answered, cloud, first, resumes,
                   menu, offered, blocked, used>>

(* The coordinator's own poll.                                             *)
Polled(d) ==
    /\ stage = "running" /\ d \in have /\ ~blocked
    /\ answered' = answered \cup {d}
    /\ Tell(d, SeenOf(d, answered \cup {d}, profiled))
    /\ UNCHANGED <<owned, inventory, writes, boot, profiled, calls, cloud, first, resumes,
                   menu, offered, blocked, junked, used>>

----------------------------------------------------------------------------
(* start_pat before its next start_cloud: a shut gate ends it for good.    *)
FirstGoes ==
    /\ first.at = "sleeping"
    /\ first' = [first EXCEPT !.at = IF blocked THEN "done" ELSE "queued"]
    /\ UNCHANGED <<owned, inventory, writes, boot, progress, calls, cloud, resumes,
                   listeners, menu, offered, blocked, junked, used>>

(* start_cloud is over, or was not entered.                                *)
Returned(who, ok) ==
    /\ holder' = "none" /\ inside' = "free"
    /\ first' =
          IF who # "first" THEN first
          ELSE [first EXCEPT !.at = IF ok \/ first.tries + 1 = StartTries
                                       THEN "recovering" ELSE "sleeping",
                             !.tries = @ + 1]

Claims(who) ==
    /\ holder = "none"
    /\ \/ who = "first" /\ first.at = "queued" /\ UNCHANGED resumes
       \/ who = "resume" /\ resumes > 0 /\ resumes' = resumes - 1

CloudRefused(who) ==
    /\ Claims(who) /\ blocked
    /\ Returned(who, FALSE)
    /\ UNCHANGED <<owned, inventory, writes, boot, progress, calls,
                   listeners, menu, offered, blocked, junked, used>>

(* start_cloud has the lock.  The list of a first set-up is used once.     *)
CloudEnters(who) ==
    /\ Claims(who) /\ ~blocked
    /\ holder' = who
    /\ first' = IF who = "first" THEN [first EXCEPT !.at = "inside"] ELSE first
    /\ inside' = IF fresh THEN "saving" ELSE "listing"
    /\ writes' = IF fresh THEN Append(writes, [by |-> "cloud", what |-> Inventory])
                 ELSE writes
    /\ fresh' = FALSE
    /\ UNCHANGED <<owned, inventory, stage, have, progress, calls,
                   listeners, menu, offered, blocked, junked, used>>

(* The list is there: what is new gets a coordinator and a listener, and   *)
(* every device is prepared.                                               *)
CloudListed ==
    /\ inside = "listing" /\ ~blocked /\ List \notin refused
    /\ have' = have \cup (owned \cap Supported)
    /\ watched' = watched \cup (have' \ have)
    /\ FanOut("start", have')
    /\ inside' = "preparing"
    /\ UNCHANGED <<owned, inventory, writes, stage, fresh, progress, refused, holder, first,
                   resumes, observed, wanted, menu, offered, blocked, junked, used>>

CloudListFails ==
    /\ inside = "listing"
    /\ refused' = refused \ {List}
    /\ Returned(holder, FALSE)
    /\ UNCHANGED <<owned, inventory, writes, boot, progress, fan, resumes,
                   listeners, menu, offered, blocked, junked, used>>

CloudPrepared ==
    /\ inside = "preparing" /\ FanDone("start")
    /\ writes' = Append(writes, [by |-> "cloud", what |-> Inventory])
    /\ inside' = "saving"
    /\ UNCHANGED <<owned, inventory, boot, progress, calls, holder, first, resumes,
                   listeners, menu, offered, blocked, junked, used>>

(* The next async_save has stored; its caller goes on.                     *)
Written ==
    /\ writes # <<>>
    /\ inventory' = Head(writes).what
    /\ writes' = Tail(writes)
    /\ LET by == Head(writes).by IN
       /\ stage' = IF by = "setup" THEN "forwarding" ELSE stage
       /\ inside' = IF by = "cloud" THEN "discovering" ELSE inside
       /\ first' = IF by = "first" THEN [first EXCEPT !.at = "done"] ELSE first
    /\ UNCHANGED <<owned, have, fresh, progress, calls, holder, resumes,
                   listeners, menu, offered, blocked, junked, used>>

(* async_discover gets its lock and builds the entities of what is known.  *)
Built(by) == menu' = [by |-> by, adds |-> [d \in Supported |->
                                              IF d \in have THEN Seen(d) ELSE {}]]

CloudDiscovers ==
    /\ inside = "discovering" /\ menu.by = "none"
    /\ Built("cloud")
    /\ UNCHANGED <<owned, inventory, writes, boot, progress, calls, cloud, first, resumes,
                   listeners, offered, blocked, junked, used>>

TaskDiscovers ==
    /\ wanted /\ menu.by = "none"
    /\ wanted' = FALSE
    /\ Built("task")
    /\ UNCHANGED <<owned, inventory, writes, boot, progress, calls, cloud, first, resumes,
                   watched, observed, offered, blocked, junked, used>>

(* Entities that were missing are added, the others retained.              *)
Added ==
    /\ menu.by # "none"
    /\ offered' = [d \in Supported |-> offered[d] \cup menu.adds[d]]
    /\ inside' = IF menu.by = "cloud" THEN "connecting" ELSE inside
    /\ menu' = NoMenu
    /\ UNCHANGED <<owned, inventory, writes, boot, progress, calls, holder, first, resumes,
                   listeners, blocked, junked, used>>

(* The push client is replaced, connects or does not.                      *)
CloudConnects ==
    /\ inside = "connecting"
    /\ \E ok \in {~blocked, FALSE} : Returned(holder, ok)
    /\ UNCHANGED <<owned, inventory, writes, boot, progress, calls, resumes,
                   listeners, menu, offered, blocked, junked, used>>

(* async_recover_startup: the next round, for what is still missing.       *)
RecoverRound ==
    LET missing == {d \in have : Seen(d) # Both} IN
    /\ first.at = "recovering" /\ FanDone("recover")
    /\ first.rounds < RecoverTries /\ missing # {}
    /\ FanOut("recover", missing)
    /\ first' = [first EXCEPT !.rounds = @ + 1]
    /\ UNCHANGED <<owned, inventory, writes, boot, progress, refused, cloud, resumes,
                   listeners, menu, offered, blocked, junked, used>>

(* And the last save of start_pat.                                         *)
RecoverEnds ==
    /\ first.at = "recovering" /\ FanDone("recover")
    /\ first.rounds = RecoverTries \/ \A d \in have : Seen(d) = Both
    /\ writes' = Append(writes, [by |-> "first", what |-> Inventory])
    /\ first' = [first EXCEPT !.at = "saving"]
    /\ UNCHANGED <<owned, inventory, boot, progress, calls, cloud, resumes,
                   listeners, menu, offered, blocked, junked, used>>

(* The source is paused: every call in flight is refused.                  *)
PatPaused ==
    /\ stage = "running" /\ ~blocked
    /\ blocked' = TRUE
    /\ refused' = {p \in Groups \X Supported : fan[p] \in {"status", "profile"}} \cup
               (IF inside = "listing" THEN {List} ELSE {})
    /\ UNCHANGED <<owned, inventory, writes, boot, progress, fan, cloud, first, resumes,
                   listeners, menu, offered, junked, used>>

PatResumed ==
    /\ stage = "running" /\ blocked /\ used.resumes < MaxResumes
    /\ blocked' = FALSE
    /\ resumes' = resumes + 1
    /\ used' = [used EXCEPT !.resumes = @ + 1]
    /\ UNCHANGED <<owned, inventory, writes, boot, progress, calls, cloud, first,
                   listeners, menu, offered, junked>>

StartupNext ==
    \/ Restore \/ SetupListed \/ SetupPrepared \/ Forwarded \/ GoesDown \/ StaysDown
    \/ \E g \in Groups, d \in Supported :
          Turn(g, d) \/ StatusEnds(g, d) \/ ProfileEnds(g, d)
    \/ \E d \in Supported : Polled(d)
    \/ FirstGoes
    \/ \E who \in {"first", "resume"} : CloudRefused(who) \/ CloudEnters(who)
    \/ CloudListed \/ CloudListFails \/ CloudPrepared \/ Written
    \/ CloudDiscovers \/ TaskDiscovers \/ Added \/ CloudConnects
    \/ RecoverRound \/ RecoverEnds
    \/ PatPaused \/ PatResumed

StartupSpec == StartupInit /\ [][StartupNext]_startupVars

----------------------------------------------------------------------------
(* While start_cloud prepares or discovers, entities may be missing; so may*)
(* they while a discovery is about to add them.                            *)
Catching == inside \in {"preparing", "saving", "discovering"} \/ wanted \/ menu.by # "none"

(* Whichever read came late, of a cached or a new device, in a fan-out, a  *)
(* recovery or a poll: what is known of a device is offered, unless LG once*)
(* sent its profile without content: an entity waits then for a listener   *)
(* that may have left.                                                     *)
KnownIsOffered ==
    stage = "running" /\ ~Catching => \A d \in have \ junked : Seen(d) \subseteq offered[d]

(* No restart, failure or pause makes the stored inventory forget a device *)
(* it could identify, or its profile, unless LG sent one without content.  *)
NothingVerifiedIsLost ==
    [][/\ inventory.devices \cap Named \subseteq inventory'.devices
       /\ inventory.profiles \cap Named \subseteq inventory'.profiles \cup junked']_startupVars

=============================================================================
