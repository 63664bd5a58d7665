--------------------------- MODULE EntityCommands ---------------------------
(***************************************************************************)
(* One plain entity of the platform files (switch, select, number, button, *)
(* humidifier, fan): where its value comes from, and by which transport a  *)
(* service call leaves.  A field the Local full read owns is read and      *)
(* written through Local only; another one may have a native Local command *)
(* that is asked first; everything else is the account's.  For a WideQ     *)
(* field the value is a live snapshot, and for the power-save flag three   *)
(* layers, one of which is kept on disk.                                   *)
(*                                                                         *)
(* A field has two values.  What the router does with a command is         *)
(* LocalControl, and what PAT does with a refresh is PatCoordinator.       *)
(***************************************************************************)
EXTENDS Naturals, FiniteSets

CONSTANTS Orders,      \* service calls in flight
          MaxToggles,  \* bound: changes made on the appliance itself
          MaxStops     \* bound: restarts of Home Assistant

VARIABLES
    card,        \* the entity, as the platform built it
    authorised,  \* values the Local contract lets it send
    gate,        \* mode: the job mode it needs is set; remote: remote control is on
    appliance,   \* the field's value on the appliance
    leaf,        \* Local's reading of it
    cloudData,   \* the coordinator's data (self.data) of the field
    saver,       \* the power-save layers, and the copy on disk
    pollRead,    \* "idle", or what the poll that holds the lock has read
    orders,      \* per service call: what it wants and where it is
    count,       \* the bounded counters
    newest,      \* history: what was learnt last in this life
    dropped      \* history: the last poll failed after it had been read

cardVars == <<card, authorised, gate, appliance, leaf, cloudData, saver, pollRead, orders,
              count, newest, dropped>>

OnOff == {"on", "off"}
Reading == OnOff \cup {"absent"}
Free == [at |-> "free", want |-> "absent", more |-> FALSE, sent |-> {}]

----------------------------------------------------------------------------
(* The entities the platforms build.                                       *)

Special(by, form, owned, native, shows, needs, onOnly, risk) ==
    [by |-> by, form |-> form, owned |-> owned, native |-> native, shows |-> shows,
     needs |-> needs, onOnly |-> onOnly, risk |-> risk]
Card(by, form, owned, native, shows) ==
    Special(by, form, owned, native, shows, FALSE, FALSE, "none")

(* What a risk needs of the options is set: without it an entity exists and*)
(* takes no call.                                                          *)
PatSwitches ==
    {Special("pat", "switch", FALSE, n, s, g, g, "none") :
        n, g \in BOOLEAN, s \in {"data", "nothing"}}
    \cup {Special("pat", "switch", TRUE, FALSE, "nothing", g, g, "none") : g \in BOOLEAN}
WideqSwitches ==
    {Card("wideq", "switch", o, FALSE, "data") : o \in BOOLEAN}
    \cup {Special("wideq", "switch", o, FALSE, "saver", TRUE, FALSE, "none") : o \in BOOLEAN}
WideqSelects == {Card("wideq", "select", o, FALSE, "data") : o \in BOOLEAN}
CatalogRisks == {"low", "operation", "optional"}
CatalogSelects ==
    {Special("wideq", "catalog", FALSE, FALSE, IF r = "low" THEN "data" ELSE "nothing",
             FALSE, FALSE, r) : r \in CatalogRisks}
CatalogNumbers == CatalogSelects
ActionButtons ==
    {Special("wideq", "action", FALSE, FALSE, "nothing", FALSE, FALSE, r) :
        r \in {"low", "operation"}}
Humidifiers == {Card("pat", "native", FALSE, TRUE, "data")}
PurifierFans == {Card("pat", "fan", FALSE, TRUE, "data")}
OperationButtons == {Card("pat", "native", FALSE, n, "nothing") : n \in BOOLEAN}
TimerClears == {Card("pat", "native", FALSE, FALSE, "data")}
FridgeTargets == {Card("pat", "native", FALSE, FALSE, "nothing")}
WideqNumbers == {Card("wideq", "number", FALSE, FALSE, "data")}
PatRanges == TimerClears
CooktopZones == {Special("pat", "zone", FALSE, FALSE, "nothing", FALSE, FALSE, "operation")}

(* A toggle that Local owns exists only if Local may send both its values, *)
(* a select if it may send one.                                            *)
BuiltSwitches(may) == {c \in PatSwitches \cup WideqSwitches : c.owned => may = OnOff}
BuiltSelects(may) == {c \in WideqSelects : c.owned => may # {}} \cup CatalogSelects
BuiltNumbers == FridgeTargets \cup WideqNumbers \cup PatRanges \cup CooktopZones \cup CatalogNumbers
BuiltButtons == OperationButtons \cup TimerClears \cup ActionButtons
Cards(may) == BuiltSwitches(may) \cup BuiltSelects(may) \cup BuiltNumbers \cup BuiltButtons
                 \cup Humidifiers \cup PurifierFans

----------------------------------------------------------------------------
(* What is shown.                                                          *)

(* Mutant of SaverShows: the live snapshot lies over what was acknowledged.*)
SnapshotOnTop == IF cloudData # "absent" THEN cloudData
                 ELSE IF saver.pending # "absent" THEN saver.pending ELSE saver.cache

(* power_save_snapshot_for: the kept flags, over them the live snapshot,   *)
(* over it what was acknowledged and not yet polled.                       *)
SaverShows ==
    IF saver.pending # "absent" THEN saver.pending
    ELSE IF cloudData # "absent" THEN cloudData
    ELSE saver.cache

CardShows ==
    CASE card.owned -> leaf
      [] ~card.owned /\ card.shows = "saver" -> SaverShows
      [] OTHER -> cloudData

(* control_risk_allowed, and the gates of a cooktop zone and of an action. *)
RiskAllowed == card.risk = "operation" => gate.remote

(* A select shows and offers authorised options only.                      *)
CardAvailable ==
    CASE card.owned -> leaf # "absent" /\ (card.form = "select" => leaf \in authorised)
      [] card.native -> authorised # {} \/ cloudData # "absent"
      [] card.form = "catalog" -> RiskAllowed /\ gate.circuit = "closed" /\ cloudData # "absent"
      [] card.form = "action" -> RiskAllowed /\ gate.circuit = "closed"
      [] card.form = "zone" -> RiskAllowed
      [] card.shows = "saver" /\ ~card.owned -> SaverShows # "absent"
      [] OTHER -> TRUE

----------------------------------------------------------------------------
(* A service call.                                                         *)

(* A one-way Local command writes "off" only with the value in its         *)
(* contract.                                                               *)
WriteAllowed(w) == card.onOnly => w = "on" \/ "off" \in authorised

(* Mutant of FirstStop: an owned field asks Local first, as a native does. *)
NativeFirst(w) == IF (card.owned \/ card.native) /\ WriteAllowed(w) THEN "native" ELSE "cloud"

FirstStop(w) ==
    CASE card.owned -> "local"
      [] ~card.owned /\ card.native /\ WriteAllowed(w) -> "native"
      [] OTHER -> "cloud"

(* async_turn_on asks the mode first, Local's if Local owns it; what Local *)
(* owns is refused before anything is sent if it is not Local's to send.   *)
ModeFits(w) == card.needs /\ w = "on" => gate.mode
LocalMaySend(w) ==
    card.owned => WriteAllowed(w) /\ (card.form = "select" => w \in authorised)

Place(o, w) ==
    /\ orders[o].at = "free" /\ count.orders > 0
    /\ CardAvailable
    /\ ModeFits(w) /\ LocalMaySend(w)
    /\ \E more \in IF card.form = "fan" /\ w = "on" THEN BOOLEAN ELSE {FALSE} :
          orders' = [orders EXCEPT ![o] =
                        [at |-> FirstStop(w), want |-> w, more |-> more, sent |-> {}]]
    /\ count' = [count EXCEPT !.orders = @ - 1]
    /\ UNCHANGED <<card, authorised, gate, appliance, leaf, cloudData, saver, pollRead,
                   newest, dropped>>

(* A purifier is switched on, and then gets its preset.                    *)
ServedOrder(o, by) ==
    IF orders[o].more THEN [orders EXCEPT ![o].more = FALSE, ![o].at = "native", ![o].sent = {}]
    ELSE [orders EXCEPT ![o].at = "free", ![o].sent = @ \cup {by}]

(* Mutant of RouterAnswers: what was not confirmed goes to the account.    *)
RetriedInCloud(o) ==
    /\ orders[o].at \in {"local", "native"}
    /\ \/ orders[o].want \in authorised /\ appliance' = orders[o].want
          /\ orders' = ServedOrder(o, "local")
       \/ orders[o].want \in authorised /\ UNCHANGED appliance
          /\ orders' = [orders EXCEPT ![o].sent = @ \cup {"local"}, ![o].at =
                           IF orders[o].at = "native" THEN "cloud" ELSE "free"]
    /\ UNCHANGED <<card, authorised, gate, leaf, cloudData, saver, pollRead, count, newest,
                   dropped>>

(* The router confirms, cannot tell (the frame may have left), or refuses  *)
(* before anything is sent, which it always does for a value it does not   *)
(* authorise.                                                              *)
RouterAnswers(o) ==
    /\ orders[o].at \in {"local", "native"}
    /\ \E answer \in {"confirmed", "uncertain", "refused"} :
          /\ orders[o].want \notin authorised => answer = "refused"
          /\ CASE answer = "confirmed" ->
                    /\ appliance' = orders[o].want
                    /\ orders' = ServedOrder(o, "local")
               [] answer = "uncertain" ->
                    /\ appliance' \in {appliance, orders[o].want}
                    /\ orders' = [orders EXCEPT ![o].at = "free", ![o].sent = @ \cup {"local"}]
               [] answer = "refused" ->
                    /\ orders' = [orders EXCEPT ![o].at =
                                     IF orders[o].at = "native" THEN "cloud" ELSE "free"]
                    /\ UNCHANGED appliance
    /\ UNCHANGED <<card, authorised, gate, leaf, cloudData, saver, pollRead, count, newest,
                   dropped>>

(* Mutant of Acknowledged: the value keeps its mark of a restored one.     *)
StillMarked(w) == [saver EXCEPT !.cache = w, !.pending = w]

(* apply_power_save_optimistic.                                            *)
Acknowledged(w) == [saver EXCEPT !.cache = w, !.pending = w, !.restored = FALSE]

(* The account takes the command, and the entity shows it; WideQ's command *)
(* holds the lock that a poll holds.                                       *)
CloudAccepts(o) ==
    LET w == orders[o].want IN
    /\ orders[o].at = "cloud"
    /\ card.by = "wideq" => pollRead = "idle" /\ gate.circuit = "closed"
    /\ appliance' = w
    /\ orders' = ServedOrder(o, "cloud")
    /\ cloudData' = IF card.shows = "data" THEN w ELSE cloudData
    /\ saver' = IF card.shows = "saver" THEN Acknowledged(w) ELSE saver
    /\ newest' = IF card.shows # "nothing" THEN w ELSE newest
    /\ dropped' = FALSE
    /\ UNCHANGED <<card, authorised, gate, leaf, pollRead, count>>

CloudFails(o) ==
    /\ orders[o].at = "cloud"
    /\ appliance' \in {appliance, orders[o].want}
    /\ orders' = [orders EXCEPT ![o].at = "free", ![o].sent = @ \cup {"cloud"}]
    /\ UNCHANGED <<card, authorised, gate, leaf, cloudData, saver, pollRead, count, newest,
                   dropped>>

----------------------------------------------------------------------------
(* What arrives.                                                           *)

(* Mutant of UpdatedCache: an acknowledged command outlives the poll.      *)
PendingKept(read) ==
    IF read = "absent" THEN saver
    ELSE [saver EXCEPT !.cache = read, !.restored = FALSE, !.due = @ \/ saver.cache # read]

(* The cache of the flags takes what the poll reads, while the poll still  *)
(* has the histories to read: it counts as verified, so an acknowledged    *)
(* command is forgotten and a restored value is not marked any more.       *)
UpdatedCache(read) ==
    IF read = "absent" THEN saver
    ELSE [saver EXCEPT !.cache = read, !.pending = "absent", !.restored = FALSE,
                       !.due = @ \/ saver.cache # read]

PollTakesLock ==
    /\ card.by = "wideq" /\ pollRead = "idle"
    /\ \E read \in {appliance, "absent"} :
          /\ pollRead' = read
          /\ saver' = IF card.shows = "saver" THEN UpdatedCache(read) ELSE saver
          /\ newest' = IF card.shows = "saver" /\ read # "absent" THEN read ELSE newest
    /\ UNCHANGED <<card, authorised, gate, appliance, leaf, cloudData, orders, count, dropped>>

PollCompletes ==
    /\ pollRead # "idle"
    /\ cloudData' = pollRead /\ pollRead' = "idle"
    /\ newest' = IF card.shows = "saver" THEN newest ELSE pollRead
    /\ dropped' = FALSE
    /\ gate' = [gate EXCEPT !.circuit = "closed"]
    /\ UNCHANGED <<card, authorised, appliance, leaf, saver, orders, count>>

(* The third failure opens the circuit; the account may have been paused.  *)
PollBreaks ==
    /\ pollRead # "idle"
    /\ pollRead' = "idle"
    /\ dropped' = (cloudData # "absent" \/ dropped)
    /\ \E c \in {"open", gate.circuit} : gate' = [gate EXCEPT !.circuit = c]
    /\ UNCHANGED <<card, authorised, appliance, leaf, cloudData, saver, orders, count, newest>>

(* A push of PAT, and a report of Local or its loss.                       *)
Pushed ==
    /\ card.by = "pat"
    /\ cloudData' = appliance /\ newest' = appliance
    /\ UNCHANGED <<card, authorised, gate, appliance, leaf, saver, pollRead, orders, count,
                   dropped>>

LocalReports ==
    /\ card.owned
    /\ leaf' \in {appliance, "absent"} \ {leaf}
    /\ UNCHANGED <<card, authorised, gate, appliance, cloudData, saver, pollRead, orders,
                   count, newest, dropped>>

(* Someone uses the appliance, leaves the mode or turns remote control off;*)
(* or the feature database gets a new definition.                          *)
AtTheAppliance ==
    /\ count.toggles > 0
    /\ count' = [count EXCEPT !.toggles = @ - 1]
    /\ \/ appliance' \in OnOff \ {appliance} /\ UNCHANGED <<gate, authorised>>
       \/ card.needs /\ gate' = [gate EXCEPT !.mode = FALSE] /\ UNCHANGED <<appliance, authorised>>
       \/ card.risk # "none" /\ gate' = [gate EXCEPT !.remote = FALSE]
          /\ UNCHANGED <<appliance, authorised>>
       \/ (card.owned \/ card.native)
          /\ authorised' \in SUBSET OnOff \ {authorised} /\ UNCHANGED <<appliance, gate>>
    /\ UNCHANGED <<card, leaf, cloudData, saver, pollRead, orders, newest, dropped>>

----------------------------------------------------------------------------
(* The kept flags.                                                         *)

(* _power_save_payload, when the delayed save is due.                      *)
FlagsSaved ==
    /\ saver.due
    /\ saver' = [saver EXCEPT !.disk = saver.cache, !.due = FALSE]
    /\ UNCHANGED <<card, authorised, gate, appliance, leaf, cloudData, pollRead, orders, count,
                   newest, dropped>>

(* Mutant of RestoredSaver: what the disk gives counts as polled.          *)
RestoredUnmarked(disk) ==
    [cache |-> disk, pending |-> "absent", restored |-> FALSE, disk |-> disk, due |-> FALSE]

(* async_restore_power_save.                                               *)
RestoredSaver(disk) ==
    [cache |-> disk, pending |-> "absent", restored |-> disk # "absent", disk |-> disk,
     due |-> FALSE]

(* The entry is unloaded, which writes the flags (async_persist_power_save)*)
(* or the process dies; the next life restores them before its first poll. *)
Restarts ==
    /\ card.by = "wideq" /\ count.stops > 0 /\ \A o \in Orders : orders[o].at = "free"
    /\ \E kept \in {saver.cache, saver.disk} :
          saver' = IF card.shows = "saver" THEN RestoredSaver(kept) ELSE saver
    /\ count' = [count EXCEPT !.stops = @ - 1]
    /\ cloudData' = "absent" /\ leaf' = "absent" /\ pollRead' = "idle"
    /\ newest' = "absent" /\ dropped' = FALSE
    /\ UNCHANGED <<card, authorised, gate, appliance, orders>>

----------------------------------------------------------------------------
CardInit ==
    /\ authorised \in SUBSET OnOff /\ card \in Cards(authorised)
    /\ card.owned \/ card.native \/ authorised = {}
    /\ gate = [mode |-> TRUE, remote |-> TRUE, circuit |-> "closed"]
    /\ appliance = "off" /\ leaf = "absent"
    /\ cloudData = "absent" /\ saver = RestoredSaver("absent") /\ pollRead = "idle"
    /\ orders = [o \in Orders |-> Free]
    /\ count = [toggles |-> MaxToggles, stops |-> MaxStops,
                orders |-> Cardinality(Orders)]
    /\ newest = "absent" /\ dropped = FALSE

CardNext ==
    \/ \E o \in Orders : \E w \in OnOff : Place(o, w)
    \/ \E o \in Orders : RouterAnswers(o) \/ CloudAccepts(o) \/ CloudFails(o)
    \/ PollTakesLock \/ PollCompletes \/ PollBreaks \/ Pushed \/ LocalReports
    \/ AtTheAppliance \/ FlagsSaved \/ Restarts

CardSpec == CardInit /\ [][CardNext]_cardVars

----------------------------------------------------------------------------
(* A command that may have left through Local is never sent to the account *)
(* as well, and a field that Local owns is never sent to the account at    *)
(* all, whatever becomes of its contract meanwhile.                        *)
LocalStaysLocal ==
    \A o \in Orders :
        /\ "local" \in orders[o].sent =>
              "cloud" \notin orders[o].sent /\ orders[o].at # "cloud"
        /\ card.owned => orders[o].at # "cloud" /\ "cloud" \notin orders[o].sent

(* A WideQ field shows what was learnt last, an acknowledged command or a  *)
(* poll, and before either of them the power-save flag shows what was      *)
(* kept, and says so.  Between the reading of a poll and its end, and      *)
(* after a poll that failed in between, the flag is the older snapshot's.  *)
ShowsTheNewest ==
    /\ card.by = "wideq" /\ ~card.owned /\ card.shows # "nothing" =>
          \/ pollRead # "idle" \/ dropped
          \/ CardShows = IF card.shows = "saver" /\ newest = "absent" THEN saver.cache ELSE newest
    /\ card.shows = "saver" => saver.restored <=> newest = "absent" /\ saver.cache # "absent"

(* A plain entity writes by one transport only, the one that owns its      *)
(* field, and shows what was learnt last.                                  *)
EntityIsHonest == LocalStaysLocal /\ ShowsTheNewest

=============================================================================
