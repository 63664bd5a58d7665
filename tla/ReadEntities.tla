---------------------------- MODULE ReadEntities ----------------------------
(***************************************************************************)
(* The entities that show one quantity of one appliance (_build_entities   *)
(* of sensor.py, binary_sensor.py and event.py, with local_entity.py): who *)
(* of PAT, WideQ, the full-read feed and the primary local provider owns   *)
(* it, what the entities show and when they write it.  An entity is known  *)
(* by its kind; a unit stands for a value's type as well.                  *)
(***************************************************************************)
EXTENDS FiniteSets

CONSTANTS Units,       \* units of measurement
          Values,      \* what a quantity may be,
          Worded,      \*   and what LG's words for it know
          Nothing,     \* no unit, no value
          Quantities,  \* what the tables say of a quantity
          Setups       \* what there is to show it from

Domains == {"sensor", "binary_sensor", "event"}
FieldTypes == {"boolean", "number"}

ASSUME QuantityAssumption ==
    /\ Nothing \notin Units \cup Values /\ Worded \subseteq Values
    /\ Quantities \subseteq
        [pat : Units \cup {Nothing},       \* the unit of its PAT sensor, if there is one,
         leaf : BOOLEAN,                   \*   which gives way to the feed (an air conditioner)
         patBinary : BOOLEAN,              \* a PAT binary sensor shows it
         wideq : Units \cup {Nothing},     \* the unit of its WideQ sensor,
         linked : BOOLEAN,                 \*   known to be of the same semantic
         energy : BOOLEAN,                 \*   of class ENERGY, or what is drawn now
         draw : BOOLEAN,
         legacy : {"none", "primary", "reads"}, \* what may take the WideQ sensor over
         tank : BOOLEAN,                   \* the water tank of a dehumidifier
         domain : Domains \cup {"none"}, unit : Units, \* its field of the full-read profile
         owned : BOOLEAN,                   \*   which names another owner
         pilot : FieldTypes \cup {"none"}, pilotUnit : Units, \* its field of the primary profile
         promoted : BOOLEAN]               \* the climate entity shows it
    /\ \A q \in Quantities : ~(q.energy /\ q.draw)
    /\ Setups \subseteq [wideq : BOOLEAN, primary : BOOLEAN, reads : BOOLEAN, overlay : BOOLEAN]

VARIABLES quantity, setup,
          inProfile, \* which profiles have the field now
          hidden,    \* the database disables the semantic
          cloudPat,  \* PAT: has it data, the value, the profile, is it paused, is the power off
          cloudWideq,\* WideQ: is the device in the snapshot, and the value
          localPrimary, localReads, \* the field of a provider: is it available, and its value;
                     \*   may the primary's stand in for the feed's while that is not
          built,     \* the kinds of the entities that exist
          written,   \* what Home Assistant was last told of each
          last,      \* _last_value of the energy sensor
          had        \* history: the energy sensor has shown a value

entityVars == <<quantity, setup, inProfile, hidden, cloudPat, cloudWideq, localPrimary, localReads,
                built, written, last, had>>
saying == <<cloudPat, cloudWideq, localPrimary, localReads>>

Local == {"legacy", "legacyRead", "full", "pilot", "fullBinary", "pilotBinary", "event"}
EntityKinds == {"pat", "patBinary", "wideq", "tank"} \cup Local

PlatformOfKind(k) ==
    IF k \in {"patBinary", "tank", "fullBinary", "pilotBinary"} THEN "binary_sensor"
    ELSE IF k = "event" THEN "event" ELSE "sensor"

\* Mutant of IdOf: an entity that takes a WideQ sensor over is named for its semantic.
IdOfSource(k) ==
    CASE k \in {"pat", "patBinary"} -> "key of PAT"
      [] k = "wideq" -> "key of WideQ"
      [] k = "tank" -> "water_tank_full"
      [] OTHER -> "semantic"

(* The unique id: a local entity that takes a WideQ sensor over keeps its. *)
IdOf(k) ==
    CASE k \in {"pat", "patBinary"} -> "key of PAT"
      [] k \in {"wideq", "legacy", "legacyRead"} -> "key of WideQ"
      [] k = "tank" -> "water_tank_full"
      [] OTHER -> "semantic"

----------------------------------------------------------------------------
(* Who shows it: sensors.                                                  *)

InReads == setup.reads /\ "reads" \in inProfile /\ quantity.domain # "none"
InPrimary == setup.primary /\ "primary" \in inProfile /\ quantity.pilot # "none"

ReadsAs(domain, unit) == InReads /\ quantity.domain = domain /\ quantity.unit = unit

(* A cloud's sensor stands for the local field when it has its unit, or    *)
(* there is no full-read provider to compare with.                         *)
StandsFor(unit) ==
    \/ ~setup.reads
    \/ ~InReads /\ InPrimary /\ quantity.pilot # "boolean" /\ quantity.pilotUnit = unit
    \/ ReadsAs("sensor", unit)

(* _ac_pat_sensor_replaced_by_local_leaf                                   *)
Replaced == quantity.leaf /\ ReadsAs("sensor", quantity.pat)

(* The tables of descriptions of each type.                                *)
PatDescribes == quantity.pat # Nothing
WideqDescribes == quantity.wideq # Nothing

Reported == cloudPat.data /\ cloudPat.value # Nothing

PatSensor ==
    IF PatDescribes /\ ~Replaced /\ (Reported \/ cloudPat.supports) THEN {"pat"} ELSE {}

WideqSensor ==
    IF ~WideqDescribes THEN {}
    ELSE IF quantity.legacy = "primary" /\ InPrimary /\ quantity.pilotUnit = quantity.wideq
         THEN {"legacy"}
    ELSE IF quantity.legacy = "reads" /\ InReads /\ quantity.unit = quantity.wideq
         THEN {"legacyRead"}
    ELSE IF setup.wideq THEN {"wideq"} ELSE {}

\* Mutant of Established: only the clouds' own sensors count.
EstablishedByClouds ==
    \/ PatSensor # {} /\ StandsFor(quantity.pat)
    \/ "wideq" \in WideqSensor /\ quantity.linked /\ StandsFor(quantity.wideq)

(* established_semantics                                                   *)
Established ==
    \/ PatSensor # {} /\ StandsFor(quantity.pat)
    \/ WideqSensor \cap Local # {}
    \/ "wideq" \in WideqSensor /\ quantity.linked /\ StandsFor(quantity.wideq)

(* iter_tlv_read_contracts and iter_local_semantic_contracts: what nobody  *)
(* else owns, or with the overlay all of it.  The feed goes before the     *)
(* primary provider.                                                       *)
Open(established) == setup.overlay \/ ~established

FullSensor ==
    IF /\ InReads /\ quantity.domain = "sensor"
       /\ "legacyRead" \notin WideqSensor /\ Open(Established)
    THEN {"full"} ELSE {}

\* Mutant of PilotSensor: the feed does not go before it.
PilotSensorToo ==
    IF /\ InPrimary /\ quantity.pilot # "boolean" /\ ~quantity.promoted
       /\ Open(Established)
    THEN {"pilot"} ELSE {}

PilotSensor ==
    IF /\ InPrimary /\ quantity.pilot # "boolean" /\ ~InReads /\ ~quantity.promoted
       /\ Open(Established)
    THEN {"pilot"} ELSE {}

----------------------------------------------------------------------------
(* Binary sensors and events.                                              *)

Tank == IF setup.wideq /\ quantity.tank THEN {"tank"} ELSE {}

(* WaterTankFullSensor: its owner is the local provider where it has it.   *)
TankIsLocal == Tank # {} /\ InPrimary /\ quantity.pilot = "boolean"

PatBinary == IF quantity.patBinary /\ Reported THEN {"patBinary"} ELSE {}

EstablishedBinary == Tank # {} \/ PatBinary # {}

FullBinary ==
    IF InReads /\ quantity.domain = "binary_sensor" /\ ~TankIsLocal /\ Open(EstablishedBinary)
    THEN {"fullBinary"} ELSE {}

PilotBinary ==
    IF /\ InPrimary /\ quantity.pilot = "boolean" /\ ~InReads /\ ~TankIsLocal
       /\ Open(EstablishedBinary)
    THEN {"pilotBinary"} ELSE {}

EventOf == IF InReads /\ quantity.domain = "event" THEN {"event"} ELSE {}

(* _build_enabled_entities: a disabled semantic is shown by no local one.  *)
Candidates ==
    (PatSensor \cup WideqSensor \cup FullSensor \cup PilotSensor
       \cup Tank \cup PatBinary \cup FullBinary \cup PilotBinary \cup EventOf)
    \ (IF hidden THEN Local ELSE {})

----------------------------------------------------------------------------
(* What an entity shows.                                                   *)

Shown(from, value) == [from |-> from, value |-> value]
Unavailable == Shown("unavailable", Nothing)
When(available, from, value) == IF available THEN Shown(from, value) ELSE Unavailable

(* LocalLegacySensor, LocalLegacyReadSensor: what LG has no word for is    *)
(* not available.                                                          *)
Word(value) == IF value \in Worded THEN value ELSE Nothing
InWords(field, from) ==
    When(field.available /\ Word(field.value) # Nothing, from, Word(field.value))

(* WideqDeviceSensor: zero while PAT says that the power is off; an energy *)
(* reading stays.                                                          *)
Held == IF cloudWideq.value # Nothing THEN cloudWideq.value ELSE last

WideqShows ==
    IF quantity.draw /\ cloudPat.off THEN Shown("off", Nothing)
    ELSE IF quantity.energy THEN When(cloudWideq.present \/ last # Nothing, "wideq", Held)
    ELSE When(cloudWideq.present, "wideq", cloudWideq.value)

\* Mutant of TankShows: WideQ's value while the local one is not available.
TankShowsEither ==
    IF TankIsLocal /\ localPrimary.available THEN Shown("primary", localPrimary.value)
    ELSE When(cloudWideq.present, "wideq", cloudWideq.value)

(* WaterTankProviderResolver: never WideQ where a local provider has it.   *)
TankShows ==
    IF TankIsLocal THEN When(localPrimary.available, "primary", localPrimary.value)
    ELSE When(cloudWideq.present, "wideq", cloudWideq.value)

\* Mutant of StandsIn: whatever the unit.
StandsInAnyUnit ==
    /\ InReads /\ InPrimary /\ ~quantity.owned
    /\ quantity.domain = IF quantity.pilot = "boolean" THEN "binary_sensor" ELSE "sensor"
    /\ localReads.spare /\ localPrimary.available

(* _pilot_display_field: the primary provider's own reading, of the same   *)
(* contract, where the feed is connected and did not invalidate it.        *)
StandsIn ==
    /\ InReads /\ InPrimary /\ ~quantity.owned
    /\ quantity.domain = IF quantity.pilot = "boolean" THEN "binary_sensor" ELSE "sensor"
    /\ quantity.pilotUnit = quantity.unit
    /\ localReads.spare /\ localPrimary.available

(* display_field                                                           *)
Display ==
    IF localReads.available THEN Shown("reads", localReads.value)
    ELSE When(StandsIn, "primary", localPrimary.value)

DisplayInWords ==
    When(Word(Display.value) # Nothing, Display.from, Word(Display.value))

Says(k) ==
    CASE k \in {"pat", "patBinary"} ->
            When(cloudPat.data /\ ~cloudPat.paused, "pat", cloudPat.value)
      [] k = "wideq" -> WideqShows
      [] k = "tank" -> TankShows
      [] k = "legacy" -> InWords(localPrimary, "primary")
      [] k = "legacyRead" -> DisplayInWords
      [] k \in {"pilot", "pilotBinary"} ->
            When(localPrimary.available, "primary", localPrimary.value)
      [] k \in {"full", "fullBinary"} -> Display
      [] k = "event" -> When(localReads.available, "reads", Nothing)

\* Mutant of Heard: the sensor of what is drawn does not listen to PAT.
HeardOwn(k) ==
    CASE k \in {"pat", "patBinary"} -> {"pat"}
      [] k = "wideq" -> {"wideq"}
      [] k = "tank" -> IF TankIsLocal THEN {"wideq", "primary"} ELSE {"wideq"}
      [] k \in {"legacy", "pilot", "pilotBinary"} -> {"primary"}
      [] OTHER -> {"reads", "primary"}

\* Mutant of Heard: the feed does not pass on what its primary provider says.
HeardReads(k) ==
    CASE k \in {"pat", "patBinary"} -> {"pat"}
      [] k = "wideq" -> IF quantity.draw THEN {"wideq", "pat"} ELSE {"wideq"}
      [] k = "tank" -> IF TankIsLocal THEN {"wideq", "primary"} ELSE {"wideq"}
      [] k \in {"legacy", "pilot", "pilotBinary"} -> {"primary"}
      [] OTHER -> {"reads"}

(* Whose listeners an entity is on.  The feed is on the primary provider's *)
(* and passes on to its own what that one says (_primary_updated).         *)
Heard(k) ==
    CASE k \in {"pat", "patBinary"} -> {"pat"}
      [] k = "wideq" -> IF quantity.draw THEN {"wideq", "pat"} ELSE {"wideq"}
      [] k = "tank" -> IF TankIsLocal THEN {"wideq", "primary"} ELSE {"wideq"}
      [] k \in {"legacy", "pilot", "pilotBinary"} -> {"primary"}
      [] OTHER -> {"reads", "primary"}

(* Those in K write their state; reading the energy sensor keeps its value.*)
Write(K) ==
    /\ last' = IF "wideq" \notin built' THEN Nothing
               ELSE IF "wideq" \in K /\ quantity.energy /\ cloudWideq'.value # Nothing
                    THEN cloudWideq'.value
               ELSE last
    /\ written' = [k \in EntityKinds |->
                      IF k \notin built' THEN Unavailable
                      ELSE IF k \in K THEN Says(k)' ELSE written[k]]
    /\ had' = ("wideq" \in built' /\ quantity.energy /\ (had \/ written'["wideq"].value # Nothing))

----------------------------------------------------------------------------
Field == [available : BOOLEAN, value : Values \cup {Nothing}]
ReadField == [available : BOOLEAN, value : Values \cup {Nothing}, spare : BOOLEAN]
OfPat == [data : BOOLEAN, value : Values \cup {Nothing}, supports : BOOLEAN, paused : BOOLEAN,
          off : BOOLEAN]
OfWideq == [present : BOOLEAN, value : Values \cup {Nothing}]

(* A status says nothing while there is none, and nothing of a quantity    *)
(* that is not its own.                                                    *)
PatStates ==
    {c \in OfPat : /\ ~c.data => c.value = Nothing /\ ~c.off
                   /\ c.off => quantity.draw
                   /\ c.supports => quantity.pat # Nothing
                   /\ c.value # Nothing => quantity.pat # Nothing \/ quantity.patBinary}
WideqStates ==
    {c \in OfWideq : /\ ~c.present => c.value = Nothing
                     /\ c.value # Nothing => quantity.wideq # Nothing \/ quantity.tank}
FieldStates == {f \in Field : f.available => f.value # Nothing}
ReadsStates == {f \in ReadField : f.available => f.value # Nothing /\ ~f.spare}

NoField == [available |-> FALSE, value |-> Nothing]
NoReads == [available |-> FALSE, value |-> Nothing, spare |-> FALSE]

EntitiesInit ==
    /\ quantity \in Quantities /\ setup \in Setups
    /\ inProfile = {"reads", "primary"} /\ hidden = FALSE
    /\ cloudPat \in PatStates /\ ~cloudPat.data
    /\ cloudWideq = [present |-> FALSE, value |-> Nothing]
    /\ localPrimary = NoField /\ localReads = NoReads
    /\ built = Candidates
    /\ last = Nothing /\ had = FALSE
    /\ written = [k \in EntityKinds |-> IF k \in built THEN Says(k) ELSE Unavailable]

Notify(source) == Write({k \in built : source \in Heard(k)})

(* A push, a refresh or a pause of PAT.                                    *)
PatSays ==
    /\ cloudPat' \in PatStates \ {cloudPat}
    /\ UNCHANGED <<quantity, setup, inProfile, hidden, cloudWideq, localPrimary, localReads, built>>
    /\ Notify("pat")

WideqSays ==
    /\ setup.wideq
    /\ cloudWideq' \in WideqStates \ {cloudWideq}
    /\ UNCHANGED <<quantity, setup, inProfile, hidden, cloudPat, localPrimary, localReads, built>>
    /\ Notify("wideq")

PrimarySays ==
    /\ InPrimary
    /\ localPrimary' \in FieldStates \ {localPrimary}
    /\ UNCHANGED <<quantity, setup, inProfile, hidden, cloudPat, cloudWideq, localReads, built>>
    /\ Notify("primary")

ReadsSays ==
    /\ InReads
    /\ localReads' \in ReadsStates \ {localReads}
    /\ UNCHANGED <<quantity, setup, inProfile, hidden, cloudPat, cloudWideq, localPrimary, built>>
    /\ Notify("reads")

(* async_discover adds what has no entity yet and takes nothing away.      *)
Missing == {k \in Candidates : ~\E j \in built :
               PlatformOfKind(j) = PlatformOfKind(k) /\ IdOf(j) = IdOf(k)}

DiscoverLate ==
    /\ Missing # {}
    /\ built' = built \cup Missing
    /\ UNCHANGED <<quantity, setup, inProfile, hidden, saying>>
    /\ Write(Missing)

(* async_refresh after an edit: what goes is removed, what comes is added, *)
(* what has another owner is replaced, and the local providers tell their  *)
(* listeners.  A field that comes into a profile is read from the report   *)
(* or the publication the provider has already (update_profile).           *)
Refreshed(source, field, states, none) ==
    IF source \notin inProfile' THEN {none}
    ELSE IF source \in inProfile THEN {field} ELSE states

(* The new ones, those with another owner, and all that hear a provider.   *)
Rewritten == {k \in built' : \/ k \notin built \/ Heard(k)' # Heard(k)
                             \/ Heard(k)' \cap {"primary", "reads"} # {}}

RefreshMenu ==
    /\ inProfile' \in SUBSET {"reads", "primary"} /\ hidden' \in BOOLEAN
    /\ localPrimary' \in Refreshed("primary", localPrimary, FieldStates, NoField)
    /\ localReads' \in Refreshed("reads", localReads, ReadsStates, NoReads)
    /\ UNCHANGED <<quantity, setup, cloudPat, cloudWideq>>
    /\ built' = Candidates'
    /\ Write(Rewritten)

EntitiesNext ==
    PatSays \/ WideqSays \/ PrimarySays \/ ReadsSays \/ DiscoverLate \/ RefreshMenu

EntitiesSpec == EntitiesInit /\ [][EntitiesNext]_entityVars

----------------------------------------------------------------------------
(***************************************************************************)
(* No two entities of a platform share a unique id, whatever the clouds    *)
(* and providers say: _indexed_entities raises over one that does, and the *)
(* whole platform would be left out or the edit refused.                   *)
(***************************************************************************)
Unique(K) ==
    \A j, k \in K : PlatformOfKind(j) = PlatformOfKind(k) /\ IdOf(j) = IdOf(k) => j = k

IdsAreUnique == Unique(built) /\ Unique(Candidates)

(***************************************************************************)
(* What a profile or WideQ has is shown by someone, and by the local one   *)
(* alone where it is to be: a sensor of a cloud and one of the feed stand  *)
(* side by side only with the overlay or in different units, and a sensor  *)
(* that was taken over has no twin.  A disabled one is hidden for good.    *)
(***************************************************************************)
QuantityIsShown ==
    /\ ~hidden /\ (InReads \/ (InPrimary /\ ~quantity.promoted)) => built # {}
    /\ ~hidden /\ setup.wideq /\ quantity.wideq # Nothing =>
          built \cap {"wideq", "legacy", "legacyRead"} # {}
    /\ hidden => built \cap Local = {}

NoTwins ==
    /\ ~setup.overlay /\ "full" \in Candidates =>
          ~\E k \in Candidates : k = "pat" /\ quantity.pat = quantity.unit
    /\ {"full", "legacyRead"} \subseteq Candidates => FALSE
    /\ ~setup.overlay => ~({"full", "legacy"} \subseteq Candidates)
    /\ ~({"full", "pilot"} \subseteq Candidates)

(***************************************************************************)
(* What Home Assistant was told is what the entity says: every source an   *)
(* entity reads has it on its listeners, the primary provider too where    *)
(* its reading stands in for the feed's.  Where a local provider owns the  *)
(* quantity no value of a cloud is shown, not for a moment, and none in    *)
(* another unit than the entity's, whichever provider it comes from.  An   *)
(* energy reading does not go away again.                                  *)
(***************************************************************************)
WrittenIsSo == \A k \in built : written[k] = Says(k)

LocalAlone ==
    \A k \in built : (k \in Local \/ (k = "tank" /\ TankIsLocal)) =>
        written[k].from \in {"primary", "reads", "unavailable"}

UnitOf(k) ==
    CASE k \in {"wideq", "legacy", "legacyRead"} -> quantity.wideq
      [] k \in {"pilot", "pilotBinary"} -> quantity.pilotUnit
      [] OTHER -> quantity.unit

UnitsAreTheirs ==
    \A k \in built \cap Local :
        /\ written[k].from = "primary" => quantity.pilotUnit = UnitOf(k)
        /\ written[k].from = "reads" => quantity.unit = UnitOf(k)

EnergyStays == had => written["wideq"].value # Nothing

(* What a run checks.                                                      *)
ReadingIsSound ==
    /\ IdsAreUnique /\ QuantityIsShown /\ NoTwins
    /\ WrittenIsSo /\ LocalAlone /\ UnitsAreTheirs /\ EnergyStays
=============================================================================
