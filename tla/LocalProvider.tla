--------------------------- MODULE LocalProvider ----------------------------
(***************************************************************************)
(* LocalSemanticShadowProvider of local_provider.py: what Home Assistant   *)
(* believes of one appliance of the own network.  Its state comes with a   *)
(* marker of its availability; the bridge says which of its processes      *)
(* serves it, and which one sees the appliance.  A publication is accepted *)
(* or refused as a whole; states are ordered by generation, cohort, session*)
(* and sequence.  A cohort of 0 is none: a publication of schema 2.        *)
(***************************************************************************)
EXTENDS Integers, FiniteSets

CONSTANTS Sessions, Services,  \* ids of publishers and of the bridge's processes
          Snapshots,           \* publications: of the state,
          Availabilities,      \*   of the appliance's availability,
          Runtimes,            \*   of the bridge's own,
          Presences,           \*   of the appliance's presence at the bridge
          Proofs,              \* identity proofs, one for each appliance
          Fields,              \* fields as a profile describes them
          Profiles,            \* what the appliance's profile may say
          None,                \* no publication, no service, no status, no lease
          MaxEnded             \* MAX_TOMBSTONED_GENERATIONS

Statuses == {"online", "offline"}

Names(fields) == {f.name : f \in fields}

ASSUME ProfileAssumption ==
    /\ None \notin Proofs
    /\ Profiles \subseteq [proof : Proofs \cup {None},   \* expected_proof
                           presence : BOOLEAN,           \* availability_policy is set
                           fields : SUBSET Fields,
                           fixed : BOOLEAN,              \* not revision_independent
                           retracts : BOOLEAN,           \* authoritative_invalidations
                           lease : Nat \cup {None}]      \* freshness_max_age_ms of a report
    /\ \A q \in Profiles : \A f, g \in q.fields : f.name = g.name => f = g

ASSUME PublicationsAssumption ==
    /\ Snapshots \subseteq [gen : Nat \ {0}, cohort : Nat, session : Sessions,
                            seq : Nat \ {0}, at : Nat, proof : Proofs,
                            fields : SUBSET Fields, retracted : SUBSET Names(Fields),
                            seen : Nat]
    /\ Availabilities \subseteq [gen : Nat \ {0}, cohort : Nat, session : Sessions,
                                 seq : Nat \ {0}, status : Statuses \cup {None}, at : Nat,
                                 proof : Proofs]
    /\ Runtimes \subseteq [service : Services, status : Statuses \cup {None}, at : Nat]
    /\ Presences \subseteq [gen : Nat \ {0}, service : Services, seq : Nat \ {0},
                            status : Statuses \cup {None}, at : Nat, proof : Proofs,
                            until : Nat \cup {None}]
    /\ None \notin Snapshots \cup Availabilities \cup Runtimes \cup Presences
    /\ None \notin Services
    /\ MaxEnded \in Nat

VARIABLES profile,        \* profile
          shadowFields,         \* _shadow_fields: those of the state shown that have a meaning
          gen,            \* _binding_generation; 0 is None
          cohort,         \* _cohort_generation
          snap,           \* the state shown, with its session and sequence
          avail,          \* _device_availability_payload
          device,         \* _device_status
          ended,          \* _tombstoned_sessions
          pending,        \* _pending_live_state
          runtime,        \* _runtime_payload
          runtimeAt,      \* _runtime_availability_at, while there is a runtime
          service,        \* _service_instance_id
          endedServices,  \* _tombstoned_service_instances
          presence,       \* the last presence accepted,
          shown,          \*   and whether it has not been deleted
          endedPresence,  \* _tombstoned_presence_service_instances
          heard,          \* _presence_live_received_at: "no", "live", or "lapsed"
          ready,          \* _transport_ready
          current,        \* _control_state_current
          transport       \* _semantic_transport_current

cursor == <<gen, cohort, snap, shadowFields, avail, device, ended>>
served == <<runtime, runtimeAt, service, endedServices>>
seen == <<presence, shown, endedPresence>>
marks == <<current, transport>>
providerVars == <<profile, cursor, pending, served, seen, heard, ready, marks>>

ProviderInit ==
    /\ profile \in Profiles /\ shadowFields = {}
    /\ gen = 0 /\ cohort = 0 /\ snap = None /\ avail = None /\ device = "unknown"
    /\ ended = {} /\ pending = None
    /\ runtime = None /\ runtimeAt = 0 /\ service = None /\ endedServices = {}
    /\ presence = None /\ shown = FALSE /\ endedPresence = {} /\ heard = "no"
    /\ ready = FALSE /\ current = FALSE /\ transport = FALSE

Room(ids) == Cardinality(ids) < MaxEnded

Online(p) == p # None /\ p.status = "online"

----------------------------------------------------------------------------
(* What parses.  A document that is not JSON, or whose keys, types, model, *)
(* revision or time are not as they should be, is no publication at all.   *)

(* _identity_fields: without a device id of the cloud no proof is expected.*)
IdentityFits(m, q) == q.proof \in {None, m.proof}

(* The fields and those retracted, for the profile q.  A profile that is   *)
(* fixed refuses what it does not name, the others pass over it; what it   *)
(* names has to be as it says; seen is when the last of those that count   *)
(* was observed.                                                           *)
FieldsFit(s, q) ==
    /\ s.fields # {} \/ s.retracted # {}
    /\ q.fixed => Names(s.fields) \cup s.retracted \subseteq Names(q.fields)
    /\ \A f \in s.fields : f.name \in Names(q.fields) => f \in q.fields
    /\ Names(s.fields \cap q.fields) \cap s.retracted = {}
    /\ s.retracted # {} => q.retracts
    /\ s.seen <= s.at

IsState(s, q) == IdentityFits(s, q) /\ FieldsFit(s, q)

IsAvailability(a, q) == IdentityFits(a, q) /\ a.status \in Statuses

IsRuntime(r) == r.status \in Statuses

(* _parse_control_presence: an attested session lasts until it is said to  *)
(* be over; a report is good for the lease, and once the appliance is      *)
(* offline it promises nothing.                                            *)
IsPresence(p, q) ==
    /\ IdentityFits(p, q) /\ p.status \in Statuses
    /\ IF q.lease = None THEN p.until = None
       ELSE /\ p.until # None
            /\ IF p.status = "online" THEN p.until = p.at + q.lease ELSE p.until <= p.at

ParsedBy ==
    [q \in Profiles |-> [states |-> {s \in Snapshots : IsState(s, q)},
                        availabilities |-> {a \in Availabilities : IsAvailability(a, q)},
                        presences |-> {p \in Presences : IsPresence(p, q)}]]

StatesThatParse == ParsedBy[profile].states
AvailabilitiesThatParse == ParsedBy[profile].availabilities
PresencesThatParse == ParsedBy[profile].presences
RuntimesThatParse == {r \in Runtimes : IsRuntime(r)}

----------------------------------------------------------------------------
(* The state and its availability.                                         *)

Coordinate(m) == <<m.gen, m.cohort, m.seq>>

(* _availability_describes_current_state                                   *)
Describes ==
    /\ snap # None /\ avail # None
    /\ Coordinate(avail) = Coordinate(snap) /\ avail.at >= snap.at

(* shadow_healthy: there is something to show.                             *)
Healthy ==
    /\ ready /\ transport /\ Describes /\ device = "online" /\ Online(runtime)
    /\ shadowFields # {}

(* What comes of the bridge while nothing is healthy drops the pending     *)
(* state.                                                                  *)
Settles == pending' = IF Healthy' THEN pending ELSE None

Precedes(m, n) ==
    \/ m.gen < n.gen
    \/ m.gen = n.gen /\ m.cohort < n.cohort
    \/ m.gen = n.gen /\ m.cohort = n.cohort /\ m.seq < n.seq

SameSession(s) == snap # None /\ snap.session = s.session
OtherSession(s) == snap # None /\ snap.session # s.session

(* _cohort_advanced_candidate: a cohort counts within its generation, ...  *)
CohortAdvanced(s) == s.cohort # 0 /\ cohort # 0 /\ s.gen <= gen /\ s.cohort > cohort

\* Mutant of CursorFits: only the generation counts.
CursorFitsAnyCohort(s) == s.gen >= gen

(* ... it never goes back, and it is one session.                          *)
CursorFits(s) ==
    /\ s.gen >= gen
    /\ \/ s.cohort = 0 \/ s.gen > gen \/ cohort = 0
       \/ s.cohort > cohort
       \/ s.cohort = cohort /\ SameSession(s)

NotEnded(s) == s.session \notin ended \/ CohortAdvanced(s)

(* _ingest_state: another session needs the appliance to be offline, the   *)
(* same one a higher sequence.                                             *)
StateFits(s) ==
    /\ CursorFits(s) /\ NotEnded(s)
    /\ \/ CohortAdvanced(s) \/ snap = None
       \/ SameSession(s) /\ (s.seq > snap.seq \/ s = snap)
       \/ OtherSession(s) /\ device = "offline" /\ Room(ended)

\* Mutant of Adopted: the cohort stays the first one seen.
AdoptedFirstCohort(s) ==
    /\ gen' = s.gen /\ snap' = s /\ shadowFields' = s.fields \cap profile.fields
    /\ cohort' = IF cohort = 0 THEN s.cohort ELSE cohort
    /\ ended' = (IF OtherSession(s) /\ ~CohortAdvanced(s) THEN ended \cup {snap.session} ELSE ended)
                   \ (IF CohortAdvanced(s) THEN {s.session} ELSE {})

(* The session a state replaces is not to come back, unless a new cohort   *)
(* uses its id again.                                                      *)
Adopted(s) ==
    /\ gen' = s.gen /\ snap' = s /\ shadowFields' = s.fields \cap profile.fields
    /\ cohort' = IF s.cohort = 0 THEN cohort ELSE s.cohort
    /\ ended' = (IF OtherSession(s) /\ ~CohortAdvanced(s) THEN ended \cup {snap.session} ELSE ended)
                   \ (IF CohortAdvanced(s) THEN {s.session} ELSE {})

(* A live state of schema 2 is shown at once, without its availability.    *)
LiveState2(s) ==
    /\ s.cohort = 0 /\ StateFits(s) /\ s # snap
    /\ Adopted(s)
    /\ IF SameSession(s) THEN UNCHANGED <<avail, device>> ELSE avail' = None /\ device' = "unknown"
    /\ current' = FALSE
    /\ UNCHANGED <<profile, pending, served, seen, heard, ready, transport>>

(* One of schema 3 waits for its availability.                             *)
LiveState3(s) ==
    /\ s.cohort # 0 /\ StateFits(s)
    /\ pending # None =>
          /\ ~Precedes(s, pending)
          /\ s.gen = pending.gen /\ s.cohort = pending.cohort => s.session = pending.session
          /\ Coordinate(s) = Coordinate(pending) => s = pending
    /\ pending' = s
    /\ UNCHANGED <<profile, cursor, served, seen, heard, ready, marks>>

(* _semantic_final_current_candidate, where seenGen is the generation of   *)
(* the presence: both are one publisher's, and what they say is not over.  *)
PairFits(s, a, seenGen) ==
    /\ a.session = s.session /\ a.at >= s.at /\ Coordinate(a) = Coordinate(s)
    /\ CursorFits(s) /\ NotEnded(s)
    /\ SameSession(s) /\ ~CohortAdvanced(s) =>
          /\ s.seq > snap.seq \/ s = snap
          /\ avail # None => a.at >= avail.at
    /\ OtherSession(s) /\ ~CohortAdvanced(s) => Room(ended)
    /\ seenGen \in {0, s.gen}

SeenGen(p) == IF p = None THEN 0 ELSE p.gen

(* _apply_semantic_final_current                                           *)
PairAdopted(s, a) ==
    /\ Adopted(s)
    /\ avail' = a /\ device' = a.status
    /\ current' = TRUE /\ transport' = TRUE

(* The availability of the pending state shows both, ...                   *)
LivePair(a) ==
    /\ pending # None /\ pending \in StatesThatParse
    /\ PairFits(pending, a, SeenGen(presence))
    /\ PairAdopted(pending, a)
    /\ pending' = None
    /\ UNCHANGED <<profile, served, seen, heard, ready>>

(* ... any other has to be that of the state shown.                        *)
LiveAvailability(a) ==
    /\ pending # None => Coordinate(a) # Coordinate(pending) \/ a.session # pending.session
    /\ a.session \notin ended
    /\ SameSession(a) /\ Coordinate(a) = Coordinate(snap) /\ a.at >= snap.at
    /\ avail # None => a.at >= avail.at
    /\ \/ a = avail /\ UNCHANGED <<avail, device, marks>>
       \/ /\ a # avail
          /\ a.status # device \/ ~Describes
          /\ avail' = a /\ device' = a.status
          /\ current' = TRUE /\ transport' = TRUE
    /\ pending' = IF a.status = "offline" THEN None ELSE pending
    /\ UNCHANGED <<profile, gen, cohort, snap, shadowFields, ended, served, seen, heard, ready>>

\* Mutant of SessionDeleted: its session may go on.
SessionDeletedKept ==
    /\ snap # None => snap.session \in ended \/ Room(ended)
    /\ UNCHANGED ended
    /\ current' = FALSE /\ transport' = FALSE
    /\ device' = "offline" /\ avail' = None
    /\ pending' = None
    /\ UNCHANGED <<profile, gen, cohort, served, seen, heard, ready>>

(* A retained state or availability is retracted: its session is over.     *)
SessionDeleted ==
    /\ snap # None => snap.session \in ended \/ Room(ended)
    /\ ended' = IF snap = None THEN ended ELSE ended \cup {snap.session}
    /\ current' = FALSE /\ transport' = FALSE
    /\ device' = "offline" /\ avail' = None
    /\ pending' = None
    /\ UNCHANGED <<profile, gen, cohort, served, seen, heard, ready>>

StateDeleted == SessionDeleted /\ snap' = None /\ shadowFields' = {}
AvailabilityDeleted == SessionDeleted /\ UNCHANGED <<snap, shadowFields>>

----------------------------------------------------------------------------
(* The bridge's processes.                                                 *)

Other(id) == service \notin {None, id}

(* Whoever serves instead of another ends it for good.                     *)
RuntimeAdopted(r) ==
    /\ endedServices' = IF Other(r.service) THEN endedServices \cup {service} ELSE endedServices
    /\ service' = r.service /\ runtime' = r
    /\ runtimeAt' = IF service # r.service \/ runtime = None \/ r.at >= runtimeAt
                    THEN r.at ELSE runtimeAt

(* A last will was written before its process said that it is online: it   *)
(* may be older than that, but only to end it.                             *)
InOrder(r) == runtime # None => r.at >= runtimeAt \/ (Online(runtime) /\ r.status = "offline")

(* _ingest_runtime_availability: another process serves once this one is   *)
(* offline, or the appliance has been seen at it.                          *)
LiveRuntime(r, retained) ==
    /\ r.service \notin endedServices
    /\ \/ r = runtime /\ UNCHANGED <<served, current>>
       \/ /\ IF Other(r.service)
             THEN /\ ~Online(runtime) \/ (~retained /\ shown /\ presence.service = r.service)
                  /\ service \in endedServices \/ Room(endedServices)
             ELSE InOrder(r) /\ (runtime # None => r.status # runtime.status)
          /\ RuntimeAdopted(r)
          /\ current' = FALSE
    /\ UNCHANGED <<profile, cursor, seen, heard, ready, transport>>
    /\ Settles

RuntimeEnded ==
    /\ service # None => service \in endedServices \/ Room(endedServices)
    /\ endedServices' = IF service = None THEN endedServices ELSE endedServices \cup {service}
    /\ runtime' = None /\ runtimeAt' = 0
    /\ UNCHANGED service

(* _ingest_runtime_retained_delete                                         *)
RuntimeDeleted ==
    /\ RuntimeEnded
    /\ heard' = "no" /\ current' = FALSE /\ pending' = None
    /\ UNCHANGED <<profile, cursor, seen, ready, transport>>

(* _validate_presence_candidate: a process that is over may see the        *)
(* appliance again only in a new generation.                               *)
PresenceFits(p) ==
    presence # None =>
        /\ p.gen >= presence.gen
        /\ p.gen = presence.gen =>
              /\ p.service \notin endedPresence
              /\ p.service = presence.service =>
                    p.seq > presence.seq \/ (shown /\ p = presence)
        /\ p.service # presence.service => Room(endedPresence)

(* _apply_presence_candidate                                               *)
PresenceAdopted(p) ==
    /\ presence' = p /\ shown' = TRUE
    /\ endedPresence' =
          IF presence = None THEN endedPresence
          ELSE (IF p.service # presence.service THEN endedPresence \cup {presence.service}
                ELSE endedPresence) \ (IF p.gen > presence.gen THEN {p.service} ELSE {})

\* Mutant of Delivered: a retained copy is as good as a live one.
DeliveredAnyhow(retained) == heard' = "live"

(* _apply_presence_delivery                                                *)
Delivered(retained) == heard' = IF retained THEN "no" ELSE "live"

(* _ingest_control_presence: whoever sees the appliance now, and not in a  *)
(* retained copy, serves it.                                               *)
LivePresence(p, retained) ==
    /\ profile.presence /\ PresenceFits(p)
    /\ IF ~retained /\ Other(p.service) THEN RuntimeEnded ELSE UNCHANGED served
    /\ PresenceAdopted(p)
    /\ Delivered(retained)
    /\ current' = (current /\ shown /\ p = presence /\ (retained \/ ~Other(p.service)))
    /\ UNCHANGED <<profile, cursor, ready, transport>>
    /\ Settles

PresenceDeleted ==
    /\ profile.presence
    /\ shown' = FALSE /\ heard' = "no" /\ current' = FALSE /\ pending' = None
    /\ UNCHANGED <<profile, cursor, served, presence, endedPresence, ready, transport>>

----------------------------------------------------------------------------
(* A new connection.                                                       *)

\* Mutant of TransportLost: what was shown still counts as current.
TransportLostCurrent ==
    /\ ready' = FALSE /\ pending' = None
    /\ current' = FALSE /\ heard' = "no"
    /\ UNCHANGED <<profile, cursor, served, seen, transport>>

(* set_transport_ready(False)                                              *)
TransportLost ==
    /\ ready' = FALSE /\ pending' = None
    /\ current' = FALSE /\ transport' = FALSE /\ heard' = "no"
    /\ UNCHANGED <<profile, cursor, served, seen>>

(* _runtime_final_current_candidate: a process that did not end, and       *)
(* another one only while its predecessor can be remembered.               *)
RuntimeFits(r) ==
    /\ r.service \notin endedServices
    /\ Other(r.service) => Room(endedServices)
    /\ service = r.service => InOrder(r) \/ r = runtime

(* ingest_control_bootstrap_final_current, and set_transport_ready(True):  *)
(* which process serves, and where the appliance has been seen, as one.    *)
(* Until then no mark is set.                                              *)
ControlBootstrap(r, p, retained) ==
    /\ profile.presence /\ ~ready
    /\ RuntimeFits(r) /\ PresenceFits(p)
    /\ ~retained => r.service = p.service
    /\ RuntimeAdopted(r) /\ PresenceAdopted(p) /\ Delivered(retained)
    /\ ready' = TRUE
    /\ UNCHANGED <<profile, pending>>

(* ingest_semantic_bootstrap_final_current                                 *)
SemanticBootstrap(s, a, seenGen) == PairFits(s, a, seenGen) /\ PairAdopted(s, a)

(* ingest_bootstrap_final_current, and set_transport_ready(True): without  *)
(* presence, the state, its availability and the process that serves it are*)
(* adopted as one, or not at all.                                          *)
WholeFits(s, a, r) == PairFits(s, a, 0) /\ RuntimeFits(r)

WholeBootstrap(s, a, r) ==
    /\ ~profile.presence /\ ~ready
    /\ WholeFits(s, a, r)
    /\ PairAdopted(s, a) /\ RuntimeAdopted(r)
    /\ ready' = TRUE
    /\ UNCHANGED <<profile, pending, seen, heard>>

(* The live presence gets too old.                                         *)
Lapse ==
    /\ heard = "live" /\ heard' = "lapsed"
    /\ UNCHANGED <<profile, cursor, pending, served, seen, ready, marks>>

----------------------------------------------------------------------------
(* The feature database has another profile for the appliance.             *)

\* Mutant of ProfileUpdated: what is shown stays, whatever it means now.
ProfileUpdatedKeeps(q) ==
    /\ profile' = q /\ q.presence = profile.presence /\ q.proof = profile.proof
    /\ UNCHANGED <<cursor, pending, served, seen, heard, ready, marks>>

(* update_profile: what is described as before is kept, and the state      *)
(* shown is read again if it can be.                                       *)
ProfileUpdated(q) ==
    /\ q.presence = profile.presence /\ q.proof = profile.proof
    /\ profile' = q
    /\ shadowFields' = q.fields \cap
          (shadowFields \cup IF snap \in ParsedBy[q].states THEN snap.fields ELSE {})
    /\ UNCHANGED <<gen, cohort, snap, avail, device, ended, pending, served, seen, heard, ready, marks>>

----------------------------------------------------------------------------
(* read_publication_authority: the appliance may be read at the process    *)
(* that sees it, be it only in a retained copy.                            *)
ReadAuthority ==
    /\ ready /\ shown /\ Online(presence) /\ Online(runtime)
    /\ presence.service = service

(* semantic_field_available, for those that are not too old: a state that  *)
(* is captured, and not the appliance, may be offline.                     *)
AvailableFields ==
    IF Healthy \/ (transport /\ snap # None /\ ReadAuthority) THEN shadowFields ELSE {}

(* control_alive: a command may be sent.                                   *)
ControlAlive == ReadAuthority /\ heard = "live"

(* control_state_ready: a frame may be composed of the state shown.        *)
ControlStateReady ==
    /\ profile.presence /\ transport /\ current /\ snap # None /\ presence # None
    /\ gen = presence.gen /\ snap.at >= presence.at /\ shadowFields # {}

============================================================================
