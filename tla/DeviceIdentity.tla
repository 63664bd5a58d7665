--------------------------- MODULE DeviceIdentity ---------------------------
(***************************************************************************)
(* resolve_wideq_devices of device_identity.py, and the map WideqCoordina- *)
(* tor keeps by it: which appliance of the WideQ account each PAT device   *)
(* is.  An appliance is called by its alias and model, which its user may  *)
(* change at any time; PAT and WideQ list it at different times.           *)
(***************************************************************************)
EXTENDS Naturals

CONSTANTS PatIds,      \* PAT device ids
          WideqIds,    \* WideQ device ids
          Names,       \* signatures: alias and model
          NoId,        \* not paired
          NoName,      \* not listed
          Same         \* the WideQ id of each PAT id's appliance

ASSUME IdentityAssumption ==
    /\ NoId \notin WideqIds /\ NoName \notin Names
    /\ Same \in [PatIds -> WideqIds]
    /\ \A p, q \in PatIds : Same[p] = Same[q] => p = q

VARIABLES called,     \* LG: what each appliance is called, if it is there
          known,      \* self._pat_devices: what PAT listed each device as
          paired,     \* self._pat_to_wideq
          ambiguous,  \* self._ambiguous_pat_ids
          store,      \* the map as it is stored
          misled      \* history: devices the first store was wrong about, or a name

map == <<paired, ambiguous>>
vars == <<called, known, map, store, misled>>

----------------------------------------------------------------------------
(* The persisted pairs of devices that still exist, ...                    *)
Persisted(pats, pairs) == {p \in PatIds : pats[p] # NoName /\ pairs[p] # NoId}

(* ... those that share their WideQ id with no other, ...                  *)
OneToOne(pats, pairs) ==
    {p \in Persisted(pats, pairs) :
        \A q \in Persisted(pats, pairs) : pairs[q] = pairs[p] => q = p}

(* ... and what is left to be matched by name.                             *)
Unpaired(pats, pairs) ==
    {p \in PatIds : pats[p] # NoName} \ Persisted(pats, pairs)

Offered(pats, pairs, listing, p) ==
    {w \in WideqIds : /\ listing[w] # NoName /\ listing[w] = pats[p]
                      /\ \A q \in Persisted(pats, pairs) : pairs[q] # w}

\* Mutant of Matched: two PAT devices of one name do not matter.
MatchedOneSided(pats, pairs, listing) ==
    {p \in Unpaired(pats, pairs) :
        \E w \in WideqIds : Offered(pats, pairs, listing, p) = {w}}

(* A name that is unique on both sides makes a pair.                       *)
Matched(pats, pairs, listing) ==
    {p \in Unpaired(pats, pairs) :
        /\ \E w \in WideqIds : Offered(pats, pairs, listing, p) = {w}
        /\ \A q \in Unpaired(pats, pairs) : pats[q] = pats[p] => q = p}

\* Mutant of PatToWideq: a name is believed before a persisted pair.
PatToWideqByName(pats, pairs, listing) ==
    [p \in PatIds |->
        IF \E w \in WideqIds : listing[w] # NoName /\ listing[w] = pats[p]
        THEN CHOOSE w \in WideqIds : listing[w] # NoName /\ listing[w] = pats[p]
        ELSE IF p \in OneToOne(pats, pairs) THEN pairs[p]
        ELSE NoId]

(* resolve_wideq_devices: the new map, ...                                 *)
PatToWideq(pats, pairs, listing) ==
    [p \in PatIds |->
        IF p \in OneToOne(pats, pairs) THEN pairs[p]
        ELSE IF p \in Matched(pats, pairs, listing)
             THEN CHOOSE w \in WideqIds : Offered(pats, pairs, listing, p) = {w}
        ELSE NoId]

\* Mutant of Ambiguous: pairs made by this snapshot count as ambiguous.
AmbiguousMatches(pats, pairs, listing) ==
    (Persisted(pats, pairs) \ OneToOne(pats, pairs))
    \cup {p \in Unpaired(pats, pairs) : Offered(pats, pairs, listing, p) # {}}

(* ... and the devices it would have to guess about.                       *)
Ambiguous(pats, pairs, listing) ==
    (Persisted(pats, pairs) \ OneToOne(pats, pairs))
    \cup {p \in Unpaired(pats, pairs) \ Matched(pats, pairs, listing) :
              Offered(pats, pairs, listing, p) # {}}

Nothing == [w \in WideqIds |-> NoName]

----------------------------------------------------------------------------
IsRight(p, w) == w \in {Same[p], NoId}

(* Set-up: PAT has listed what is there, and the stored map, whatever is   *)
(* left of it, has been restored by async_restore_device_map.              *)
Init ==
    /\ called \in [PatIds -> Names \cup {NoName}]
    /\ known = called
    /\ store \in [PatIds -> WideqIds \cup {NoId}]
    /\ misled = {p \in PatIds : ~IsRight(p, store[p])}
    /\ paired = PatToWideq(known, store, Nothing)
    /\ ambiguous = Ambiguous(known, store, Nothing)

(* An appliance is registered, or renamed.  Its user may give it the name  *)
(* another one has or had.                                                 *)
Call(p, s) ==
    /\ called' = [called EXCEPT ![p] = s]
    /\ UNCHANGED <<known, map, store, misled>>

(* An appliance is removed from the account.                               *)
Remove(p) ==
    /\ called[p] # NoName
    /\ called' = [called EXCEPT ![p] = NoName]
    /\ UNCHANGED <<known, map, store, misled>>

(* add_pat_devices, with the list PAT has just answered.                   *)
AddPatDevices ==
    /\ known' = [p \in PatIds |-> IF called[p] = NoName THEN known[p] ELSE called[p]]
    /\ UNCHANGED <<called, map, store, misled>>

(* An account snapshot lists the appliances that are there, by the names   *)
(* they have now.                                                          *)
Listing(there) ==
    [w \in WideqIds |->
        IF \E p \in there : Same[p] = w
        THEN called[CHOOSE p \in there : Same[p] = w] ELSE NoName]

(* The devices matched by a name that PAT and the snapshot do not agree    *)
(* about: another appliance is listed by it which PAT has not listed, or   *)
(* has listed by another name; or it is one that is taken for another.     *)
Misleads(there) ==
    {p \in Matched(known, paired, Listing(there)) :
        \E r \in there \ {p} :
            called[r] = known[p] /\ (known[r] # called[r] \/ r \in misled)}

(* _resolve_devices of an account snapshot, which may miss appliances.     *)
Resolve(there) ==
    /\ paired' = PatToWideq(known, paired, Listing(there))
    /\ ambiguous' = Ambiguous(known, paired, Listing(there))
    /\ misled' = misled \cup Misleads(there)
    /\ UNCHANGED <<called, known, store>>

(* The delayed save, or that of an unload.                                 *)
Save ==
    /\ store' = paired
    /\ UNCHANGED <<called, known, paired, ambiguous, misled>>

\* Mutant of Restart: a stored map is taken as it is.
RestartUnchecked ==
    /\ known' \in {called, known}
    /\ paired' = [p \in PatIds |-> IF known'[p] = NoName THEN NoId ELSE store[p]]
    /\ ambiguous' = {}
    /\ UNCHANGED <<called, store, misled>>

(* A new start, after an unload or a crash: PAT lists what is there, or the*)
(* inventory is the last list, and the stored map is restored.             *)
Restart ==
    /\ known' \in {called, known}
    /\ paired' = PatToWideq(known', store, Nothing)
    /\ ambiguous' = Ambiguous(known', store, Nothing)
    /\ UNCHANGED <<called, store, misled>>

Next ==
    \/ \E p \in PatIds, s \in Names : Call(p, s)
    \/ \E p \in PatIds : Remove(p)
    \/ AddPatDevices
    \/ \E there \in SUBSET PatIds : Resolve(there)
    \/ Save
    \/ Restart

Spec == Init /\ [][Next]_vars

----------------------------------------------------------------------------
(* Every variable has its type, and a device the code would have to guess  *)
(* about is not paired.                                                    *)
TypeOK ==
    /\ called \in [PatIds -> Names \cup {NoName}]
    /\ known \in [PatIds -> Names \cup {NoName}]
    /\ paired \in [PatIds -> WideqIds \cup {NoId}]
    /\ ambiguous \in SUBSET PatIds /\ \A p \in ambiguous : paired[p] = NoId
    /\ store \in [PatIds -> WideqIds \cup {NoId}]
    /\ misled \in SUBSET PatIds

(* No two PAT devices are taken for one appliance: a command to one would  *)
(* reach the other's, whatever the store held.                             *)
NoSharedAppliance ==
    \A p, q \in PatIds : paired[p] = paired[q] /\ paired[p] # NoId => p = q

(* "Resolve WideQ records without ever guessing between duplicate devices":*)
(* a pair is the appliance it is taken for, although names are not unique  *)
(* and change hands, snapshots miss appliances, PAT's list is older than   *)
(* WideQ's, and the stored map is older than both.  The exceptions are     *)
(* devices the first stored map was wrong about, and those matched by a    *)
(* name that another appliance had taken and PAT had not yet listed it by: *)
(* their pairs are wrong for ever.                                         *)
RightAppliance == \A p \in PatIds \ misled : IsRight(p, paired[p])

(* "A previously persisted stable-ID mapping wins even if the user renamed *)
(* a device": a pair lasts as long as the coordinator.                     *)
PairsLast ==
    [][\A p \in PatIds : paired[p] # NoId /\ ~Restart => paired'[p] = paired[p]]_vars

=============================================================================
