------------------------------ MODULE ReadFeed ------------------------------
(***************************************************************************)
(* TlvReadShadowProvider of local_read_provider.py: the full-read feed of  *)
(* one binding.  The bridge keeps one retained current, deletes it, and    *)
(* announces transient events of it; the broker delivers again after every *)
(* reconnect.  The semantic provider ("primary") says which binding        *)
(* generation and service session is alive.  What a current shows depends  *)
(* on the profile, which a live edit of the feature database replaces.     *)
(*                                                                         *)
(* The bridge, the broker and the primary are external: any publication    *)
(* may come at any time, and the primary may change in any way.            *)
(***************************************************************************)
EXTENDS Naturals, FiniteSets, Functions

CONSTANTS Publications,  \* cursors and bodies the bridge may publish
          EventBodies,
          Primaries,     \* what the primary may say
          Semantics, Types,
          Raw,           \* the type of each semantic in a body: Absent, Invalid
          Profiles,      \* descriptors: the type each semantic must have, or Absent
          Absent, Invalid, None,
          MaxNotified    \* bound: events notified

ASSUME ReadAssumption ==
    /\ Profiles \subseteq [Semantics -> Types \cup {Absent}]
    /\ None \notin Publications
    /\ \A p \in Publications :
          /\ p.gen \in Nat /\ p.cohort \in Nat /\ p.seq \in Nat
          /\ Raw[p.body] \in [Semantics -> Types \cup {Absent, Invalid}]
    /\ MaxNotified \in Nat

VARIABLES policy,    \* _read_contract_policy
          profile,   \* the profile's descriptors
          primary,   \* the primary: generation, cohort (0 when unknown), session and whether it is live
          ready,     \* _transport_ready
          current,   \* the cursor and body of the accepted current, or None
          fields,    \* the semantics it shows
          fresh,     \* _current_transport_current
          outer,     \* _outer_high_water; <<0, 0>> for none
          tombs,     \* _tombstoned_current_cursors
          sources,   \* _publication_sources
          highs,     \* _source_sequence_high_water
          events,    \* _event_high_water
          top,       \* history: the highest sequence that each epoch ever had as a current,
                     \*   and whether that one was deleted
          since,     \* history: the currents that came since their coordinate was reached
          reached,   \* history: the highest coordinate committed with a live primary
          here,      \* history: whether the current came since the transport was last lost
          emitted,   \* history: the events notified,
          notified   \*   and how many times

vars == <<policy, profile, primary, ready, current, fields, fresh, outer, tombs, sources, highs,
          events, top, since, reached, here, emitted, notified>>
cursors == <<outer, tombs, sources, highs, events>>

Place(p) == <<p.gen, p.cohort, p.session>>
Epoch(p) == <<p.gen, p.cohort, p.session, p.source>>
Outer(p) == <<p.gen, p.cohort>>
Below(x, y) == x[1] < y[1] \/ (x[1] = y[1] /\ x[2] < y[2])
NoFn == [x \in {} |-> x]
With(f, x, v) == [y \in DOMAIN f \cup {x} |-> IF y = x THEN v ELSE f[y]]

Init ==
    /\ policy \in {"pinned", "field-compatible"}
    /\ profile \in Profiles
    /\ primary \in Primaries
    /\ ready = FALSE
    /\ current = None /\ fields = {} /\ fresh = FALSE
    /\ outer = <<0, 0>> /\ tombs = NoFn /\ sources = NoFn /\ highs = NoFn /\ events = NoFn
    /\ top = NoFn /\ since = {} /\ reached = <<0, 0>> /\ here = FALSE /\ emitted = {} /\ notified = 0

----------------------------------------------------------------------------
(* What a body shows under a profile.                                      *)

Shows(body, descriptors) ==
    {s \in Semantics : Raw[body][s] \in Types /\ Raw[body][s] = descriptors[s]}
Invalidates(body, descriptors) ==
    {s \in Semantics : Raw[body][s] = Invalid /\ descriptors[s] # Absent}

(* Pinned, every semantic must be described and of its type; by fields,    *)
(* one compatible semantic is enough.                                      *)
Readable(body) ==
    IF policy = "pinned"
    THEN \A s \in Semantics : Raw[body][s] # Absent =>
            s \in Shows(body, profile) \cup Invalidates(body, profile)
    ELSE Shows(body, profile) \cup Invalidates(body, profile) # {}

(* A current of another generation than the live one is foreign; a pinned  *)
(* one of an earlier cohort and another session is stale.                  *)
Related(p) ==
    /\ primary.live => p.gen = primary.gen
    /\ ~ /\ policy = "pinned" /\ primary.live /\ p.gen = primary.gen
         /\ p.cohort < primary.cohort /\ p.session # primary.session

NotDeleted(p) == Epoch(p) \in DOMAIN tombs => p.seq > tombs[Epoch(p)].seq
NotOlder(p) == Epoch(p) \in DOMAIN highs => p.seq >= highs[Epoch(p)]
OneSource(p) == Place(p) \in DOMAIN sources => sources[Place(p)] = p.source

Advances(p) == outer = <<0, 0>> \/ Below(outer, Outer(p))

(* mutant: a repeated current is refused.                                  *)
ContinuesStrictly(p) ==
    current # None /\ ~Advances(p) =>
        p.session = current.session /\ p.source = current.source /\ p.seq > current.seq

(* mutant: another body at the same sequence is taken.                     *)
ContinuesLoosely(p) ==
    current # None /\ ~Advances(p) =>
        p.session = current.session /\ p.source = current.source /\ p.seq >= current.seq

(* Within one coordinate the session and the source stay, and the sequence *)
(* goes on; the same sequence is the same current.                         *)
Continues(p) ==
    current # None /\ ~Advances(p) =>
        /\ p.session = current.session /\ p.source = current.source
        /\ p.seq > current.seq \/ p = current

(* mutant: an older current that is delivered late is taken.               *)
FitsOutOfOrder(p) ==
    Related(p) /\ NotDeleted(p) /\ OneSource(p) /\ ~Below(Outer(p), outer) /\ Continues(p)

(* mutant: one of an earlier cohort that comes back is taken.              *)
FitsEarlier(p) == Related(p) /\ NotDeleted(p) /\ NotOlder(p) /\ OneSource(p) /\ Continues(p)

Fits(p) ==
    /\ Related(p) /\ NotDeleted(p) /\ NotOlder(p) /\ OneSource(p)
    /\ ~Below(Outer(p), outer)
    /\ Continues(p)

(* Only a current that comes with a live primary anchors the fence, and    *)
(* what lies before the fence is forgotten.                                *)
Kept(f, p) ==
    IF Advances(p) /\ primary.live
    THEN Restrict(f, {x \in DOMAIN f : ~Below(<<x[1], x[2]>>, Outer(p))})
    ELSE f

Repeats(p) == ~Advances(p) /\ p = current

Newest(p) ==
    IF Epoch(p) \in DOMAIN top /\ p.seq <= top[Epoch(p)].seq
    THEN top[Epoch(p)] ELSE [seq |-> p.seq, deleted |-> FALSE]

Commit(p) ==
    /\ current' = p /\ fields' = Shows(p.body, profile) /\ fresh' = TRUE
    /\ outer' = IF primary.live THEN Outer(p) ELSE outer
    /\ tombs' = Kept(tombs, p)
    /\ sources' = With(Kept(sources, p), Place(p), p.source)
    /\ highs' = With(Kept(highs, p), Epoch(p), p.seq)
    /\ events' = Kept(events, p)
    /\ top' = With(top, Epoch(p), Newest(p))
    /\ since' = (IF Advances(p) THEN {} ELSE since) \cup {p}
    /\ reached' = IF primary.live /\ Below(reached, Outer(p)) THEN Outer(p) ELSE reached

Current(p) ==
    /\ ready /\ Readable(p.body) /\ Fits(p)
    /\ IF Repeats(p)
       THEN /\ fresh' = TRUE
            /\ UNCHANGED <<current, fields, cursors, top, since, reached>>
       ELSE Commit(p)
    /\ here' = TRUE
    /\ UNCHANGED <<policy, profile, primary, ready, emitted, notified>>

(* mutant: a deletion forgets the current without a trace.                 *)
BuriedNowhere == tombs

(* An empty retained payload deletes the current, and with it the source   *)
(* its place had.  With nothing to delete, it frees the live places.       *)
Buried == With(tombs, Epoch(current), [seq |-> current.seq, body |-> current.body])

Delete ==
    /\ ready
    /\ IF current # None
       THEN /\ tombs' = Buried
            /\ sources' = Restrict(sources, DOMAIN sources \ {Place(current)})
            /\ top' = [top EXCEPT ![Epoch(current)].deleted = TRUE]
       ELSE /\ sources' = Restrict(sources, {x \in DOMAIN sources :
                             ~(primary.live /\ x[1] = primary.gen /\ x[3] = primary.session)})
            /\ UNCHANGED <<tombs, top>>
    /\ current' = None /\ fields' = {} /\ fresh' = FALSE /\ here' = FALSE
    /\ UNCHANGED <<policy, profile, primary, ready, outer, highs, events, since, reached, emitted, notified>>

----------------------------------------------------------------------------
(* A transient event names the current it belongs to exactly.              *)

EventFits(p) ==
    /\ primary.live /\ p.gen = primary.gen /\ p.session = primary.session
    /\ p.cohort >= primary.cohort
    /\ fresh /\ current # None
    /\ Epoch(p) = Epoch(current) /\ p.seq = current.seq
    /\ OneSource(p) /\ NotOlder(p)

(* mutant: a repeated delivery is notified again.                          *)
EventNotOlder(p) == Epoch(p) \in DOMAIN events => p.seq >= events[Epoch(p)].seq

EventNew(p) == Epoch(p) \in DOMAIN events => p.seq > events[Epoch(p)].seq

Event(p, body) ==
    /\ ready /\ notified < MaxNotified
    /\ EventFits(p) /\ EventNew(p)
    /\ events' = With(events, Epoch(p), [seq |-> p.seq, body |-> body])
    /\ sources' = With(sources, Place(p), p.source)
    /\ highs' = With(highs, Epoch(p), p.seq)
    /\ emitted' = emitted \cup {[cursor |-> <<Epoch(p), p.seq>>, body |-> body]}
    /\ notified' = notified + 1
    /\ UNCHANGED <<policy, profile, primary, ready, current, fields, fresh, outer, tombs, top, since, reached, here>>

----------------------------------------------------------------------------
(* mutant: what was received before the transport was lost still counts.   *)
LostKeepsCurrent(on) == fresh

SettledFresh(on) == fresh /\ on

Transport(on) ==
    /\ ready # on
    /\ ready' = on /\ fresh' = SettledFresh(on) /\ here' = (here /\ on)
    /\ UNCHANGED <<policy, profile, primary, current, fields, cursors, top, since, reached, emitted, notified>>

PrimaryUpdated(p) ==
    /\ p # primary /\ primary' = p
    /\ UNCHANGED <<policy, profile, ready, current, fields, fresh, cursors, top, since, reached, here, emitted,
                   notified>>

(* mutant: values already shown stay.                                      *)
RereadKeeps(new) == fields \cup {s \in Semantics : current # None /\ s \in Shows(current.body, new)}

(* A live edit: values whose descriptor is the same stay, others are read  *)
(* from the accepted current again.                                        *)
Reread(new) ==
    {s \in Semantics :
        \/ s \in fields /\ new[s] = profile[s]
        \/ current # None /\ s \in Shows(current.body, new)}

UpdateProfile(new) ==
    /\ policy = "field-compatible" /\ new # profile
    /\ profile' = new /\ fields' = Reread(new)
    /\ UNCHANGED <<policy, primary, ready, current, fresh, cursors, top, since, reached, here, emitted, notified>>

Next ==
    \/ \E p \in Publications : Current(p)
    \/ Delete
    \/ \E p \in Publications, body \in EventBodies : Event(p, body)
    \/ \E on \in BOOLEAN : Transport(on)
    \/ \E p \in Primaries : PrimaryUpdated(p)
    \/ \E new \in Profiles : UpdateProfile(new)

Spec == Init /\ [][Next]_vars

----------------------------------------------------------------------------
(* What an entity may show.                                                *)

FieldAvailable(s) ==
    /\ s \in fields /\ ready /\ fresh /\ primary.live
    /\ primary.gen = current.gen
    /\ policy = "pinned" => primary.session = current.session

(* The current has the highest sequence its epoch ever had, and is never   *)
(* from before the coordinate that was reached with a live appliance.  Once*)
(* it is deleted it never comes back, not after reconnects and restarts of *)
(* the bridge either: its epoch only goes on.  And since a coordinate was  *)
(* reached each cursor of it has one body.  Before a live appliance anchors*)
(* a coordinate every current reaches it anew: sequences are kept to then, *)
(* bodies are not compared (_stage_current, _commit_current).              *)
NeverBackwards ==
    /\ current # None =>
          /\ top[Epoch(current)] = [seq |-> current.seq, deleted |-> FALSE]
          /\ ~Below(Outer(current), reached)
    /\ \A x, y \in since : Epoch(x) = Epoch(y) /\ x.seq = y.seq => x = y

(* A current that was accepted is accepted again when the broker repeats   *)
(* it, unless the appliance that is live now is another one.               *)
RepeatIsAccepted == current # None /\ Related(current) => Fits(current)

(* An event is notified once, however often it is delivered, and a cursor  *)
(* has one event only.                                                     *)
EventsOnce ==
    /\ notified = Cardinality(emitted)
    /\ \A x, y \in emitted : x.cursor = y.cursor => x.body = y.body

(* The full-read feed never goes back, takes its own message again, and    *)
(* tells Home Assistant of each event once.                                *)
FeedKeepsOrder == NeverBackwards /\ RepeatIsAccepted /\ EventsOnce

(* What is available came on this connection, from the appliance that is   *)
(* live; and after any edits the current shows what it would show if it    *)
(* came now.                                                               *)
ShownIsHere ==
    /\ \A s \in Semantics : FieldAvailable(s) => here /\ primary.live /\ current.gen = primary.gen
    /\ fields = IF current = None THEN {} ELSE Shows(current.body, profile)

(* What a run checks.                                                      *)
FeedIsSound == FeedKeepsOrder /\ ShownIsHere
============================================================================
