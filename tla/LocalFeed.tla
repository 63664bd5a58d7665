----------------------------- MODULE LocalFeed ------------------------------
(***************************************************************************)
(* LocalShadowMqttClient of local_mqtt.py with its provider.  The network  *)
(* thread numbers connections and posts what happens to the event loop,    *)
(* which takes the posts in order and ignores those of a connection that   *)
(* is not there any more.  A connection becomes usable in three steps: the *)
(* subscription is acknowledged, a runtime and a presence are adopted, and *)
(* then a state with its availability.                                     *)
(*                                                                         *)
(* The broker and the bridge are external: anything may be published, lost *)
(* or delivered again, so what a message says is chosen when it is used.   *)
(***************************************************************************)
EXTENDS LocalProvider, Sequences

CONSTANTS MaxConnections,  \* bounds: connects, failed connects and disconnects,
          MaxRequests,     \*         subscriptions requested,
          MaxPosts         \*         posts under way

ASSUME FeedAssumption == {MaxConnections, MaxRequests, MaxPosts} \subseteq Nat

VARIABLES up,        \* network thread: whether there is a connection,
          asked,     \*   the subscriptions sent on it and not acknowledged,
          thread,    \*   _callback_connection_generation
          posts,     \* what it has posted
          active,    \* _active_connection_generation
          connected, \* _connected
          mid,       \* _subscription_mid; 0 is None
          mids,      \* the last one used
          retry,     \* whether the subscription's timer is set
          subscribed,\* _subscriptions_ready
          boot,      \* _retained_bootstrap: the connection each topic's message came on, or 0
          bootPair,  \* _semantic_bootstrap_pending
          stopped,   \* _stopping
          past,      \* history: states' sessions that were replaced or deleted
          heardOn,   \* history: the connection and process of the last live presence
          provenOn,  \* history: the connection of the last state with its availability
          pendingOn  \* history: the connection of the pending state

network == <<up, asked, thread>>
client == <<active, connected, mid, mids, retry, subscribed, boot, bootPair, stopped>>
history == <<past, heardOn, provenOn, pendingOn>>
feedVars == <<providerVars, network, posts, client, history>>

StateTopics == {"state", "availability"}
ControlTopics == {"runtime", "presence"}
Topics == StateTopics \cup {"runtime"} \cup IF profile.presence THEN {"presence"} ELSE {}

Empty == [t \in StateTopics \cup ControlTopics |-> 0]
Unheard == [on |-> 0, service |-> None]

FeedInit ==
    /\ ProviderInit
    /\ up = FALSE /\ asked = {} /\ thread = 0 /\ posts = <<>>
    /\ active = 0 /\ connected = FALSE /\ mid = 0 /\ mids = 0 /\ retry = FALSE
    /\ subscribed = FALSE /\ boot = Empty /\ bootPair = FALSE /\ stopped = FALSE
    /\ past = {} /\ heardOn = Unheard /\ provenOn = 0 /\ pendingOn = 0

----------------------------------------------------------------------------
(* The network thread.                                                     *)

Posts(what, m) ==
    /\ Len(posts) < MaxPosts
    /\ posts' = Append(posts, [what |-> what, on |-> thread', mid |-> m])

(* on_connect, on_connect_fail and on_disconnect                           *)
Turns(what) ==
    /\ ~stopped /\ thread < MaxConnections
    /\ thread' = thread + 1 /\ asked' = {}
    /\ Posts(what, 0)
    /\ UNCHANGED <<providerVars, client, history>>

OnConnect == ~up /\ up' = TRUE /\ Turns("connect")
OnConnectFail == ~up /\ up' = FALSE /\ Turns("lost")
OnDisconnect == up /\ up' = FALSE /\ Turns("lost")

OnSubscribe(m) ==
    /\ ~stopped /\ m \in asked
    /\ asked' = asked \ {m} /\ UNCHANGED <<up, thread>>
    /\ Posts("suback", m)
    /\ UNCHANGED <<providerVars, client, history>>

OnMessage ==
    /\ ~stopped /\ up
    /\ UNCHANGED network
    /\ Posts("message", 0)
    /\ UNCHANGED <<providerVars, client, history>>

----------------------------------------------------------------------------
(* The event loop.  The first post is e; a step takes it.                  *)
e == Head(posts)
Takes(what) == posts # <<>> /\ e.what = what /\ ~stopped
Taken == posts' = Tail(posts)

Current == connected /\ e.on = active /\ e.on = thread

(* _request_subscription: the timer is set to ask again, unless asking     *)
(* fails, which is posted.  after is what is posted otherwise.             *)
Subscribes(on, after) ==
    /\ mids < MaxRequests /\ mids' = mids + 1
    /\ \/ /\ up /\ mid' = mids' /\ asked' = asked \cup {mids'} /\ retry' = TRUE
          /\ posts' = after
       \/ /\ mid' = 0 /\ retry' = FALSE
          /\ posts' = Append(after, [what |-> "failed", on |-> on, mid |-> 0])
          /\ UNCHANGED asked
    /\ UNCHANGED <<up, thread>>

\* What is left of a connection when it ends, or is made anew.
Forgotten == subscribed' = FALSE /\ boot' = Empty /\ bootPair' = FALSE

(* _begin_connection                                                       *)
Begin ==
    /\ Takes("connect") /\ e.on = thread
    /\ active' = e.on /\ connected' = TRUE
    /\ Forgotten /\ TransportLost
    /\ Subscribes(e.on, Tail(posts))
    /\ UNCHANGED <<stopped, history>>

(* _connection_lost                                                        *)
Lost ==
    /\ Takes("lost") /\ e.on = thread
    /\ connected' = FALSE /\ mid' = 0 /\ retry' = FALSE
    /\ Forgotten /\ TransportLost
    /\ Taken
    /\ UNCHANGED <<network, active, mids, stopped, history>>

(* _retry_subscription                                                     *)
Retry ==
    /\ retry /\ ~stopped /\ connected
    /\ Subscribes(active, posts)
    /\ UNCHANGED <<providerVars, active, connected, subscribed, boot, bootPair, stopped, history>>

(* _subscription_failed                                                    *)
Failed ==
    /\ Takes("failed") /\ connected
    /\ retry' = TRUE
    /\ Forgotten /\ TransportLost
    /\ Taken
    /\ UNCHANGED <<network, active, connected, mid, mids, stopped, history>>

(* async_stop: what is still posted is ignored.                            *)
Stop ==
    /\ ~stopped /\ stopped' = TRUE
    /\ connected' = FALSE /\ mid' = 0 /\ retry' = FALSE
    /\ Forgotten /\ TransportLost
    /\ posts' = <<>>
    /\ UNCHANGED <<network, active, mids, history>>

(* What is stale, and a message of another topic or quality of service, or *)
(* which the provider refuses, changes nothing.                            *)
Ignored ==
    /\ posts # <<>>
    /\ \/ e.what \in {"connect", "lost"} /\ e.on # thread
       \/ e.what = "failed" /\ ~connected
       \/ e.what = "suback" /\ (~Current \/ e.mid # mid)
       \/ e.what = "message"
    /\ Taken
    /\ UNCHANGED <<providerVars, network, client, history>>

----------------------------------------------------------------------------
(* The history of a step.                                                  *)

\* The session of the state shown is over when another is shown, or none.
Leaves ==
    past' = IF snap = None \/ (snap' # None /\ snap'.session = snap.session) THEN past
            ELSE past \cup {<<snap.gen, snap.cohort, snap.session>>}

Older(m, n) == IF m < n THEN m ELSE n

Hears(p, retained, on) ==
    heardOn' = IF retained THEN Unheard ELSE [on |-> on, service |-> p.service]

----------------------------------------------------------------------------
(* Bootstrap.  b is the buffer.                                            *)

(* _drain_semantic_bootstrap: the buffered pair is adopted, if it can be.  *)
DrainsPair(b, seenGen) ==
    \/ /\ \A t \in StateTopics : b[t] # 0
       /\ \E s \in StatesThatParse, a \in AvailabilitiesThatParse : SemanticBootstrap(s, a, seenGen)
       /\ boot' = [t \in DOMAIN b |-> IF t \in StateTopics THEN 0 ELSE b[t]]
       /\ bootPair' = FALSE
       /\ provenOn' = Older(b["state"], b["availability"])
       /\ Leaves
    \/ /\ boot' = b /\ bootPair' = TRUE
       /\ UNCHANGED <<cursor, marks, past, provenOn>>

(* _drain_retained_bootstrap, once the subscription is acknowledged.       *)
DrainsControl(b) ==
    \/ /\ \A t \in ControlTopics : b[t] # 0
       /\ \E r \in RuntimesThatParse, p \in PresencesThatParse, retained \in BOOLEAN :
             /\ ControlBootstrap(r, p, retained)
             /\ Hears(p, retained, b["presence"])
             /\ DrainsPair([b EXCEPT !["runtime"] = 0, !["presence"] = 0], p.gen)
       /\ UNCHANGED pendingOn
    \/ /\ \A t \in Topics : b[t] # 0
       /\ \E s \in StatesThatParse, a \in AvailabilitiesThatParse, r \in RuntimesThatParse :
             WholeBootstrap(s, a, r)
       /\ boot' = Empty
       /\ provenOn' = Older(b["state"], b["availability"])
       /\ Leaves
       /\ UNCHANGED <<bootPair, heardOn, pendingOn>>
    \/ /\ boot' = b
       /\ UNCHANGED <<providerVars, bootPair, history>>

(* _handle_suback: the subscription is granted, ...                        *)
Granted ==
    /\ Takes("suback") /\ Current /\ e.mid = mid
    /\ mid' = 0 /\ retry' = FALSE /\ subscribed' = TRUE
    /\ DrainsControl(boot)
    /\ Taken
    /\ UNCHANGED <<network, active, connected, mids, stopped>>

(* ... or is not, and the timer will ask again.                            *)
NotGranted ==
    /\ Takes("suback") /\ Current /\ e.mid = mid
    /\ mid' = 0
    /\ Forgotten /\ TransportLost
    /\ Taken
    /\ UNCHANGED <<network, active, connected, mids, retry, stopped, history>>

(* _dispatch_message while the connection has no provider that is ready:   *)
(* the newest message of each topic is kept.                               *)
Buffered(t) ==
    /\ Takes("message") /\ Current /\ ~ready
    /\ LET b == [boot EXCEPT ![t] = e.on] IN
       IF subscribed THEN DrainsControl(b)
       ELSE boot' = b /\ UNCHANGED <<providerVars, bootPair, history>>
    /\ Taken
    /\ UNCHANGED <<network, active, connected, mid, mids, retry, subscribed, stopped>>

(* Nor a state yet.                                                        *)
BufferedState(t) ==
    /\ Takes("message") /\ Current /\ ready /\ bootPair
    /\ DrainsPair([boot EXCEPT ![t] = e.on], SeenGen(presence))
    /\ Taken
    /\ UNCHANGED <<profile, pending, served, seen, heard, ready, network, active, connected, mid, mids,
                   retry, subscribed, stopped, heardOn, pendingOn>>

----------------------------------------------------------------------------
(* _apply_message: a live message.                                         *)

Live == Takes("message") /\ Current /\ ready /\ Taken /\ UNCHANGED <<network, client>>

StateArrives(s) ==
    \/ LiveState2(s) /\ Leaves /\ UNCHANGED <<heardOn, provenOn, pendingOn>>
    \/ LiveState3(s) /\ pendingOn' = e.on /\ UNCHANGED <<past, heardOn, provenOn>>

AvailabilityArrives(a) ==
    \/ /\ LivePair(a)
       /\ provenOn' = Older(pendingOn, e.on)
       /\ Leaves /\ UNCHANGED <<heardOn, pendingOn>>
    \/ /\ LiveAvailability(a)
       /\ provenOn' = IF a = avail THEN provenOn ELSE e.on
       /\ UNCHANGED <<past, heardOn, pendingOn>>

RuntimeArrives(r, retained) == LiveRuntime(r, retained) /\ UNCHANGED history

PresenceArrives(p, retained) ==
    /\ LivePresence(p, retained)
    /\ Hears(p, retained, e.on) /\ UNCHANGED <<past, provenOn, pendingOn>>

DeleteArrives ==
    \/ ~bootPair /\ (StateDeleted \/ AvailabilityDeleted) /\ Leaves
       /\ UNCHANGED <<heardOn, provenOn, pendingOn>>
    \/ (RuntimeDeleted \/ PresenceDeleted) /\ UNCHANGED history

LiveMessage ==
    /\ Live
    /\ \/ ~bootPair /\ \E s \in StatesThatParse : StateArrives(s)
       \/ ~bootPair /\ \E a \in AvailabilitiesThatParse : AvailabilityArrives(a)
       \/ \E r \in RuntimesThatParse, retained \in BOOLEAN : RuntimeArrives(r, retained)
       \/ \E p \in PresencesThatParse, retained \in BOOLEAN : PresenceArrives(p, retained)
       \/ DeleteArrives

PresenceLapses == Lapse /\ UNCHANGED <<network, posts, client, history>>

(* An edit of the feature database arrives.                                *)
ProfileEdited ==
    /\ \E q \in Profiles \ {profile} : ProfileUpdated(q)
    /\ UNCHANGED <<network, posts, client, history>>

Thread ==
    \/ OnConnect \/ OnConnectFail \/ OnDisconnect \/ OnMessage
    \/ \E m \in 1 .. MaxRequests : OnSubscribe(m)

Loop ==
    \/ Begin \/ Lost \/ Retry \/ Failed \/ Stop \/ Ignored \/ Granted \/ NotGranted
    \/ \E t \in Topics : Buffered(t)
    \/ \E t \in StateTopics : BufferedState(t)
    \/ LiveMessage \/ PresenceLapses \/ ProfileEdited

FeedNext == Thread \/ Loop

FeedSpec == FeedInit /\ [][FeedNext]_feedVars

----------------------------------------------------------------------------
(* "The cursor never goes back", over every way a state comes in and after *)
(* deletions: generation, then cohort, then sequence; a cohort is one      *)
(* session.                                                                *)
NeverGoesBack ==
    [][/\ gen' >= gen /\ (gen' = gen => cohort' >= cohort)
       /\ snap # None /\ snap' # None /\ snap'.gen = snap.gen /\ snap'.cohort = snap.cohort =>
             /\ snap.cohort # 0 => snap'.session = snap.session
             /\ snap'.session = snap.session => snap'.seq >= snap.seq]_feedVars

(* A state whose session was replaced or deleted is not shown again, be it *)
(* delivered late, retained, or as part of a pair: only a new cohort or    *)
(* generation uses a session's id again.  This is so of the states that    *)
(* name a cohort (schema 3), and of those that do not (schema 2) as long as*)
(* none did.  After one that did, a state of schema 2 is compared with no  *)
(* cohort: the code takes it under an id that a later cohort has taken up, *)
(* or of a session that a cohort replaced, which is on no list.            *)
SupersededStaysOut ==
    snap # None /\ (snap.cohort # 0 \/ cohort = 0) =>
        <<snap.gen, snap.cohort, snap.session>> \notin past

(* What makes the appliance usable was shown on this very connection: a    *)
(* command may be sent only while the process that serves the appliance has*)
(* seen it live on it (not before a reconnection, in a retained copy, or at*)
(* another process), and what counts as current was delivered on it with   *)
(* its own availability.                                                   *)
OnlyThisConnectionCounts ==
    /\ ControlAlive => heardOn = [on |-> active, service |-> service]
    /\ current \/ transport => provenOn = active
    /\ current => Describes
    /\ AvailableFields # {} => connected /\ provenOn = active

(* Whatever profiles follow each other, and whatever of the state shown a  *)
(* new one can read: a field is shown as it was reported by that state and *)
(* as the profile describes it, none is shown that has been deleted, and a *)
(* frame is composed of them only for the generation that is served.       *)
NothingIsReinterpreted ==
    /\ shadowFields \subseteq profile.fields
    /\ shadowFields \subseteq IF snap = None THEN {} ELSE snap.fields
    /\ ControlStateReady => snap.gen = presence.gen

(* Neither a session that was replaced, nor evidence of an earlier         *)
(* connection to the broker, nor a profile that was edited counts for what *)
(* is current.                                                             *)
OnlyTheCurrentCounts ==
    SupersededStaysOut /\ OnlyThisConnectionCounts /\ NothingIsReinterpreted

============================================================================
