---------------------------- MODULE ReadConsumer ----------------------------
(***************************************************************************)
(* The pins of every binding in one Store, and the providers that go by    *)
(* them.  An installer inspects a binding's row and asks for a transition  *)
(* with that row's digest; the target is derived at once, then waits for   *)
(* the lock, is checked against the provider and the Store's row, saved,   *)
(* and pushed into the provider, which may meanwhile have adopted a pin    *)
(* from a publication of its own.  The process may stop at any point, and  *)
(* start again with a release that brings another contract.                *)
(*                                                                         *)
(* A digest stands for what it is a digest of: a pin is the projection     *)
(* version, the binding's generation and the per-model contract, and the   *)
(* digest of a row is the row.  A ValueError is Refused.                   *)
(*                                                                         *)
(* The Store's file and the bridge's publications are external.            *)
(***************************************************************************)
EXTENDS Naturals, Sequences

CONSTANTS Contracts,   \* per-model contracts (model_contract_sha256)
          Reviewed,    \* _REVIEWED_TLV_READ_V2_SUCCESSOR_PREDECESSORS
          NoContract, NoPin, NoRow, Refused,
          Bindings, Callers, Generations,
          Authority,   \* the contract each release has for each binding's model
          Detached     \* a provider that is not there

VARIABLES file,       \* the Store: a row of each binding
          rows,       \* local_read_consumer_persisted_states
          live,       \* each provider's _consumer_state
          known,      \* local_read_consumer_authorities: the bindings with an authority
          release,    \* the release that runs
          loaded,     \* whether the Store could be read when the process started
          pushLost,   \* history: bindings whose row was saved and not pushed
          calls,      \* what each caller is doing
          queue       \* the callers at the lock, its holder first

vars == <<file, rows, live, known, release, loaded, pushLost, calls, queue>>

----------------------------------------------------------------------------
(* Which static contract of the full-read feed a binding accepts, and how  *)
(* the durable row that records it may change.                             *)
Pins == [version : {1}, gen : Nat, contract : {NoContract}]
            \cup [version : {2}, gen : Nat, contract : Contracts]
Rows == [adopted : Pins, accepted : Seq(Pins), predecessor : Pins \cup {NoPin}]

ASSUME PinsAssumption ==
    /\ Reviewed \in [Contracts -> Contracts \cup {NoContract}]
    /\ NoContract \notin Contracts
    /\ NoPin \notin Pins /\ Refused \notin Rows

(* Only a per-model authority makes a pin of projection 2.                 *)
PinOf(version, gen, contract) ==
    IF version = 1 THEN [version |-> 1, gen |-> gen, contract |-> NoContract]
    ELSE IF contract = NoContract THEN Refused
    ELSE [version |-> 2, gen |-> gen, contract |-> contract]
ReviewedPredecessor(gen, contract) ==
    IF contract = NoContract THEN Refused ELSE PinOf(2, gen, Reviewed[contract])

Accepted(row) == {row.accepted[i] : i \in DOMAIN row.accepted}
AcceptedV2(row) == {p \in Accepted(row) : p.version = 2}

(* One pin of each projection at most; the adopted one among them; and a   *)
(* predecessor beside a single successor of projection 2 only.             *)
ValidPins(accepted) ==
    /\ Len(accepted) \in 1..2
    /\ \A i, j \in DOMAIN accepted : i # j => accepted[i].version # accepted[j].version
ValidRow(row) ==
    /\ ValidPins(row.accepted)
    /\ row.adopted \in Accepted(row)
    /\ row.predecessor # NoPin =>
          /\ row.adopted.version = 2 /\ row.predecessor.version = 2
          /\ row.predecessor # row.adopted
          /\ row.accepted = <<row.adopted>>

Built(adopted, accepted, predecessor) ==
    LET row == [adopted |-> adopted, accepted |-> accepted, predecessor |-> predecessor]
    IN  IF ValidRow(row) THEN row ELSE Refused
Single(pin) == Built(pin, <<pin>>, NoPin)

----------------------------------------------------------------------------
(* The named transitions of a row.                                         *)

Stage(row, pin) ==
    IF pin \in Accepted(row) THEN row
    ELSE IF row.accepted = <<row.adopted>> THEN Built(row.adopted, <<row.adopted, pin>>, NoPin)
    ELSE Refused

Adopt(row, pin) ==
    IF pin \notin Accepted(row) \/ pin.version < row.adopted.version THEN Refused
    ELSE IF pin = row.adopted THEN row
    ELSE Built(pin, row.accepted, NoPin)

RetireSource(row) ==
    IF row.adopted.version # 2 THEN Refused
    ELSE IF row.accepted = <<row.adopted>> THEN row
    ELSE Single(row.adopted)

RestoreStaged(row) == IF row.adopted.version # 1 THEN Refused ELSE Single(row.adopted)

AdoptSuccessor(row, pin) ==
    IF row.predecessor # NoPin /\ row.adopted = pin THEN row
    ELSE IF /\ row.predecessor = NoPin
            /\ row.adopted.version = 2 /\ pin # row.adopted
            /\ row.accepted = <<row.adopted>>
         THEN Built(pin, <<pin>>, row.adopted)
    ELSE Refused

RestorePredecessor(row, pin) ==
    IF row.predecessor = NoPin
    THEN IF row.adopted = pin /\ row.accepted = <<pin>> THEN row ELSE Refused
    ELSE IF row.predecessor = pin THEN Single(pin) ELSE Refused

RetirePredecessor(row, pin) ==
    IF row.adopted # pin THEN Refused
    ELSE IF row.predecessor # NoPin THEN Single(pin)
    ELSE IF row.accepted = <<pin>> THEN row
    ELSE Refused

(* Whether a row may take the place of another, in the Store and in a      *)
(* provider: the projection never falls, and within a projection only a    *)
(* successor over its predecessor, or back, changes the adopted pin.       *)
Replaces(before, after) ==
    \/ before = after
    \/ /\ after.adopted.version >= before.adopted.version
       /\ \/ after.adopted.version > before.adopted.version /\ after.predecessor = NoPin
          \/ after.adopted = before.adopted
          \/ /\ before.predecessor = NoPin /\ before.adopted.version = 2
             /\ before = Single(before.adopted)
             /\ after.predecessor = before.adopted
          \/ /\ before.predecessor # NoPin
             /\ after = Single(before.predecessor)

----------------------------------------------------------------------------
(* What the release's own contract for the model allows.                   *)

DurablePredecessor(row, contract) ==
    IF /\ contract # NoContract
       /\ row.adopted.version = 2
       /\ row = Single(row.adopted)
       /\ row.adopted.contract # contract
    THEN row.adopted ELSE NoPin

PinsMatch(row, contract) ==
    \/ AcceptedV2(row) = {}
    \/ /\ contract # NoContract
       /\ \/ \A p \in AcceptedV2(row) : p.contract = contract
          \/ DurablePredecessor(row, contract) # NoPin

(* The authority for a message that reports a contract.                    *)
MessageContract(row, contract, reported) ==
    IF contract = NoContract THEN NoContract
    ELSE IF reported = contract THEN contract
    ELSE LET pin == DurablePredecessor(row, contract)
         IN  IF pin # NoPin /\ pin.contract = reported THEN reported ELSE NoContract

----------------------------------------------------------------------------
(* The row an operation leads to.  "pins" has the pins derived for it:     *)
(* v1, v2, the reviewed predecessor, and the one a provider has already    *)
(* adopted from a publication (NoPin when there is none).                  *)

Operations == {"bootstrap-v1", "stage-v2", "restore-staged-v1", "adopt-v2", "retire-v1",
               "adopt-successor-v2", "restore-predecessor-v2", "retire-predecessor-v2"}
NeedsGeneration == {"bootstrap-v1", "stage-v2", "adopt-successor-v2",
                    "restore-predecessor-v2", "retire-predecessor-v2"}

Observed(row, pin) ==
    IF row = Refused THEN Refused ELSE IF pin = NoPin THEN row ELSE Adopt(row, pin)

Target(operation, row, pins) ==
    CASE operation = "bootstrap-v1" ->
             IF row \in {NoRow, Single(pins.v1)} THEN Single(pins.v1) ELSE Refused
      [] operation # "bootstrap-v1" /\ row = NoRow -> Refused
      [] operation = "stage-v2" /\ row # NoRow -> Observed(Stage(row, pins.v2), pins.observed)
      [] operation = "restore-staged-v1" /\ row # NoRow -> RestoreStaged(row)
      [] operation = "adopt-v2" /\ row # NoRow ->
             IF AcceptedV2(row) = {} THEN Refused
             ELSE Adopt(row, CHOOSE p \in AcceptedV2(row) : TRUE)
      [] operation = "retire-v1" /\ row # NoRow -> RetireSource(row)
      [] operation = "adopt-successor-v2" /\ row # NoRow ->
             LET target == AdoptSuccessor(row, pins.v2)
             IN  IF target = Refused THEN Refused
                 ELSE IF target.predecessor = pins.predecessor THEN target ELSE Refused
      [] operation = "restore-predecessor-v2" /\ row # NoRow -> RestorePredecessor(row, pins.predecessor)
      [] operation = "retire-predecessor-v2" /\ row # NoRow -> RetirePredecessor(row, pins.v2)

(* An operation that changes nothing needs no token; any other must show   *)
(* the row it starts from.                                                 *)
Transition(operation, row, pins, token) ==
    LET target == Target(operation, row, pins)
    IN  IF target = Refused THEN Refused
        ELSE IF target = row \/ token = row THEN target
        ELSE Refused

----------------------------------------------------------------------------
(* Rows, providers and installers.                                         *)
ASSUME ConsumerAssumption ==
    /\ Generations \subseteq Nat
    /\ Authority \in Seq([Bindings -> Contracts \cup {NoContract}])
    /\ Authority # <<>>

Idle == [step |-> "idle"]
Contract(b) == Authority[release][b]
Attached(b) == live[b] # Detached

Init ==
    /\ file = [b \in Bindings |-> NoRow] /\ rows = file
    /\ release = 1 /\ loaded = TRUE
    /\ known = Bindings
    /\ \E on \in SUBSET Bindings : live = [b \in Bindings |-> IF b \in on THEN NoRow ELSE Detached]
    /\ pushLost = {}
    /\ calls = [c \in Callers |-> Idle] /\ queue = <<>>

----------------------------------------------------------------------------
(* The pins an operation may need; Refused when one of them is not to be   *)
(* had.  A stage takes along what the provider has adopted by itself.      *)

Pinned(operation, b, gen) ==
    [v1 |-> PinOf(1, gen, NoContract),
     v2 |-> PinOf(2, gen, Contract(b)),
     predecessor |-> ReviewedPredecessor(gen, Contract(b)),
     observed |-> IF operation = "stage-v2" /\ Attached(b) /\ live[b] # NoRow
                  THEN IF live[b].adopted.version = 2 THEN live[b].adopted ELSE NoPin
                  ELSE NoPin]

Derivable(operation, b, gen) ==
    /\ operation \in NeedsGeneration \ {"bootstrap-v1"} => Pinned(operation, b, gen).v2 # Refused
    /\ operation \in {"adopt-successor-v2", "restore-predecessor-v2", "retire-predecessor-v2"} =>
          ReviewedPredecessor(gen, Contract(b)) # Refused
    /\ operation = "adopt-successor-v2" /\ Attached(b) /\ rows[b] # NoRow =>
          live[b] = rows[b] \/ rows[b].predecessor # NoPin

(* validate_consumer_state_replacement of the provider.                    *)
Takes(b, row) ==
    /\ live[b] # NoRow => Replaces(live[b], row)
    /\ PinsMatch(row, Contract(b))

----------------------------------------------------------------------------
(* A call of the installer.                                                *)

Inspect(c, b) ==
    /\ calls[c] = Idle
    /\ calls' = [calls EXCEPT ![c] = [step |-> "asked", binding |-> b, token |-> rows[b]]]
    /\ UNCHANGED <<file, rows, live, known, release, loaded, pushLost, queue>>

(* A call that is refused before the lock leaves nothing behind.           *)
Derive(c, operation, gen) ==
    LET call == calls[c]
        b == call.binding
        target == IF b \in known /\ Derivable(operation, b, gen)
                  THEN Transition(operation, rows[b], Pinned(operation, b, gen), call.token)
                  ELSE Refused
    IN  /\ call.step = "asked"
        /\ IF target = Refused
           THEN calls' = [calls EXCEPT ![c] = Idle] /\ UNCHANGED queue
           ELSE /\ calls' = [calls EXCEPT ![c] = [step |-> "waiting", binding |-> b, token |-> rows[b],
                                                  target |-> target]]
                /\ queue' = Append(queue, c)
        /\ UNCHANGED <<file, rows, live, known, release, loaded, pushLost>>

(* mutant: the row that is there when the lock is had is not looked at.    *)
FitsLive(b, target) == Attached(b) => Takes(b, target)

Fits(b, target) ==
    /\ Attached(b) => Takes(b, target)
    /\ rows[b] # NoRow => Replaces(rows[b], target)

(* mutant: no lock.                                                        *)
HoldsAlways(c) == TRUE

Holds(c) == queue # <<>> /\ c = Head(queue)

(* The lock serves in order.  Its holder saves every row it knows of.      *)
Save(c) ==
    LET call == calls[c]
        b == call.binding
    IN  /\ call.step = "waiting" /\ Holds(c)
        /\ IF Fits(b, call.target)
           THEN /\ calls' = [calls EXCEPT ![c] = [step |-> "saving", binding |-> b, token |-> call.token,
                                                  next |-> [rows EXCEPT ![b] = call.target]]]
                /\ UNCHANGED queue
           ELSE calls' = [calls EXCEPT ![c] = Idle] /\ queue' = Tail(queue)
        /\ UNCHANGED <<file, rows, live, known, release, loaded, pushLost>>

Written(c) ==
    /\ calls[c].step = "saving"
    /\ file' = calls[c].next
    /\ calls' = [calls EXCEPT ![c].step = "saved"]
    /\ UNCHANGED <<rows, live, known, release, loaded, pushLost, queue>>

SaveFails(c) ==
    /\ calls[c].step = "saving"
    /\ calls' = [calls EXCEPT ![c] = Idle]
    /\ queue' = Tail(queue)
    /\ UNCHANGED <<file, rows, live, known, release, loaded, pushLost>>

(* The provider that was there before the save checks the row once more.   *)
Push(c) ==
    LET call == calls[c]
        b == call.binding
        row == call.next[b]
    IN  /\ call.step = "saved"
        /\ rows' = call.next
        /\ IF Attached(b) /\ Takes(b, row)
           THEN live' = [live EXCEPT ![b] = row] /\ pushLost' = pushLost \ {b}
           ELSE /\ pushLost' = IF Attached(b) THEN pushLost \cup {b} ELSE pushLost
                /\ UNCHANGED live
        /\ calls' = [calls EXCEPT ![c] = Idle]
        /\ queue' = Tail(queue)
        /\ UNCHANGED <<file, known, release, loaded>>

----------------------------------------------------------------------------
(* A publication of the bridge.                                            *)

(* The pin it shows, if it is one this provider accepts.                   *)
Shown(b, version, gen, contract) ==
    LET row == live[b]
        said == IF version = 1 THEN NoContract ELSE MessageContract(row, Contract(b), contract)
        pin == PinOf(version, gen, said)
    IN  IF pin = Refused \/ version < row.adopted.version THEN Refused
        ELSE IF \/ pin \in Accepted(row)
                \/ /\ said = Contract(b)
                   /\ DurablePredecessor(row, Contract(b)) # NoPin
             THEN pin
        ELSE Refused

(* mutant: a provider drops the source pin when it adopts the target.      *)
AdoptShownAlone(b, pin) == IF pin = live[b].adopted THEN live[b] ELSE Single(pin)

(* _adopt_consumer_pin: the row the provider goes by from then on.         *)
AdoptShown(b, pin) ==
    LET row == live[b]
    IN  IF pin = row.adopted THEN row
        ELSE IF pin.version > row.adopted.version THEN Adopt(row, pin)
        ELSE IF /\ pin.version = 2 /\ pin.contract = Contract(b)
                /\ DurablePredecessor(row, Contract(b)) # NoPin
             THEN AdoptSuccessor(row, pin)
        ELSE Refused

Publish(b, version, gen, contract) ==
    /\ Attached(b) /\ live[b] # NoRow
    /\ version = 1 <=> contract = NoContract
    /\ LET pin == Shown(b, version, gen, contract)
       IN  /\ pin # Refused
           /\ AdoptShown(b, pin) \notin {Refused, live[b]}
           /\ live' = [live EXCEPT ![b] = AdoptShown(b, pin)]
    /\ UNCHANGED <<file, rows, known, release, loaded, pushLost, calls, queue>>

----------------------------------------------------------------------------
(* The process stops and starts again, possibly with the next release.  A  *)
(* provider refuses a row that is not its contract's; its transport may    *)
(* also fail to start.  A Store that cannot be read starts with no rows.   *)

(* The inventory is read whole or not at all.                              *)
ReadRows(readable) == IF readable THEN file ELSE [b \in Bindings |-> NoRow]

(* What the provider's constructor accepts.                                *)
Constructible(row, contract) == row = NoRow \/ PinsMatch(row, contract)

Start(readable) ==
    LET row == ReadRows(readable)
    IN  /\ rows' = row
        /\ loaded' = readable
        /\ known' = {b \in Bindings : Constructible(row[b], Authority[release'][b])}
        /\ \E on \in SUBSET known' : live' = [b \in Bindings |-> IF b \in on THEN row[b] ELSE Detached]

Restart ==
    /\ release' \in {release, release + 1} \cap DOMAIN Authority
    /\ \E readable \in BOOLEAN : Start(readable)
    /\ calls' = [c \in Callers |-> Idle] /\ queue' = <<>>
    /\ pushLost' = {}
    /\ UNCHANGED file

Next ==
    \/ \E c \in Callers, b \in Bindings : Inspect(c, b)
    \/ \E c \in Callers, operation \in Operations, gen \in Generations : Derive(c, operation, gen)
    \/ \E c \in Callers : Save(c) \/ Written(c) \/ SaveFails(c) \/ Push(c)
    \/ \E b \in Bindings, version \in 1..2, gen \in Generations, contract \in Contracts \cup {NoContract} :
          Publish(b, version, gen, contract)
    \/ Restart

Spec == Init /\ [][Next]_vars

----------------------------------------------------------------------------
(* A save changes one binding's row, unless the process never read the     *)
(* others: two callers never lose each other's rows.  And a row moves only *)
(* one step along its chain: the projection never falls; a successor keeps *)
(* exactly the row it took the place of, and gives back that row, or ends  *)
(* as the only pin.                                                        *)
RowsAreKept(c) == \A b \in Bindings \ {calls[c].binding} : file'[b] = file[b]
OneStep(before, after) ==
    /\ after.adopted.version >= before.adopted.version
    /\ before.adopted.version = after.adopted.version /\ before.adopted # after.adopted =>
          \/ after.predecessor = before.adopted /\ before = Single(before.adopted)
          \/ before.predecessor = after.adopted /\ after = Single(after.adopted)
StoreIsExact ==
    [][loaded =>
          /\ \A c \in Callers : file' # file /\ calls[c].step = "saving" => RowsAreKept(c)
          /\ \A b \in Bindings : file[b] # NoRow /\ file'[b] # NoRow => OneStep(file[b], file'[b])]_vars

(* A provider goes by the row that was saved, or by what a publication has *)
(* made of it, except when a push was reported as lost.                    *)
FromRow(b, row) ==
    \/ row = rows[b]
    \/ rows[b] # NoRow /\ \E p \in AcceptedV2(rows[b]) : row = Adopt(rows[b], p)
    \/ rows[b] # NoRow /\ \E gen \in Generations : row = AdoptSuccessor(rows[b], PinOf(2, gen, Contract(b)))
LiveFollowsStore ==
    \A b \in Bindings \ pushLost : Attached(b) => FromRow(b, live[b])
============================================================================
