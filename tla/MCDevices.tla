----------------------------- MODULE MCDevices ------------------------------
(***************************************************************************)
(* Four parts of what the cloud accounts are for, which share no state:    *)
(* the start of the entry; the pairing of PAT and WideQ devices, with three*)
(* appliances; one PAT device, its coordinator and its push client; the    *)
(* composite commands to a WideQ device.  A behaviour is one of one of     *)
(* them.                                                                   *)
(***************************************************************************)
EXTENDS DeviceIdentity, PatDevice, CompositeControl, Startup, FiniteSets, TLC

CONSTANTS p1, p2, p3, d1, d2, d3

VARIABLE part       \* the part that moves

allVars == <<part, vars, patVars, compositeVars, startupVars>>

MCPatIds == {p1, p2, p3}
MCSame == (p1 :> 1 @@ p2 :> 2 @@ p3 :> 3)

(* The fields of a status are alike, and so are its refreshes.             *)
Symmetric == Permutations(Fields) \cup Permutations(Refreshes)

(* Every appliance has a name at the start; names are alike.  The stored   *)
(* map is wrong about one device at most.                                  *)
SmallIdentities ==
    /\ Init
    /\ called[p1] = "a" /\ called[p2] \in Names /\ called[p3] \in Names
    /\ Cardinality(misled) <= 1

(* Two appliances are removed and renamed as one likes, until a second     *)
(* device is misled.                                                       *)
FewMisled == called'[p3] = called[p3] /\ Cardinality(misled') <= 1

(* PAT starts with a client that is connected, and may be replaced.        *)
Up == [Unborn EXCEPT !.start = "started", !.client = TRUE, !.worker = "connected",
                     !.connection = TRUE, !.socket = "open"]

UpInit ==
    /\ CoordinatorInit
    /\ shut = FALSE /\ gen = 0
    /\ mqtt = [c \in Clients |-> IF c = 1 THEN Up ELSE Unborn]
    /\ real = [f \in Fields |-> 1]
    /\ posted = <<>>
    /\ lost = [f \in Fields |-> 0]
    /\ current = 1 /\ starter = "idle"
    /\ pause = "none" /\ closed = FALSE

(* Two controls: a template, and single fields of what acts.               *)
SmallComposite ==
    /\ CompositeInit
    /\ control \in {[shape |-> "template", risk |-> "low", unlocked |-> {}],
                    [shape |-> "template", risk |-> "experimental", unlocked |-> {"experimental"}],
                    [shape |-> "dataset", risk |-> "operation", unlocked |-> {}]}

(* One device of a supported type, through two set-ups and a resume; two,  *)
(* one of them without a name or both new, through one set-up.             *)
SmallStartup ==
    /\ StartupInit
    /\ \/ owned \in {{d3}, {d1, d3}} /\ inventory.devices \subseteq {d1}
       \/ owned = {d1, d2, d3} /\ inventory = [devices |-> {d1}, profiles |-> {}]
    /\ used = IF d2 \in owned THEN [resumes |-> MaxResumes, lives |-> 1]
              ELSE [resumes |-> 0, lives |-> 0]

(* Refreshes of the PAT device overlap while its first client is in place  *)
(* and loaded, with a pause or with as many changes as the bound lets.     *)
FewOverlaps ==
    \/ crossed = {} /\ setBack = {}
    \/ /\ current = 1 /\ starter = "idle" /\ ~closed
       /\ gen = 0 \/ SumFunction(real) < MaxValues

(* The parts that do not move.                                             *)
NoIdentities ==
    /\ called = [p \in PatIds |-> "a"]
    /\ store = [p \in PatIds |-> NoId]

NoComposite ==
    /\ control = [shape |-> "template", risk |-> "low", unlocked |-> {}]
    /\ setting = [f \in Template |-> CHOOSE v \in Values : TRUE]
    /\ remote = FALSE /\ identified = FALSE

NoStartup ==
    /\ owned = {d3}
    /\ inventory = [devices |-> {}, profiles |-> {}]

MCInit ==
    /\ part \in {"identity", "pat", "composite", "startup"}
    /\ part # "identity" => NoIdentities
    /\ part # "composite" => NoComposite
    /\ part # "pat" => listed = FALSE
    /\ part # "startup" => NoStartup
    /\ SmallIdentities /\ UpInit /\ SmallComposite /\ SmallStartup

MCNext ==
    /\ UNCHANGED part
    /\ \/ part = "identity" /\ Next /\ FewMisled /\ UNCHANGED <<patVars, compositeVars, startupVars>>
       \/ part = "pat" /\ PatNext /\ FewOverlaps' /\ UNCHANGED <<vars, compositeVars, startupVars>>
       \/ part = "composite" /\ CompositeNext /\ UNCHANGED <<vars, patVars, startupVars>>
       \/ part = "startup" /\ StartupNext /\ UNCHANGED <<vars, patVars, compositeVars>>

MCSpec == MCInit /\ [][MCNext]_allVars

=============================================================================
