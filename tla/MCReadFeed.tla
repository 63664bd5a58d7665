----------------------------- MODULE MCReadFeed -----------------------------
(***************************************************************************)
(* Two parts that share no state here: the full-read feed, and the         *)
(* entities of one quantity.  A behaviour is one of one of them.           *)
(*                                                                         *)
(* Of the feed there are a few cursors: a sequence, a body that differs at *)
(* the same cursor, another source in the same place, the next cohort with *)
(* a new session, and the next generation.                                 *)
(***************************************************************************)
EXTENDS ReadFeed, ReadEntities

CONSTANTS C, F

VARIABLE part       \* the part that moves

allVars == <<part, vars, entityVars>>

P(g, c, x, s, n, b) == [gen |-> g, cohort |-> c, session |-> x, source |-> s, seq |-> n, body |-> b]
MCPublications == {P(1, 1, "x", "s", 1, "p"), P(1, 1, "x", "s", 2, "p"), P(1, 1, "x", "s", 2, "q"),
                   P(1, 1, "x", "t", 1, "p"), P(1, 2, "y", "t", 1, "q"),
                   P(2, 1, "x", "t", 1, "p")}
On(g, c, x) == [gen |-> g, cohort |-> c, session |-> x, live |-> TRUE]
MCPrimaries == {[gen |-> 1, cohort |-> 0, session |-> "x", live |-> FALSE],
                On(1, 0, "x"), On(1, 2, "y"), On(2, 0, "x")}
MCRaw == [b \in {"p", "q"} |-> [s \in {"f", "g"} |->
             IF b = "p" THEN "number" ELSE IF s = "f" THEN Invalid ELSE Absent]]
MCProfiles == {[s \in {"f", "g"} |-> "number"],
               [s \in {"f", "g"} |-> IF s = "f" THEN "string" ELSE Absent]}

(* What the tables say of a temperature or humidity that PAT shows too; a  *)
(* sensor of WideQ that may be taken over; an energy reading and what is   *)
(* drawn now; a water tank, a door, an event; what the climate entity      *)
(* shows, and what another owner shows too.                                *)
OfNone == [pat |-> Nothing, leaf |-> FALSE, patBinary |-> FALSE, wideq |-> Nothing,
           linked |-> TRUE, energy |-> FALSE, draw |-> FALSE, legacy |-> "none",
           tank |-> FALSE, domain |-> "none", unit |-> C, owned |-> FALSE,
           pilot |-> "none", pilotUnit |-> C, promoted |-> FALSE]

MCQuantities ==
    {[OfNone EXCEPT !.pat = C, !.leaf = l, !.domain = "sensor", !.pilot = "number", !.unit = u] :
        l \in BOOLEAN, u \in {C, F}}
    \cup {[OfNone EXCEPT !.wideq = C, !.legacy = l, !.domain = "sensor", !.pilot = "number",
                         !.unit = u] : l \in {"none", "primary", "reads"}, u \in {C, F}}
    \cup {[OfNone EXCEPT !.domain = "sensor", !.pilot = "number", !.owned = TRUE]}
    \cup {[OfNone EXCEPT !.wideq = C, !.energy = e, !.draw = ~e] : e \in BOOLEAN}
    \cup {[OfNone EXCEPT !.tank = t, !.patBinary = ~t, !.pilot = "boolean", !.domain = d] :
             t \in BOOLEAN, d \in {"binary_sensor", "none"}}
    \cup {[OfNone EXCEPT !.domain = "event"]}
    \cup {[OfNone EXCEPT !.promoted = TRUE, !.pilot = "number", !.domain = d] :
             d \in {"none", "sensor"}}

(* A feed needs the primary provider; the overlay is about the feed.       *)
MCSetups ==
    {s \in [wideq : BOOLEAN, primary : BOOLEAN, reads : BOOLEAN, overlay : BOOLEAN] :
        (s.reads => s.primary) /\ (s.overlay => s.reads)}

(* The part that does not move.                                            *)
StillFeed == policy = "pinned" /\ profile["g"] = "number" /\ primary = On(1, 0, "x")
StillEntities == quantity = [OfNone EXCEPT !.domain = "event"] /\ setup.overlay /\ setup.wideq
                 /\ ~cloudPat.paused /\ ~cloudPat.supports

MCInit ==
    /\ part \in {"feed", "entities"} /\ Init /\ EntitiesInit
    /\ part = "feed" \/ StillFeed
    /\ part = "entities" \/ StillEntities

MCNext ==
    /\ UNCHANGED part
    /\ \/ part = "feed" /\ Next /\ UNCHANGED entityVars
       \/ part = "entities" /\ EntitiesNext /\ UNCHANGED vars

MCSpec == MCInit /\ [][MCNext]_allVars

(* Two events under one policy, one under the other.                       *)
FewEvents == policy = "pinned" \/ notified <= 1
============================================================================
