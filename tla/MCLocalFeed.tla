---------------------------- MODULE MCLocalFeed -----------------------------
(***************************************************************************)
(* Small feeds for TLC.                                                    *)
(***************************************************************************)
EXTENDS LocalFeed

(* One appliance with its proof and one field, whose reports are good for a*)
(* while; an edit says that the field is another; and an appliance without *)
(* presence, which names what its profile does not.                        *)
Switch == [name |-> "f", kind |-> "switch"]
Number == [name |-> "f", kind |-> "number"]
Stranger == [name |-> "g", kind |-> "switch"]

MCFields == {Switch, Number, Stranger}

Ours == [proof |-> "ours", presence |-> TRUE, fields |-> {Switch}, fixed |-> TRUE,
         retracts |-> TRUE, lease |-> 1]
MCProfiles == {Ours, [Ours EXCEPT !.fields = {Number}],
               [Ours EXCEPT !.proof = None, !.presence = FALSE, !.fixed = FALSE]}

S(g, c, id, n, at) ==
    [gen |-> g, cohort |-> c, session |-> id, seq |-> n, at |-> at,
     proof |-> "ours", fields |-> {Switch}, retracted |-> {}, seen |-> at]
A(s, status, at) ==
    [gen |-> s.gen, cohort |-> s.cohort, session |-> s.session, seq |-> s.seq,
     status |-> status, at |-> at, proof |-> s.proof]
P(g, x, status, until) ==
    [gen |-> g, service |-> x, seq |-> 1, status |-> status, at |-> 1,
     proof |-> "ours", until |-> until]

(* Two sessions without a cohort, then one that goes on, the cohort that   *)
(* takes its place and retracts all it showed, and a new generation that   *)
(* uses its id again.                                                      *)
Good == {S(1, 0, "a", 1, 1), S(1, 1, "a", 1, 1), S(1, 1, "a", 2, 1),
         [S(1, 2, "b", 1, 1) EXCEPT !.fields = {}, !.retracted = {"f"}], S(2, 1, "a", 1, 1)}

(* What is not to be taken: of another appliance, with a field the profile *)
(* does not name, observed later than it was published, or a lease that is *)
(* too long.                                                               *)
Foreign == [S(3, 1, "b", 1, 1) EXCEPT !.proof = "theirs"]

MCSnapshots == Good \cup {Foreign, [S(1, 3, "b", 1, 1) EXCEPT !.fields = {Stranger}],
                          [S(1, 3, "a", 1, 1) EXCEPT !.seen = 2]}
MCAvailabilities ==
    {A(s, IF s = S(1, 0, "a", 1, 1) THEN "offline" ELSE "online", 1) : s \in Good}
        \cup {A(Foreign, "online", 1), A(S(1, 1, "a", 2, 1), None, 1)}
MCRuntimes == {[service |-> "x", status |-> "online", at |-> 1],
               [service |-> "x", status |-> "offline", at |-> 0],
               [service |-> "y", status |-> "online", at |-> 1],
               [service |-> "y", status |-> None, at |-> 1]}
MCPresences == {P(1, "x", "online", 2), P(2, "y", "online", 2),
                P(1, "y", "online", 9), P(2, "x", "online", None)}
=============================================================================
