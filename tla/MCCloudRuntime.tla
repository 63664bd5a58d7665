--------------------------- MODULE MCCloudRuntime ---------------------------
(***************************************************************************)
(* Instances of CloudRuntime for TLC.                                      *)
(***************************************************************************)
EXTENDS CloudRuntime

CONSTANTS pat, wideq

(* The service takes both sources, or one of them.                         *)
SomeTargets == {<<pat, wideq>>, <<pat>>}

(* Both sources start open; only PAT has an account.                       *)
OpenInit == Init /\ \A s \in Sources : reason[s] = Open

OpenFairSpec == OpenInit /\ [][Next]_vars /\ Fairness

=============================================================================
