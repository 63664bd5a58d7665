-------------------------- MODULE CloudProtection --------------------------
(***************************************************************************)
(* What cloud_runtime.py promises of the protection of a cloud account,    *)
(* whatever calls, failures, cancellations, reloads and crashes do to it:  *)
(* once a pause of a source is acknowledged by the runtime in force, and   *)
(* until a resume of it is accepted, its gate stays shut and its           *)
(* connection stays closed.  A reload or a crash forgets a promise only if *)
(* a pause or resume of an earlier runtime, still under way after a reload *)
(* replaced that runtime, was the last to write the store.                 *)
(***************************************************************************)
EXTENDS Naturals

CONSTANT Sources

VARIABLES shut,       \* sources whose gate refuses calls
          promised,   \* sources whose pause was acknowledged, not yet undone
          linked,     \* sources whose connection may be open
          behind,     \* is a job of an earlier runtime still under way?
          overtaken   \* has such a job written the store last?

vars == <<shut, promised, linked, behind, overtaken>>

TypeOK ==
    /\ shut \subseteq Sources
    /\ promised \subseteq Sources
    /\ linked \subseteq Sources
    /\ {behind, overtaken} \subseteq BOOLEAN

Init ==
    /\ shut \subseteq Sources
    /\ promised = {}
    /\ linked = {}
    /\ behind = FALSE
    /\ overtaken = FALSE

(* A gate is shut by an account failure or by a pause that begins.         *)
Shut(S) ==
    /\ shut' = shut \cup S
    /\ UNCHANGED <<promised, linked, behind, overtaken>>

(* A pause is acknowledged: gates shut and connections closed by now.      *)
Acknowledge(S) ==
    /\ S \subseteq shut
    /\ promised' = promised \cup S
    /\ linked' \in SUBSET (linked \ S)
    /\ UNCHANGED <<shut, behind, overtaken>>

(* A resume is accepted: it undoes the promise before it opens the gate.   *)
Release(S) ==
    /\ promised' = promised \ S
    /\ shut' = shut \ S
    /\ UNCHANGED <<linked, behind, overtaken>>

Link(s) ==
    /\ s \notin promised
    /\ linked' = linked \cup {s}
    /\ UNCHANGED <<shut, promised, behind, overtaken>>

Unlink(S) ==
    /\ linked' = linked \ S
    /\ UNCHANGED <<shut, promised, behind, overtaken>>

(* The runtime in force has stored its gates.                              *)
Store ==
    /\ overtaken' = FALSE
    /\ UNCHANGED <<shut, promised, linked, behind>>

(* A job of an earlier runtime has stored the gates of that runtime.       *)
Overtake ==
    /\ behind
    /\ overtaken' = TRUE
    /\ behind' \in BOOLEAN
    /\ UNCHANGED <<shut, promised, linked>>

(* The last job of an earlier runtime is done.                             *)
CatchUp ==
    /\ behind' = FALSE
    /\ UNCHANGED <<shut, promised, linked, overtaken>>

(* A reload or a crash: an unacknowledged pause may be forgotten, and a    *)
(* resume that was not stored may be undone.  What was promised stays,     *)
(* unless a job of an earlier runtime got, or at this moment gets, there.  *)
Restart ==
    /\ shut' \subseteq Sources
    /\ overtaken \/ behind \/ promised \subseteq shut'
    /\ promised' = promised \cap shut'
    /\ linked' = {}
    /\ behind' \in BOOLEAN
    /\ overtaken' = FALSE

Next ==
    \/ \E S \in SUBSET Sources : Shut(S) \/ Acknowledge(S) \/ Release(S) \/ Unlink(S)
    \/ \E s \in Sources : Link(s)
    \/ Store
    \/ Overtake
    \/ CatchUp
    \/ Restart

Spec == Init /\ [][Next]_vars

----------------------------------------------------------------------------
(* A source under an acknowledged protection is shut and has no connection.*)
ProtectedIsQuiet == promised \subseteq shut \ linked

=============================================================================
