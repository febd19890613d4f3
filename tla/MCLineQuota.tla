---------------------------- MODULE MCLineQuota ----------------------------
(***************************************************************************)
(* A small instance of LineQuota for TLC: every broadcast is of Units      *)
(* messages to one user.                                                   *)
(***************************************************************************)
EXTENDS LineQuota, TLC

OneEach == [b \in Broadcasts |-> 1]
TwoEach == [b \in Broadcasts |-> 2]

(* Broadcasts are interchangeable. *)
Symmetry == Permutations(Broadcasts)
=============================================================================
