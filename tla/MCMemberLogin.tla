--------------------------- MODULE MCMemberLogin ---------------------------
(***************************************************************************)
(* Small instances of MemberLogin for TLC.                                 *)
(***************************************************************************)
EXTENDS MemberLogin, TLC

(* Users, phones and calls are interchangeable. *)
Symmetry == Permutations(Users) \cup Permutations(Phones) \cup Permutations(Calls)
=============================================================================
