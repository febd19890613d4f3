----------------------------- MODULE MCRichMenu -----------------------------
(***************************************************************************)
(* A small instance of RichMenu for TLC.                                   *)
(***************************************************************************)
EXTENDS RichMenu, TLC

(* Users and calls are interchangeable. *)
Symmetry == Permutations(Users) \cup Permutations(Calls)

(* Two images with different names, or users who log in, but not both in   *)
(* one behaviour.                                                          *)
NamesOrMembers == now < 2 \/ (member = {} /\ \A c \in Calls : call[c].pc \notin {"greet", "welcome"})
=============================================================================
