---------------------------- MODULE MCAutoReply ----------------------------
(***************************************************************************)
(* Small instances of AutoReply for TLC.                                   *)
(***************************************************************************)
EXTENDS AutoReply, TLC

CONSTANTS e1, e2

(* A text and a postback. *)
TextAndPostback == (e1 :> "text") @@ (e2 :> "postback")

(* A rule for everything, and a more urgent one for the text.  A rule that is   *)
(* switched off matches like one that is not there.                           *)
FewForms ==
  {[on |-> TRUE, rank |-> 2, hits |-> Events], [on |-> TRUE, rank |-> 1, hits |-> {e1}]}

Symmetry == Permutations(Handlers)
=============================================================================
