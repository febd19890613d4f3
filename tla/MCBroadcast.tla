---------------------------- MODULE MCBroadcast ----------------------------
(***************************************************************************)
(* Small instances of Broadcast for TLC.                                   *)
(***************************************************************************)
EXTENDS Broadcast, TLC

(* Requests, recipients and handlers are interchangeable (safety runs only). *)
Symmetry ==
  Permutations(Requests) \cup Permutations(Recipients) \cup Permutations(Handlers)

(* One body per effect on the row: rename, schedule (later, or at a time that *)
(* has passed), cancel, send, a final status set by hand, and a string that   *)
(* is no status of the program.                                               *)
FewDtos ==
  {[status |-> "keep", due |-> "keep"]}
  \cup [status : {"scheduled"}, due : {"future", "past"}]
  \cup [status : {"draft", "processing", "completed"} \cup FreeStatuses, due : {"keep"}]
=============================================================================
