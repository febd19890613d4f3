----------------------------- MODULE PhoneBook -----------------------------
(***************************************************************************)
(* What member login promises about phone numbers: a user joins with a phone *)
(* that nobody else has, and gives it back when he leaves.                   *)
(***************************************************************************)
CONSTANTS Users, Phones, NoPhone

VARIABLES phone

Init == phone = [u \in Users |-> NoPhone]

Free(p, u) == \A o \in Users \ {u} : phone[o] # p

Join(u, p) == Free(p, u) /\ phone' = [phone EXCEPT ![u] = p]

Leave(u) == phone' = [phone EXCEPT ![u] = NoPhone]

Next == \E u \in Users : Leave(u) \/ \E p \in Phones : Join(u, p)

Spec == Init /\ [][Next]_phone
=============================================================================
