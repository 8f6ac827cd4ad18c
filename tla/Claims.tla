------------------------------- MODULE Claims -------------------------------
(***************************************************************************)
(* What the claims of student records promise, whoever makes them: a       *)
(* record is claimed at most once and then for good, and nobody owns two.  *)
(***************************************************************************)
CONSTANTS Record, Account, Nobody

VARIABLE owner

Init == owner = [r \in Record |-> Nobody]

Claim(r, a) ==
    /\ owner[r] = Nobody
    /\ \A x \in Record : owner[x] # a
    /\ owner' = [owner EXCEPT ![r] = a]

Next == \E r \in Record, a \in Account : Claim(r, a)

Spec == Init /\ [][Next]_owner
=============================================================================
