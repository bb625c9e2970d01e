------------------------------ MODULE IdLease -------------------------------
(***************************************************************************)
(* What the registration of nymphs promises: ids are lent.  A holder gets  *)
(* one at a time, which nobody else has then, and keeps that one until it  *)
(* is gone.                                                                *)
(***************************************************************************)
EXTENDS Naturals

CONSTANTS Holder, None

VARIABLE lease      \* lease[h]: the id that h has, or None

Init == lease = [h \in Holder |-> None]

\* An id that is free is lent to h, which has none.
Lend(h) ==
    /\ lease[h] = None
    /\ lease'[h] \in Nat
    /\ \A g \in Holder : lease[g] # lease'[h]
    /\ lease' = [lease EXCEPT ![h] = lease'[h]]

\* The holders in S are gone.
End(S) == lease' = [h \in Holder |-> IF h \in S THEN None ELSE lease[h]]

Next ==
    \/ \E h \in Holder : Lend(h)
    \/ \E S \in SUBSET Holder : End(S)

Spec == Init /\ [][Next]_lease
=============================================================================
