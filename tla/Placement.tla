----------------------------- MODULE Placement ------------------------------
(***************************************************************************)
(* What the migration of containers promises: the processes of a rank run  *)
(* on one node at a time, and what they have computed is never lost.  They *)
(* may be frozen for a while, and may then be resumed on any node.         *)
(***************************************************************************)
EXTENDS Naturals

CONSTANTS Rank, Host

VARIABLES
    at,         \* at[r]: the nodes where rank r runs
    work        \* work[r]: how far the computation of rank r has come

vars == <<at, work>>

Init ==
    /\ at = [r \in Rank |-> {}]
    /\ work = [r \in Rank |-> 0]

\* Rank r starts or resumes on node h.
Place(r, h) ==
    /\ at[r] = {}
    /\ at' = [at EXCEPT ![r] = {h}]
    /\ UNCHANGED work

\* The ranks of S stop: they were dumped, or ended with their node.
Freeze(S) ==
    /\ at' = [r \in Rank |-> IF r \in S THEN {} ELSE at[r]]
    /\ UNCHANGED work

\* A running rank computes.
Compute(r) ==
    /\ at[r] # {}
    /\ work' = [work EXCEPT ![r] = @ + 1]
    /\ UNCHANGED at

Next ==
    \/ \E S \in SUBSET Rank : Freeze(S)
    \/ \E r \in Rank : Compute(r) \/ \E h \in Host : Place(r, h)

Spec == Init /\ [][Next]_vars
=============================================================================
