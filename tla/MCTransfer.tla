----------------------------- MODULE MCTransfer -----------------------------
(***************************************************************************)
(* Instances of Transfer for TLC.  Node a migrates rank r1 with a pre-dump *)
(* (two checkpoints that share the state file, the second with the link    *)
(* CRIU makes to the first), node b migrates rank r2.                      *)
(***************************************************************************)
EXTENDS Transfer, TLC

CONSTANTS a, b, pre, final, other

\* Names: state files, pages of each checkpoint, the link of the final one.
MCName == {"r1/state", "r1/0/pages", "r1/1/pages", "r1/1/parent", "r2/state", "r2/0/pages"}
MCLinks == {"r1/1/parent"}

ThreeSessions == {pre, final, other}

donors == [s \in ThreeSessions |-> IF s = other THEN b ELSE a]
images == [s \in ThreeSessions |-> s]
states == [s \in ThreeSessions |-> IF s = other THEN "r2/state" ELSE "r1/state"]
files == (pre :> {"r1/0/pages"}) @@ (final :> {"r1/1/pages", "r1/1/parent"})
         @@ (other :> {"r2/0/pages"})
bases == [s \in ThreeSessions |-> IF s = other THEN other ELSE pre]
relaunch == [s \in ThreeSessions |-> s # pre]

\* Pages of two chunks, other files of one; and the same with an empty file.
sizes == [s \in ThreeSessions |->
    [f \in MCName |-> IF f \in {"r1/1/pages", "r2/0/pages"} THEN 2 ELSE 1]]
sizesWithEmpty == [s \in ThreeSessions |->
    [f \in MCName |-> IF f = "r1/0/pages" THEN 0 ELSE 1]]
=============================================================================
