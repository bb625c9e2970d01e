---------------------------- MODULE MCMigration -----------------------------
(***************************************************************************)
(* Instances of Migration for TLC: two or three nodes that call themselves *)
(* A, B and C; an alias of the first one; and a name nobody answers to.    *)
(***************************************************************************)
EXTENDS Migration, TLC

CONSTANTS h1, h2, h3, r1, r2, i1, A, B, C, Alias, Down

MCHostname2 == [h \in {h1, h2} |-> IF h = h1 THEN A ELSE B]
MCHostname3 == [h \in {h1, h2, h3} |-> IF h = h1 THEN A ELSE IF h = h2 THEN B ELSE C]

\* Also the nodes behind the names: an alias resolves to h1, Down to nothing.
MCNode == [n \in Name |-> CASE n \in {A, Alias} -> h1 [] n = B -> h2 [] n = C -> h3
                            [] n = Down -> NoHost]

\* All ranks run the same program.
MCOneImage == [r \in Rank |-> i1]

\* The ranks may be swapped, and the nodes together with their names.
MCSymmetry ==
    Permutations(Rank)
        \cup {[x \in Host \cup Name |-> IF x \in Host THEN p[x] ELSE hostname[p[nodeOf[x]]]] :
                  p \in Permutations(Host)}

AllTypes == {"Migrate", "PreDump", "WithPreDump"}
=============================================================================
