------------------------------- MODULE MCNode -------------------------------
(***************************************************************************)
(* Instances of Node for TLC: two ranks that have an address and one that  *)
(* has none; an image, and an archive with a device in it.                 *)
(***************************************************************************)
EXTENDS Node, TLC

CONSTANTS r1, r2, r300, i1, bad, base, config, rootfs, library

MCRank == {r1, r2}
MCPath == {base, config, rootfs, library}

Dir(p, d) == [kind |-> "dir", name |-> p, in |-> d, to |-> base]
File(p) == [kind |-> "file", name |-> p, in |-> base, to |-> base]
Other(kind, p, d, t) == [kind |-> kind, name |-> p, in |-> d, to |-> t]

MCArchive ==
    [i \in Image |->
        CASE i = i1 -> <<Dir(base, base), File(config), Dir(rootfs, base),
                         Other("link", library, rootfs, config)>>
          [] i = bad -> <<Dir(base, base), Other("symlink", library, base, base),
                          Other("other", config, base, base)>>]

Symmetry == Permutations(MCRank)
=============================================================================
