------------------------------ MODULE NymphSet ------------------------------
(***************************************************************************)
(* The coordinator's table of nymphs, srv/coordinator/nymph_set.go: a      *)
(* bitset of the ids handed out and a map from a location (a host name) to *)
(* the id of the nymph last registered from there.                         *)
(*                                                                         *)
(* The bitset is github.com/willf/bitset v1.1.10, which is outside src/:   *)
(* it is modelled from what NymphSet asks of it.  A bitset has a length,   *)
(* and NextClear(0) reports a clear bit only below that length; when there *)
(* is none NymphSet falls back on Count(), the number of bits set.         *)
(***************************************************************************)
EXTENDS Integers, FiniteSets

CONSTANT Location

VARIABLES
    activeIds,      \* the bits set in n.activeIds
    length,         \* the length of that bitset: one above the largest bit ever set
    set             \* n.set: a function from the registered locations to their ids

setVars == <<activeIds, length, set>>

\* Bits below the length that are not set: where NextClear(0) looks.
ClearIds == (0 .. length - 1) \ activeIds

\* Mutant: Count() for every id.
NextIdIsCount == Cardinality(activeIds)

\* NextClear(0), and Count() when NextClear finds nothing.
NextId ==
    IF ClearIds # {}
    THEN CHOOSE i \in ClearIds : \A j \in ClearIds : i <= j
    ELSE Cardinality(activeIds)

NymphSetInit ==
    /\ activeIds = {}
    /\ length = 0
    /\ set = [l \in {} |-> 0]

\* Mutant: an id the location already has is given back.
AddReleasing(location) ==
    LET old == IF location \in DOMAIN set THEN {set[location]} ELSE {} IN
    /\ activeIds' = (activeIds \ old) \cup {NextId}
    /\ length' = IF NextId < length THEN length ELSE NextId + 1
    /\ set' = [l \in DOMAIN set \cup {location} |-> IF l = location THEN NextId ELSE set[l]]

\* Nothing is done about an id the location already has: its bit stays set
\* and the map forgets it.
Add(location) ==
    /\ activeIds' = activeIds \cup {NextId}
    /\ length' = IF NextId < length THEN length ELSE NextId + 1
    /\ set' = [l \in DOMAIN set \cup {location} |-> IF l = location THEN NextId ELSE set[l]]

\* Del reports false, and changes nothing, for a location that is not in the map.
Del(location) ==
    IF location \in DOMAIN set
    THEN /\ activeIds' = activeIds \ {set[location]}
         /\ set' = [l \in DOMAIN set \ {location} |-> set[l]]
         /\ UNCHANGED length
    ELSE UNCHANGED setVars

GetNymphs == DOMAIN set
=============================================================================
