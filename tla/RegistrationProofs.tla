------------------------- MODULE RegistrationProofs -------------------------
(***************************************************************************)
(* What Registration guarantees for any set of locations, any number of    *)
(* starts and restarts and any configured ranges.                          *)
(***************************************************************************)
EXTENDS Registration, FiniteSetTheorems, WellFoundedInduction, TLAPS

(***************************************************************************)
(* The bitset                                                              *)
(***************************************************************************)

\* A set of numbers that is not empty has a least element: the scan of
\* NextClear(0) finds one.
LEMMA LeastExists ==
  ASSUME NEW S, S \subseteq Nat, S # {}
  PROVE  \E x \in S : \A y \in S : x <= y
<1>1. PICK x \in S : \A y \in S : ~ (<<y, x>> \in OpToRel(<, Nat))
  BY WFMin, NatLessThanWellFounded
<1>2. \A y \in S : ~ (y < x)
  BY <1>1 DEF OpToRel
<1>. QED
  BY <1>2

\* The bits below the length are all that can be set.
BitsBelowLength == length \in Nat /\ activeIds \subseteq 0 .. length - 1

\* The id Add chooses is free, also when it comes from Count()
\* (nymph_set.go:26-29).
LEMMA NextIdFresh ==
  ASSUME BitsBelowLength
  PROVE  NextId \in Nat /\ NextId \notin activeIds
<1>1. CASE ClearIds # {}
  <2>1. ClearIds \subseteq Nat
    BY DEF ClearIds, BitsBelowLength
  <2>2. \E i \in ClearIds : \A j \in ClearIds : i <= j
    BY <1>1, <2>1, LeastExists
  <2>3. NextId \in ClearIds
    BY <1>1, <2>2 DEF NextId
  <2>. QED
    BY <2>1, <2>3 DEF ClearIds
<1>2. CASE ClearIds = {}
  <2>1. activeIds = 0 .. length - 1
    BY <1>2 DEF ClearIds, BitsBelowLength
  <2>2. Cardinality(activeIds) = length
    BY <2>1, FS_Interval DEF BitsBelowLength
  <2>3. NextId = length
    BY <1>2, <2>2 DEF NextId
  <2>. QED
    BY <2>1, <2>3 DEF BitsBelowLength
<1>. QED
  BY <1>1, <1>2

\* Ranges of qpnpn numbers that start at multiples of qpnpn do not overlap
\* (rxe.go:109).
LEMMA RangesDisjoint ==
  ASSUME NEW a \in Nat, NEW b \in Nat, a # b
  PROVE  QpnRange(a) \cap QpnRange(b) = {}
<1>1. ASSUME NEW x \in Nat, NEW y \in Nat, x < y
      PROVE  x * qpnpn + qpnpn <= y * qpnpn
  <2>1. (x + 1) * qpnpn <= y * qpnpn
    BY <1>1, QpnAssumption
  <2>2. (x + 1) * qpnpn = x * qpnpn + qpnpn
    BY QpnAssumption
  <2>. QED
    BY <2>1, <2>2
<1>2. a * qpnpn \in Nat /\ b * qpnpn \in Nat /\ qpnpn \in Nat /\ minqpn \in Nat
  BY QpnAssumption
<1>3. a * qpnpn + qpnpn <= b * qpnpn \/ b * qpnpn + qpnpn <= a * qpnpn
  BY <1>1
<1>. QED
  BY <1>2, <1>3 DEF QpnRange
-----------------------------------------------------------------------------
(***************************************************************************)
(* The inductive invariant                                                 *)
(***************************************************************************)

\* l's process has an id of the present coordinator, or will when its reply
\* arrives.
Holds(l, id) ==
    \/ Current(l) /\ Id[l] = id
    \/ nymph[l] = "registering" /\ reply[l] = id /\ id # NoReply

\* activeIds is finite as a set of bits below the length, which TypeOK does
\* not say.
RegTypeOK ==
    /\ BitsBelowLength
    /\ DOMAIN set \subseteq Location
    /\ \A l \in DOMAIN set : set[l] \in Nat
    /\ epoch \in Nat
    /\ nymph \in [Location -> States]
    /\ run \in [Location -> Nat]
    /\ conn \in [Location -> BOOLEAN]
    /\ calls \in SUBSET Call
    /\ reply \in [Location -> Nat \cup {NoReply}]
    /\ Id \in [Location -> Nat]
    /\ idEpoch \in [Location -> Nat]

\* No process carries an id of a coordinator yet to come, and a reply is on
\* its way only to a process that waits for it.
ProcInv ==
    \A l \in Location :
        /\ idEpoch[l] <= epoch
        /\ reply[l] # NoReply => nymph[l] = "registering"

\* No call is ahead of the processes started, and whoever still waits for
\* UnregisterNymph is closing.
WaitersInv ==
    \A c \in calls :
        /\ c.run <= run[c.host]
        /\ c.op = "UnregisterNymph" /\ Waiting(c) => nymph[c.host] = "closing"

\* The map is injective and all its bits are set.
TableInv ==
    /\ \A l \in DOMAIN set : set[l] \in activeIds
    /\ \A l, m \in DOMAIN set : l # m => set[l] # set[m]

\* A held id is active, is held once, and is not what the map would clear for
\* another location.
HoldersInv ==
    \A l \in Location : \A id \in Nat :
        Holds(l, id) =>
            /\ id \in activeIds
            /\ \A m \in Location \ {l} : ~ Holds(m, id)
            /\ \A m \in DOMAIN set \ {l} : set[m] # id

\* UnregisterNymph is in flight only while the process that called it waits:
\* then the bit it clears is in use by nobody.
CallersInv ==
    \A c \in calls : c.op = "UnregisterNymph" =>
        nymph[c.host] = "closing" /\ c.run = run[c.host]

\* The part of the invariant that does not depend on LateUnregister, and the
\* part that does.
TInv == RegTypeOK /\ ProcInv /\ WaitersInv /\ TableInv
IInv == TInv /\ HoldersInv /\ CallersInv

\* The initial states satisfy the invariant.
LEMMA InitIInv == Init => IInv
  BY DEF Init, NymphSetInit, IInv, TInv, RegTypeOK, BitsBelowLength, ProcInv, WaitersInv, TableInv,
         HoldersInv, CallersInv, Holds, Current, States

\* Every step keeps the types and the table.
LEMMA NextTInv ==
  ASSUME TInv, [Next]_vars
  PROVE  TInv'
<1>. USE DEF TInv
<1>1. ASSUME NEW l \in Location, Start(l)
      PROVE  TInv'
  <2>1. RegTypeOK' /\ ProcInv' /\ TableInv'
    BY <1>1 DEF Start, Call, RegTypeOK, ProcInv, TableInv, BitsBelowLength, States, setVars
  <2>2. WaitersInv'
    BY <1>1 DEF Start, Call, RegTypeOK, WaitersInv, Waiting
  <2>. QED
    BY <2>1, <2>2
<1>2. ASSUME NEW l \in Location, Registered(l)
      PROVE  TInv'
  <2>1. RegTypeOK' /\ ProcInv' /\ TableInv'
    BY <1>2 DEF Registered, RegTypeOK, ProcInv, TableInv, BitsBelowLength, States, setVars
  <2>2. WaitersInv'
    BY <1>2 DEF Registered, Call, RegTypeOK, WaitersInv, Waiting
  <2>. QED
    BY <2>1, <2>2
<1>3. ASSUME NEW l \in Location, Close(l)
      PROVE  TInv'
  <2>1. RegTypeOK' /\ ProcInv' /\ TableInv'
    BY <1>3 DEF Close, CallOf, Call, RegTypeOK, ProcInv, TableInv, BitsBelowLength, States, setVars
  <2>2. WaitersInv'
    BY <1>3 DEF Close, CallOf, Call, RegTypeOK, WaitersInv, Waiting
  <2>. QED
    BY <2>1, <2>2
<1>4. ASSUME NEW l \in Location, Kill(l)
      PROVE  TInv'
  <2>1. RegTypeOK' /\ ProcInv' /\ TableInv'
    BY <1>4 DEF Kill, Surviving, RegTypeOK, ProcInv, TableInv, BitsBelowLength, States, setVars
  <2>2. WaitersInv'
    BY <1>4 DEF Kill, Surviving, Call, RegTypeOK, WaitersInv, Waiting
  <2>. QED
    BY <2>1, <2>2
<1>5. ASSUME NEW l \in Location, ConnectionLost(l)
      PROVE  TInv'
  <2>1. RegTypeOK' /\ ProcInv' /\ TableInv'
    BY <1>5 DEF ConnectionLost, Surviving, RegTypeOK, ProcInv, TableInv, BitsBelowLength, States, setVars
  <2>2. WaitersInv'
    BY <1>5 DEF ConnectionLost, Surviving, Call, RegTypeOK, WaitersInv, Waiting
  <2>. QED
    BY <2>1, <2>2
<1>6. ASSUME NEW c \in calls, HandleRegister(c)
      PROVE  TInv'
  <2>1. NextId \in Nat /\ NextId \notin activeIds
    BY NextIdFresh DEF RegTypeOK
  <2>2. c.host \in Location
    BY DEF RegTypeOK, Call
  <2>3. BitsBelowLength'
    <3>1. length' \in Nat /\ length <= length' /\ NextId < length'
      BY <1>6, <2>1 DEF HandleRegister, Add, RegTypeOK, BitsBelowLength
    <3>2. activeIds' = activeIds \cup {NextId}
      BY <1>6 DEF HandleRegister, Add
    <3>3. ASSUME NEW i \in activeIds' PROVE i \in 0 .. length' - 1
      <4>1. length \in Nat /\ (i = NextId \/ i \in 0 .. length - 1)
        BY <3>2 DEF RegTypeOK, BitsBelowLength
      <4>. QED
        BY <2>1, <3>1, <4>1
    <3>. QED
      BY <3>1, <3>3 DEF BitsBelowLength
  <2>4. TableInv'
    BY <1>6, <2>1 DEF HandleRegister, Add, TableInv
  <2>5. RegTypeOK' /\ ProcInv'
    BY <1>6, <2>1, <2>2, <2>3 DEF HandleRegister, Add, RegTypeOK, ProcInv, procVars
  <2>6. WaitersInv'
    BY <1>6 DEF HandleRegister, WaitersInv, Waiting, procVars
  <2>. QED
    BY <2>4, <2>5, <2>6
<1>7. ASSUME NEW c \in calls, HandleUnregister(c)
      PROVE  TInv'
  <2>1. c.host \in Location
    BY DEF RegTypeOK, Call
  <2>2. RegTypeOK' /\ ProcInv'
    <3>1. Waiting(c) => nymph[c.host] = "closing"
      BY <1>7 DEF HandleUnregister, WaitersInv
    <3>. QED
      BY <1>7, <2>1, <3>1 DEF HandleUnregister, Del, RegTypeOK, ProcInv, BitsBelowLength, States, setVars
  <2>3. TableInv'
    BY <1>7 DEF HandleUnregister, Del, TableInv, setVars
  <2>4. WaitersInv'
    <3>1. ASSUME NEW d \in calls', d.op = "UnregisterNymph", Waiting(d)'
          PROVE  nymph'[d.host] = "closing"
      <4>1. d \in calls /\ d # c /\ Waiting(d) /\ nymph[d.host] = "closing"
        BY <1>7, <3>1 DEF HandleUnregister, Waiting, WaitersInv
      <4>2. Waiting(c) => d.host # c.host
        BY <1>7, <3>1, <4>1 DEF HandleUnregister, Waiting, RegTypeOK, Call
      <4>. QED
        BY <1>7, <2>1, <4>1, <4>2 DEF HandleUnregister, RegTypeOK
    <3>. QED
      BY <1>7, <3>1 DEF HandleUnregister, WaitersInv
  <2>. QED
    BY <2>2, <2>3, <2>4
<1>8. CASE RestartCoordinator
  BY <1>8 DEF RestartCoordinator, RegTypeOK, ProcInv, WaitersInv, TableInv, BitsBelowLength, States
<1>9. CASE UNCHANGED vars
  BY <1>9 DEF vars, procVars, setVars, RegTypeOK, ProcInv, WaitersInv, Waiting, TableInv, BitsBelowLength
<1>. QED
  BY <1>1, <1>2, <1>3, <1>4, <1>5, <1>6, <1>7, <1>8, <1>9 DEF Next

\* A step of a nymph process that gives nobody a new id can only end holdings:
\* the cases of Start, Registered, Close, Kill and ConnectionLost.
LEMMA FewerHolders ==
  ASSUME HoldersInv, UNCHANGED <<setVars, epoch>>,
         \A l \in Location : \A id \in Nat : Holds(l, id)' => Holds(l, id)
  PROVE  HoldersInv'
<1>. SUFFICES ASSUME NEW l \in Location, NEW id \in Nat, Holds(l, id)'
              PROVE  /\ id \in activeIds'
                     /\ \A m \in Location \ {l} : ~ Holds(m, id)'
                     /\ \A m \in DOMAIN set' \ {l} : set'[m] # id
  BY DEF HoldersInv
<1>1. Holds(l, id)
  OBVIOUS
<1>2. /\ id \in activeIds
      /\ \A m \in Location \ {l} : ~ Holds(m, id)
      /\ \A m \in DOMAIN set \ {l} : set[m] # id
  BY <1>1 DEF HoldersInv
<1>. QED
  BY <1>2 DEF setVars

\* Every step keeps what holders and callers rely on, provided that no
\* UnregisterNymph is served after its caller is gone.
LEMMA NextHolders ==
  ASSUME ~ LateUnregister, IInv, [Next]_vars
  PROVE  HoldersInv' /\ CallersInv'
<1>. USE DEF IInv, TInv
<1>1. ASSUME NEW l \in Location, Start(l)
      PROVE  HoldersInv' /\ CallersInv'
  <2>1. CallersInv'
    <3>1. \A c \in calls : c.op = "UnregisterNymph" => c.host # l
      BY <1>1 DEF Start, CallersInv
    <3>2. ASSUME NEW c \in calls', c.op = "UnregisterNymph"
          PROVE  c \in calls /\ c.host \in Location
      BY <1>1, <3>2 DEF Start, RegTypeOK, Call
    <3>3. \A m \in Location \ {l} : nymph'[m] = nymph[m] /\ run'[m] = run[m]
      BY <1>1 DEF Start, RegTypeOK
    <3>4. ASSUME NEW c \in calls', c.op = "UnregisterNymph"
          PROVE  nymph'[c.host] = "closing" /\ c.run = run'[c.host]
      <4>1. c \in calls /\ c.host \in Location \ {l}
        BY <3>1, <3>2, <3>4
      <4>2. nymph[c.host] = "closing" /\ c.run = run[c.host]
        BY <3>4, <4>1 DEF CallersInv
      <4>. QED
        BY <3>3, <4>1, <4>2
    <3>. QED
      BY <3>4 DEF CallersInv
  <2>2. \A m \in Location : \A id \in Nat : Holds(m, id)' => Holds(m, id)
    BY <1>1 DEF Start, Holds, Current, RegTypeOK, ProcInv
  <2>. QED
    BY <1>1, <2>1, <2>2, FewerHolders DEF Start
<1>2. ASSUME NEW l \in Location, Registered(l)
      PROVE  HoldersInv' /\ CallersInv'
  <2>1. CallersInv'
    BY <1>2 DEF Registered, CallersInv, RegTypeOK, Call
  <2>2. \A m \in Location : \A id \in Nat : Holds(m, id)' => Holds(m, id)
    BY <1>2 DEF Registered, Holds, Current, RegTypeOK
  <2>. QED
    BY <1>2, <2>1, <2>2, FewerHolders DEF Registered
<1>3. ASSUME NEW l \in Location, Close(l)
      PROVE  HoldersInv' /\ CallersInv'
  <2>1. CallersInv'
    BY <1>3 DEF Close, CallOf, CallersInv, RegTypeOK, Call
  <2>2. \A m \in Location : \A id \in Nat : Holds(m, id)' => Holds(m, id)
    BY <1>3 DEF Close, Holds, Current, RegTypeOK
  <2>. QED
    BY <1>3, <2>1, <2>2, FewerHolders DEF Close
<1>4. ASSUME NEW l \in Location, Kill(l)
      PROVE  HoldersInv' /\ CallersInv'
  <2>1. CallersInv'
    BY <1>4 DEF Kill, Surviving, CallersInv, RegTypeOK, Call
  <2>2. \A m \in Location : \A id \in Nat : Holds(m, id)' => Holds(m, id)
    BY <1>4 DEF Kill, Holds, Current, RegTypeOK
  <2>. QED
    BY <1>4, <2>1, <2>2, FewerHolders DEF Kill
<1>5. ASSUME NEW l \in Location, ConnectionLost(l)
      PROVE  HoldersInv' /\ CallersInv'
  <2>1. CallersInv'
    BY <1>5 DEF ConnectionLost, Surviving, CallersInv, RegTypeOK, Call
  <2>2. \A m \in Location : \A id \in Nat : Holds(m, id)' => Holds(m, id)
    BY <1>5 DEF ConnectionLost, Holds, Current, RegTypeOK
  <2>. QED
    BY <1>5, <2>1, <2>2, FewerHolders DEF ConnectionLost
<1>6. ASSUME NEW c \in calls, HandleRegister(c)
      PROVE  HoldersInv' /\ CallersInv'
  <2>1. NextId \in Nat /\ NextId \notin activeIds
    BY NextIdFresh DEF RegTypeOK
  <2>2. c.host \in Location
    BY DEF RegTypeOK, Call
  <2>3. CallersInv'
    BY <1>6 DEF HandleRegister, CallersInv, procVars
  <2>4. ASSUME NEW m \in Location, NEW id \in Nat, Holds(m, id)'
        PROVE  Holds(m, id) \/ (m = c.host /\ id = NextId)
    BY <1>6, <2>1, <2>2, <2>4 DEF HandleRegister, Holds, Current, procVars, RegTypeOK
  <2>5. \A m \in Location : ~ Holds(m, NextId)
    BY <2>1 DEF HoldersInv
  <2>. SUFFICES ASSUME NEW m \in Location, NEW id \in Nat, Holds(m, id)'
                PROVE  /\ id \in activeIds'
                       /\ \A k \in Location \ {m} : ~ Holds(k, id)'
                       /\ \A k \in DOMAIN set' \ {m} : set'[k] # id
    BY <2>3 DEF HoldersInv
  <2>6. CASE id = NextId
    <3>1. \A k \in Location : Holds(k, id)' => k = c.host
      BY <2>4, <2>5, <2>6
    <3>2. m = c.host
      BY <3>1
    <3>3. \A k \in DOMAIN set : set[k] # id
      BY <2>1, <2>6 DEF TableInv
    <3>. QED
      BY <1>6, <2>6, <3>1, <3>2, <3>3 DEF HandleRegister, Add
  <2>7. CASE id # NextId
    <3>1. Holds(m, id)
      BY <2>4, <2>7
    <3>2. /\ id \in activeIds
          /\ \A k \in Location \ {m} : ~ Holds(k, id)
          /\ \A k \in DOMAIN set \ {m} : set[k] # id
      BY <3>1 DEF HoldersInv
    <3>3. \A k \in Location \ {m} : ~ Holds(k, id)'
      BY <2>4, <2>7, <3>2
    <3>. QED
      BY <1>6, <2>7, <3>2, <3>3 DEF HandleRegister, Add
  <2>. QED
    BY <2>6, <2>7
<1>7. ASSUME NEW c \in calls, HandleUnregister(c)
      PROVE  HoldersInv' /\ CallersInv'
  <2>1. c.host \in Location /\ nymph[c.host] = "closing" /\ c.run = run[c.host]
    BY <1>7 DEF HandleUnregister, RegTypeOK, Call, CallersInv
  <2>2. CallersInv'
    <3>1. \A d \in calls' : d.op = "UnregisterNymph" => d.host # c.host
      BY <1>7, <2>1 DEF HandleUnregister, RegTypeOK, Call, CallersInv
    <3>. QED
      BY <1>7, <2>1, <3>1 DEF HandleUnregister, CallersInv, RegTypeOK, Call
  <2>3. \A m \in Location : \A id \in Nat : Holds(m, id)' => Holds(m, id) /\ m # c.host
    BY <1>7, <2>1 DEF HandleUnregister, Holds, Current, RegTypeOK
  <2>. SUFFICES ASSUME NEW m \in Location, NEW id \in Nat, Holds(m, id)'
                PROVE  /\ id \in activeIds'
                       /\ \A k \in Location \ {m} : ~ Holds(k, id)'
                       /\ \A k \in DOMAIN set' \ {m} : set'[k] # id
    BY <2>2 DEF HoldersInv
  <2>4. Holds(m, id) /\ m # c.host
    BY <2>3
  <2>5. /\ id \in activeIds
        /\ \A k \in Location \ {m} : ~ Holds(k, id)
        /\ \A k \in DOMAIN set \ {m} : set[k] # id
    BY <2>4 DEF HoldersInv
  <2>6. c.host \in DOMAIN set => set[c.host] # id
    BY <2>4, <2>5
  <2>. QED
    BY <1>7, <2>3, <2>5, <2>6 DEF HandleUnregister, Del, setVars
<1>8. CASE RestartCoordinator
  <2>1. \A m \in Location : \A id \in Nat : ~ Holds(m, id)'
    BY <1>8 DEF RestartCoordinator, Holds, Current, RegTypeOK, ProcInv
  <2>. QED
    BY <1>8, <2>1 DEF RestartCoordinator, HoldersInv, CallersInv
<1>9. CASE UNCHANGED vars
  <2>1. \A m \in Location : \A id \in Nat : Holds(m, id)' => Holds(m, id)
    BY <1>9 DEF vars, procVars, Holds, Current
  <2>2. CallersInv'
    BY <1>9 DEF vars, procVars, CallersInv
  <2>. QED
    BY <1>9, <2>1, <2>2, FewerHolders DEF vars
<1>. QED
  BY <1>1, <1>2, <1>3, <1>4, <1>5, <1>6, <1>7, <1>8, <1>9 DEF Next

\* The table is consistent in every behaviour.
THEOREM TableInvariance == Spec => []TInv
<1>1. Init => TInv
  BY InitIInv DEF IInv
<1>2. TInv /\ [Next]_vars => TInv'
  BY NextTInv
<1>. QED
  BY <1>1, <1>2, PTL DEF Spec

\* The whole invariant holds when no UnregisterNymph outlives its caller.
THEOREM Invariance == ASSUME ~ LateUnregister PROVE Spec => []IInv
<1>1. IInv /\ [Next]_vars => IInv'
  BY NextTInv, NextHolders DEF IInv
<1>. QED
  BY InitIInv, <1>1, PTL DEF Spec

\* Whatever is killed, restarted or disconnected, two serving nymphs of one
\* coordinator number their queue pairs from disjoint ranges (rxe.go:109), for
\* any ranges configured, unless an UnregisterNymph outlives its caller.
THEOREM QpnSafety == ASSUME ~ LateUnregister PROVE Spec => []QpnRangesDisjoint
<1>1. IInv => QpnRangesDisjoint
  <2>. SUFFICES ASSUME IInv, NEW l \in Location, NEW m \in Location,
                       l # m, Current(l), Current(m)
                PROVE  QpnRange(Id[l]) \cap QpnRange(Id[m]) = {}
    BY DEF QpnRangesDisjoint
  <2>1. Id[l] \in Nat /\ Id[m] \in Nat
    BY DEF IInv, TInv, RegTypeOK
  <2>2. Holds(l, Id[l]) /\ Holds(m, Id[m])
    BY DEF Holds
  <2>3. Id[l] # Id[m]
    BY <2>1, <2>2 DEF IInv, HoldersInv
  <2>. QED
    BY <2>1, <2>3, RangesDisjoint
<1>. QED
  BY <1>1, Invariance, PTL

\* The id of a serving nymph stays set in the bitset (nymph_set.go:31), under
\* the same condition.
THEOREM ServingIdsSafety == ASSUME ~ LateUnregister PROVE Spec => []ServingIdsAreActive
<1>1. IInv => ServingIdsAreActive
  BY DEF IInv, TInv, HoldersInv, RegTypeOK, ServingIdsAreActive, Holds
<1>. QED
  BY <1>1, Invariance, PTL

\* The id the coordinator hands out next is never one already set, also when
\* it comes from Count() (nymph_set.go:26-29).
THEOREM NextIdSafety == Spec => []NextIdIsFree
<1>1. TInv => NextIdIsFree
  BY NextIdFresh DEF TInv, RegTypeOK, NextIdIsFree
<1>. QED
  BY <1>1, TableInvariance, PTL

\* Every variable keeps its type.
THEOREM TypeCorrect == Spec => []TypeOK
<1>1. TInv => TypeOK
  <2>. SUFFICES ASSUME TInv PROVE TypeOK
    OBVIOUS
  <2>1. activeIds \subseteq 0 .. length - 1 /\ length \in Nat
    BY DEF TInv, RegTypeOK, BitsBelowLength
  <2>2. IsFiniteSet(0 .. length - 1)
    BY <2>1, FS_Interval
  <2>3. IsFiniteSet(activeIds)
    BY <2>1, <2>2, FS_Subset
  <2>. QED
    BY <2>1, <2>3 DEF TInv, RegTypeOK, TypeOK
<1>. QED
  BY <1>1, TableInvariance, PTL
-----------------------------------------------------------------------------
(***************************************************************************)
(* Registration implements IdLease.                                        *)
(***************************************************************************)

\* What a process has been lent: its id, or the one on its way to it.
Lent(l) == IF Current(l) THEN Id[l] ELSE reply[l]
lent == [l \in Location |-> Lent(l)]

\* A process calls RegisterNymph once: after the answer, none of its calls is left.
AnsweredInv ==
    \A l \in Location : reply[l] # NoReply =>
        \A c \in calls : c.op = "RegisterNymph" /\ c.host = l => c.run # run[l]

LEMMA AnsweredStep ==
  ASSUME IInv, AnsweredInv, [Next]_vars
  PROVE  AnsweredInv'
<1>0. /\ reply \in [Location -> Nat \cup {NoReply}] /\ run \in [Location -> Nat] /\ nymph \in [Location -> States]
      /\ calls \in SUBSET Call
  BY DEF IInv, TInv, RegTypeOK
<1>1. ASSUME NEW l \in Location, Start(l)
      PROVE  AnsweredInv'
  <2>1. reply[l] = NoReply /\ UNCHANGED reply /\ \A m \in Location \ {l} : run'[m] = run[m]
    BY <1>0, <1>1 DEF Start, IInv, TInv, ProcInv
  <2>2. \A c \in calls' \ calls : c.host = l
    BY <1>1 DEF Start
  <2>. QED
    BY <2>1, <2>2 DEF AnsweredInv
<1>2. ASSUME NEW l \in Location, Registered(l) \/ Close(l) \/ Kill(l) \/ ConnectionLost(l)
      PROVE  AnsweredInv'
  <2>1. UNCHANGED run /\ \A m \in Location : reply'[m] = reply[m] \/ reply'[m] = NoReply
    BY <1>0, <1>2 DEF Registered, Close, Kill, ConnectionLost
  <2>2. \A c \in calls' : c.op = "RegisterNymph" => c \in calls
    BY <1>2 DEF Registered, Close, Kill, ConnectionLost, Surviving, CallOf
  <2>. QED
    BY <2>1, <2>2 DEF AnsweredInv
<1>3. ASSUME NEW c \in calls, HandleRegister(c)
      PROVE  AnsweredInv'
  <2>1. /\ c.op = "RegisterNymph" /\ UNCHANGED run /\ calls' = calls \ {c}
        /\ \A m \in Location : reply'[m] # reply[m] => m = c.host /\ c.run = run[m]
    BY <1>0, <1>3 DEF HandleRegister, Waiting, procVars
  <2>2. \A d \in calls : d.op = c.op /\ d.host = c.host /\ d.run = c.run => d = c
    BY <1>0 DEF Call
  <2>. QED
    BY <2>1, <2>2 DEF AnsweredInv
<1>4. ASSUME NEW c \in calls, HandleUnregister(c)
      PROVE  AnsweredInv'
  BY <1>4 DEF HandleUnregister, AnsweredInv
<1>5. CASE RestartCoordinator
  BY <1>5 DEF RestartCoordinator, AnsweredInv
<1>6. CASE UNCHANGED vars
  BY <1>6 DEF vars, procVars, AnsweredInv
<1>. QED
  BY <1>1, <1>2, <1>3, <1>4, <1>5, <1>6 DEF Next

\* Steps after which every process has what it had, or nothing.
LEMMA EndStep ==
  ASSUME \A l \in Location : Lent(l)' = Lent(l) \/ Lent(l)' = NoReply
  PROVE  Lease!Next
<1>1. PICK S \in SUBSET Location : \A l \in Location : l \in S <=> lent'[l] = NoReply
  <2>1. {l \in Location : lent'[l] = NoReply} \in SUBSET Location
    OBVIOUS
  <2>. QED
    BY <2>1
<1>2. lent' = [l \in Location |-> IF l \in S THEN NoReply ELSE lent[l]]
  BY <1>1 DEF lent, Lent
<1>3. Lease!End(S)
  BY <1>2 DEF Lease!End, lent, Lent
<1>. QED
  BY <1>3 DEF Lease!Next

LEMMA LeaseStep ==
  ASSUME IInv, AnsweredInv, Next
  PROVE  Lease!Next
<1>0. /\ reply \in [Location -> Nat \cup {NoReply}] /\ Id \in [Location -> Nat] /\ idEpoch \in [Location -> Nat]
      /\ nymph \in [Location -> States] /\ epoch \in Nat /\ calls \in SUBSET Call
      /\ \A l \in Location : reply[l] # NoReply => nymph[l] = "registering"
      /\ \A l \in Location : idEpoch[l] <= epoch
  BY DEF IInv, TInv, RegTypeOK, ProcInv
<1>1. ASSUME NEW l \in Location, Start(l) \/ Registered(l) \/ Close(l) \/ Kill(l) \/ ConnectionLost(l)
      PROVE  Lease!Next
  <2>1. \A m \in Location \ {l} : Lent(m)' = Lent(m)
    BY <1>0, <1>1 DEF Start, Registered, Close, Kill, ConnectionLost, Lent, Current, setVars
  <2>2. Lent(l)' = Lent(l) \/ Lent(l)' = NoReply
    BY <1>0, <1>1 DEF Start, Registered, Close, Kill, ConnectionLost, Lent, Current, setVars
  <2>. QED
    BY <2>1, <2>2, EndStep
<1>2. ASSUME NEW c \in calls, HandleRegister(c)
      PROVE  Lease!Next
  <2>1. UNCHANGED <<epoch, nymph, Id, idEpoch>>
    BY <1>2 DEF HandleRegister, procVars
  <2>2. CASE UNCHANGED reply
    <3>1. \A l \in Location : Lent(l)' = Lent(l)
      BY <2>1, <2>2 DEF Lent, Current
    <3>. QED
      BY <3>1, EndStep
  <2>3. CASE Waiting(c) /\ nymph[c.host] = "registering" /\ reply' = [reply EXCEPT ![c.host] = NextId]
    <3>1. PICK l \in Location : l = c.host
      BY <1>0 DEF Call
    <3>2. ~ Current(l) /\ reply[l] = NoReply
      BY <1>2, <2>3, <3>1 DEF HandleRegister, Waiting, AnsweredInv, Current
    <3>3. NextId \in Nat /\ NextId \notin activeIds
      BY NextIdFresh DEF IInv, TInv, RegTypeOK
    <3>4. \A m \in Location : Lent(m) # NextId
      <4>1. ASSUME NEW m \in Location, Lent(m) = NextId PROVE Holds(m, NextId)
        BY <1>0, <3>3, <4>1 DEF Lent, Holds, NoReply
      <4>. QED
        BY <3>3, <4>1 DEF IInv, HoldersInv
    <3>5. lent[l] = NoReply /\ lent' = [lent EXCEPT ![l] = NextId]
      BY <1>0, <2>1, <2>3, <3>1, <3>2 DEF lent, Lent, Current
    <3>6. lent'[l] = NextId
      BY <3>5 DEF lent
    <3>7. Lease!Lend(l)
      BY <3>3, <3>4, <3>5, <3>6 DEF Lease!Lend, lent, Lent
    <3>. QED
      BY <3>7 DEF Lease!Next
  <2>. QED
    BY <1>2, <2>2, <2>3 DEF HandleRegister
<1>3. ASSUME NEW c \in calls, HandleUnregister(c)
      PROVE  Lease!Next
  <2>1. \A m \in Location : nymph'[m] # nymph[m] => nymph[m] = "closing" /\ nymph'[m] = "down"
    BY <1>0, <1>3 DEF HandleUnregister, IInv, TInv, WaitersInv
  <2>2. UNCHANGED <<epoch, reply, Id, idEpoch>>
    BY <1>3 DEF HandleUnregister
  <2>3. \A m \in Location : Lent(m)' = Lent(m)
    BY <2>1, <2>2 DEF Lent, Current
  <2>. QED
    BY <2>3, EndStep
<1>4. CASE RestartCoordinator
  <2>1. \A m \in Location : Lent(m)' = NoReply
    BY <1>0, <1>4 DEF RestartCoordinator, Lent, Current
  <2>. QED
    BY <2>1, EndStep
<1>. QED
  BY <1>1, <1>2, <1>3, <1>4 DEF Next

\* The coordinator lends ids: what a process gets is nobody else's and stays the
\* same until the process is gone (server.go:298-321, control.go:178-198,
\* nymph_set.go:22-47).
THEOREM Refinement == ASSUME ~ LateUnregister PROVE Spec => LendsIds
<1>1. Init => Lease!Init /\ AnsweredInv
  BY DEF Init, Lease!Init, AnsweredInv, Current
<1>2. IInv /\ AnsweredInv /\ [Next]_vars => AnsweredInv'
  BY AnsweredStep
<1>3. IInv /\ AnsweredInv /\ [Next]_vars => [Lease!Next]_lent
  <2>1. UNCHANGED vars => UNCHANGED lent
    BY DEF vars, procVars, lent, Lent, Current
  <2>. QED
    BY <2>1, LeaseStep
<1>. QED
  BY <1>1, <1>2, <1>3, Invariance, PTL DEF Spec, LendsIds, Lease!Spec, lent, Lent
=============================================================================
