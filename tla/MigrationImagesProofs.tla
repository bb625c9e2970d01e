------------------------ MODULE MigrationImagesProofs ------------------------
(***************************************************************************)
(* A theorem about the checkpoint directories that migrations, pre-dumps   *)
(* and failures leave behind, for any nodes, names, ranks, jobs and        *)
(* faults: LaterIsNewer.                                                   *)
(*                                                                         *)
(* The numbers stay in order because none is used again: where a rank      *)
(* runs, its container counts on from above those of all its images, on    *)
(* whatever nodes.  From the last dump to the restore nothing runs; then   *)
(* the job carries the highest number along, and Load counts on from it.   *)
(***************************************************************************)
EXTENDS MigrationServesProofs

\* What the images of a rank with number g hold, on whatever nodes.
Kept(r, g) == {image[h][r][g] : h \in Host} \ {Absent, Partial}

\* The images of r have lower numbers than g.
Below(r, g) == \A k \in Gen : Kept(r, k) # {} => k < g

\* Only what was launched has been dumped, and a rank never goes back behind
\* an image.
WorkInv == \A r \in Rank, g \in Gen : \A w \in Kept(r, g) : run[r].pc = "done" /\ w <= work[r]

OrderInv == \A r \in Rank, g, k \in Gen : \A v \in Kept(r, g), w \in Kept(r, k) : g <= k => v <= w

\* Where a rank runs, the next number is free on all nodes.
AheadInv == \A r \in Rank, h \in Host :
                h \in At(r) /\ reg[h][r] # NoCont => Below(r, reg[h][r].next)

\* The number on its way is the highest one.
CarriedInv == \A m \in Job : Frozen(m) => Below(job[m].rank, job[m].gen + 1)
CountInv == \A m \in Job : job[m].pc = "restore" => reg[Dest(m)][job[m].rank].next = job[m].gen + 1

AgeInv == WorkInv /\ OrderInv /\ AheadInv /\ CarriedInv /\ CountInv
-----------------------------------------------------------------------------
LEMMA KeptIsNat ==
    ASSUME TypeOK, NEW r \in Rank, NEW g \in Gen
    PROVE  Kept(r, g) \subseteq Nat
<1>1. image \in [Host -> [Rank -> [Gen -> Contents]]]
  BY DEF TypeOK
<1>. QED
  BY <1>1 DEF Kept, Contents

\* What an image holds comes from another image, or from the dump of now.
LEMMA KeptStep ==
    ASSUME Inv, SerialInv, [Next]_vars, NEW r \in Rank, NEW g \in Gen, NEW w, w \in Kept(r, g)'
    PROVE  \/ w \in Kept(r, g)
           \/ \E m \in Job : Dump(m) /\ r = job[m].rank /\ g = reg[job[m].src][r].next /\ w = work[r]
<1>1. PICK h \in Host : image'[h][r][g] = w /\ w # Absent /\ w # Partial
  BY DEF Kept
<1>2. image \in [Host -> [Rank -> [Gen -> Contents]]]
  BY DEF Inv, TypeOK
<1>3. CASE image'[h][r][g] = image[h][r][g]
  BY <1>1, <1>3 DEF Kept
<1>4. ASSUME NEW m \in Job, SendFiles(m), image'[h][r][g] = image[job[m].src][r][g]
      PROVE  w \in Kept(r, g)
  <2>1. job[m].src \in Host
    BY <1>4, Busy DEF Send
  <2>. QED
    BY <1>1, <1>4, <2>1 DEF Kept
<1>5. ASSUME NEW m \in Job, DumpFails(m) PROVE image'[h][r][g] = image[h][r][g]
  <2>1. PICK a \in Host, b \in Rank : a = job[m].src /\ b = job[m].rank
    BY <1>5, Busy DEF Send
  <2>2. PICK k : image' = image \/ image' = [image EXCEPT ![a][b][k] = Partial]
    BY <1>5, <2>1 DEF DumpFails
  <2>3. image' = image => image'[h][r][g] = image[h][r][g]
    OBVIOUS
  <2>4. ASSUME image' = [image EXCEPT ![a][b][k] = Partial]
        PROVE  image'[h][r][g] = image[h][r][g] \/ image'[h][r][g] = Partial
    BY <1>2, <2>1, <2>4
  <2>. QED
    BY <1>1, <2>2, <2>3, <2>4
<1>6. ASSUME NEW m \in Job, SendFails(m) PROVE image'[h][r][g] = image[h][r][g]
  <2>1. PICK a \in Host, b \in Rank : a = Dest(m) /\ b = job[m].rank
    BY <1>6, Busy DEF Send, SendFails
  <2>2. PICK k : image' = image \/ image' = [image EXCEPT ![a][b][k] = Partial]
    BY <1>6, <2>1 DEF SendFails, Dest
  <2>3. image' = image => image'[h][r][g] = image[h][r][g]
    OBVIOUS
  <2>4. ASSUME image' = [image EXCEPT ![a][b][k] = Partial]
        PROVE  image'[h][r][g] = image[h][r][g] \/ image'[h][r][g] = Partial
    BY <1>2, <2>1, <2>4
  <2>. QED
    BY <1>1, <2>2, <2>3, <2>4
<1>7. ASSUME NEW m \in Job, Dump(m), r = job[m].rank, h = job[m].src
      PROVE  \/ image'[h][r][g] = image[h][r][g]
             \/ g = reg[h][r].next /\ w = work[r]
  <2>1. image' = [image EXCEPT ![h][r][reg[h][r].next] = work[r]]
    BY <1>7 DEF Dump
  <2>. QED
    BY <1>1, <1>2, <2>1
<1>. QED
  BY <1>1, <1>3, <1>4, <1>5, <1>6, <1>7, ImageStep DEF Inv

\* A rank that is migrated has been launched, and stays so.
LEMMA RunKept ==
    ASSUME TypeOK, [Next]_vars, NEW r \in Rank, run[r].pc = "done"
    PROVE  run'[r].pc = "done"
<1>1. run \in [Rank -> Runs]
  BY DEF TypeOK
<1>2. ASSUME NEW q \in Rank, NEW h \in Host, Create(q, h) PROVE run'[r].pc = "done"
  BY <1>1, <1>2 DEF Create
<1>3. ASSUME NEW q \in Rank, Launch(q) \/ RegisterContainer(q) \/ LaunchFails(q) PROVE run'[r].pc = "done"
  BY <1>1, <1>3 DEF Launch, RegisterContainer, LaunchFails
<1>4. ASSUME NEW m \in Job, Send(m) \/ Relaunch(m) PROVE run'[r].pc = "done"
  BY <1>4, JobMoves
<1>5. ASSUME NEW m \in Job, NEW q \in Rank, NEW d \in Name, NEW t \in Types, Migrate(m, q, d, t)
      PROVE  run'[r].pc = "done"
  BY <1>5, MigrateIs
<1>. QED
  BY <1>2, <1>3, <1>4, <1>5, Others

\* A rank does not lose work.
LEMMA WorkGrows ==
    ASSUME Inv, SerialInv, [Next]_vars, NEW r \in Rank
    PROVE  work[r] \in Nat /\ work'[r] \in Nat /\ work[r] <= work'[r]
<1>1. work[r] \in Nat
  BY DEF Inv, TypeOK
<1>. QED
  BY <1>1, AtStep DEF SerialInv, Stays, Begins, Resumes

\* The container of a rank that is launched counts up.
LEMMA RegStep ==
    ASSUME Inv, SerialInv, [Next]_vars, NEW h \in Host, NEW r \in Rank, run[r].pc = "done", reg'[h][r] # NoCont
    PROVE  \/ reg'[h][r] = reg[h][r]
           \/ \E m \in Job :
                 /\ Dump(m) \/ DumpFails(m)
                 /\ h = job[m].src /\ r = job[m].rank
                 /\ reg[h][r] # NoCont /\ reg'[h][r] = WithCheckpoint(reg[h][r])
           \/ \E m \in Job :
                 /\ Load(m) /\ h = Dest(m) /\ r = job[m].rank
                 /\ reg'[h][r].next = job[m].gen + 1
<1>0. reg \in [Host -> [Rank -> Containers]]
  BY DEF Inv, TypeOK
<1>1. ASSUME NEW m \in Job, Load(m), h = Dest(m), r = imageInfo[h].rank,
             reg'[h][r] = [next |-> imageInfo[h].gen + 1, gens |-> {imageInfo[h].gen, Parent}]
      PROVE  r = job[m].rank /\ reg'[h][r].next = job[m].gen + 1
  <2>1. imageInfo[Dest(m)] = [rank |-> job[m].rank, gen |-> job[m].gen]
    BY <1>1 DEF Load, SerialInv, FrozenInv, Dest
  <2>. QED
    BY <1>1, <2>1
<1>2. ASSUME NEW m \in Job, Send(m) \/ Relaunch(m)
      PROVE  \/ reg'[h][r] = reg[h][r]
             \/ /\ Dump(m) \/ DumpFails(m)
                /\ h = job[m].src /\ r = job[m].rank
                /\ reg[h][r] # NoCont /\ reg'[h][r] = WithCheckpoint(reg[h][r])
             \/ /\ Load(m) /\ h = Dest(m) /\ r = job[m].rank
                /\ reg'[h][r].next = job[m].gen + 1
  BY <1>1, <1>2, RegIs DEF Dest
<1>3. ASSUME NEW q \in Rank, NEW n \in Host, Create(q, n) PROVE reg'[h][r] = reg[h][r]
  BY <1>0, <1>3 DEF Create
<1>4. ASSUME NEW q \in Rank, Launch(q) \/ RegisterContainer(q) \/ LaunchFails(q) PROVE UNCHANGED reg
  BY <1>4 DEF Launch, RegisterContainer, LaunchFails, nodeVars
<1>5. ASSUME NEW m \in Job, NEW q \in Rank, NEW d \in Name, NEW t \in Types, Migrate(m, q, d, t)
      PROVE  UNCHANGED reg
  BY <1>5, MigrateIs DEF Inv
<1>. QED
  BY <1>2, <1>3, <1>4, <1>5, Others
-----------------------------------------------------------------------------
\* A dump that succeeds: nothing else runs, and the number is a new one.
LEMMA Dumps ==
    ASSUME Inv, SerialInv, AgeInv, NEW m \in Job, Dump(m)
    PROVE  /\ job[m].src \in At(job[m].rank)
           /\ \A h \in At(job[m].rank) : h = job[m].src
           /\ reg[job[m].src][job[m].rank] # NoCont
           /\ reg[job[m].src][job[m].rank].next \in Nat
           /\ Below(job[m].rank, reg[job[m].src][job[m].rank].next)
<1>1. job[m].rank \in Rank /\ job[m].src \in Host
  BY Busy DEF Send
<1>2. job[m].src \in At(job[m].rank)
  BY <1>1 DEF Dump, At
<1>3. reg[job[m].src][job[m].rank] # NoCont
  BY DEF Dump, Inv, MutexInv, SendHoldsContainer, Sending
<1>4. reg[job[m].src][job[m].rank].next \in Nat
  <2>1. reg \in [Host -> [Rank -> Containers]]
    BY DEF Inv, TypeOK
  <2>. QED
    BY <1>1, <1>3, <2>1 DEF Containers
<1>5. \A h \in At(job[m].rank) : h = job[m].src
  BY <1>1, <1>2 DEF SerialInv, OnceInv
<1>. QED
  BY <1>1, <1>2, <1>3, <1>4, <1>5 DEF AgeInv, AheadInv

LEMMA WorkStep ==
    ASSUME Inv, SerialInv, AgeInv, [Next]_vars
    PROVE  WorkInv'
<1>. SUFFICES ASSUME NEW r \in Rank, NEW g \in Gen, NEW w, w \in Kept(r, g)'
              PROVE  run'[r].pc = "done" /\ w <= work'[r]
  BY DEF WorkInv
<1>1. CASE w \in Kept(r, g)
  <2>1. run[r].pc = "done" /\ w <= work[r] /\ w \in Nat
    BY <1>1, KeptIsNat DEF AgeInv, WorkInv, Inv
  <2>. QED
    BY <2>1, RunKept, WorkGrows DEF Inv
<1>2. ASSUME NEW m \in Job, Dump(m), r = job[m].rank, w = work[r]
      PROVE  run'[r].pc = "done" /\ w <= work'[r]
  <2>1. run[r].pc = "done"
    BY <1>2, Busy DEF Send
  <2>. QED
    BY <1>2, <2>1, RunKept, WorkGrows DEF Inv
<1>. QED
  BY <1>1, <1>2, KeptStep

LEMMA OrderStep ==
    ASSUME Inv, SerialInv, AgeInv, [Next]_vars
    PROVE  OrderInv'
<1>. SUFFICES ASSUME NEW r \in Rank, NEW g \in Gen, NEW k \in Gen, NEW v, v \in Kept(r, g)',
                     NEW w, w \in Kept(r, k)', g <= k
              PROVE  v <= w
  BY DEF OrderInv
<1>0. work[r] \in Nat /\ Gen \subseteq Nat
  BY WorkGrows DEF Gen
<1>1. CASE v \in Kept(r, g) /\ w \in Kept(r, k)
  BY <1>1 DEF AgeInv, OrderInv
<1>2. CASE v \in Kept(r, g) /\ w = work[r]
  BY <1>2 DEF AgeInv, WorkInv
<1>3. ASSUME NEW m \in Job, Dump(m), r = job[m].rank, g = reg[job[m].src][r].next, w \in Kept(r, k)
      PROVE  FALSE
  <2>1. k < g
    BY <1>3, Dumps DEF Below
  <2>. QED
    BY <1>0, <2>1
<1>4. CASE v = work[r] /\ w = work[r]
  BY <1>0, <1>4
<1>. QED
  BY <1>1, <1>2, <1>3, <1>4, KeptStep

\* A rank of which nothing is dumped now has no new images.
LEMMA BelowKept ==
    ASSUME Inv, SerialInv, [Next]_vars, NEW r \in Rank, NEW g, Below(r, g),
           \A m \in Job : Dump(m) => job[m].rank # r
    PROVE  \A k \in Gen : Kept(r, k)' # {} => k < g
<1>. SUFFICES ASSUME NEW k \in Gen, NEW w, w \in Kept(r, k)' PROVE k < g
  OBVIOUS
<1>1. w \in Kept(r, k)
  BY KeptStep
<1>. QED
  BY <1>1 DEF Below

\* After a dump the next number is above the new one.
LEMMA BelowDump ==
    ASSUME Inv, SerialInv, AgeInv, [Next]_vars, NEW m \in Job, Dump(m),
           NEW r \in Rank, r = job[m].rank
    PROVE  \A k \in Gen : Kept(r, k)' # {} => k < reg[job[m].src][r].next + 1
<1>1. reg[job[m].src][r].next \in Nat /\ Below(r, reg[job[m].src][r].next) /\ Gen \subseteq Nat
  BY Dumps DEF Gen
<1>2. ASSUME NEW n \in Job, Dump(n) PROVE n = m
  BY <1>2, Busy DEF Send, Active, Ended, Dump
<1>3. ASSUME NEW k \in Gen, NEW w, w \in Kept(r, k)' PROVE k < reg[job[m].src][r].next + 1
  <2>1. w \in Kept(r, k) \/ k = reg[job[m].src][r].next
    BY <1>2, <1>3, KeptStep
  <2>. QED
    BY <1>1, <2>1 DEF Below
<1>. QED
  BY <1>3

LEMMA AheadStep ==
    ASSUME Inv, SerialInv, AgeInv, [Next]_vars
    PROVE  AheadInv'
<1>. SUFFICES ASSUME NEW r \in Rank, NEW h \in Host, h \in At(r)', reg'[h][r] # NoCont
              PROVE  \A k \in Gen : Kept(r, k)' # {} => k < reg'[h][r].next
  BY DEF AheadInv, Below
<1>0. reg \in [Host -> [Rank -> Containers]] /\ Gen \subseteq Nat
  BY DEF Inv, TypeOK, Gen
<1>1. CASE run[r].pc # "done"
  <2>1. \A m \in Job : Dump(m) => job[m].rank # r
    BY <1>1, Busy DEF Send
  <2>2. \A k \in Gen : Kept(r, k) = {}
    BY <1>1 DEF AgeInv, WorkInv
  <2>. QED
    BY <2>1, <2>2, KeptStep
<1>2. CASE run[r].pc = "done" /\ Stays(r)
  <2>1. h \in At(r)
    BY <1>2 DEF Stays
  <2>2. ASSUME NEW m \in Job, Load(m), r = job[m].rank PROVE FALSE
    BY <2>1, <2>2 DEF Load, SerialInv, TypeInv, FrozenInv, Frozen, Active, Ended
  <2>3. reg[h][r] # NoCont /\ reg[h][r].next \in Nat
    BY <1>0, <1>2, <2>2, RegStep DEF Containers
  <2>4. reg'[h][r].next = reg[h][r].next \/ reg'[h][r].next = reg[h][r].next + 1
    <3>1. reg'[h][r] = reg[h][r] \/ reg'[h][r] = WithCheckpoint(reg[h][r])
      BY <1>2, <2>2, RegStep
    <3>. QED
      BY <3>1 DEF WithCheckpoint
  <2>5. Below(r, reg[h][r].next)
    BY <2>1, <2>3 DEF AgeInv, AheadInv
  <2>6. CASE \A m \in Job : Dump(m) => job[m].rank # r
    <3>1. \A k \in Gen : Kept(r, k)' # {} => k < reg[h][r].next
      BY <2>5, <2>6, BelowKept
    <3>2. \A k \in Gen : k < reg[h][r].next => k < reg'[h][r].next
      BY <1>0, <2>3, <2>4
    <3>. QED
      BY <3>1, <3>2
  <2>7. ASSUME NEW m \in Job, Dump(m), job[m].rank = r
        PROVE  \A k \in Gen : Kept(r, k)' # {} => k < reg'[h][r].next
    <3>1. h = job[m].src
      BY <2>1, <2>7, Dumps
    <3>2. reg' = [reg EXCEPT ![h][r] = WithCheckpoint(reg[h][r])]
      BY <2>7, <3>1 DEF Dump
    <3>3. reg'[h][r].next = reg[h][r].next + 1
      BY <1>0, <3>2 DEF WithCheckpoint
    <3>. QED
      BY <2>7, <3>1, <3>3, BelowDump
  <2>. QED
    BY <2>6, <2>7
<1>3. ASSUME run[r].pc = "done", NEW m \in Job, job[m].pc = "restore", job[m].rank = r, At(r)' = {Dest(m)}
      PROVE  \A k \in Gen : Kept(r, k)' # {} => k < reg'[h][r].next
  <2>1. h = Dest(m)
    BY <1>3
  <2>2. ASSUME NEW n \in Job, Dump(n) \/ DumpFails(n) \/ Load(n) PROVE FALSE
    <3>1. n = m
      BY <1>3, <2>2, Busy DEF Send, Relaunch, Active, Ended
    <3>. QED
      BY <1>3, <2>2, <3>1 DEF Dump, DumpFails, Load
  <2>3. reg'[h][r] = reg[h][r]
    BY <1>3, <2>2, RegStep
  <2>4. Frozen(m)
    BY <1>3 DEF SerialInv, TypeInv, Frozen, Active, Ended
  <2>5. Below(r, job[m].gen + 1) /\ reg[h][r].next = job[m].gen + 1
    BY <1>3, <2>1, <2>4 DEF AgeInv, CarriedInv, CountInv
  <2>. QED
    BY <2>2, <2>3, <2>5, BelowKept
<1>4. Begins(r) => run[r].pc # "done"
  BY DEF Begins
<1>. QED
  BY <1>1, <1>2, <1>3, <1>4, AtStep DEF SerialInv, Resumes, Dest

LEMMA CarriedStep ==
    ASSUME Inv, SerialInv, AgeInv, [Next]_vars
    PROVE  CarriedInv'
<1>. SUFFICES ASSUME NEW m \in Job, Frozen(m)'
              PROVE  \A k \in Gen : Kept(job[m].rank, k)' # {} => k < job'[m].gen + 1
  BY DEF CarriedInv, Below
<1>1. CASE Dump(m)
  <2>1. PICK r \in Rank : r = job[m].rank /\ r = job'[m].rank
    BY <1>1, Busy, JobMoves DEF Send, Inv
  <2>2. job'[m].gen = reg[job[m].src][r].next
    BY <1>1, <2>1, JobIs DEF Send, Inv
  <2>. QED
    BY <1>1, <2>1, <2>2, BelowDump
<1>2. CASE ~ Dump(m)
  <2>1. Frozen(m) /\ job'[m].rank = job[m].rank /\ job'[m].gen = job[m].gen
    <3>1. CASE job'[m] = job[m]
      BY <3>1 DEF Frozen
    <3>2. CASE Send(m) \/ Relaunch(m)
      <4>1. job'[m].rank = job[m].rank /\ job'[m].gen = job[m].gen
        BY <1>2, <3>2, JobIs, JobMoves DEF Inv
      <4>2. job'[m].final /\ job'[m].pc \in {"connect", "info", "files", "relaunch", "restore"}
        BY DEF Frozen
      <4>3. CASE Connect(m) \/ SendImageInfo(m) \/ Load(m)
        <5>1. job[m].final
          BY <3>2, <4>2, <4>3, JobIs DEF Inv, Connect, SendImageInfo, Load, Lock, SendFiles
        <5>. QED
          BY <4>1, <4>3, <5>1 DEF Frozen, Connect, SendImageInfo, Load
      <4>4. CASE SendFiles(m)
        BY <3>2, <4>1, <4>2, <4>4, JobIs DEF Inv, Frozen, SendFiles
      <4>5. Connect(m) \/ SendImageInfo(m) \/ Load(m) \/ SendFiles(m)
        BY <1>2, <3>2, <4>2, JobIs DEF Inv, Send, Relaunch
      <4>. QED
        BY <4>3, <4>4, <4>5
    <3>3. ASSUME NEW r \in Rank, NEW d \in Name, NEW t \in Types, Migrate(m, r, d, t) PROVE FALSE
      BY <3>3, MigrateIs DEF Inv, Frozen
    <3>. QED
      BY <3>1, <3>2, <3>3, JobChanges DEF Inv
  <2>2. PICK r \in Rank : r = job[m].rank /\ r = job'[m].rank
    BY <2>1 DEF Frozen, Inv, JobOK, Started
  <2>3. ASSUME NEW n \in Job, Dump(n) PROVE job[n].rank # r
    <3>1. n = m
      BY <2>1, <2>3, Busy DEF Send, Frozen, Active, Ended
    <3>. QED
      BY <1>2, <2>3, <3>1
  <2>4. Below(r, job[m].gen + 1)
    BY <2>1, <2>2 DEF AgeInv, CarriedInv
  <2>. QED
    BY <2>1, <2>2, <2>3, <2>4, BelowKept
<1>. QED
  BY <1>1, <1>2

LEMMA CountStep ==
    ASSUME Inv, SerialInv, SerialInv', AgeInv, [Next]_vars
    PROVE  CountInv'
<1>. SUFFICES ASSUME NEW m \in Job, job'[m].pc = "restore"
              PROVE  reg'[Dest(m)'][job'[m].rank].next = job'[m].gen + 1
  BY DEF CountInv
<1>1. reg'[Dest(m)'][job'[m].rank] # NoCont
  BY DEF SerialInv, ContainerInv, Dest
<1>2. CASE Load(m)
  <2>1. job'[m].rank = job[m].rank /\ job'[m].gen = job[m].gen /\ Dest(m)' = Dest(m)
    BY <1>2, JobMoves, JobIs DEF Relaunch, Inv, Dest
  <2>2. /\ job[m].rank \in Rank /\ run[job[m].rank].pc = "done"
        /\ Dest(m) \in Host /\ reg \in [Host -> [Rank -> Containers]]
        /\ imageInfo[Dest(m)] = [rank |-> job[m].rank, gen |-> job[m].gen]
    BY <1>2, Busy DEF Relaunch, Load, SerialInv, FrozenInv, Dest, Inv, TypeOK
  <2>3. reg' = [reg EXCEPT ![Dest(m)][job[m].rank] =
                   [next |-> job[m].gen + 1, gens |-> {job[m].gen, Parent}]]
    BY <1>2, <2>2 DEF Load, Dest
  <2>. QED
    BY <2>1, <2>2, <2>3
<1>3. CASE ~ Load(m)
  <2>1. job'[m] = job[m]
    <3>1. ~ Send(m) /\ ~ Relaunch(m)
      BY <1>3, JobIs DEF Inv, Send, Relaunch
    <3>2. ASSUME NEW r \in Rank, NEW d \in Name, NEW t \in Types, Migrate(m, r, d, t) PROVE FALSE
      BY <3>2, MigrateIs DEF Inv
    <3>. QED
      BY <3>1, <3>2, JobChanges DEF Inv
  <2>2. /\ job[m].pc = "restore" /\ Dest(m)' = Dest(m) /\ Dest(m) \in Host
        /\ job[m].rank \in Rank /\ run[job[m].rank].pc = "done"
    BY <2>1 DEF Dest, Inv, JobOK, Started, SerialInv, LaunchInv
  <2>3. ASSUME NEW n \in Job, Dump(n) \/ DumpFails(n) \/ Load(n) PROVE FALSE
    <3>1. n = m
      BY <2>2, <2>3, Busy DEF Send, Relaunch, Active, Ended
    <3>. QED
      BY <2>2, <2>3, <3>1 DEF Dump, DumpFails, Load
  <2>4. reg'[Dest(m)][job[m].rank] = reg[Dest(m)][job[m].rank]
    BY <1>1, <2>1, <2>2, <2>3, RegStep
  <2>. QED
    BY <2>1, <2>2, <2>4 DEF AgeInv, CountInv
<1>. QED
  BY <1>2, <1>3

LEMMA AgeInitially == Init => AgeInv
<1>. SUFFICES ASSUME Init PROVE AgeInv
  OBVIOUS
<1>1. \A r \in Rank, g \in Gen : Kept(r, g) = {}
  BY DEF Init, Kept
<1>2. \A m \in Job : job[m].pc = "new"
  BY DEF Init, NewJob
<1>. QED
  BY <1>1, <1>2 DEF AgeInv, WorkInv, OrderInv, AheadInv, CarriedInv, CountInv, Below, Frozen

\* Whatever migrations, pre-dumps and failures leave behind on the nodes, the
\* numbers of a rank's checkpoints tell their age: latestCheckpoint picks the
\* newest, and rank and number name one image everywhere (container.go:157-170,
\* checkpoint.go:81-97, container_registry.go:126-136).
THEOREM ImagesInOrder == ASSUME LosesDonor = FALSE PROVE Spec => []LaterIsNewer
<1>1. Inv /\ SerialInv /\ SerialInv' /\ AgeInv /\ [Next]_vars => AgeInv'
  BY WorkStep, OrderStep, AheadStep, CarriedStep, CountStep DEF AgeInv
<1>2. AgeInv => LaterIsNewer
  <2>. SUFFICES ASSUME AgeInv, NEW r \in Rank, NEW g \in Gen, NEW h \in Host, image[h][r][g] \in Nat,
                       NEW k \in Gen, NEW i \in Host, g <= k, image[i][r][k] \in Nat
                PROVE  image[h][r][g] <= image[i][r][k]
    BY DEF LaterIsNewer
  <2>1. image[h][r][g] \in Kept(r, g) /\ image[i][r][k] \in Kept(r, k)
    BY ContentAssumption DEF Kept
  <2>. QED
    BY <2>1 DEF AgeInv, OrderInv
<1>. QED
  BY <1>1, <1>2, AgeInitially, Serial, PTL DEF Spec
=============================================================================
