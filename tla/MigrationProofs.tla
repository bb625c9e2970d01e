--------------------------- MODULE MigrationProofs ---------------------------
(***************************************************************************)
(* Theorems about Migration, for any nodes, names, ranks, jobs and faults. *)
(*                                                                         *)
(* The first part holds whether or not the control loop can lose a donor.  *)
(* The second one needs that it does not: then one job at a time is under  *)
(* way, and between the dump and the restore nobody runs its rank, whose   *)
(* image is as far as the process had come.                                *)
(***************************************************************************)
EXTENDS Migration, TLAPS

Started(m) == job[m].pc # "new"
Active(m) == job[m].pc \notin Ended \cup {"new"}

\* A job that has started has a rank, a source and a destination.
JobOK ==
    \A m \in Job : Started(m) =>
        /\ job[m].rank \in Rank /\ job[m].src \in Host /\ job[m].dest \in Name /\ job[m].type \in Types
        /\ job[m].pc \in {"info", "files", "relaunch", "restore", "delete"} => nodeOf[job[m].dest] \in Host
        /\ job[m].pc = "files" => imageInfo[nodeOf[job[m].dest]] # NoImage
        /\ job[m].pc = "relaunch" => imageInfo[nodeOf[job[m].dest]] # NoImage
        /\ job[m].pc = "restore" => job[m].loaded \in Rank

\* A name in the location database leads to a node.
PlaceOK ==
    /\ \A r \in Rank : location[r] # NoName => nodeOf[location[r]] \in Host
    /\ \A r \in Rank : run[r].pc \in {"created", "launched"} => run[r].at \in Host
    /\ \A m \in Job : waiting = m /\ job[m].pc = "done" => nodeOf[job[m].dest] \in Host

\* Send has the mutex of its source.
MutexInv ==
    /\ \A m \in Job : Sending(m) => mutex[job[m].src] = m
    /\ SendHoldsContainer

Inv == TypeOK /\ JobOK /\ PlaceOK /\ MutexInv
-----------------------------------------------------------------------------
\* A job that goes on keeps its fields.
LEMMA AdvanceType ==
    ASSUME TypeOK, NEW m \in Job, NEW pc \in JobPCs, Advance(m, pc)
    PROVE  job' \in [Job -> Jobs]
<1>1. job \in [Job -> Jobs]
  BY DEF TypeOK
<1>. QED
  BY <1>1 DEF Advance, Jobs

LEMMA DumpsType ==
    ASSUME TypeOK, NEW m \in Job, NEW f \in BOOLEAN
    PROVE  [job EXCEPT ![m].pc = "dump", ![m].final = f] \in [Job -> Jobs]
<1>1. job \in [Job -> Jobs]
  BY DEF TypeOK
<1>2. [[job[m] EXCEPT !.pc = "dump"] EXCEPT !.final = f] \in Jobs
  BY <1>1 DEF Jobs, JobPCs
<1>3. [job EXCEPT ![m].pc = "dump", ![m].final = f]
        = [job EXCEPT ![m] = [[job[m] EXCEPT !.pc = "dump"] EXCEPT !.final = f]]
  BY <1>1
<1>. QED
  BY <1>1, <1>2, <1>3

LEMMA FinishType ==
    ASSUME TypeOK, NEW m \in Job, NEW pc \in JobPCs, Finish(m, pc)
    PROVE  job' \in [Job -> Jobs] /\ mutex' \in [Host -> Job \cup {NoJob}]
BY AdvanceType DEF TypeOK, Finish

\* One place of a checkpoint directory changes.
LEMMA ImageType ==
    ASSUME TypeOK, NEW h \in Host, NEW r \in Rank, NEW g, NEW c, g \in Gen => c \in Contents,
           image' = [image EXCEPT ![h][r][g] = c]
    PROVE  image' \in [Host -> [Rank -> [Gen -> Contents]]]
<1>1. image \in [Host -> [Rank -> [Gen -> Contents]]]
  BY DEF TypeOK
<1>2. PICK f : f = [image[h][r] EXCEPT ![g] = c]
  OBVIOUS
<1>3. image[h][r] \in [Gen -> Contents]
  BY <1>1
<1>4. f \in [Gen -> Contents]
  <2>1. CASE g \in Gen
    BY <1>2, <1>3, <2>1
  <2>2. CASE ~ (g \in Gen)
    BY <1>2, <1>3, <2>2
  <2>. QED
    BY <2>1, <2>2
<1>5. PICK e : e = [image[h] EXCEPT ![r] = f]
  OBVIOUS
<1>6. e \in [Rank -> [Gen -> Contents]]
  BY <1>1, <1>4, <1>5
<1>7. image' = [image EXCEPT ![h] = e]
  BY <1>2, <1>5
<1>. QED
  BY <1>1, <1>6, <1>7

\* NewCheckpoint counts on.
LEMMA WithCheckpointType ==
    ASSUME NEW c \in Containers, c # NoCont
    PROVE  WithCheckpoint(c) \in Containers /\ WithCheckpoint(c) # NoCont
BY ContentAssumption DEF WithCheckpoint, Containers

\* The records that are built.
LEMMA TypeStep ==
    ASSUME TypeOK, JobOK, PlaceOK, MutexInv, [Next]_vars
    PROVE  TypeOK'
<1>. USE DEF nodeVars, procVars
<1>location. location \in [Rank -> Name \cup {NoName}]
  BY DEF TypeOK
<1>waiting. waiting \in Job \cup {NoJob}
  BY DEF TypeOK
<1>reg. reg \in [Host -> [Rank -> Containers]]
  BY DEF TypeOK
<1>mutex. mutex \in [Host -> Job \cup {NoJob}]
  BY DEF TypeOK
<1>image. image \in [Host -> [Rank -> [Gen -> Contents]]]
  BY DEF TypeOK
<1>state. state \in [Host -> SUBSET Rank]
  BY DEF TypeOK
<1>imageInfo. imageInfo \in [Host -> Infos]
  BY DEF TypeOK
<1>unfinished. unfinished \in [Host -> BOOLEAN]
  BY DEF TypeOK
<1>rootfs. rootfs \in [Host -> SUBSET Image]
  BY DEF TypeOK
<1>proc. proc \in [Host -> [Rank -> {"none", "running", "stopped"}]]
  BY DEF TypeOK
<1>work. work \in [Rank -> Nat]
  BY DEF TypeOK
<1>run. run \in [Rank -> Runs]
  BY DEF TypeOK
<1>job. job \in [Job -> Jobs]
  BY DEF TypeOK
<1>faults. faults \in Nat
  BY DEF TypeOK
<1>1. ASSUME NEW r \in Rank, NEW h \in Host, Create(r, h) PROVE TypeOK'
  <2>1. reg' \in [Host -> [Rank -> Containers]]
    <3>1. [next |-> 0, gens |-> {}] \in Containers
      BY DEF Containers
    <3>2. PICK c \in Containers : reg' = reg \/ reg' = [reg EXCEPT ![h][r] = c]
      BY <1>1, <3>1 DEF Create
    <3>. QED
      BY <3>2, <1>reg
  <2>2. state' \in [Host -> SUBSET Rank]
    BY <1>1, <1>state DEF Create
  <2>3. run' \in [Rank -> Runs]
    <3>1. [pc |-> "created", at |-> h] \in Runs
      BY DEF Runs
    <3>2. [run[r] EXCEPT !.pc = "failed"] \in Runs
      BY <1>run DEF Runs
    <3>. QED
      BY <1>1, <3>1, <3>2, <1>run DEF Create
  <2>4. rootfs' \in [Host -> SUBSET Image]
    BY <1>1, <1>rootfs, ImageAssumption DEF Create
  <2>5. UNCHANGED <<location, waiting, mutex, image, imageInfo, unfinished, proc, work, job, faults>>
    BY <1>1 DEF Create
  <2>. QED
    BY <2>1, <2>2, <2>3, <2>4, <2>5 DEF TypeOK
<1>2. ASSUME NEW r \in Rank, Launch(r) PROVE TypeOK'
  <2>1. proc' \in [Host -> [Rank -> {"none", "running", "stopped"}]]
    BY <1>2 DEF Launch, TypeOK
  <2>2. run' \in [Rank -> Runs]
    BY <1>2 DEF Launch, TypeOK, Runs
  <2>3. UNCHANGED <<location, waiting, reg, mutex, image, state, imageInfo, unfinished, rootfs, work, job, faults>>
    BY <1>2 DEF Launch
  <2>. QED
    BY <2>1, <2>2, <2>3 DEF TypeOK
<1>3. ASSUME NEW r \in Rank, LaunchFails(r) PROVE TypeOK'
  <2>1. run' \in [Rank -> Runs]
    BY <1>3 DEF LaunchFails, Fault, TypeOK, Runs
  <2>2. faults' \in Nat
    BY <1>3 DEF LaunchFails, Fault, TypeOK
  <2>3. UNCHANGED <<location, waiting, reg, mutex, image, state, imageInfo, unfinished, rootfs, proc, work, job>>
    BY <1>3 DEF LaunchFails
  <2>. QED
    BY <2>1, <2>2, <2>3 DEF TypeOK
<1>4. ASSUME NEW r \in Rank, RegisterContainer(r) PROVE TypeOK'
  <2>1. location' \in [Rank -> Name \cup {NoName}]
    BY <1>4, NameAssumption DEF RegisterContainer, Set, TypeOK, PlaceOK
  <2>2. run' \in [Rank -> Runs]
    BY <1>4 DEF RegisterContainer, Set, TypeOK, Runs
  <2>3. UNCHANGED <<waiting, reg, mutex, image, state, imageInfo, unfinished, rootfs, proc, work, job, faults>>
    BY <1>4 DEF RegisterContainer
  <2>. QED
    BY <2>1, <2>2, <2>3 DEF TypeOK
<1>5. ASSUME NEW m \in Job, NEW r \in Rank, NEW d \in Name, NEW t \in Types, Migrate(m, r, d, t) PROVE TypeOK'
  <2>1. waiting' \in Job \cup {NoJob}
    BY <1>5 DEF Migrate, TypeOK
  <2>2. job' \in [Job -> Jobs]
    <3>1. nodeOf[location[r]] \in Host
      BY <1>5 DEF Migrate, PlaceOK
    <3>2. [NewJob EXCEPT !.pc = "called", !.rank = r, !.type = t, !.src = nodeOf[location[r]], !.dest = d] \in Jobs
      BY <3>1 DEF NewJob, Jobs, JobPCs
    <3>. QED
      BY <1>5, <3>2, <1>job DEF Migrate
  <2>3. UNCHANGED <<location, reg, mutex, image, state, imageInfo, unfinished, rootfs, proc, work, run, faults>>
    BY <1>5 DEF Migrate
  <2>. QED
    BY <2>1, <2>2, <2>3 DEF TypeOK
<1>6. ASSUME NEW m \in Job, Return(m) PROVE TypeOK'
  <2>1. location' \in [Rank -> Name \cup {NoName}]
    BY <1>6 DEF Return, Set, TypeOK, JobOK, Started, Ended
  <2>2. waiting' \in Job \cup {NoJob}
    BY <1>6 DEF Return, Set, TypeOK
  <2>3. UNCHANGED <<reg, mutex, image, state, imageInfo, unfinished, rootfs, proc, work, run, job, faults>>
    BY <1>6 DEF Return
  <2>. QED
    BY <2>1, <2>2, <2>3 DEF TypeOK
<1>7. ASSUME NEW m \in Job, LoseDonor(m) PROVE TypeOK'
  <2>1. waiting' \in Job \cup {NoJob}
    BY <1>7 DEF LoseDonor, Fault, TypeOK
  <2>2. faults' \in Nat
    BY <1>7 DEF LoseDonor, Fault, TypeOK
  <2>3. UNCHANGED <<location, reg, mutex, image, state, imageInfo, unfinished, rootfs, proc, work, run, job>>
    BY <1>7 DEF LoseDonor
  <2>. QED
    BY <2>1, <2>2, <2>3 DEF TypeOK
<1>8. ASSUME NEW m \in Job, Lock(m) PROVE TypeOK'
  <2>1. job' \in [Job -> Jobs]
    <3>1. CASE Advance(m, "failed")
      BY <3>1, AdvanceType DEF JobPCs
    <3>2. CASE job' = [job EXCEPT ![m].pc = "dump", ![m].final = job[m].type = "Migrate"]
      BY <3>2, <1>job, DumpsType
    <3>. QED
      BY <1>8, <3>1, <3>2 DEF Lock
  <2>2. mutex' \in [Host -> Job \cup {NoJob}]
    BY <1>8 DEF Lock, TypeOK
  <2>3. UNCHANGED <<location, waiting, reg, image, state, imageInfo, unfinished, rootfs, proc, work, run, faults>>
    BY <1>8 DEF Lock
  <2>. QED
    BY <2>1, <2>2, <2>3 DEF TypeOK
<1>9. ASSUME NEW m \in Job, Dump(m) PROVE TypeOK'
  <2>0. /\ job[m] \in Jobs /\ job[m].rank \in Rank /\ job[m].src \in Host
        /\ job[m].pc \in {"info", "files", "relaunch"} => nodeOf[job[m].dest] \in Host
    BY <1>9, <1>job DEF Dump, JobOK, Started
  <2>1. reg' \in [Host -> [Rank -> Containers]]
    <3>1. reg[job[m].src][job[m].rank] # NoCont
      BY <1>9 DEF Dump, MutexInv, SendHoldsContainer, Sending
    <3>2. WithCheckpoint(reg[job[m].src][job[m].rank]) \in Containers
      BY <3>1, <2>0, WithCheckpointType, <1>reg
    <3>3. PICK c \in Containers : reg' = [reg EXCEPT ![job[m].src][job[m].rank] = c]
      BY <1>9, <3>2 DEF Dump
    <3>. QED
      BY <3>3, <1>reg
  <2>2. image' \in [Host -> [Rank -> [Gen -> Contents]]]
    <3>1. work[job[m].rank] \in Contents
      BY <1>work, <2>0 DEF Contents
    <3>2. PICK g, c : c \in Contents /\ image' = [image EXCEPT ![job[m].src][job[m].rank][g] = c]
      BY <1>9, <3>1 DEF Dump
    <3>. QED
      BY <3>2, <2>0, ImageType
  <2>3. proc' \in [Host -> [Rank -> {"none", "running", "stopped"}]]
    BY <1>9 DEF Dump, WithCheckpoint, TypeOK
  <2>4. job' \in [Job -> Jobs]
    <3>1. reg[job[m].src][job[m].rank].next \in Nat
      BY <1>9, <2>0, <1>reg DEF Dump, MutexInv, SendHoldsContainer, Sending, Containers
    <3>2. PICK g \in Nat : job' = [job EXCEPT ![m].pc = "connect", ![m].gen = g]
      BY <1>9, <3>1 DEF Dump
    <3>3. PICK j : j = [[job[m] EXCEPT !.pc = "connect"] EXCEPT !.gen = g]
      OBVIOUS
    <3>4. j \in Jobs
      BY <3>3, <2>0 DEF Jobs, JobPCs
    <3>5. job' = [job EXCEPT ![m] = j]
      BY <3>2, <3>3, <1>job
    <3>. QED
      BY <3>4, <3>5, <1>job
  <2>5. UNCHANGED <<location, waiting, mutex, state, imageInfo, unfinished, rootfs, work, run, faults>>
    BY <1>9 DEF Dump
  <2>. QED
    BY <2>1, <2>2, <2>3, <2>4, <2>5 DEF TypeOK
<1>10. ASSUME NEW m \in Job, DumpFails(m) PROVE TypeOK'
  <2>0. /\ job[m] \in Jobs /\ job[m].rank \in Rank /\ job[m].src \in Host
        /\ job[m].pc \in {"info", "files", "relaunch"} => nodeOf[job[m].dest] \in Host
    BY <1>10, <1>job DEF DumpFails, JobOK, Started
  <2>1. job' \in [Job -> Jobs] /\ mutex' \in [Host -> Job \cup {NoJob}]
    BY <1>10, FinishType DEF DumpFails, JobPCs
  <2>2. reg' \in [Host -> [Rank -> Containers]]
    <3>1. reg[job[m].src][job[m].rank] # NoCont
      BY <1>10 DEF DumpFails, MutexInv, SendHoldsContainer, Sending
    <3>2. WithCheckpoint(reg[job[m].src][job[m].rank]) \in Containers
      BY <3>1, <2>0, WithCheckpointType, <1>reg
    <3>3. PICK c \in Containers : reg' = reg \/ reg' = [reg EXCEPT ![job[m].src][job[m].rank] = c]
      BY <1>10, <3>2 DEF DumpFails
    <3>. QED
      BY <3>3, <1>reg
  <2>3. image' \in [Host -> [Rank -> [Gen -> Contents]]]
    <3>1. Partial \in Contents
      BY DEF Contents
    <3>2. image' = image \/ image' = [image EXCEPT ![job[m].src][job[m].rank][reg[job[m].src][job[m].rank].next] = Partial]
      BY <1>10 DEF DumpFails
    <3>. QED
      BY <3>1, <3>2, <2>0, <1>image, ImageType
  <2>4. faults' \in Nat
    BY <1>10 DEF DumpFails, WithCheckpoint, Finish, Fault, TypeOK
  <2>5. UNCHANGED <<location, waiting, state, imageInfo, unfinished, rootfs, proc, work, run>>
    BY <1>10 DEF DumpFails
  <2>. QED
    BY <2>1, <2>2, <2>3, <2>4, <2>5 DEF TypeOK
<1>11. ASSUME NEW m \in Job, Connect(m) PROVE TypeOK'
  <2>1. job' \in [Job -> Jobs]
    BY <1>11, AdvanceType DEF Connect, JobPCs
  <2>2. UNCHANGED <<location, waiting, reg, mutex, image, state, imageInfo, unfinished, rootfs, proc, work, run, faults>>
    BY <1>11 DEF Connect
  <2>. QED
    BY <2>1, <2>2 DEF TypeOK
<1>12. ASSUME NEW m \in Job, SendImageInfo(m) PROVE TypeOK'
  <2>0. /\ job[m] \in Jobs /\ job[m].rank \in Rank /\ job[m].src \in Host
        /\ job[m].pc \in {"info", "files", "relaunch"} => nodeOf[job[m].dest] \in Host
    BY <1>12, <1>job DEF SendImageInfo, JobOK, Started
  <2>1. job' \in [Job -> Jobs]
    BY <1>12, AdvanceType DEF SendImageInfo, JobPCs
  <2>2. imageInfo' \in [Host -> Infos]
    <3>1. [rank |-> job[m].rank, gen |-> job[m].gen] \in Infos
      BY <2>0, <1>job DEF Infos, Jobs
    <3>. QED
      BY <1>12, <3>1, <1>imageInfo DEF SendImageInfo
  <2>3. UNCHANGED <<location, waiting, reg, mutex, image, state, unfinished, rootfs, proc, work, run, faults>>
    BY <1>12 DEF SendImageInfo
  <2>. QED
    BY <2>1, <2>2, <2>3 DEF TypeOK
<1>13. ASSUME NEW m \in Job, SendFiles(m) PROVE TypeOK'
  <2>0. /\ job[m] \in Jobs /\ job[m].rank \in Rank /\ job[m].src \in Host
        /\ job[m].pc \in {"info", "files", "relaunch"} => nodeOf[job[m].dest] \in Host
    BY <1>13, <1>job DEF SendFiles, JobOK, Started
  <2>1. image' \in [Host -> [Rank -> [Gen -> Contents]]]
    <3>. DEFINE d == nodeOf[job[m].dest]
                r == job[m].rank
                g == job[m].gen
    <3>1. g \in Gen => image[job[m].src][r][g] \in Contents
      BY <2>0, <1>image
    <3>2. Partial \in Contents
      BY DEF Contents
    <3>3. image' = image \/ image' = [image EXCEPT ![nodeOf[job[m].dest]][r][g] = image[job[m].src][r][g]]
      BY <1>13 DEF SendFiles
    <3>4. nodeOf[job[m].dest] \in Host
      BY <1>13, <2>0 DEF SendFiles
    <3>. QED
      BY <3>1, <3>2, <3>3, <3>4, <2>0, <1>image, ImageType
  <2>2. state' \in [Host -> SUBSET Rank]
    BY <1>13, <2>0, <1>state DEF SendFiles
  <2>3. job' \in [Job -> Jobs]
    <3>1. CASE Advance(m, "relaunch")
      BY <3>1, AdvanceType DEF JobPCs
    <3>2. CASE job' = [job EXCEPT ![m].pc = "dump", ![m].final = TRUE]
      BY <3>2, <1>job, DumpsType
    <3>3. CASE Finish(m, "done")
      BY <3>3, FinishType DEF JobPCs
    <3>. QED
      BY <1>13, <3>1, <3>2, <3>3 DEF SendFiles
  <2>4. mutex' \in [Host -> Job \cup {NoJob}]
    BY <1>13 DEF SendFiles, Finish, TypeOK
  <2>5. UNCHANGED <<location, waiting, reg, imageInfo, unfinished, rootfs, proc, work, run, faults>>
    BY <1>13 DEF SendFiles
  <2>. QED
    BY <2>1, <2>2, <2>3, <2>4, <2>5 DEF TypeOK
<1>14. ASSUME NEW m \in Job, SendFails(m) PROVE TypeOK'
  <2>0. /\ job[m] \in Jobs /\ job[m].rank \in Rank /\ job[m].src \in Host
        /\ job[m].pc \in {"info", "files", "relaunch"} => nodeOf[job[m].dest] \in Host
    BY <1>14, <1>job DEF SendFails, JobOK, Started
  <2>1. job' \in [Job -> Jobs] /\ mutex' \in [Host -> Job \cup {NoJob}]
    BY <1>14, FinishType DEF SendFails, JobPCs
  <2>2. image' \in [Host -> [Rank -> [Gen -> Contents]]]
    <3>. DEFINE d == nodeOf[job[m].dest]
                r == job[m].rank
                g == job[m].gen
    <3>1. g \in Gen => image[job[m].src][r][g] \in Contents
      BY <2>0, <1>image
    <3>2. Partial \in Contents
      BY DEF Contents
    <3>3. image' = image \/ image' = [image EXCEPT ![nodeOf[job[m].dest]][r][g] = Partial]
      BY <1>14 DEF SendFails
    <3>4. nodeOf[job[m].dest] \in Host
      BY <1>14, <2>0 DEF SendFails
    <3>. QED
      BY <3>1, <3>2, <3>3, <3>4, <2>0, <1>image, ImageType
  <2>3. state' \in [Host -> SUBSET Rank]
    BY <1>14, <2>0, <1>state DEF SendFails
  <2>4. unfinished' \in [Host -> BOOLEAN]
    BY <1>14 DEF SendFails, Finish, Fault, TypeOK
  <2>5. faults' \in Nat
    BY <1>14 DEF SendFails, Finish, Fault, TypeOK
  <2>6. UNCHANGED <<location, waiting, reg, imageInfo, rootfs, proc, work, run>>
    BY <1>14 DEF SendFails
  <2>. QED
    BY <2>1, <2>2, <2>3, <2>4, <2>5, <2>6 DEF TypeOK
<1>15. ASSUME NEW m \in Job, Delete(m) PROVE TypeOK'
  <2>1. job' \in [Job -> Jobs] /\ mutex' \in [Host -> Job \cup {NoJob}]
    BY <1>15, FinishType DEF Delete, JobPCs
  <2>2. reg' \in [Host -> [Rank -> Containers]]
    BY <1>15 DEF Delete, Finish, TypeOK, Containers
  <2>3. state' \in [Host -> SUBSET Rank]
    BY <1>15 DEF Delete, Finish, TypeOK
  <2>4. proc' \in [Host -> [Rank -> {"none", "running", "stopped"}]]
    BY <1>15 DEF Delete, Finish, TypeOK
  <2>5. UNCHANGED <<location, waiting, image, imageInfo, unfinished, rootfs, work, run, faults>>
    BY <1>15 DEF Delete
  <2>. QED
    BY <2>1, <2>2, <2>3, <2>4, <2>5 DEF TypeOK
<1>16. ASSUME NEW m \in Job, Load(m) PROVE TypeOK'
  <2>0. /\ job[m] \in Jobs /\ job[m].rank \in Rank /\ job[m].src \in Host
        /\ job[m].pc \in {"info", "files", "relaunch"} => nodeOf[job[m].dest] \in Host
    BY <1>16, <1>job DEF Load, JobOK, Started
  <2>1. reg' \in [Host -> [Rank -> Containers]]
    <3>. DEFINE i == imageInfo[nodeOf[job[m].dest]]
    <3>1. i \in [rank : Rank, gen : Nat]
      BY <1>16, <2>0, <1>imageInfo DEF Load, JobOK, Started, Infos
    <3>2. [next |-> i.gen + 1, gens |-> {i.gen, Parent}] \in Containers
      BY <3>1 DEF Containers, Parent
    <3>3. PICK c \in Containers : reg' = [reg EXCEPT ![nodeOf[job[m].dest]][i.rank] = c]
      BY <1>16, <3>2 DEF Load
    <3>. QED
      BY <3>3, <1>reg
  <2>2. job' \in [Job -> Jobs]
    <3>. DEFINE i == imageInfo[nodeOf[job[m].dest]]
    <3>1. i \in [rank : Rank, gen : Nat]
      BY <1>16, <2>0, <1>imageInfo DEF Load, JobOK, Started, Infos
    <3>2. [[job[m] EXCEPT !.pc = "restore"] EXCEPT !.loaded = i.rank] \in Jobs
      BY <3>1, <2>0 DEF Jobs, JobPCs
    <3>3. job' = [job EXCEPT ![m] = [[job[m] EXCEPT !.pc = "restore"] EXCEPT !.loaded = i.rank]]
      BY <1>16, <1>job DEF Load
    <3>4. PICK j \in Jobs : job' = [job EXCEPT ![m] = j]
      BY <3>2, <3>3
    <3>. QED
      BY <3>4, <1>job
  <2>3. UNCHANGED <<location, waiting, mutex, image, state, imageInfo, unfinished, rootfs, proc, work, run, faults>>
    BY <1>16 DEF Load
  <2>. QED
    BY <2>1, <2>2, <2>3 DEF TypeOK
<1>17. ASSUME NEW m \in Job, LoadFails(m) PROVE TypeOK'
  <2>1. job' \in [Job -> Jobs] /\ mutex' \in [Host -> Job \cup {NoJob}]
    BY <1>17, FinishType DEF LoadFails, JobPCs
  <2>2. UNCHANGED <<location, waiting, reg, image, state, imageInfo, unfinished, rootfs, proc, work, run, faults>>
    BY <1>17 DEF LoadFails
  <2>. QED
    BY <2>1, <2>2 DEF TypeOK
<1>18. ASSUME NEW m \in Job, Restore(m) PROVE TypeOK'
  <2>1. job' \in [Job -> Jobs]
    BY <1>18, AdvanceType DEF Restore, JobPCs
  <2>2. proc' \in [Host -> [Rank -> {"none", "running", "stopped"}]]
    BY <1>18 DEF Restore, Resume, TypeOK
  <2>3. work' \in [Rank -> Nat]
    BY <1>18 DEF Restore, Resume, TypeOK
  <2>4. UNCHANGED <<location, waiting, reg, mutex, image, state, imageInfo, unfinished, rootfs, run, faults>>
    BY <1>18 DEF Restore
  <2>. QED
    BY <2>1, <2>2, <2>3, <2>4 DEF TypeOK
<1>19. ASSUME NEW m \in Job, RestoreFails(m) PROVE TypeOK'
  <2>1. job' \in [Job -> Jobs] /\ mutex' \in [Host -> Job \cup {NoJob}]
    BY <1>19, FinishType DEF RestoreFails, JobPCs
  <2>2. proc' \in [Host -> [Rank -> {"none", "running", "stopped"}]]
    <3>1. proc' = proc \/ Resume(m)
      BY <1>19 DEF RestoreFails
    <3>. QED
      BY <3>1, <1>proc DEF Resume
  <2>3. work' \in [Rank -> Nat]
    BY <1>19 DEF RestoreFails, Resume, Finish, Fault, TypeOK
  <2>4. faults' \in Nat
    BY <1>19 DEF RestoreFails, Resume, Finish, Fault, TypeOK
  <2>5. UNCHANGED <<location, waiting, reg, image, state, imageInfo, unfinished, rootfs, run>>
    BY <1>19 DEF RestoreFails
  <2>. QED
    BY <2>1, <2>2, <2>3, <2>4, <2>5 DEF TypeOK
<1>20. ASSUME NEW h \in Host, NEW r \in Rank, Compute(h, r) PROVE TypeOK'
  <2>1. work' \in [Rank -> Nat]
    BY <1>20 DEF Compute, TypeOK
  <2>2. UNCHANGED <<location, waiting, reg, mutex, image, state, imageInfo, unfinished, rootfs, proc, run, job, faults>>
    BY <1>20 DEF Compute
  <2>. QED
    BY <2>1, <2>2 DEF TypeOK
<1>21. CASE UNCHANGED vars
  BY <1>21 DEF vars, TypeOK
<1>. QED
  BY <1>1, <1>2, <1>3, <1>4, <1>5, <1>6, <1>7, <1>8, <1>9, <1>10, <1>11, <1>12, <1>13, <1>14, <1>15, <1>16, <1>17, <1>18, <1>19, <1>20, <1>21
     DEF Next, Run, Send, Relaunch
\* What Advance and Finish change.
LEMMA AdvanceIs ==
    ASSUME TypeOK, NEW m \in Job, NEW pc, Advance(m, pc)
    PROVE  /\ job'[m].pc = pc
           /\ job'[m].final = job[m].final /\ job'[m].gen = job[m].gen /\ job'[m].loaded = job[m].loaded
<1>1. job \in [Job -> Jobs]
  BY DEF TypeOK
<1>. QED
  BY <1>1 DEF Advance, Jobs

LEMMA FinishIs ==
    ASSUME TypeOK, NEW m \in Job, NEW pc, Finish(m, pc)
    PROVE  /\ job'[m].pc = pc
           /\ job'[m].final = job[m].final /\ job'[m].gen = job[m].gen /\ job'[m].loaded = job[m].loaded
           /\ job[m].src \in Host => mutex'[job[m].src] = NoJob
<1>1. mutex \in [Host -> Job \cup {NoJob}]
  BY DEF TypeOK
<1>. QED
  BY <1>1, AdvanceIs DEF Finish

\* What Send and Relaunch leave alone.
LEMMA JobMoves ==
    ASSUME TypeOK, NEW m \in Job, Send(m) \/ Relaunch(m)
    PROVE  /\ job[m].pc \notin Ended \cup {"new"}
           /\ job'[m].pc # "new"
           /\ job'[m].rank = job[m].rank /\ job'[m].src = job[m].src /\ job'[m].dest = job[m].dest
           /\ job'[m].type = job[m].type
           /\ \A k \in Job \ {m} : job'[k] = job[k]
           /\ \A h \in Host : h # job[m].src => mutex'[h] = mutex[h]
           /\ UNCHANGED <<location, waiting, run>>
<1>1. job \in [Job -> Jobs] /\ mutex \in [Host -> Job \cup {NoJob}] /\ job[m] \in Jobs
  BY DEF TypeOK
<1>2. CASE Connect(m) \/ SendImageInfo(m) \/ Restore(m)
  BY <1>1, <1>2 DEF Connect, SendImageInfo, Restore, Advance, Ended, Jobs
<1>3. CASE DumpFails(m) \/ SendFails(m) \/ Delete(m) \/ LoadFails(m) \/ RestoreFails(m)
  BY <1>1, <1>3 DEF DumpFails, SendFails, Delete, LoadFails, RestoreFails, Finish, Advance, Ended, Jobs
<1>4. CASE Lock(m)
  BY <1>1, <1>4 DEF Lock, Advance, Ended, Jobs
<1>5. CASE Dump(m)
  BY <1>1, <1>5 DEF Dump, Ended, Jobs
<1>6. CASE SendFiles(m)
  BY <1>1, <1>6 DEF SendFiles, Finish, Advance, Ended, Jobs
<1>7. CASE Load(m)
  BY <1>1, <1>7 DEF Load, Ended, Jobs
<1>. QED
  BY <1>2, <1>3, <1>4, <1>5, <1>6, <1>7 DEF Send, Relaunch

\* Every other action of Next, with what it leaves alone.
LEMMA Others ==
    ASSUME [Next]_vars
    PROVE  \/ \E r \in Rank :
                 /\ (\E h \in Host : Create(r, h)) \/ Launch(r) \/ RegisterContainer(r) \/ LaunchFails(r)
                 /\ UNCHANGED <<waiting, imageInfo, job, mutex>>
           \/ \E m \in Job, r \in Rank, d \in Name, t \in Types : Migrate(m, r, d, t)
           \/ \E m \in Job : Send(m) \/ Relaunch(m)
           \/ \E m \in Job : (Return(m) \/ LoseDonor(m)) /\ UNCHANGED <<imageInfo, job, run, mutex, reg>>
           \/ UNCHANGED <<location, waiting, imageInfo, job, run, mutex, reg>>
<1>1. ASSUME NEW r \in Rank,
             (\E h \in Host : Create(r, h)) \/ Launch(r) \/ RegisterContainer(r) \/ LaunchFails(r)
      PROVE  UNCHANGED <<waiting, imageInfo, job, mutex>>
  BY <1>1 DEF Create, Launch, RegisterContainer, LaunchFails, nodeVars
<1>2. ASSUME NEW m \in Job, Return(m) \/ LoseDonor(m) PROVE UNCHANGED <<imageInfo, job, run, mutex, reg>>
  BY <1>2 DEF Return, LoseDonor, nodeVars
<1>3. ASSUME NEW h \in Host, NEW r \in Rank, Compute(h, r)
      PROVE  UNCHANGED <<location, waiting, imageInfo, job, run, mutex, reg>>
  BY <1>3 DEF Compute, nodeVars
<1>4. UNCHANGED vars => UNCHANGED <<location, waiting, imageInfo, job, run, mutex, reg>>
  BY DEF vars, nodeVars
<1>. QED
  BY <1>1, <1>2, <1>3, <1>4 DEF Next, Run

LEMMA JobStep ==
    ASSUME TypeOK, JobOK, PlaceOK, [Next]_vars
    PROVE  JobOK'
<1>. USE DEF Started
<1>1. CASE UNCHANGED <<imageInfo, job>>
  BY <1>1 DEF JobOK
<1>2. ASSUME NEW m \in Job, NEW r \in Rank, NEW d \in Name, NEW t \in Types, Migrate(m, r, d, t)
      PROVE  JobOK'
  <2>1. nodeOf[location[r]] \in Host
    BY <1>2 DEF Migrate, PlaceOK
  <2>2. job \in [Job -> Jobs]
    BY DEF TypeOK
  <2>3. /\ job'[m].rank = r /\ job'[m].src = nodeOf[location[r]] /\ job'[m].dest = d /\ job'[m].type = t
        /\ job'[m].pc = "called"
        /\ \A k \in Job \ {m} : job'[k] = job[k]
    BY <1>2, <2>2 DEF Migrate, NewJob
  <2>4. UNCHANGED imageInfo
    BY <1>2 DEF Migrate, nodeVars
  <2>. QED
    BY <2>1, <2>3, <2>4 DEF JobOK
<1>3. ASSUME NEW m \in Job, Send(m) \/ Relaunch(m) PROVE JobOK'
  <2>1. job \in [Job -> Jobs] /\ imageInfo \in [Host -> Infos]
    BY DEF TypeOK
  <2>2. \A h \in Host : imageInfo[h] # NoImage => imageInfo'[h] # NoImage
    <3>1. CASE SendImageInfo(m)
      <4>1. job[m].rank \in Rank /\ job[m].gen \in Nat
        BY <2>1, <3>1 DEF SendImageInfo, JobOK, Jobs
      <4>2. [rank |-> job[m].rank, gen |-> job[m].gen] # NoImage
        BY <4>1, ContentAssumption
      <4>. QED
        BY <2>1, <3>1, <4>2 DEF SendImageInfo
    <3>2. CASE UNCHANGED imageInfo
      BY <3>2
    <3>. QED
      BY <1>3, <3>1, <3>2
         DEF Send, Relaunch, Lock, Dump, DumpFails, Connect, SendFiles, SendFails, Delete, Load, LoadFails,
             Restore, RestoreFails, nodeVars
  <2>3. /\ job[m].rank \in Rank /\ job[m].src \in Host /\ job[m].dest \in Name /\ job[m].type \in Types
        /\ job[m].pc \in {"info", "files", "relaunch", "restore", "delete"} => nodeOf[job[m].dest] \in Host
    BY <1>3, JobMoves DEF JobOK
  <2>4. /\ job'[m].pc \in {"info", "files", "relaunch", "restore", "delete"} => nodeOf[job[m].dest] \in Host
        /\ job'[m].pc \in {"files", "relaunch"} => imageInfo'[nodeOf[job[m].dest]] # NoImage
        /\ job'[m].pc = "restore" => job'[m].loaded \in Rank
    <3>1. CASE Connect(m)
      <4>1. job'[m].pc = "info"
        BY <3>1, AdvanceIs DEF Connect
      <4>2. nodeOf[job[m].dest] \in Host
        BY <2>3, <3>1, NameAssumption DEF Connect
      <4>. QED
        BY <4>1, <4>2
    <3>2. CASE SendImageInfo(m)
      <4>1. job'[m].pc = "files" /\ job[m].pc = "info"
        BY <2>1, <3>2 DEF SendImageInfo, Advance
      <4>2. job[m].rank \in Rank /\ job[m].gen \in Nat
        BY <2>1, <2>3 DEF Jobs
      <4>3. [rank |-> job[m].rank, gen |-> job[m].gen] # NoImage
        BY <4>2, ContentAssumption
      <4>4. imageInfo'[nodeOf[job[m].dest]] = [rank |-> job[m].rank, gen |-> job[m].gen]
        BY <2>1, <2>3, <3>2, <4>1 DEF SendImageInfo
      <4>. QED
        BY <2>3, <4>1, <4>3, <4>4
    <3>3. CASE Restore(m)
      BY <2>1, <2>3, <3>3 DEF Restore, Advance
    <3>4. CASE DumpFails(m) \/ SendFails(m) \/ Delete(m) \/ LoadFails(m) \/ RestoreFails(m)
      <4>1. Finish(m, "failed") \/ Finish(m, "done")
        BY <3>4 DEF DumpFails, SendFails, Delete, LoadFails, RestoreFails
      <4>2. job'[m].pc \in Ended
        BY <4>1, FinishIs DEF Ended
      <4>. QED
        BY <4>2 DEF Ended
    <3>5. CASE Lock(m)
      BY <2>1, <3>5, AdvanceIs DEF Lock, Jobs
    <3>6. CASE Dump(m)
      BY <2>1, <3>6 DEF Dump
    <3>7. CASE SendFiles(m)
      <4>1. imageInfo'[nodeOf[job[m].dest]] # NoImage
        BY <2>2, <2>3, <3>7 DEF SendFiles, JobOK
      <4>2. job'[m].pc \in {"relaunch", "dump", "done"}
        BY <2>1, <3>7, AdvanceIs, FinishIs DEF SendFiles, Jobs
      <4>. QED
        BY <2>3, <3>7, <4>1, <4>2 DEF SendFiles
    <3>8. CASE Load(m)
      <4>1. imageInfo[nodeOf[job[m].dest]] \in [rank : Rank, gen : Nat]
        BY <2>1, <2>3, <3>8 DEF Load, JobOK, Infos
      <4>. QED
        BY <2>1, <2>3, <3>8, <4>1 DEF Load
    <3>. QED
      BY <1>3, <3>1, <3>2, <3>3, <3>4, <3>5, <3>6, <3>7, <3>8 DEF Send, Relaunch
  <2>5. ASSUME NEW k \in Job, k # m
        PROVE  /\ job'[k] = job[k]
               /\ job[k].pc \in {"files", "relaunch"} => nodeOf[job[k].dest] \in Host
    BY <1>3, <2>5, JobMoves DEF JobOK
  <2>. QED
    BY <1>3, <2>2, <2>3, <2>4, <2>5, JobMoves DEF JobOK
<1>. QED
  BY <1>1, <1>2, <1>3, Others

LEMMA PlaceStep ==
    ASSUME TypeOK, JobOK, PlaceOK, [Next]_vars
    PROVE  PlaceOK'
<1>1. CASE UNCHANGED <<location, waiting, job, run>>
  BY <1>1 DEF PlaceOK
<1>2. ASSUME NEW m \in Job, NEW r \in Rank, NEW d \in Name, NEW t \in Types, Migrate(m, r, d, t)
      PROVE  PlaceOK'
  <2>1. job'[m].pc = "called" /\ waiting' = m /\ UNCHANGED <<location, run>>
    BY <1>2 DEF Migrate, NewJob, TypeOK
  <2>. QED
    BY <2>1 DEF PlaceOK
<1>3. ASSUME NEW m \in Job, Send(m) \/ Relaunch(m) PROVE PlaceOK'
  <2>1. job \in [Job -> Jobs]
    BY DEF TypeOK
  <2>2. ASSUME job'[m].pc = "done" PROVE nodeOf[job[m].dest] \in Host
    <3>1. CASE SendFiles(m) \/ Delete(m)
      BY <3>1 DEF SendFiles, Delete, JobOK, Started
    <3>2. CASE Lock(m) \/ Dump(m) \/ DumpFails(m) \/ Connect(m) \/ SendImageInfo(m) \/ SendFails(m)
      <4>1. CASE Lock(m)
        BY <2>1, <2>2, <4>1, AdvanceIs DEF Lock, Jobs
      <4>2. CASE Dump(m)
        BY <2>1, <2>2, <4>2 DEF Dump, Jobs
      <4>3. CASE Connect(m) \/ SendImageInfo(m)
        BY <2>2, <4>3, AdvanceIs DEF Connect, SendImageInfo
      <4>4. CASE DumpFails(m) \/ SendFails(m)
        <5>1. Finish(m, "failed")
          BY <4>4 DEF DumpFails, SendFails
        <5>. QED
          BY <2>2, <5>1, FinishIs
      <4>. QED
        BY <3>2, <4>1, <4>2, <4>3, <4>4
    <3>3. CASE Load(m) \/ LoadFails(m) \/ Restore(m) \/ RestoreFails(m)
      BY <2>1, <2>2, <3>3, AdvanceIs, FinishIs DEF Load, LoadFails, Restore, RestoreFails, Jobs
    <3>. QED
      BY <1>3, <3>1, <3>2, <3>3 DEF Send, Relaunch
  <2>. QED
    BY <1>3, <2>2, JobMoves DEF PlaceOK
<1>4. ASSUME NEW m \in Job, Return(m) \/ LoseDonor(m), UNCHANGED <<job, run>> PROVE PlaceOK'
  <2>1. waiting' = NoJob /\ NoJob \notin Job
    BY <1>4 DEF Return, LoseDonor, NoJob, Job
  <2>2. location \in [Rank -> Name \cup {NoName}]
    BY DEF TypeOK
  <2>3. location' = location
        \/ (location' = [location EXCEPT ![job[m].rank] = job[m].dest] /\ nodeOf[job[m].dest] \in Host)
    BY <1>4 DEF Return, LoseDonor, Set, PlaceOK
  <2>. QED
    BY <1>4, <2>1, <2>2, <2>3 DEF PlaceOK
<1>5. ASSUME NEW r \in Rank, NEW h \in Host, Create(r, h) PROVE PlaceOK'
  <2>1. run \in [Rank -> Runs] /\ UNCHANGED <<location, waiting, job>>
    BY <1>5 DEF TypeOK, Create
  <2>2. /\ run'[r].pc = "failed" \/ run'[r].at = h
        /\ \A q \in Rank \ {r} : run'[q] = run[q]
    BY <1>5, <2>1 DEF Create, Runs
  <2>. QED
    BY <2>1, <2>2 DEF PlaceOK
<1>6. ASSUME NEW r \in Rank, Launch(r) \/ LaunchFails(r) PROVE PlaceOK'
  <2>1. run \in [Rank -> Runs] /\ UNCHANGED <<location, waiting, job>>
    BY <1>6 DEF TypeOK, Launch, LaunchFails
  <2>2. run[r].pc = "created" /\ run'[r].at = run[r].at /\ \A q \in Rank \ {r} : run'[q] = run[q]
    BY <1>6, <2>1 DEF Launch, LaunchFails, Runs
  <2>. QED
    BY <2>1, <2>2 DEF PlaceOK
<1>7. ASSUME NEW r \in Rank, RegisterContainer(r) PROVE PlaceOK'
  BY <1>7, NameAssumption DEF RegisterContainer, Set, PlaceOK, TypeOK, Runs
<1>. QED
  BY <1>1, <1>2, <1>3, <1>4, <1>5, <1>6, <1>7, Others

\* Only DeleteUnlocked takes a container out of a register.
LEMMA RegKept ==
    ASSUME TypeOK, JobOK, MutexInv, NEW m \in Job, Send(m) \/ Relaunch(m),
           NEW h \in Host, NEW r \in Rank, reg[h][r] # NoCont
    PROVE  reg'[h][r] # NoCont \/ (Delete(m) /\ h = job[m].src /\ r = job[m].rank)
<1>1. reg \in [Host -> [Rank -> Containers]] /\ imageInfo \in [Host -> Infos]
  BY DEF TypeOK
<1>2. job[m].src \in Host /\ job[m].rank \in Rank
  BY JobMoves DEF JobOK, Started, Ended
<1>3. CASE Dump(m) \/ DumpFails(m)
  <2>1. reg[job[m].src][job[m].rank] # NoCont
    BY <1>3 DEF Dump, DumpFails, MutexInv, SendHoldsContainer, Sending
  <2>2. PICK c : /\ c # NoCont
                 /\ reg' = reg \/ reg' = [reg EXCEPT ![job[m].src][job[m].rank] = c]
    <3>1. WithCheckpoint(reg[job[m].src][job[m].rank]) # NoCont
      BY <1>1, <1>2, <2>1, WithCheckpointType
    <3>2. CASE Dump(m)
      BY <3>1, <3>2 DEF Dump
    <3>3. CASE DumpFails(m)
      BY <3>1, <3>3 DEF DumpFails
    <3>. QED
      BY <1>3, <3>2, <3>3
  <2>. QED
    BY <1>1, <1>2, <2>2
<1>4. CASE Delete(m)
  BY <1>1, <1>2, <1>4 DEF Delete
<1>5. CASE Load(m)
  BY <1>1, <1>5 DEF Load, Loadable
<1>6. CASE UNCHANGED reg
  BY <1>6
<1>. QED
  BY <1>3, <1>4, <1>5, <1>6
     DEF Send, Relaunch, Lock, Connect, SendImageInfo, SendFiles, SendFails, LoadFails, Restore, RestoreFails,
         nodeVars

LEMMA MutexStep ==
    ASSUME TypeOK, JobOK, PlaceOK, MutexInv, [Next]_vars
    PROVE  MutexInv'
<1>. USE DEF Sending
<1>1. CASE UNCHANGED <<job, mutex, reg>>
  BY <1>1 DEF MutexInv, SendHoldsContainer
<1>2. ASSUME NEW m \in Job, NEW r \in Rank, NEW d \in Name, NEW t \in Types, Migrate(m, r, d, t)
      PROVE  MutexInv'
  <2>1. /\ job'[m].pc = "called" /\ UNCHANGED <<mutex, reg>>
        /\ \A k \in Job \ {m} : job'[k] = job[k]
    BY <1>2 DEF Migrate, NewJob, TypeOK, nodeVars
  <2>. QED
    BY <2>1 DEF MutexInv, SendHoldsContainer
<1>3. ASSUME NEW m \in Job, Send(m) \/ Relaunch(m) PROVE MutexInv'
  <2>1. job \in [Job -> Jobs] /\ mutex \in [Host -> Job \cup {NoJob}] /\ job[m].src \in Host
    BY <1>3, JobMoves DEF TypeOK, JobOK, Started, Ended
  <2>2. mutex[job[m].src] \in {NoJob, m}
    <3>1. Lock(m) => mutex[job[m].src] = NoJob
      BY DEF Lock
    <3>2. ~ Lock(m) => Sending(m)
      BY <1>3 DEF Send, Relaunch, Dump, DumpFails, Connect, SendImageInfo, SendFiles, SendFails, Delete, Load,
                  LoadFails, Restore, RestoreFails
    <3>. QED
      BY <3>1, <3>2 DEF MutexInv
  <2>3. mutex'[job[m].src] = m \/ job'[m].pc \in Ended
    <3>1. CASE DumpFails(m) \/ SendFails(m) \/ Delete(m) \/ LoadFails(m) \/ RestoreFails(m)
      <4>1. Finish(m, "failed") \/ Finish(m, "done")
        BY <3>1 DEF DumpFails, SendFails, Delete, LoadFails, RestoreFails
      <4>. QED
        BY <4>1, FinishIs DEF Ended
    <3>2. CASE Dump(m) \/ Connect(m) \/ SendImageInfo(m) \/ Load(m) \/ Restore(m)
      BY <3>2 DEF Dump, Connect, SendImageInfo, Load, Restore, MutexInv
    <3>3. CASE Lock(m)
      BY <2>1, <3>3, AdvanceIs DEF Lock, Ended
    <3>4. CASE SendFiles(m)
      BY <3>4, FinishIs DEF SendFiles, MutexInv, Ended
    <3>. QED
      BY <1>3, <3>1, <3>2, <3>3, <3>4 DEF Send, Relaunch
  <2>4. job'[m].pc \in {"dump", "connect", "info", "files", "relaunch", "restore", "delete"} =>
            reg[job[m].src][job[m].rank] # NoCont
    <3>1. CASE Lock(m)
      BY <3>1, AdvanceIs DEF Lock
    <3>2. CASE Sending(m)
      BY <3>2 DEF MutexInv, SendHoldsContainer
    <3>. QED
      BY <1>3, <3>1, <3>2
         DEF Send, Relaunch, Dump, DumpFails, Connect, SendImageInfo, SendFiles, SendFails, Delete, Load,
             LoadFails, Restore, RestoreFails
  <2>5. Delete(m) => job'[m].pc = "done"
    BY FinishIs DEF Delete
  <2>6. ASSUME NEW k \in Job, Sending(k)' PROVE mutex'[job'[k].src] = k
    <3>1. CASE k = m
      BY <1>3, <2>3, <2>6, <3>1, JobMoves DEF Ended
    <3>2. CASE k # m
      <4>1. job'[k] = job[k] /\ mutex[job[k].src] = k
        BY <1>3, <2>6, <3>2, JobMoves DEF MutexInv
      <4>2. job[k].src # job[m].src
        BY <2>2, <3>2, <4>1 DEF NoJob, Job
      <4>3. job[k].src \in Host
        BY <2>6, <4>1 DEF JobOK, Started
      <4>. QED
        BY <1>3, <4>1, <4>2, <4>3, JobMoves
    <3>. QED
      BY <3>1, <3>2
  <2>7. ASSUME NEW k \in Job, Sending(k)' PROVE reg'[job'[k].src][job'[k].rank] # NoCont
    <3>1. CASE k = m
      <4>1. job'[m].pc \in {"dump", "connect", "info", "files", "relaunch", "restore", "delete"}
        BY <2>7, <3>1
      <4>2. reg[job[m].src][job[m].rank] # NoCont /\ ~ Delete(m)
        BY <2>4, <2>5, <4>1
      <4>3. job[m].rank \in Rank
        BY <1>3, JobMoves DEF JobOK, Started, Ended
      <4>4. reg'[job[m].src][job[m].rank] # NoCont
        BY <1>3, <2>1, <4>2, <4>3, RegKept
      <4>. QED
        BY <1>3, <3>1, <4>4, JobMoves
    <3>2. CASE k # m
      <4>1. job'[k] = job[k] /\ mutex[job[k].src] = k /\ reg[job[k].src][job[k].rank] # NoCont
        BY <1>3, <2>7, <3>2, JobMoves DEF MutexInv, SendHoldsContainer
      <4>2. job[k].src # job[m].src
        BY <2>2, <3>2, <4>1 DEF NoJob, Job
      <4>3. job[k].src \in Host /\ job[k].rank \in Rank
        BY <2>7, <4>1 DEF JobOK, Started
      <4>. QED
        BY <1>3, <4>1, <4>2, <4>3, RegKept
    <3>. QED
      BY <3>1, <3>2
  <2>. QED
    BY <2>6, <2>7 DEF MutexInv, SendHoldsContainer
<1>5. ASSUME NEW r \in Rank, NEW h \in Host, Create(r, h) PROVE MutexInv'
  <2>1. reg \in [Host -> [Rank -> Containers]] /\ UNCHANGED <<job, mutex>>
    BY <1>5 DEF Create, TypeOK
  <2>2. [next |-> 0, gens |-> {}] # NoCont
    BY ContentAssumption
  <2>3. \A g \in Host, q \in Rank : reg[g][q] # NoCont => reg'[g][q] # NoCont
    BY <1>5, <2>1, <2>2 DEF Create
  <2>. QED
    BY <2>1, <2>3 DEF MutexInv, SendHoldsContainer, JobOK, Started
<1>6. ASSUME NEW r \in Rank, Launch(r) \/ LaunchFails(r) \/ RegisterContainer(r) PROVE MutexInv'
  BY <1>1, <1>6 DEF Launch, LaunchFails, RegisterContainer, nodeVars
<1>. QED
  BY <1>1, <1>2, <1>3, <1>5, <1>6, Others

LEMMA Initially == Init => Inv
<1>. SUFFICES ASSUME Init PROVE Inv
  OBVIOUS
<1>1. NewJob \in Jobs
  BY DEF NewJob, Jobs, JobPCs
<1>2. [pc |-> "new", at |-> NoHost] \in Runs
  BY DEF Runs
<1>3. TypeOK
  BY <1>1, <1>2 DEF Init, TypeOK, Containers, Contents, Infos
<1>4. JobOK /\ PlaceOK /\ MutexInv
  BY DEF Init, JobOK, PlaceOK, MutexInv, SendHoldsContainer, Sending, Started, NewJob, NoJob, Job
<1>. QED
  BY <1>3, <1>4 DEF Inv

LEMMA Invariance == Spec => []Inv
<1>1. Inv /\ [Next]_vars => Inv'
  BY TypeStep, JobStep, PlaceStep, MutexStep DEF Inv
<1>. QED
  BY Initially, <1>1, PTL DEF Spec

\* Every variable keeps its type, whatever operators ask for and whatever fails.
THEOREM TypeCorrect == Spec => []TypeOK
BY Invariance, PTL DEF Inv

\* Whatever happens to the control loop meanwhile, a Send has its container to
\* itself: it stays in the register until the Send deletes it or returns
\* (migrate.go:45-116, container_registry.go:150-153).
THEOREM ContainerHeld == Spec => []SendHoldsContainer
BY Invariance, PTL DEF Inv, MutexInv
-----------------------------------------------------------------------------
\* The jobs start in their order, and the control loop waits for each.
OneJob ==
    /\ \A m \in Job : Active(m) => waiting = m
    /\ waiting # NoJob => Started(waiting)
    /\ \A j, k \in Job : j < k /\ Started(k) => Started(j)

\* A job dumps twice at most, so that generations stay below the bound.
Second(m) == job[m].final /\ job[m].type = "WithPreDump"
GenInv ==
    \A m \in Job :
        /\ job[m].pc \in {"connect", "info", "files", "relaunch", "restore"} => job[m].gen <= 2 * m - 1
        /\ \A h \in Host, r \in Rank : reg[h][r] # NoCont =>
              /\ job[m].pc \in {"new", "called"} => reg[h][r].next <= 2 * m - 2
              /\ job[m].pc = "dump" => reg[h][r].next <= IF Second(m) THEN 2 * m - 1 ELSE 2 * m - 2
              /\ job[m].pc \in {"connect", "info", "files"} /\ ~ job[m].final => reg[h][r].next <= 2 * m - 1

TypeInv ==
    \A m \in Job : Active(m) /\ job[m].pc # "called" =>
        /\ job[m].type = "Migrate" => job[m].final
        /\ job[m].type = "PreDump" => ~ job[m].final
        /\ job[m].pc \in {"relaunch", "restore", "delete"} => job[m].final

\* Only what has been launched is located, migrated and computes.
LaunchInv ==
    \A r \in Rank :
        /\ location[r] # NoName <=> run[r].pc = "done"
        /\ \A m \in Job : job[m].rank = r => run[r].pc = "done"
        /\ run[r].pc \in {"new", "created", "failed"} => At(r) = {} /\ work[r] = 0

\* A rank runs once.
OnceInv == \A r \in Rank : \A g, h \in At(r) : g = h

\* The rank of a migration is frozen from the last dump to the restore, and
\* the image that is on its way has all its work.
Frozen(m) == job[m].final /\ job[m].pc \in {"connect", "info", "files", "relaunch", "restore"}
FrozenInv ==
    \A m \in Job :
        LET r == job[m].rank
            d == nodeOf[job[m].dest]
        IN
        /\ Frozen(m) => At(r) = {} /\ image[job[m].src][r][job[m].gen] = work[r]
        /\ job[m].pc \in {"files", "relaunch"} => imageInfo[d] = [rank |-> r, gen |-> job[m].gen]
        /\ job[m].pc \in {"relaunch", "restore"} => image[d][r][job[m].gen] = work[r]
        /\ job[m].pc \in {"relaunch", "restore", "delete"} => d # job[m].src
        /\ job[m].pc = "restore" =>
              job[m].loaded = r /\ reg[d][r] # NoCont /\ reg[d][r].gens = {job[m].gen, Parent}
        /\ job[m].pc = "delete" => job[m].src \notin At(r)

\* Where the container of a rank is.
Moved(m) == job[m].pc = "done" /\ job[m].type # "PreDump"
ContainerInv ==
    /\ \A r \in Rank :
          run[r].pc \in {"created", "launched"} => reg[run[r].at][r] # NoCont
    /\ \A r \in Rank :
          location[r] # NoName =>
              \/ reg[nodeOf[location[r]]][r] # NoCont
              \/ \E m \in Job : waiting = m /\ job[m].rank = r /\ Moved(m)
    /\ \A m \in Job :
          /\ Active(m) => job[m].src = nodeOf[location[job[m].rank]]
          /\ job[m].pc \in {"restore", "delete"} \/ (waiting = m /\ Moved(m)) =>
                /\ nodeOf[job[m].dest] \in Host
                /\ reg[nodeOf[job[m].dest]][job[m].rank] # NoCont

SerialInv == OneJob /\ GenInv /\ TypeInv /\ LaunchInv /\ OnceInv /\ FrozenInv /\ ContainerInv
-----------------------------------------------------------------------------
\* How a job goes on.
LEMMA JobIs ==
    ASSUME TypeOK, NEW m \in Job, Send(m) \/ Relaunch(m)
    PROVE  /\ Lock(m) => \/ job'[m].pc = "failed"
                         \/ job'[m].pc = "dump" /\ (job'[m].final <=> job[m].type = "Migrate")
           /\ Dump(m) => /\ job'[m].pc = "connect" /\ job'[m].gen = reg[job[m].src][job[m].rank].next
                         /\ job'[m].final = job[m].final
           /\ SendFiles(m) => \/ job[m].final /\ job'[m].pc = "relaunch"
                              \/ /\ job[m].type = "WithPreDump" /\ ~ job[m].final
                                 /\ job'[m].pc = "dump" /\ job'[m].final = TRUE
                              \/ job[m].type = "PreDump" /\ job'[m].pc = "done"
           /\ Load(m) => /\ job'[m].pc = "restore"
                         /\ job'[m].loaded = imageInfo[nodeOf[job[m].dest]].rank
           /\ Connect(m) => job'[m].pc = "info"
           /\ SendImageInfo(m) => job'[m].pc = "files"
           /\ Restore(m) => job'[m].pc = "delete"
           /\ Delete(m) => job'[m].pc = "done"
           /\ DumpFails(m) \/ SendFails(m) \/ LoadFails(m) \/ RestoreFails(m) => job'[m].pc = "failed"
           /\ ~ Dump(m) => job'[m].gen = job[m].gen
           /\ ~ Lock(m) /\ ~ SendFiles(m) => job'[m].final = job[m].final
           /\ SendFiles(m) /\ job[m].final => job'[m].final = job[m].final
<1>1. job \in [Job -> Jobs] /\ job[m] \in Jobs
  BY DEF TypeOK
<1>2. ASSUME Lock(m)
      PROVE  /\ \/ job'[m].pc = "failed"
                \/ job'[m].pc = "dump" /\ (job'[m].final <=> job[m].type = "Migrate")
             /\ job'[m].gen = job[m].gen
  BY <1>1, <1>2, AdvanceIs DEF Lock, Jobs
<1>3. ASSUME Dump(m)
      PROVE  /\ job'[m].pc = "connect" /\ job'[m].gen = reg[job[m].src][job[m].rank].next
             /\ job'[m].final = job[m].final
  BY <1>1, <1>3 DEF Dump, Jobs
<1>4. ASSUME SendFiles(m)
      PROVE  /\ \/ job[m].final /\ job'[m].pc = "relaunch" /\ job'[m].final = job[m].final
                \/ job[m].type = "WithPreDump" /\ ~ job[m].final /\ job'[m].pc = "dump" /\ job'[m].final = TRUE
                \/ job[m].type = "PreDump" /\ job'[m].pc = "done" /\ job'[m].final = job[m].final
             /\ job'[m].gen = job[m].gen
  <2>1. CASE job[m].final /\ Advance(m, "relaunch")
    BY <2>1, AdvanceIs
  <2>2. CASE /\ job[m].type = "WithPreDump" /\ ~ job[m].final
             /\ job' = [job EXCEPT ![m].pc = "dump", ![m].final = TRUE]
    BY <1>1, <2>2 DEF Jobs
  <2>3. CASE job[m].type = "PreDump" /\ Finish(m, "done")
    BY <2>3, FinishIs
  <2>. QED
    BY <1>4, <2>1, <2>2, <2>3 DEF SendFiles
<1>5. ASSUME Load(m)
      PROVE  /\ job'[m].pc = "restore" /\ job'[m].loaded = imageInfo[nodeOf[job[m].dest]].rank
             /\ job'[m].gen = job[m].gen /\ job'[m].final = job[m].final
  BY <1>1, <1>5 DEF Load, Jobs
<1>6. /\ Connect(m) => Advance(m, "info")
      /\ SendImageInfo(m) => Advance(m, "files")
      /\ Restore(m) => Advance(m, "delete")
  BY DEF Connect, SendImageInfo, Restore
<1>7. /\ DumpFails(m) \/ SendFails(m) \/ LoadFails(m) \/ RestoreFails(m) => Finish(m, "failed")
      /\ Delete(m) => Finish(m, "done")
  BY DEF DumpFails, SendFails, LoadFails, RestoreFails, Delete
<1>8. SendFiles(m) /\ job[m].final => job'[m].final = job[m].final
  BY <1>4
<1>9. ~ Dump(m) => job'[m].gen = job[m].gen
  BY <1>2, <1>4, <1>5, <1>6, <1>7, AdvanceIs, FinishIs DEF Send, Relaunch
<1>10. ~ Lock(m) /\ ~ SendFiles(m) => job'[m].final = job[m].final
  BY <1>3, <1>5, <1>6, <1>7, AdvanceIs, FinishIs DEF Send, Relaunch
<1>. QED
  BY <1>2, <1>3, <1>4, <1>5, <1>6, <1>7, <1>8, <1>9, <1>10, AdvanceIs, FinishIs

\* What Migrate makes of the jobs.
LEMMA MigrateIs ==
    ASSUME TypeOK, NEW m \in Job, NEW r \in Rank, NEW d \in Name, NEW t \in Types, Migrate(m, r, d, t)
    PROVE  /\ waiting = NoJob /\ waiting' = m /\ location[r] # NoName
           /\ \A k \in Job : job[k].pc = "new" <=> m <= k
           /\ job'[m].pc = "called" /\ job'[m].rank = r /\ job'[m].src = nodeOf[location[r]]
           /\ \A k \in Job \ {m} : job'[k] = job[k]
           /\ UNCHANGED <<location, run, proc, work, reg, image, imageInfo>>
BY DEF TypeOK, Migrate, NewJob, nodeVars, procVars

LEMMA OneStep ==
    ASSUME TypeOK, OneJob, [Next]_vars, \A m \in Job : ~ LoseDonor(m)
    PROVE  OneJob'
<1>. USE DEF Started, Active, Job
<1>1. CASE UNCHANGED <<waiting, job>>
  BY <1>1 DEF OneJob
<1>2. ASSUME NEW m \in Job, NEW r \in Rank, NEW d \in Name, NEW t \in Types, Migrate(m, r, d, t)
      PROVE  OneJob'
  BY <1>2, MigrateIs DEF OneJob, Ended, NoJob
<1>3. ASSUME NEW m \in Job, Send(m) \/ Relaunch(m) PROVE OneJob'
  BY <1>3, JobMoves DEF OneJob
<1>4. ASSUME NEW m \in Job, Return(m), UNCHANGED job PROVE OneJob'
  BY <1>4 DEF OneJob, Return, Ended, NoJob
<1>. QED
  BY <1>1, <1>2, <1>3, <1>4, Others

LEMMA FinalStep ==
    ASSUME TypeOK, JobOK, OneJob, TypeInv, [Next]_vars
    PROVE  TypeInv'
<1>. USE DEF Active, Ended
<1>1. CASE UNCHANGED job
  BY <1>1 DEF TypeInv
<1>2. ASSUME NEW m \in Job, NEW r \in Rank, NEW d \in Name, NEW t \in Types, Migrate(m, r, d, t)
      PROVE  TypeInv'
  BY <1>2, MigrateIs DEF TypeInv
<1>3. ASSUME NEW m \in Job, Send(m) \/ Relaunch(m) PROVE TypeInv'
  <2>1. job[m].pc \in JobPCs /\ job[m].final \in BOOLEAN /\ job[m].type \in Types
    BY <1>3, JobMoves DEF TypeOK, Jobs, JobOK, Started
  <2>2. Started(m)' /\ job'[m].type = job[m].type /\ \A k \in Job \ {m} : job'[k] = job[k]
    BY <1>3, JobMoves DEF Started
  <2>3. \/ job'[m].pc \in {"failed", "done"}
        \/ job'[m].pc = "dump" /\ (job'[m].final <=> job[m].type = "Migrate")
        \/ job[m].type = "WithPreDump" /\ job'[m].pc = "dump" /\ job'[m].final = TRUE
        \/ /\ job[m].pc \notin {"new", "called"} /\ job'[m].final = job[m].final
           /\ \/ job'[m].pc \in {"connect", "info", "files"}
              \/ job[m].final
    <3>1. CASE Lock(m) \/ SendFiles(m)
      BY <3>1, JobIs DEF Send, SendFiles
    <3>2. CASE Dump(m) \/ Connect(m) \/ SendImageInfo(m)
      BY <3>2, JobIs DEF Send, Dump, Connect, SendImageInfo
    <3>3. CASE Load(m) \/ Restore(m)
      BY <3>3, JobIs DEF Relaunch, Load, Restore, TypeInv
    <3>4. CASE Delete(m) \/ DumpFails(m) \/ SendFails(m) \/ LoadFails(m) \/ RestoreFails(m)
      BY <1>3, <3>4, JobIs
    <3>. QED
      BY <1>3, <3>1, <3>2, <3>3, <3>4 DEF Send, Relaunch
  <2>4. ASSUME Active(m)', job'[m].pc # "called"
        PROVE  /\ job[m].type = "Migrate" => job'[m].final
               /\ job[m].type = "PreDump" => ~ job'[m].final
               /\ job'[m].pc \in {"relaunch", "restore", "delete"} => job'[m].final
    <3>1. job[m].pc \notin Ended
      BY <1>3, JobMoves
    <3>. QED
      BY <2>1, <2>3, <2>4, <3>1 DEF TypeInv
  <2>. QED
    BY <2>2, <2>4 DEF TypeInv
<1>. QED
  BY <1>1, <1>2, <1>3, Others
-----------------------------------------------------------------------------
\* Load leaves generation 0 and the one that was sent; the latest is the one
\* that was sent.
LEMMA LatestIs ==
    ASSUME NEW c, NEW g \in Nat, c.gens = {g, Parent}
    PROVE  Latest(c) = g
BY DEF Latest, Parent

\* What is restored is the work of the rank, if it can be restored at all.
LEMMA RestoredIs ==
    ASSUME Inv, FrozenInv, NEW m \in Job, job[m].pc = "restore"
    PROVE  /\ job[m].loaded = job[m].rank
           /\ Restored(m) = IF LacksRootfs(m) THEN Absent ELSE work[job[m].rank]
<1>1. job[m].gen \in Nat
  BY DEF Inv, TypeOK, Jobs
<1>2. /\ job[m].loaded = job[m].rank
      /\ reg[nodeOf[job[m].dest]][job[m].rank] # NoCont
      /\ reg[nodeOf[job[m].dest]][job[m].rank].gens = {job[m].gen, Parent}
      /\ image[nodeOf[job[m].dest]][job[m].rank][job[m].gen] = work[job[m].rank]
  BY DEF FrozenInv
<1>3. Latest(reg[nodeOf[job[m].dest]][job[m].rank]) = job[m].gen
  BY <1>1, <1>2, LatestIs
<1>. QED
  BY <1>2, <1>3 DEF Restored, LacksRootfs

\* What each step does to a rank: it goes on or stops where it runs, it is
\* launched, or it is resumed where it had been frozen.
Stays(r) ==
    /\ At(r)' \subseteq At(r)
    /\ \/ work'[r] = work[r]
       \/ At(r) # {} /\ At(r)' = At(r) /\ work'[r] = work[r] + 1
Begins(r) ==
    /\ run[r].pc = "created" /\ run'[r].pc = "launched"
    /\ At(r)' = At(r) \cup {run[r].at}
    /\ work'[r] = work[r]
Resumes(r) ==
    \E m \in Job :
        /\ job[m].pc = "restore" /\ job[m].rank = r
        /\ At(r)' = {nodeOf[job[m].dest]}
        /\ work'[r] = work[r]

LEMMA AtStep ==
    ASSUME Inv, TypeInv, FrozenInv, [Next]_vars
    PROVE  \A q \in Rank : Stays(q) \/ Begins(q) \/ Resumes(q)
<1>. USE DEF Inv, At
<1>0. proc \in [Host -> [Rank -> {"none", "running", "stopped"}]] /\ work \in [Rank -> Nat]
  BY DEF TypeOK
<1>1. CASE UNCHANGED <<proc, work>>
  BY <1>1 DEF Stays
<1>2. ASSUME NEW r \in Rank, Launch(r) PROVE \A q \in Rank : Stays(q) \/ Begins(q)
  <2>1. run[r].at \in Host /\ run[r].pc = "created" /\ UNCHANGED work
    BY <1>2 DEF Launch, PlaceOK
  <2>2. run'[r].pc = "launched"
    BY <1>2 DEF Launch, TypeOK, Runs
  <2>. QED
    BY <1>0, <1>2, <2>1, <2>2 DEF Launch, Stays, Begins
<1>3. ASSUME NEW m \in Job, Dump(m) \/ Delete(m) PROVE \A q \in Rank : Stays(q)
  <2>1. UNCHANGED work
    BY <1>3 DEF Dump, Delete
  <2>2. proc' = [proc EXCEPT ![job[m].src][job[m].rank] =
                    IF Dump(m) THEN IF job[m].final THEN "stopped" ELSE @ ELSE "none"]
    BY <1>3 DEF Dump, Delete
  <2>3. \A h \in Host, q \in Rank : proc'[h][q] = "running" => proc[h][q] = "running"
    BY <1>0, <2>2
  <2>. QED
    BY <2>1, <2>3 DEF Stays
<1>4. ASSUME NEW m \in Job, job[m].pc = "restore", Resume(m) PROVE \A q \in Rank : Stays(q) \/ Resumes(q)
  <2>1. /\ job[m].loaded = job[m].rank /\ Restored(m) = work[job[m].rank]
        /\ job[m].rank \in Rank /\ nodeOf[job[m].dest] \in Host
    BY <1>4, RestoredIs, ContentAssumption DEF JobOK, Started, Resume
  <2>2. At(job[m].rank) = {}
    BY <1>4 DEF FrozenInv, Frozen, TypeInv, Active, Ended
  <2>3. /\ proc' = [proc EXCEPT ![nodeOf[job[m].dest]][job[m].rank] = "running"]
        /\ work' = [work EXCEPT ![job[m].rank] = work[job[m].rank]]
    BY <1>4, <2>1 DEF Resume
  <2>. QED
    BY <1>0, <1>4, <2>1, <2>2, <2>3 DEF Stays, Resumes
<1>5. ASSUME NEW h \in Host, NEW r \in Rank, Compute(h, r) PROVE \A q \in Rank : Stays(q)
  BY <1>0, <1>5 DEF Compute, Stays
<1>6. ASSUME NEW r \in Rank, (\E h \in Host : Create(r, h)) \/ RegisterContainer(r) \/ LaunchFails(r)
      PROVE  UNCHANGED <<proc, work>>
  BY <1>6 DEF Create, RegisterContainer, LaunchFails, procVars
<1>7. ASSUME NEW m \in Job, Send(m) \/ Relaunch(m)
      PROVE  \/ UNCHANGED <<proc, work>> \/ Dump(m) \/ Delete(m)
             \/ job[m].pc = "restore" /\ Resume(m)
  BY <1>7
     DEF Send, Relaunch, Lock, DumpFails, Connect, SendImageInfo, SendFiles, SendFails, Load, LoadFails,
         Restore, RestoreFails, procVars
<1>8. ASSUME NEW m \in Job,
             \/ Return(m) \/ LoseDonor(m)
             \/ \E r \in Rank, d \in Name, t \in Types : Migrate(m, r, d, t)
      PROVE  UNCHANGED <<proc, work>>
  BY <1>8 DEF Return, LoseDonor, Migrate, procVars
<1>9. UNCHANGED vars => UNCHANGED <<proc, work>>
  BY DEF vars, procVars
<1>. HIDE DEF Inv, At
<1>. QED
  BY <1>1, <1>2, <1>3, <1>4, <1>5, <1>6, <1>7, <1>8, <1>9 DEF Next, Run

LEMMA OnceStep ==
    ASSUME Inv, TypeInv, LaunchInv, FrozenInv, OnceInv, [Next]_vars
    PROVE  OnceInv'
<1>1. \A r \in Rank : run[r].pc = "created" => At(r) = {}
  BY DEF LaunchInv
<1>. QED
  BY <1>1, AtStep DEF OnceInv, Stays, Begins, Resumes

LEMMA LaunchStep ==
    ASSUME Inv, OneJob, TypeInv, LaunchInv, FrozenInv, [Next]_vars
    PROVE  LaunchInv'
<1>0. /\ location \in [Rank -> Name \cup {NoName}] /\ run \in [Rank -> Runs] /\ NoName \notin Name
  BY NameAssumption DEF Inv, TypeOK
<1>1. ASSUME NEW r \in Rank, NEW h \in Host, Create(r, h) PROVE LaunchInv'
  <2>1. /\ run[r].pc = "new" /\ run'[r].pc \in {"created", "failed"} /\ \A q \in Rank \ {r} : run'[q] = run[q]
        /\ UNCHANGED <<location, job, proc, work>>
    BY <1>0, <1>1 DEF Create, Runs, procVars
  <2>. QED
    BY <2>1 DEF LaunchInv, At
<1>2. ASSUME NEW r \in Rank, Launch(r) \/ LaunchFails(r) PROVE LaunchInv'
  <2>1. /\ run[r].pc = "created" /\ run'[r].pc \in {"launched", "failed"} /\ \A q \in Rank \ {r} : run'[q] = run[q]
        /\ UNCHANGED <<location, job>>
    BY <1>0, <1>2 DEF Launch, LaunchFails, Runs
  <2>2. ASSUME NEW q \in Rank, run'[q].pc \in {"new", "created", "failed"} PROVE At(q)' = {} /\ work'[q] = 0
    <3>1. run[q].pc \in {"new", "created", "failed"} /\ run'[q].pc # "launched"
      BY <2>1, <2>2
    <3>. QED
      BY <3>1, AtStep DEF LaunchInv, Stays, Begins, Resumes
  <2>. QED
    BY <2>1, <2>2 DEF LaunchInv
<1>3. ASSUME NEW r \in Rank, RegisterContainer(r) PROVE LaunchInv'
  <2>1. run[r].at \in Host /\ hostname[run[r].at] # NoName
    BY <1>0, <1>3, NameAssumption DEF RegisterContainer, Inv, PlaceOK
  <2>2. /\ run'[r].pc = "done" /\ \A q \in Rank \ {r} : run'[q] = run[q]
        /\ location'[r] # NoName /\ \A q \in Rank \ {r} : location'[q] = location[q]
        /\ UNCHANGED <<job, proc, work>>
    BY <1>0, <1>3, <2>1 DEF RegisterContainer, Set, Runs, procVars
  <2>. QED
    BY <2>2 DEF LaunchInv, At
<1>4. ASSUME NEW m \in Job, NEW r \in Rank, NEW d \in Name, NEW t \in Types, Migrate(m, r, d, t)
      PROVE  LaunchInv'
  <2>1. /\ location[r] # NoName /\ job'[m].rank = r /\ \A k \in Job \ {m} : job'[k] = job[k]
        /\ UNCHANGED <<location, run, proc, work>>
    BY <1>4, MigrateIs DEF Inv, Migrate
  <2>. QED
    BY <2>1 DEF LaunchInv, At
<1>5. ASSUME NEW m \in Job, Send(m) \/ Relaunch(m) PROVE LaunchInv'
  <2>1. UNCHANGED <<location, run>> /\ \A k \in Job : job'[k].rank = job[k].rank
    BY <1>5, JobMoves DEF Inv
  <2>2. ASSUME NEW q \in Rank, run[q].pc \in {"new", "created", "failed"} PROVE At(q)' = {} /\ work'[q] = 0
    BY <2>1, <2>2, AtStep DEF LaunchInv, Stays, Begins, Resumes
  <2>. QED
    BY <2>1, <2>2 DEF LaunchInv
<1>6. ASSUME NEW m \in Job, Return(m) \/ LoseDonor(m) PROVE LaunchInv'
  <2>1. /\ UNCHANGED <<job, run, proc, work>>
        /\ \/ UNCHANGED location
           \/ location' = [location EXCEPT ![job[m].rank] = job[m].dest] /\ job[m].pc \in Ended
    BY <1>6 DEF Return, LoseDonor, Set, procVars
  <2>2. job[m].pc \in Ended => job[m].rank \in Rank /\ job[m].dest \in Name
    BY DEF Inv, JobOK, Started, Ended
  <2>. QED
    BY <1>0, <2>1, <2>2 DEF LaunchInv, At
<1>7. ASSUME UNCHANGED <<location, run, job>> PROVE LaunchInv'
  BY <1>7, AtStep DEF LaunchInv, Stays, Begins, Resumes
<1>. QED
  BY <1>1, <1>2, <1>3, <1>4, <1>5, <1>6, <1>7, Others

\* What a container can become.
LEMMA RegIs ==
    ASSUME Inv, NEW m \in Job, Send(m) \/ Relaunch(m), NEW h \in Host, NEW r \in Rank, reg'[h][r] # NoCont
    PROVE  \/ reg'[h][r] = reg[h][r]
           \/ /\ Dump(m) \/ DumpFails(m)
              /\ h = job[m].src /\ r = job[m].rank
              /\ reg[h][r] # NoCont /\ reg'[h][r] = WithCheckpoint(reg[h][r])
           \/ /\ Load(m)
              /\ h = nodeOf[job[m].dest] /\ r = imageInfo[h].rank
              /\ reg'[h][r] = [next |-> imageInfo[h].gen + 1, gens |-> {imageInfo[h].gen, Parent}]
<1>1. reg \in [Host -> [Rank -> Containers]]
  BY DEF Inv, TypeOK
<1>2. CASE Dump(m) \/ DumpFails(m)
  <2>1. reg[job[m].src][job[m].rank] # NoCont
    BY <1>2 DEF Dump, DumpFails, Inv, MutexInv, SendHoldsContainer, Sending
  <2>2. \/ reg' = reg
        \/ reg' = [reg EXCEPT ![job[m].src][job[m].rank] = WithCheckpoint(reg[job[m].src][job[m].rank])]
    BY <1>2 DEF Dump, DumpFails
  <2>. QED
    BY <1>1, <1>2, <2>1, <2>2
<1>3. CASE Delete(m)
  BY <1>1, <1>3 DEF Delete
<1>4. CASE Load(m)
  BY <1>1, <1>4 DEF Load
<1>5. CASE UNCHANGED reg
  BY <1>5
<1>. QED
  BY <1>2, <1>3, <1>4, <1>5
     DEF Send, Relaunch, Lock, Connect, SendImageInfo, SendFiles, SendFails, LoadFails, Restore, RestoreFails,
         nodeVars

LEMMA GenStep ==
    ASSUME Inv, OneJob, TypeInv, GenInv, FrozenInv, [Next]_vars
    PROVE  GenInv'
<1>0. reg \in [Host -> [Rank -> Containers]] /\ Job \subseteq Nat /\ \A m \in Job : m >= 1
  BY BoundAssumption DEF Inv, TypeOK, Job
<1>1. CASE UNCHANGED <<reg, job>>
  BY <1>1 DEF GenInv, Second
<1>2. ASSUME NEW r \in Rank, NEW h \in Host, Create(r, h) PROVE GenInv'
  <2>1. UNCHANGED job
    BY <1>2 DEF Create
  <2>2. \A g \in Host, q \in Rank : reg'[g][q] # reg[g][q] => reg'[g][q].next = 0
    BY <1>0, <1>2 DEF Create
  <2>. QED
    BY <1>0, <2>1, <2>2 DEF GenInv, Second
<1>3. ASSUME NEW r \in Rank, Launch(r) \/ LaunchFails(r) \/ RegisterContainer(r) PROVE UNCHANGED <<reg, job>>
  BY <1>3 DEF Launch, LaunchFails, RegisterContainer, nodeVars
<1>4. ASSUME NEW m \in Job, NEW r \in Rank, NEW d \in Name, NEW t \in Types, Migrate(m, r, d, t)
      PROVE  GenInv'
  <2>1. job[m].pc = "new"
    BY <1>0, <1>4, MigrateIs DEF Inv
  <2>. QED
    BY <1>4, <2>1, MigrateIs DEF Inv, GenInv, Second
<1>5. ASSUME NEW m \in Job, Send(m) \/ Relaunch(m) PROVE GenInv'
  <2>1. /\ job[m].pc \notin Ended \cup {"new"} /\ job'[m].pc # "new" /\ job'[m].type = job[m].type
        /\ \A k \in Job \ {m} : job'[k] = job[k]
    BY <1>5, JobMoves DEF Inv
  <2>2. job[m].src \in Host /\ job[m].rank \in Rank /\ job[m].gen \in Nat
    BY <2>1 DEF Inv, JobOK, Started, TypeOK, Jobs
  <2>3. job'[m].pc \in {"connect", "info", "files", "relaunch", "restore"} => job'[m].gen <= 2 * m - 1
    <3>1. CASE Dump(m)
      <4>1. job[m].pc = "dump" /\ reg[job[m].src][job[m].rank] # NoCont
        BY <3>1 DEF Dump, Inv, MutexInv, SendHoldsContainer, Sending
      <4>2. reg[job[m].src][job[m].rank].next \in Nat
        BY <1>0, <2>2, <4>1 DEF Containers
      <4>3. reg[job[m].src][job[m].rank].next <= 2 * m - 1
        BY <1>0, <2>2, <4>1, <4>2 DEF GenInv
      <4>. QED
        BY <1>5, <3>1, <4>3, JobIs DEF Inv
    <3>2. CASE SendFiles(m)
      BY <1>5, <3>2, JobIs DEF Inv, GenInv, SendFiles, Dump
    <3>3. CASE Lock(m) \/ DumpFails(m) \/ SendFails(m) \/ LoadFails(m) \/ RestoreFails(m) \/ Restore(m) \/ Delete(m)
      BY <1>5, <3>3, JobIs DEF Inv
    <3>4. CASE Connect(m) \/ SendImageInfo(m) \/ Load(m)
      BY <1>5, <3>4, JobIs DEF Inv, GenInv, Connect, SendImageInfo, Load, Dump
    <3>. QED
      BY <1>5, <3>1, <3>2, <3>3, <3>4 DEF Send, Relaunch
  <2>4. ASSUME NEW h \in Host, NEW r \in Rank, reg'[h][r] # NoCont
        PROVE  /\ job'[m].pc = "dump" =>
                     reg'[h][r].next <= IF Second(m)' THEN 2 * m - 1 ELSE 2 * m - 2
               /\ job'[m].pc \in {"connect", "info", "files"} /\ ~ job'[m].final => reg'[h][r].next <= 2 * m - 1
               /\ job'[m].pc # "called"
    <3>0. reg[h][r] # NoCont => reg[h][r].next \in Nat
      BY <1>0 DEF Containers
    <3>1. CASE Dump(m)
      <4>1. \/ reg'[h][r] = reg[h][r]
            \/ reg[h][r] # NoCont /\ reg'[h][r].next = reg[h][r].next + 1
        <5>1. ~ Load(m)
          BY <3>1 DEF Dump, Load
        <5>2. reg'[h][r] = reg[h][r] \/ (reg[h][r] # NoCont /\ reg'[h][r] = WithCheckpoint(reg[h][r]))
          BY <1>5, <2>4, <5>1, RegIs, ZenonT(60)
        <5>. QED
          BY <5>2 DEF WithCheckpoint
      <4>2. job[m].pc = "dump" /\ job'[m].pc = "connect" /\ job'[m].final = job[m].final
        BY <1>5, <3>1, JobIs DEF Dump, Inv
      <4>. QED
        BY <1>0, <2>4, <3>0, <4>1, <4>2 DEF GenInv, Second
    <3>2. CASE Load(m) \/ DumpFails(m) \/ SendFails(m) \/ LoadFails(m) \/ RestoreFails(m) \/ Restore(m) \/ Delete(m)
      BY <1>5, <3>2, JobIs DEF Inv
    <3>3. CASE Lock(m)
      <4>1. reg'[h][r] = reg[h][r] /\ job[m].pc = "called"
        BY <3>3 DEF Lock, nodeVars
      <4>2. \/ job'[m].pc = "failed"
            \/ job'[m].pc = "dump" /\ (job'[m].final <=> job[m].type = "Migrate")
        BY <1>5, <3>3, JobIs DEF Inv
      <4>. QED
        BY <1>0, <2>1, <2>4, <3>0, <4>1, <4>2 DEF GenInv, Second
    <3>4. CASE SendFiles(m)
      <4>1. reg'[h][r] = reg[h][r] /\ job[m].pc = "files"
        BY <3>4 DEF SendFiles
      <4>. QED
        BY <1>0, <1>5, <2>1, <2>4, <3>0, <3>4, <4>1, JobIs DEF Inv, GenInv, Second
    <3>5. CASE Connect(m) \/ SendImageInfo(m)
      <4>1. reg'[h][r] = reg[h][r] /\ job[m].pc \in {"connect", "info"}
        BY <3>5 DEF Connect, SendImageInfo, nodeVars
      <4>2. job'[m].pc \in {"info", "files"} /\ job'[m].final = job[m].final
        BY <1>5, <3>5, <4>1, JobIs DEF Inv, Lock, SendFiles
      <4>. QED
        BY <2>4, <4>1, <4>2 DEF GenInv
    <3>. QED
      BY <1>5, <3>1, <3>2, <3>3, <3>4, <3>5 DEF Send, Relaunch
  <2>5. ASSUME NEW h \in Host, NEW r \in Rank, reg'[h][r] # NoCont, NEW k \in Job, k # m
        PROVE  /\ job[k].pc = "new" => reg'[h][r].next <= 2 * k - 2
               /\ job[k].pc \notin {"called", "dump", "connect", "info", "files", "relaunch", "restore"}
    <3>1. job[k].pc \notin {"called", "dump", "connect", "info", "files", "relaunch", "restore"}
      BY <2>1, <2>5 DEF OneJob, Active, Ended
    <3>2. job[k].pc = "new" => m < k
      BY <1>0, <2>1, <2>5 DEF OneJob, Started
    <3>3. reg[h][r] # NoCont => reg[h][r].next \in Nat
      BY <1>0 DEF Containers
    <3>4. CASE reg'[h][r] = reg[h][r]
      BY <2>5, <3>1, <3>4 DEF GenInv
    <3>5. CASE /\ Dump(m) \/ DumpFails(m)
               /\ reg[h][r] # NoCont /\ reg'[h][r] = WithCheckpoint(reg[h][r])
      <4>1. job[m].pc = "dump"
        BY <3>5 DEF Dump, DumpFails
      <4>2. reg[h][r].next <= 2 * m - 1
        BY <1>0, <3>3, <3>5, <4>1 DEF GenInv
      <4>3. reg'[h][r].next = reg[h][r].next + 1
        BY <3>5 DEF WithCheckpoint
      <4>. QED
        BY <1>0, <3>1, <3>2, <3>3, <3>5, <4>2, <4>3
    <3>6. CASE /\ Load(m) /\ h = nodeOf[job[m].dest]
               /\ reg'[h][r] = [next |-> imageInfo[h].gen + 1, gens |-> {imageInfo[h].gen, Parent}]
      <4>1. job[m].pc = "relaunch"
        BY <3>6 DEF Load
      <4>2. imageInfo[h].gen = job[m].gen
        <5>1. imageInfo[nodeOf[job[m].dest]] = [rank |-> job[m].rank, gen |-> job[m].gen]
          BY <4>1 DEF FrozenInv
        <5>. QED
          BY <3>6, <5>1
      <4>3. job[m].gen <= 2 * m - 1
        BY <4>1 DEF GenInv
      <4>. QED
        BY <1>0, <2>2, <3>1, <3>2, <3>6, <4>2, <4>3
    <3>. QED
      BY <1>5, <2>5, <3>4, <3>5, <3>6, RegIs
  <2>. QED
    BY <2>1, <2>3, <2>4, <2>5 DEF GenInv, Second
<1>6. ASSUME NEW m \in Job, Return(m) \/ LoseDonor(m) PROVE UNCHANGED <<reg, job>>
  BY <1>6 DEF Return, LoseDonor, nodeVars
<1>. QED
  BY <1>1, <1>2, <1>3, <1>4, <1>5, <1>6, Others

\* What FrozenInv says of one job.
FrozenJob(m) ==
    LET r == job[m].rank
        d == nodeOf[job[m].dest]
    IN
    /\ Frozen(m) => At(r) = {} /\ image[job[m].src][r][job[m].gen] = work[r]
    /\ job[m].pc \in {"files", "relaunch"} => imageInfo[d] = [rank |-> r, gen |-> job[m].gen]
    /\ job[m].pc \in {"relaunch", "restore"} => image[d][r][job[m].gen] = work[r]
    /\ job[m].pc \in {"relaunch", "restore", "delete"} => d # job[m].src
    /\ job[m].pc = "restore" =>
          job[m].loaded = r /\ reg[d][r] # NoCont /\ reg[d][r].gens = {job[m].gen, Parent}
    /\ job[m].pc = "delete" => job[m].src \notin At(r)

\* Nothing else touches the rank of a job.
LEMMA FrozenKept ==
    ASSUME TypeInv, NEW m \in Job, FrozenJob(m), job'[m] = job[m],
           UNCHANGED <<image, imageInfo>>,
           Active(m) => /\ \A h \in Host : reg'[h][job[m].rank] = reg[h][job[m].rank]
                        /\ At(job[m].rank)' = At(job[m].rank)
                        /\ At(job[m].rank) = {} => work'[job[m].rank] = work[job[m].rank],
           job[m].pc = "restore" => nodeOf[job[m].dest] \in Host
    PROVE  FrozenJob(m)'
<1>1. job[m].pc \in {"relaunch", "restore"} => Frozen(m)
  BY DEF TypeInv, Active, Ended, Frozen
<1>2. job[m].pc \in {"connect", "info", "files", "relaunch", "restore", "delete"} => Active(m)
  BY DEF Active, Ended
<1>. QED
  BY <1>1, <1>2 DEF FrozenJob, Frozen

LEMMA FrozenSend ==
    ASSUME Inv, OneJob, GenInv, TypeInv, OnceInv, FrozenInv, NEW m \in Job, Send(m) \/ Relaunch(m)
    PROVE  FrozenJob(m)'
<1>0. /\ job[m].src \in Host /\ job[m].rank \in Rank /\ job[m].dest \in Name /\ job[m].gen \in Nat
      /\ job[m].pc \notin Ended \cup {"new"}
      /\ job[m].pc \in {"info", "files", "relaunch", "restore", "delete"} => nodeOf[job[m].dest] \in Host
      /\ job'[m].rank = job[m].rank /\ job'[m].src = job[m].src /\ job'[m].dest = job[m].dest
  BY JobMoves DEF Inv, JobOK, Started, TypeOK, Jobs
<1>1. /\ proc \in [Host -> [Rank -> {"none", "running", "stopped"}]]
      /\ image \in [Host -> [Rank -> [Gen -> Contents]]]
      /\ imageInfo \in [Host -> Infos] /\ reg \in [Host -> [Rank -> Containers]]
  BY DEF Inv, TypeOK
<1>2. FrozenJob(m)
  BY DEF FrozenInv, FrozenJob
<1>3. CASE Lock(m) \/ DumpFails(m) \/ SendFails(m) \/ LoadFails(m) \/ RestoreFails(m) \/ Delete(m)
  <2>1. job'[m].pc \in {"dump", "failed", "done"}
    BY <1>3, JobIs DEF Inv
  <2>. QED
    BY <2>1 DEF FrozenJob, Frozen
<1>4. CASE Dump(m)
  <2>1. /\ job'[m].pc = "connect" /\ job'[m].gen = reg[job[m].src][job[m].rank].next
        /\ job'[m].final = job[m].final /\ job[m].pc = "dump"
    BY <1>4, JobIs DEF Inv, Dump
  <2>2. ASSUME job[m].final PROVE At(job[m].rank)' = {}
    <3>1. job[m].src \in At(job[m].rank)
      BY <1>0, <1>4 DEF Dump, At
    <3>2. \A h \in Host \ {job[m].src} : proc[h][job[m].rank] # "running"
      BY <1>0, <3>1 DEF OnceInv, At
    <3>3. proc' = [proc EXCEPT ![job[m].src][job[m].rank] = "stopped"]
      BY <1>4, <2>2 DEF Dump
    <3>. QED
      BY <1>0, <1>1, <3>2, <3>3 DEF At
  <2>3. reg[job[m].src][job[m].rank].next \in Gen
    <3>1. reg[job[m].src][job[m].rank] # NoCont
      BY <2>1 DEF Inv, MutexInv, SendHoldsContainer, Sending
    <3>2. reg[job[m].src][job[m].rank].next \in Nat
      BY <1>0, <1>1, <3>1 DEF Containers
    <3>3. reg[job[m].src][job[m].rank].next <= 2 * m - 1
      BY <1>0, <2>1, <3>1, <3>2, BoundAssumption DEF GenInv, Job
    <3>. QED
      BY <3>2, <3>3, BoundAssumption DEF Gen, Job
  <2>4. image'[job[m].src][job[m].rank][reg[job[m].src][job[m].rank].next] = work[job[m].rank] /\ UNCHANGED work
    <3>1. PICK g \in Gen : g = reg[job[m].src][job[m].rank].next
      BY <2>3
    <3>2. image' = [image EXCEPT ![job[m].src][job[m].rank][g] = work[job[m].rank]] /\ UNCHANGED work
      BY <1>4, <3>1 DEF Dump
    <3>. QED
      BY <1>0, <1>1, <3>1, <3>2, SMTT(30)
  <2>. QED
    BY <1>0, <2>1, <2>2, <2>4 DEF FrozenJob, Frozen
<1>5. CASE Connect(m)
  <2>1. /\ job'[m].pc = "info" /\ job[m].pc = "connect" /\ job'[m].gen = job[m].gen
        /\ job'[m].final = job[m].final /\ UNCHANGED <<proc, work, image>>
    BY <1>5, JobIs DEF Inv, Connect, Dump, Lock, SendFiles, nodeVars, procVars
  <2>. QED
    BY <1>0, <1>2, <2>1 DEF FrozenJob, Frozen, At
<1>6. CASE SendImageInfo(m)
  <2>1. /\ job'[m].pc = "files" /\ job[m].pc = "info" /\ job'[m].gen = job[m].gen
        /\ job'[m].final = job[m].final /\ UNCHANGED <<proc, work, image>>
    BY <1>6, JobIs DEF Inv, SendImageInfo, Dump, Lock, SendFiles, nodeVars, procVars
  <2>2. imageInfo'[nodeOf[job[m].dest]] = [rank |-> job[m].rank, gen |-> job[m].gen]
    BY <1>0, <1>1, <1>6, <2>1 DEF SendImageInfo
  <2>. QED
    BY <1>0, <1>2, <2>1, <2>2 DEF FrozenJob, Frozen, At
<1>7. CASE SendFiles(m)
  <2>1. \/ job'[m].pc \in {"dump", "done"}
        \/ job[m].final /\ job'[m].pc = "relaunch" /\ job'[m].final = job[m].final
    BY <1>7, JobIs DEF Inv
  <2>2. /\ job[m].pc = "files" /\ job'[m].gen = job[m].gen /\ UNCHANGED <<proc, work, imageInfo>>
        /\ nodeOf[job[m].dest] # job[m].src
    BY <1>7, JobIs DEF Inv, SendFiles, Dump, procVars
  <2>3. ASSUME job[m].final
        PROVE  /\ image'[nodeOf[job[m].dest]][job[m].rank][job[m].gen] = work[job[m].rank]
               /\ image'[job[m].src][job[m].rank][job[m].gen] = work[job[m].rank]
    <3>1. image[job[m].src][job[m].rank][job[m].gen] = work[job[m].rank]
      BY <1>2, <2>2, <2>3 DEF FrozenJob, Frozen
    <3>2. job[m].gen \in Gen
      <4>1. job[m].gen <= 2 * m - 1
        BY <2>2 DEF GenInv
      <4>. QED
        BY <1>0, <4>1, BoundAssumption DEF Gen, Job
    <3>3. image' = [image EXCEPT ![nodeOf[job[m].dest]][job[m].rank][job[m].gen] =
                                    image[job[m].src][job[m].rank][job[m].gen]]
      BY <1>7 DEF SendFiles
    <3>. QED
      BY <1>0, <1>1, <2>2, <3>1, <3>2, <3>3, SMTT(30)
  <2>4. CASE job'[m].pc \in {"dump", "done"}
    BY <2>4 DEF FrozenJob, Frozen
  <2>5. CASE job[m].final /\ job'[m].pc = "relaunch" /\ job'[m].final = job[m].final
    BY <1>0, <1>2, <2>2, <2>3, <2>5 DEF FrozenJob, Frozen, At
  <2>. QED
    BY <2>1, <2>4, <2>5
<1>8. CASE Load(m)
  <2>1. /\ job'[m].pc = "restore" /\ job[m].pc = "relaunch" /\ job'[m].gen = job[m].gen
        /\ job'[m].final = job[m].final /\ UNCHANGED <<proc, work, image>>
        /\ job'[m].loaded = imageInfo[nodeOf[job[m].dest]].rank
    BY <1>8, JobIs DEF Inv, Load, Dump, Lock, SendFiles, nodeVars, procVars
  <2>2. imageInfo[nodeOf[job[m].dest]] = [rank |-> job[m].rank, gen |-> job[m].gen]
    BY <1>2, <2>1 DEF FrozenJob
  <2>3. reg'[nodeOf[job[m].dest]][job[m].rank] = [next |-> job[m].gen + 1, gens |-> {job[m].gen, Parent}]
    BY <1>0, <1>1, <1>8, <2>1, <2>2 DEF Load
  <2>4. [next |-> job[m].gen + 1, gens |-> {job[m].gen, Parent}] # NoCont
    BY <1>0, ContentAssumption DEF Parent
  <2>. QED
    BY <1>0, <1>2, <2>1, <2>2, <2>3, <2>4 DEF FrozenJob, Frozen, At
<1>9. CASE Restore(m)
  <2>1. job'[m].pc = "delete" /\ job[m].pc = "restore" /\ Resume(m)
    BY <1>9, JobIs DEF Inv, Restore
  <2>2. job[m].loaded = job[m].rank /\ nodeOf[job[m].dest] # job[m].src
    BY <1>2, <2>1 DEF FrozenJob
  <2>3. At(job[m].rank) = {}
    BY <1>2, <2>1 DEF FrozenJob, Frozen, TypeInv, Active, Ended
  <2>4. job[m].src \notin At(job[m].rank)'
    BY <1>0, <1>1, <2>1, <2>2, <2>3 DEF Resume, At
  <2>. QED
    BY <1>0, <2>1, <2>2, <2>4 DEF FrozenJob, Frozen
<1>. QED
  BY <1>3, <1>4, <1>5, <1>6, <1>7, <1>8, <1>9 DEF Send, Relaunch

LEMMA FrozenStep ==
    ASSUME Inv, OneJob, GenInv, TypeInv, LaunchInv, OnceInv, FrozenInv, [Next]_vars
    PROVE  FrozenInv'
<1>0. FrozenInv <=> \A m \in Job : FrozenJob(m)
  BY DEF FrozenInv, FrozenJob
<1>1. FrozenInv' <=> \A m \in Job : FrozenJob(m)'
  BY DEF FrozenInv, FrozenJob
<1>2. SUFFICES ASSUME NEW k \in Job PROVE FrozenJob(k)'
  BY <1>1
<1>3. /\ FrozenJob(k)
      /\ Active(k) => job[k].rank \in Rank /\ run[job[k].rank].pc = "done"
      /\ job[k].pc = "restore" => nodeOf[job[k].dest] \in Host
  BY <1>0 DEF Inv, JobOK, Started, Active, LaunchInv, Ended
<1>4. /\ proc \in [Host -> [Rank -> {"none", "running", "stopped"}]]
      /\ reg \in [Host -> [Rank -> Containers]] /\ work \in [Rank -> Nat]
  BY DEF Inv, TypeOK
<1>5. CASE job'[k] = job[k] /\ UNCHANGED <<reg, image, imageInfo, proc, work>>
  BY <1>3, <1>5, FrozenKept DEF At
<1>6. ASSUME NEW r \in Rank, NEW h \in Host, Create(r, h) PROVE FrozenJob(k)'
  <2>1. run[r].pc = "new" /\ UNCHANGED <<job, image, imageInfo, proc, work>>
    BY <1>6 DEF Create, procVars
  <2>2. \A q \in Rank \ {r}, g \in Host : reg'[g][q] = reg[g][q]
    BY <1>4, <1>6 DEF Create
  <2>. QED
    BY <1>3, <2>1, <2>2, FrozenKept DEF At
<1>7. ASSUME NEW r \in Rank, Launch(r) PROVE FrozenJob(k)'
  <2>1. run[r].pc = "created" /\ UNCHANGED <<job, image, imageInfo, reg, work>>
    BY <1>7 DEF Launch, nodeVars
  <2>2. \A q \in Rank \ {r}, g \in Host : proc'[g][q] = proc[g][q]
    BY <1>4, <1>7 DEF Launch
  <2>3. Active(k) => At(job[k].rank)' = At(job[k].rank)
    BY <1>3, <2>1, <2>2 DEF At
  <2>. QED
    BY <1>3, <2>1, <2>3, FrozenKept
<1>8. ASSUME NEW h \in Host, NEW r \in Rank, Compute(h, r) PROVE FrozenJob(k)'
  <2>1. h \in At(r) /\ UNCHANGED <<job, image, imageInfo, reg, proc>>
    BY <1>8 DEF Compute, nodeVars, At
  <2>2. \A q \in Rank \ {r} : work'[q] = work[q]
    BY <1>4, <1>8 DEF Compute
  <2>. QED
    BY <1>3, <2>1, <2>2, FrozenKept DEF At
<1>9. ASSUME NEW m \in Job, Send(m) \/ Relaunch(m) PROVE FrozenJob(k)'
  <2>1. CASE k = m
    BY <1>9, <2>1, FrozenSend
  <2>2. CASE k # m
    <3>1. job'[k] = job[k] /\ ~ Active(k)
      BY <1>9, <2>2, JobMoves DEF Inv, OneJob, Active
    <3>. QED
      BY <3>1 DEF FrozenJob, Frozen, Active, Ended
  <2>. QED
    BY <2>1, <2>2
<1>10. ASSUME NEW m \in Job, NEW r \in Rank, NEW d \in Name, NEW t \in Types, Migrate(m, r, d, t)
       PROVE  FrozenJob(k)'
  <2>1. CASE k = m
    BY <1>10, <2>1, MigrateIs DEF Inv, FrozenJob, Frozen
  <2>2. CASE k # m
    BY <1>5, <1>10, <2>2, MigrateIs DEF Inv
  <2>. QED
    BY <2>1, <2>2
<1>11. ASSUME NEW r \in Rank, LaunchFails(r) \/ RegisterContainer(r)
       PROVE  UNCHANGED <<job, reg, image, imageInfo, proc, work>>
  BY <1>11 DEF LaunchFails, RegisterContainer, nodeVars, procVars
<1>12. ASSUME NEW m \in Job, Return(m) \/ LoseDonor(m)
       PROVE  UNCHANGED <<job, reg, image, imageInfo, proc, work>>
  BY <1>12 DEF Return, LoseDonor, nodeVars, procVars
<1>13. UNCHANGED vars => UNCHANGED <<job, reg, image, imageInfo, proc, work>>
  BY DEF vars, nodeVars, procVars
<1>. QED
  BY <1>5, <1>6, <1>7, <1>8, <1>9, <1>10, <1>11, <1>12, <1>13 DEF Next, Run

LEMMA ContainerStep ==
    ASSUME Inv, OneJob, TypeInv, LaunchInv, FrozenInv, FrozenInv', JobOK', ContainerInv,
           [Next]_vars, \A m \in Job : ~ LoseDonor(m)
    PROVE  ContainerInv'
<1>0. /\ reg \in [Host -> [Rank -> Containers]] /\ run \in [Rank -> Runs]
      /\ location \in [Rank -> Name \cup {NoName}] /\ NoName \notin Name /\ NoJob \notin Job
  BY NameAssumption DEF Inv, TypeOK, NoJob, Job
<1>1. \A m \in Job : Active(m) => job[m].rank \in Rank
  BY DEF Inv, JobOK, Started, Active
<1>2. \A m \in Job : job[m].pc \in {"restore", "delete"} => Active(m)
  BY DEF Active, Ended
<1>3. \A m \in Job : Moved(m) => job[m].rank \in Rank /\ job[m].dest \in Name
  BY DEF Moved, Inv, JobOK, Started
<1>4. /\ \A r \in Rank : location[r] # NoName => nodeOf[location[r]] \in Host
      /\ \A r \in Rank : run[r].pc \in {"created", "launched"} => run[r].at \in Host
  BY DEF Inv, PlaceOK
<1>5. CASE UNCHANGED <<location, waiting, reg, run, job>>
  BY <1>5 DEF ContainerInv, Active, Moved
<1>6. ASSUME NEW r \in Rank, NEW h \in Host, Create(r, h) PROVE ContainerInv'
  <2>1. UNCHANGED <<location, waiting, job>> /\ \A q \in Rank \ {r} : run'[q] = run[q]
    BY <1>0, <1>6 DEF Create
  <2>2. [next |-> 0, gens |-> {}] # NoCont
    BY ContentAssumption
  <2>3. \A g \in Host, q \in Rank : reg[g][q] # NoCont => reg'[g][q] # NoCont
    BY <1>0, <1>6, <2>2 DEF Create
  <2>4. run'[r].pc = "failed" \/ (run'[r].at = h /\ reg'[h][r] # NoCont)
    BY <1>0, <1>6, <2>2 DEF Create, Runs
  <2>5. \A q \in Rank : run'[q].pc \in {"created", "launched"} => reg'[run'[q].at][q] # NoCont
    BY <1>4, <2>1, <2>3, <2>4 DEF ContainerInv
  <2>6. \A q \in Rank :
            location'[q] # NoName =>
                \/ reg'[nodeOf[location'[q]]][q] # NoCont
                \/ \E m \in Job : waiting' = m /\ job'[m].rank = q /\ Moved(m)'
    BY <1>4, <2>1, <2>3 DEF ContainerInv, Moved
  <2>. QED
    BY <1>1, <1>2, <1>3, <2>1, <2>3, <2>5, <2>6 DEF ContainerInv, Active, Moved
<1>7. ASSUME NEW r \in Rank, Launch(r) \/ LaunchFails(r) PROVE ContainerInv'
  <2>1. /\ UNCHANGED <<location, waiting, job, reg>> /\ \A q \in Rank \ {r} : run'[q] = run[q]
        /\ run[r].pc = "created" /\ run'[r].at = run[r].at
    BY <1>0, <1>7 DEF Launch, LaunchFails, nodeVars, Runs
  <2>. QED
    BY <2>1 DEF ContainerInv, Active, Moved
<1>8. ASSUME NEW r \in Rank, RegisterContainer(r) PROVE ContainerInv'
  <2>1. /\ waiting = NoJob /\ UNCHANGED <<waiting, job, reg>> /\ run[r].pc = "launched"
        /\ run'[r].pc = "done" /\ \A q \in Rank \ {r} : run'[q] = run[q]
    BY <1>0, <1>8 DEF RegisterContainer, nodeVars, Runs
  <2>2. /\ location'[r] = hostname[run[r].at] /\ nodeOf[hostname[run[r].at]] = run[r].at
        /\ \A q \in Rank \ {r} : location'[q] = location[q]
    BY <1>0, <1>4, <1>8, <2>1, NameAssumption DEF RegisterContainer, Set
  <2>3. reg[run[r].at][r] # NoCont
    BY <2>1 DEF ContainerInv
  <2>4. \A m \in Job : ~ Active(m)
    BY <1>0, <2>1 DEF OneJob
  <2>. QED
    BY <1>0, <1>2, <2>1, <2>2, <2>3, <2>4 DEF ContainerInv, Active, Moved
<1>9. ASSUME NEW m \in Job, NEW r \in Rank, NEW d \in Name, NEW t \in Types, Migrate(m, r, d, t)
      PROVE  ContainerInv'
  <2>1. \A k \in Job : ~ Active(k)
    BY <1>0, <1>9, MigrateIs DEF Inv, OneJob
  <2>2. \A k \in Job \ {m} : job'[k] = job[k] /\ waiting' # k
    BY <1>9, MigrateIs DEF Inv
  <2>3. /\ UNCHANGED <<location, run, reg>> /\ waiting = NoJob /\ job'[m].pc = "called"
        /\ job'[m].rank = r /\ job'[m].src = nodeOf[location[r]]
    BY <1>9, MigrateIs DEF Inv
  <2>4. \A q \in Rank : location[q] # NoName => reg[nodeOf[location[q]]][q] # NoCont
    BY <1>0, <2>3 DEF ContainerInv
  <2>5. ASSUME NEW k \in Job
        PROVE  /\ Active(k)' => job'[k].src = nodeOf[location'[job'[k].rank]]
               /\ ~ (job'[k].pc \in {"restore", "delete"} \/ (waiting' = k /\ Moved(k)'))
    <3>1. CASE k = m
      BY <2>3, <3>1 DEF Moved
    <3>2. CASE k # m
      BY <1>2, <2>1, <2>2, <3>2 DEF Active
    <3>. QED
      BY <3>1, <3>2
  <2>. QED
    BY <2>3, <2>4, <2>5 DEF ContainerInv
<1>10. ASSUME NEW m \in Job, Send(m) \/ Relaunch(m) PROVE ContainerInv'
  <2>1. /\ UNCHANGED <<location, waiting, run>> /\ \A k \in Job \ {m} : job'[k] = job[k]
        /\ job'[m].rank = job[m].rank /\ job'[m].src = job[m].src /\ job'[m].dest = job[m].dest
        /\ job'[m].type = job[m].type
    BY <1>10, JobMoves DEF Inv
  <2>2. Active(m) /\ waiting = m /\ ~ Moved(m)
    BY <1>10, JobMoves DEF Inv, OneJob, Active, Moved, Ended
  <2>3. \A h \in Host, q \in Rank :
            reg[h][q] # NoCont => reg'[h][q] # NoCont \/ (Delete(m) /\ h = job[m].src /\ q = job[m].rank)
    BY <1>10, RegKept DEF Inv
  <2>4. job[m].rank \in Rank /\ run[job[m].rank].pc = "done"
    BY <1>1, <2>2 DEF LaunchInv
  <2>5. Delete(m) => Moved(m)' /\ job[m].pc = "delete"
    <3>1. Delete(m) => job[m].pc = "delete" /\ job'[m].pc = "done"
      BY <1>10, JobIs DEF Delete, Inv
    <3>2. job[m].pc = "delete" => job[m].type # "PreDump"
      BY DEF TypeInv, Active, Ended
    <3>. QED
      BY <2>1, <3>1, <3>2 DEF Moved
  <2>6. \A q \in Rank : run'[q].pc \in {"created", "launched"} => reg'[run'[q].at][q] # NoCont
    BY <1>4, <2>1, <2>3, <2>4 DEF ContainerInv
  <2>7. \A q \in Rank :
            location'[q] # NoName =>
                \/ reg'[nodeOf[location'[q]]][q] # NoCont
                \/ \E k \in Job : waiting' = k /\ job'[k].rank = q /\ Moved(k)'
    <3>. SUFFICES ASSUME NEW q \in Rank, location[q] # NoName
                  PROVE  reg'[nodeOf[location[q]]][q] # NoCont \/ (q = job[m].rank /\ Moved(m)')
      BY <2>1, <2>2
    <3>1. reg[nodeOf[location[q]]][q] # NoCont
      BY <2>2 DEF ContainerInv
    <3>. QED
      BY <1>4, <2>3, <2>5, <3>1
  <2>8. ASSUME job'[m].pc \in {"restore", "delete"} \/ Moved(m)'
        PROVE  nodeOf[job[m].dest] \in Host /\ reg'[nodeOf[job[m].dest]][job[m].rank] # NoCont
    <3>1. CASE job'[m].pc = "restore"
      BY <2>1, <3>1, ZenonT(60) DEF FrozenInv, JobOK, Started
    <3>2. CASE Restore(m)
      <4>1. job[m].pc = "restore" /\ UNCHANGED reg
        BY <3>2 DEF Restore, nodeVars
      <4>. QED
        BY <4>1 DEF ContainerInv
    <3>3. CASE Delete(m)
      <4>1. /\ nodeOf[job[m].dest] \in Host /\ reg[nodeOf[job[m].dest]][job[m].rank] # NoCont
            /\ nodeOf[job[m].dest] # job[m].src
        BY <2>5, <3>3 DEF ContainerInv, FrozenInv
      <4>. QED
        BY <2>3, <2>4, <4>1
    <3>4. job'[m].pc = "restore" \/ Restore(m) \/ Delete(m)
      <4>1. CASE Lock(m) \/ Dump(m) \/ SendFiles(m)
        BY <1>10, <2>1, <2>8, <4>1, JobIs DEF Inv, Moved
      <4>2. CASE Connect(m) \/ SendImageInfo(m) \/ DumpFails(m) \/ SendFails(m) \/ LoadFails(m) \/ RestoreFails(m)
        BY <1>10, <2>8, <4>2, JobIs DEF Inv, Moved
      <4>3. CASE Load(m)
        BY <1>10, <4>3, JobIs DEF Inv
      <4>. QED
        BY <1>10, <4>1, <4>2, <4>3 DEF Send, Relaunch
    <3>. QED
      BY <3>1, <3>2, <3>3, <3>4
  <2>9. ASSUME NEW k \in Job
        PROVE  /\ Active(k)' => job'[k].src = nodeOf[location'[job'[k].rank]]
               /\ job'[k].pc \in {"restore", "delete"} \/ (waiting' = k /\ Moved(k)') =>
                     /\ nodeOf[job'[k].dest] \in Host
                     /\ reg'[nodeOf[job'[k].dest]][job'[k].rank] # NoCont
    <3>1. CASE k = m
      BY <2>1, <2>2, <2>8, <3>1 DEF ContainerInv
    <3>2. CASE k # m
      <4>1. ~ Active(k) /\ job'[k] = job[k] /\ waiting' # k
        BY <2>1, <2>2, <3>2 DEF OneJob
      <4>. QED
        BY <1>2, <4>1 DEF Active
    <3>. QED
      BY <3>1, <3>2
  <2>. QED
    BY <2>6, <2>7, <2>9 DEF ContainerInv
<1>11. ASSUME NEW m \in Job, Return(m) PROVE ContainerInv'
  <2>1. waiting = m /\ waiting' = NoJob /\ UNCHANGED <<reg, run, job>>
    BY <1>11 DEF Return, nodeVars
  <2>2. \A k \in Job : ~ Active(k)
    BY <1>11, <2>1 DEF OneJob, Active, Return
  <2>3. ASSUME NEW q \in Rank, location'[q] # NoName PROVE reg[nodeOf[location'[q]]][q] # NoCont
    <3>1. CASE Moved(m)
      <4>1. location' = [location EXCEPT ![job[m].rank] = job[m].dest]
        BY <1>11, <3>1 DEF Return, Moved, Set
      <4>2. CASE q = job[m].rank
        BY <1>0, <1>3, <2>1, <3>1, <4>1, <4>2 DEF ContainerInv
      <4>3. CASE q # job[m].rank
        <5>1. location'[q] = location[q]
          BY <1>0, <4>1, <4>3
        <5>. QED
          BY <2>1, <2>3, <4>3, <5>1 DEF ContainerInv
      <4>. QED
        BY <4>2, <4>3
    <3>2. CASE ~ Moved(m)
      <4>1. UNCHANGED location
        BY <1>11, <3>2 DEF Return, Moved
      <4>. QED
        BY <2>1, <2>3, <3>2, <4>1 DEF ContainerInv
    <3>. QED
      BY <3>1, <3>2
  <2>. QED
    BY <1>0, <1>2, <2>1, <2>2, <2>3 DEF ContainerInv, Active
<1>. QED
  BY <1>5, <1>6, <1>7, <1>8, <1>9, <1>10, <1>11, Others

LEMMA SerialStep ==
    ASSUME Inv, SerialInv, [Next]_vars, \A m \in Job : ~ LoseDonor(m)
    PROVE  Inv' /\ SerialInv'
<1>1. Inv'
  BY TypeStep, JobStep, PlaceStep, MutexStep DEF Inv
<1>2. OneJob' /\ GenInv' /\ TypeInv' /\ LaunchInv' /\ OnceInv' /\ FrozenInv'
  BY OneStep, GenStep, FinalStep, LaunchStep, OnceStep, FrozenStep DEF Inv, SerialInv
<1>3. ContainerInv'
  BY <1>1, <1>2, ContainerStep DEF Inv, SerialInv
<1>. QED
  BY <1>1, <1>2, <1>3 DEF SerialInv

LEMMA SerialInitially == Init => SerialInv
<1>. SUFFICES ASSUME Init PROVE SerialInv
  OBVIOUS
<1>1. \A m \in Job : job[m].pc = "new" /\ job[m].rank = NoRank
  BY DEF Init, NewJob
<1>2. \A r \in Rank : location[r] = NoName /\ run[r].pc = "new" /\ At(r) = {} /\ work[r] = 0
  BY DEF Init, At
<1>3. waiting = NoJob /\ \A h \in Host, r \in Rank : reg[h][r] = NoCont
  BY DEF Init
<1>4. OneJob /\ TypeInv
  BY <1>1, <1>3 DEF OneJob, TypeInv, Active, Started
<1>5. GenInv
  BY <1>1, <1>3 DEF GenInv
<1>6. LaunchInv /\ OnceInv
  BY <1>1, <1>2, NameAssumption DEF LaunchInv, OnceInv
<1>7. FrozenInv
  BY <1>1 DEF FrozenInv, Frozen
<1>8. ContainerInv
  BY <1>1, <1>2 DEF ContainerInv, Active, Moved
<1>. QED
  BY <1>4, <1>5, <1>6, <1>7, <1>8 DEF SerialInv

LEMMA Serial == ASSUME LosesDonor = FALSE PROVE Spec => [](Inv /\ SerialInv)
<1>1. Init => Inv /\ SerialInv
  BY Initially, SerialInitially
<1>2. Inv /\ SerialInv /\ [Next]_vars => Inv' /\ SerialInv'
  BY SerialStep DEF LoseDonor
<1>. QED
  BY <1>1, <1>2, PTL DEF Spec

\* A rank that was launched has a container somewhere, as long as the control
\* loop waits for each donor: whatever else fails, DeleteUnlocked takes the
\* container of the source only when the destination has one
\* (migrate.go:100-116, container_registry.go:138-161).
THEOREM ContainerKept == ASSUME LosesDonor = FALSE PROVE Spec => []NeverLost
<1>1. Inv /\ SerialInv => NeverLost
  <2>. SUFFICES ASSUME Inv, SerialInv, NEW r \in Rank, run[r].pc = "done"
                PROVE  \E h \in Host : reg[h][r] # NoCont
    BY DEF NeverLost
  <2>1. location[r] # NoName
    BY DEF SerialInv, LaunchInv
  <2>2. CASE reg[nodeOf[location[r]]][r] # NoCont
    BY <2>1, <2>2 DEF Inv, PlaceOK
  <2>3. ASSUME NEW m \in Job, waiting = m, job[m].rank = r, Moved(m)
        PROVE  \E h \in Host : reg[h][r] # NoCont
    BY <2>3 DEF SerialInv, ContainerInv
  <2>. QED
    BY <2>1, <2>2, <2>3 DEF SerialInv, ContainerInv
<1>. QED
  BY <1>1, Serial, PTL

\* Under the same condition the location database leads the next request to
\* the container (control.go:139-160).
THEOREM LocationCorrect == ASSUME LosesDonor = FALSE PROVE Spec => []LocatedIsRegistered
<1>1. Inv /\ SerialInv => LocatedIsRegistered
  BY DEF SerialInv, ContainerInv, LocatedIsRegistered, NoJob, Job
<1>. QED
  BY <1>1, Serial, PTL
-----------------------------------------------------------------------------
\* A step moves one rank.
LEMMA OneMoves ==
    ASSUME Inv, FrozenInv, [Next]_vars
    PROVE  \/ UNCHANGED <<proc, work>>
           \/ \E r \in Rank : \A q \in Rank \ {r} : At(q)' = At(q) /\ work'[q] = work[q]
<1>. USE DEF Inv, At
<1>0. proc \in [Host -> [Rank -> {"none", "running", "stopped"}]] /\ work \in [Rank -> Nat]
  BY DEF TypeOK
<1>. DEFINE Moves(r) == \A q \in Rank \ {r} : (\A h \in Host : proc'[h][q] = proc[h][q]) /\ work'[q] = work[q]
<1>1. ASSUME NEW r \in Rank, Launch(r) PROVE Moves(r)
  BY <1>0, <1>1 DEF Launch
<1>2. ASSUME NEW m \in Job, Dump(m) \/ Delete(m) PROVE job[m].rank \in Rank /\ Moves(job[m].rank)
  <2>1. job[m].rank \in Rank /\ UNCHANGED work
    BY <1>2 DEF Dump, Delete, JobOK, Started
  <2>2. PICK c : proc' = [proc EXCEPT ![job[m].src][job[m].rank] = c]
    BY <1>2 DEF Dump, Delete
  <2>. QED
    BY <1>0, <2>1, <2>2
<1>3. ASSUME NEW m \in Job, job[m].pc = "restore", Resume(m) PROVE job[m].loaded \in Rank /\ Moves(job[m].loaded)
  <2>1. job[m].loaded \in Rank
    BY <1>3 DEF JobOK, Started
  <2>. QED
    BY <1>0, <1>3, <2>1 DEF Resume
<1>4. ASSUME NEW h \in Host, NEW r \in Rank, Compute(h, r) PROVE Moves(r)
  BY <1>0, <1>4 DEF Compute
<1>5. ASSUME NEW r \in Rank, (\E h \in Host : Create(r, h)) \/ RegisterContainer(r) \/ LaunchFails(r)
      PROVE  UNCHANGED <<proc, work>>
  BY <1>5 DEF Create, RegisterContainer, LaunchFails, procVars
<1>6. ASSUME NEW m \in Job, Send(m) \/ Relaunch(m)
      PROVE  \/ UNCHANGED <<proc, work>> \/ Dump(m) \/ Delete(m)
             \/ job[m].pc = "restore" /\ Resume(m)
  BY <1>6
     DEF Send, Relaunch, Lock, DumpFails, Connect, SendImageInfo, SendFiles, SendFails, Load, LoadFails,
         Restore, RestoreFails, procVars
<1>7. ASSUME NEW m \in Job,
             \/ Return(m) \/ LoseDonor(m)
             \/ \E r \in Rank, d \in Name, t \in Types : Migrate(m, r, d, t)
      PROVE  UNCHANGED <<proc, work>>
  BY <1>7 DEF Return, LoseDonor, Migrate, procVars
<1>8. UNCHANGED vars => UNCHANGED <<proc, work>>
  BY DEF vars, procVars
<1>9. UNCHANGED <<proc, work>> \/ \E r \in Rank : Moves(r)
  <2>. HIDE DEF Inv, Moves
  <2>. QED
    BY <1>1, <1>2, <1>3, <1>4, <1>5, <1>6, <1>7, <1>8 DEF Next, Run
<1>. QED
  BY <1>9

\* Migrations move the processes: no rank runs twice, and a resumed one goes
\* on from where it was stopped, as Placement has it.
THEOREM Refinement == ASSUME LosesDonor = FALSE PROVE Spec => MovesProcesses
<1>. DEFINE at == [r \in Rank |-> At(r)]
<1>1. Init => Place!Init
  BY DEF Init, Place!Init, At
<1>2. Inv /\ SerialInv /\ SerialInv' /\ [Next]_vars => [Place!Next]_(Place!vars)
  <2>. SUFFICES ASSUME Inv, SerialInv, SerialInv', [Next]_vars
                PROVE  Place!Next \/ UNCHANGED <<at, work>>
    BY DEF Place!vars
  <2>1. work \in [Rank -> Nat] /\ work' \in [Rank -> Nat]
    <3>1. TypeOK /\ TypeOK'
      BY TypeStep DEF Inv
    <3>. QED
      BY <3>1 DEF TypeOK
  <2>2. CASE UNCHANGED <<proc, work>>
    BY <2>2 DEF At
  <2>3. ASSUME NEW r \in Rank, \A q \in Rank \ {r} : At(q)' = At(q) /\ work'[q] = work[q]
        PROVE  Place!Next \/ UNCHANGED <<at, work>>
    <3>1. /\ at' = [at EXCEPT ![r] = At(r)']
          /\ work' = [work EXCEPT ![r] = work'[r]]
          /\ at[r] = At(r)
      BY <2>1, <2>3
    <3>2. CASE Stays(r)
      <4>1. At(r)' = At(r) \/ At(r)' = {}
        BY <3>2 DEF Stays, SerialInv, OnceInv
      <4>2. CASE work'[r] = work[r] /\ At(r)' = At(r)
        BY <2>1, <3>1, <4>2
      <4>3. CASE work'[r] = work[r] /\ At(r)' = {}
        <5>1. Place!Freeze({r})
          BY <2>1, <3>1, <4>3 DEF Place!Freeze
        <5>. QED
          BY <5>1 DEF Place!Next
      <4>4. CASE At(r) # {} /\ At(r)' = At(r) /\ work'[r] = work[r] + 1
        <5>1. Place!Compute(r)
          BY <2>1, <3>1, <4>4 DEF Place!Compute
        <5>. QED
          BY <5>1 DEF Place!Next
      <4>. QED
        BY <3>2, <4>1, <4>2, <4>3, <4>4 DEF Stays
    <3>3. CASE Begins(r)
      <4>1. At(r) = {} /\ run[r].at \in Host
        BY <3>3 DEF Begins, SerialInv, LaunchInv, Inv, PlaceOK
      <4>2. Place!Place(r, run[r].at)
        BY <2>1, <3>1, <3>3, <4>1 DEF Begins, Place!Place
      <4>. QED
        BY <4>1, <4>2 DEF Place!Next
    <3>4. CASE Resumes(r)
      <4>1. PICK m \in Job : /\ job[m].pc = "restore" /\ job[m].rank = r
                             /\ At(r)' = {nodeOf[job[m].dest]} /\ work'[r] = work[r]
        BY <3>4 DEF Resumes
      <4>2. At(r) = {} /\ nodeOf[job[m].dest] \in Host
        BY <4>1 DEF SerialInv, FrozenInv, Frozen, TypeInv, Active, Ended, Inv, JobOK, Started
      <4>3. Place!Place(r, nodeOf[job[m].dest])
        BY <2>1, <3>1, <4>1, <4>2 DEF Place!Place
      <4>. QED
        BY <4>2, <4>3 DEF Place!Next
    <3>. QED
      BY <3>2, <3>3, <3>4, AtStep DEF SerialInv
  <2>. QED
    BY <2>2, <2>3, OneMoves DEF SerialInv
<1>. QED
  BY <1>1, <1>2, Serial, PTL DEF Spec, MovesProcesses, Place!Spec
-----------------------------------------------------------------------------
\* Who holds a mutex is sending from that node: no return forgets to unlock.
HolderInv == \A h \in Host : mutex[h] # NoJob => Sending(mutex[h]) /\ job[mutex[h]].src = h

LEMMA HolderStep ==
    ASSUME Inv, HolderInv, [Next]_vars
    PROVE  HolderInv'
<1>0. mutex \in [Host -> Job \cup {NoJob}] /\ NoJob \notin Job
  BY DEF Inv, TypeOK, NoJob, Job
<1>1. CASE UNCHANGED <<job, mutex>>
  BY <1>1 DEF HolderInv, Sending
<1>2. ASSUME NEW m \in Job, NEW r \in Rank, NEW d \in Name, NEW t \in Types, Migrate(m, r, d, t)
      PROVE  HolderInv'
  <2>1. job[m].pc = "new" /\ \A k \in Job \ {m} : job'[k] = job[k]
    BY <1>2, MigrateIs, BoundAssumption DEF Inv, Job
  <2>2. UNCHANGED mutex
    BY <1>2 DEF Migrate
  <2>. QED
    BY <1>0, <2>1, <2>2 DEF HolderInv, Sending
<1>3. ASSUME NEW m \in Job, Send(m) \/ Relaunch(m) PROVE HolderInv'
  <2>1. job[m].src \in Host
    BY <1>3, JobMoves DEF Inv, JobOK, Started, Ended
  <2>2. mutex'[job[m].src] = NoJob \/ (mutex'[job[m].src] = m /\ Sending(m)')
    <3>1. CASE DumpFails(m) \/ SendFails(m) \/ Delete(m) \/ LoadFails(m) \/ RestoreFails(m)
      <4>1. Finish(m, "failed") \/ Finish(m, "done")
        BY <3>1 DEF DumpFails, SendFails, Delete, LoadFails, RestoreFails
      <4>. QED
        BY <1>0, <2>1, <4>1 DEF Finish
    <3>2. CASE Dump(m) \/ Connect(m) \/ SendImageInfo(m) \/ Load(m) \/ Restore(m)
      <4>1. Sending(m)'
        BY <1>3, <3>2, JobIs DEF Sending, Inv
      <4>2. mutex[job[m].src] = m
        BY <3>2 DEF Dump, Connect, SendImageInfo, Load, Restore, Sending, Inv, MutexInv
      <4>. QED
        BY <3>2, <4>1, <4>2 DEF Dump, Connect, SendImageInfo, Load, Restore
    <3>3. CASE Lock(m)
      <4>1. CASE UNCHANGED mutex
        BY <3>3, <4>1 DEF Lock
      <4>2. CASE mutex' = [mutex EXCEPT ![job[m].src] = m] /\ job'[m].pc = "dump"
        BY <1>0, <2>1, <4>2 DEF Sending
      <4>3. job'[m].pc = "failed" => UNCHANGED mutex
        <5>1. job \in [Job -> Jobs]
          BY DEF Inv, TypeOK
        <5>. QED
          BY <3>3, <5>1 DEF Lock, Advance, Jobs
      <4>. QED
        BY <1>3, <3>3, <4>1, <4>2, <4>3, JobIs DEF Lock, Inv
    <3>4. CASE SendFiles(m)
      <4>1. mutex[job[m].src] = m
        BY <3>4 DEF SendFiles, Sending, Inv, MutexInv
      <4>2. CASE Finish(m, "done")
        BY <1>0, <2>1, <4>2 DEF Finish
      <4>3. CASE UNCHANGED mutex /\ job'[m].pc \in {"relaunch", "dump"}
        BY <4>1, <4>3 DEF Sending
      <4>4. job'[m].pc = "done" => Finish(m, "done")
        <5>1. job \in [Job -> Jobs]
          BY DEF Inv, TypeOK
        <5>. QED
          BY <3>4, <5>1 DEF SendFiles, Advance, Jobs
      <4>5. job'[m].pc # "done" => UNCHANGED mutex
        BY <3>4, FinishIs DEF SendFiles, Inv
      <4>. QED
        BY <1>3, <3>4, <4>2, <4>3, <4>4, <4>5, JobIs DEF Inv
    <3>. QED
      BY <1>3, <3>1, <3>2, <3>3, <3>4 DEF Send, Relaunch
  <2>3. ASSUME NEW h \in Host, mutex'[h] # NoJob, h # job[m].src
        PROVE  \E k \in Job : k = mutex'[h] /\ Sending(k)' /\ job'[k].src = h
    <3>1. mutex'[h] = mutex[h]
      BY <1>3, <2>3, JobMoves DEF Inv
    <3>2. PICK k \in Job : k = mutex[h] /\ k = mutex'[h]
      BY <1>0, <2>3, <3>1
    <3>3. Sending(k) /\ job[k].src = h
      BY <1>0, <3>2 DEF HolderInv
    <3>4. job'[k] = job[k]
      BY <1>3, <2>3, <3>3, JobMoves DEF Inv
    <3>. QED
      BY <3>2, <3>3, <3>4 DEF Sending
  <2>4. job'[m].src = job[m].src
    BY <1>3, JobMoves DEF Inv
  <2>. QED
    BY <2>2, <2>3, <2>4 DEF HolderInv, Sending
<1>. QED
  BY <1>1, <1>2, <1>3, Others

\* No Send and no Relaunch waits for another, as long as the control loop waits
\* for each donor: the mutexes they ask for are free, so that two nodes that
\* migrate to each other never wait for each other (migrate.go:51-52,
\* container_registry.go:102).
THEOREM LockSafety == ASSUME LosesDonor = FALSE PROVE Spec => []LocksAreFree
<1>1. Init => HolderInv
  BY DEF Init, HolderInv
<1>2. Inv /\ HolderInv /\ [Next]_vars => HolderInv'
  BY HolderStep
<1>3. Inv /\ SerialInv /\ HolderInv => LocksAreFree
  <2>. SUFFICES ASSUME Inv, SerialInv, HolderInv, NEW m \in Job
                PROVE  /\ job[m].pc = "called" => mutex[job[m].src] = NoJob
                       /\ job[m].pc = "relaunch" => mutex[nodeOf[job[m].dest]] = NoJob
    BY DEF LocksAreFree
  <2>1. mutex \in [Host -> Job \cup {NoJob}]
    BY DEF Inv, TypeOK
  <2>2. ASSUME NEW h \in Host, Active(m), mutex[h] # NoJob PROVE mutex[h] = m /\ h = job[m].src /\ Sending(m)
    <3>1. PICK k \in Job : k = mutex[h]
      BY <2>1, <2>2
    <3>2. Sending(k) /\ job[k].src = h
      BY <2>2, <3>1 DEF HolderInv
    <3>3. k = m
      BY <2>2, <3>2 DEF SerialInv, OneJob, Active, Sending, Ended
    <3>. QED
      BY <3>1, <3>2, <3>3
  <2>3. job[m].pc = "called" => mutex[job[m].src] = NoJob
    BY <2>2 DEF Inv, JobOK, Started, Active, Ended, Sending
  <2>4. job[m].pc = "relaunch" => mutex[nodeOf[job[m].dest]] = NoJob
    BY <2>2 DEF Inv, JobOK, Started, Active, Ended, SerialInv, FrozenInv
  <2>. QED
    BY <2>3, <2>4
<1>. QED
  BY <1>1, <1>2, <1>3, Serial, PTL DEF Spec
=============================================================================
