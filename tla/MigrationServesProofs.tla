------------------------ MODULE MigrationServesProofs ------------------------
(***************************************************************************)
(* What Migration achieves while nothing fails, proved for any nodes,      *)
(* ranks and jobs, if every node has one name.  The first migration of a   *)
(* rank to fail then lacks generation 0 or the root file system at its     *)
(* destination, and between two nodes it lacks the root file system.       *)
(*                                                                         *)
(* The invariant says where the container and the process of a rank are,   *)
(* between migrations and at each step of one, so that each step finds     *)
(* what it needs; and that a rank that failed once has stopped for good.   *)
(***************************************************************************)
EXTENDS MigrationProofs

\* No two names lead to the same node.
OneName == \A n \in Name : nodeOf[n] # NoHost => hostname[nodeOf[n]] = n

Dest(m) == nodeOf[job[m].dest]

\* A migration of rank r has failed.
Stranded(r) == \E k \in Job : job[k].rank = r /\ job[k].pc = "failed"

\* The control loop waits for a migration of rank r.
Coming(r) == \E m \in Job : waiting = m /\ job[m].rank = r

\* The container of a job is in the register of the destination.
Arrived(m) == job[m].pc \in {"restore", "delete"} \/ (waiting = m /\ Moved(m))

\* Where the container of rank r belongs.
Home(r, h) ==
    \/ run[r].pc \in {"created", "launched", "failed"} /\ h = run[r].at
    \/ /\ location[r] # NoName /\ h = nodeOf[location[r]]
       /\ ~ \E m \in Job : waiting = m /\ Moved(m) /\ job[m].rank = r
    \/ \E m \in Job : job[m].rank = r /\ Arrived(m) /\ h = Dest(m)

\* No container is left where it is not at home, where a migration would find
\* it in its way, but for the one that a failed Restore leaves.
HomeInv == \A r \in Rank, h \in Host : reg[h][r] # NoCont => Home(r, h) \/ Stranded(r)

\* What a transfer needs: no file is open, the destination is elsewhere, and
\* the image is there.
SendInv ==
    /\ \A h \in Host : ~ unfinished[h]
    /\ \A m \in Job : waiting = m => job[m].dest # location[job[m].rank]
    /\ \A m \in Job : job[m].pc \in {"connect", "info", "files"} =>
            image[job[m].src][job[m].rank][job[m].gen] # Absent
    /\ \A m \in Job : job[m].pc = "relaunch" => job[m].rank \in state[Dest(m)]

\* The process of a job runs at the source until the final dump, and at the
\* destination after the restore.
AtSource(m) ==
    \/ job[m].pc \in {"called", "dump"}
    \/ job[m].pc \in {"connect", "info", "files"} /\ ~ job[m].final
    \/ job[m].pc = "done" /\ job[m].type = "PreDump"
AtDest(m) == job[m].pc = "delete" \/ Moved(m)

AliveInv ==
    /\ \A r \in Rank : run[r].pc = "launched" => run[r].at \in At(r)
    /\ \A r \in Rank : location[r] # NoName /\ ~ Coming(r) /\ ~ Stranded(r) => nodeOf[location[r]] \in At(r)
    /\ \A m \in Job : waiting = m /\ ~ Stranded(job[m].rank) =>
            /\ AtSource(m) => nodeOf[location[job[m].rank]] \in At(job[m].rank)
            /\ AtDest(m) => Dest(m) \in At(job[m].rank)

\* A rank whose migration has failed has stopped, and every later one fails.
StrandInv ==
    \A k \in Job : job[k].pc = "failed" =>
        /\ At(job[k].rank) = {}
        /\ location[job[k].rank] # NoName
        /\ \A m \in Job : waiting = m /\ job[m].rank = job[k].rank =>
                job[m].pc \in {"called", "dump", "failed"}

Serving == SerialInv /\ HomeInv /\ SendInv /\ AliveInv /\ StrandInv
ServingInv == faults = 0 => Serving
-----------------------------------------------------------------------------
\* In a step in which nothing fails, no action takes its fault.
LEMMA QuietStep ==
    ASSUME TypeOK, [Next]_vars, faults' = 0
    PROVE  faults = 0 /\ ~ Fault /\ \A m \in Job : ~ LoseDonor(m)
<1>1. faults \in Nat
  BY DEF TypeOK
<1>2. ~ Fault
  BY <1>1 DEF Fault
<1>3. ASSUME NEW m \in Job, Send(m) PROVE UNCHANGED faults
  BY <1>2, <1>3
     DEF Send, Lock, Dump, DumpFails, Connect, SendImageInfo, SendFiles, SendFails, Delete
<1>4. ASSUME NEW m \in Job, Relaunch(m) PROVE UNCHANGED faults
  BY <1>2, <1>4 DEF Relaunch, Load, LoadFails, Restore, RestoreFails
<1>5. ASSUME NEW r \in Rank, Run(r) \/ LaunchFails(r) PROVE UNCHANGED faults
  BY <1>2, <1>5 DEF Run, Create, Launch, RegisterContainer, LaunchFails
<1>6. ASSUME NEW m \in Job, \/ Return(m) \/ LoseDonor(m)
                            \/ \E r \in Rank, d \in Name, t \in Types : Migrate(m, r, d, t)
      PROVE  UNCHANGED faults
  BY <1>2, <1>6 DEF Return, LoseDonor, Migrate
<1>7. ASSUME NEW h \in Host, NEW r \in Rank, Compute(h, r) PROVE UNCHANGED faults
  BY <1>7 DEF Compute
<1>8. UNCHANGED vars => UNCHANGED faults
  BY DEF vars
<1>9. UNCHANGED faults
  BY <1>3, <1>4, <1>5, <1>6, <1>7, <1>8 DEF Next
<1>. QED
  BY <1>2, <1>9 DEF LoseDonor

\* What a checkpoint directory can become.
LEMMA ImageStep ==
    ASSUME Inv, [Next]_vars, NEW h \in Host, NEW r \in Rank, NEW g \in Gen
    PROVE  \/ image'[h][r][g] = image[h][r][g]
           \/ \E m \in Job :
                 /\ Dump(m) \/ DumpFails(m) \/ SendFails(m)
                 /\ r = job[m].rank
                 /\ Dump(m) \/ DumpFails(m) => h = job[m].src
                 /\ image'[h][r][g] # Absent
           \/ \E m \in Job :
                 /\ SendFiles(m) /\ h = Dest(m) /\ r = job[m].rank /\ g = job[m].gen
                 /\ image'[h][r][g] = image[job[m].src][r][g]
<1>1. /\ image \in [Host -> [Rank -> [Gen -> Contents]]] /\ work \in [Rank -> Nat]
      /\ Partial # Absent /\ Absent \notin Nat
  BY ContentAssumption DEF Inv, TypeOK
<1>2. ASSUME NEW m \in Job, Send(m) \/ Relaunch(m)
      PROVE  /\ job[m].rank \in Rank /\ job[m].src \in Host
             /\ job[m].pc \in {"info", "files"} => Dest(m) \in Host
  BY <1>2, JobMoves DEF Inv, JobOK, Started, Ended, Dest
<1>3. ASSUME NEW m \in Job, Dump(m)
      PROVE  \/ image'[h][r][g] = image[h][r][g]
             \/ h = job[m].src /\ r = job[m].rank /\ image'[h][r][g] # Absent
  <2>1. job[m].rank \in Rank /\ job[m].src \in Host
    BY <1>2, <1>3 DEF Send
  <2>2. PICK k : image' = [image EXCEPT ![job[m].src][job[m].rank][k] = work[job[m].rank]]
    BY <1>3 DEF Dump
  <2>3. work[job[m].rank] # Absent
    BY <1>1, <2>1
  <2>. QED
    BY <1>1, <2>1, <2>2, <2>3
<1>4. ASSUME NEW m \in Job, DumpFails(m)
      PROVE  \/ image'[h][r][g] = image[h][r][g]
             \/ h = job[m].src /\ r = job[m].rank /\ image'[h][r][g] # Absent
  <2>1. job[m].rank \in Rank /\ job[m].src \in Host
    BY <1>2, <1>4 DEF Send
  <2>2. PICK k : image' = image \/ image' = [image EXCEPT ![job[m].src][job[m].rank][k] = Partial]
    BY <1>4 DEF DumpFails
  <2>. QED
    BY <1>1, <2>1, <2>2
<1>5. ASSUME NEW m \in Job, SendFails(m)
      PROVE  \/ image'[h][r][g] = image[h][r][g]
             \/ r = job[m].rank /\ image'[h][r][g] # Absent
  <2>1. job[m].rank \in Rank /\ Dest(m) \in Host
    BY <1>2, <1>5 DEF Send, SendFails
  <2>2. PICK d \in Host, q \in Rank : d = Dest(m) /\ q = job[m].rank
    BY <2>1
  <2>3. PICK k : image' = image \/ image' = [image EXCEPT ![d][q][k] = Partial]
    BY <1>5, <2>2 DEF SendFails, Dest
  <2>4. image' = image => image'[h][r][g] = image[h][r][g]
    OBVIOUS
  <2>5. ASSUME image' = [image EXCEPT ![d][q][k] = Partial]
        PROVE  image'[h][r][g] = image[h][r][g] \/ (h = d /\ r = q /\ image'[h][r][g] = Partial)
    BY <1>1, <2>5
  <2>. QED
    BY <1>1, <2>2, <2>3, <2>4, <2>5
<1>6. ASSUME NEW m \in Job, SendFiles(m)
      PROVE  \/ image'[h][r][g] = image[h][r][g]
             \/ /\ h = Dest(m) /\ r = job[m].rank /\ g = job[m].gen
                /\ image'[h][r][g] = image[job[m].src][r][g]
  <2>1. job[m].rank \in Rank /\ job[m].src \in Host /\ Dest(m) \in Host
    BY <1>2, <1>6 DEF Send, SendFiles
  <2>2. PICK c : /\ c = image[job[m].src][job[m].rank][job[m].gen]
                 /\ image' = [image EXCEPT ![Dest(m)][job[m].rank][job[m].gen] = c]
    BY <1>6 DEF SendFiles, Dest
  <2>. QED
    BY <1>1, <2>1, <2>2
<1>7. ASSUME NEW m \in Job, Send(m) \/ Relaunch(m)
      PROVE  UNCHANGED image \/ Dump(m) \/ DumpFails(m) \/ SendFails(m) \/ SendFiles(m)
  BY <1>7 DEF Send, Relaunch, Lock, Connect, SendImageInfo, Delete, Load, LoadFails, Restore, RestoreFails, nodeVars
<1>8. \/ UNCHANGED image
      \/ \E m \in Job : Send(m) \/ Relaunch(m)
  <2>1. ASSUME NEW q \in Rank, Run(q) \/ LaunchFails(q) PROVE UNCHANGED image
    BY <2>1 DEF Run, Create, Launch, RegisterContainer, LaunchFails, nodeVars
  <2>2. ASSUME NEW m \in Job, \/ Return(m) \/ LoseDonor(m)
                              \/ \E q \in Rank, d \in Name, t \in Types : Migrate(m, q, d, t)
        PROVE  UNCHANGED image
    BY <2>2 DEF Return, LoseDonor, Migrate, nodeVars
  <2>3. ASSUME NEW n \in Host, NEW q \in Rank, Compute(n, q) PROVE UNCHANGED image
    BY <2>3 DEF Compute, nodeVars
  <2>4. UNCHANGED vars => UNCHANGED image
    BY DEF vars, nodeVars
  <2>. QED
    BY <2>1, <2>2, <2>3, <2>4 DEF Next
<1>. QED
  BY <1>3, <1>4, <1>5, <1>6, <1>7, <1>8

\* A process stops where it is dumped for the last time or deleted.
LEMMA ProcStops ==
    ASSUME Inv, [Next]_vars, NEW r \in Rank, NEW h \in At(r), h \notin At(r)'
    PROVE  \E m \in Job : /\ (Dump(m) /\ job[m].final) \/ Delete(m)
                          /\ h = job[m].src /\ r = job[m].rank
<1>1. proc \in [Host -> [Rank -> {"none", "running", "stopped"}]] /\ h \in Host
  BY DEF Inv, TypeOK, At
<1>2. proc[h][r] = "running" /\ proc'[h][r] # "running"
  BY <1>1 DEF At
<1>3. ASSUME NEW m \in Job, Dump(m) PROVE job[m].final /\ h = job[m].src /\ r = job[m].rank
  BY <1>1, <1>2, <1>3 DEF Dump
<1>4. ASSUME NEW m \in Job, Delete(m) PROVE h = job[m].src /\ r = job[m].rank
  BY <1>1, <1>2, <1>4 DEF Delete
<1>5. ASSUME NEW m \in Job, Resume(m) PROVE FALSE
  BY <1>1, <1>2, <1>5 DEF Resume
<1>6. ASSUME NEW q \in Rank, Launch(q) PROVE FALSE
  BY <1>1, <1>2, <1>6 DEF Launch
<1>7. ASSUME UNCHANGED proc PROVE FALSE
  BY <1>2, <1>7
<1>8. ASSUME NEW m \in Job, Send(m) \/ Relaunch(m) PROVE UNCHANGED proc \/ Dump(m) \/ Delete(m) \/ Resume(m)
  BY <1>8
     DEF Send, Relaunch, Lock, DumpFails, Connect, SendImageInfo, SendFiles, SendFails, Load, LoadFails,
         Restore, RestoreFails, procVars
<1>9. ASSUME NEW q \in Rank, (\E n \in Host : Create(q, n)) \/ RegisterContainer(q) \/ LaunchFails(q)
      PROVE  UNCHANGED proc
  BY <1>9 DEF Create, RegisterContainer, LaunchFails, procVars
<1>10. ASSUME NEW m \in Job, \/ Return(m) \/ LoseDonor(m)
                             \/ \E q \in Rank, d \in Name, t \in Types : Migrate(m, q, d, t)
       PROVE  UNCHANGED proc
  BY <1>10 DEF Return, LoseDonor, Migrate, procVars
<1>11. ASSUME NEW n \in Host, NEW q \in Rank, Compute(n, q) PROVE UNCHANGED proc
  BY <1>11 DEF Compute
<1>12. UNCHANGED vars => UNCHANGED proc
  BY DEF vars, procVars
<1>. QED
  BY <1>3, <1>4, <1>5, <1>6, <1>7, <1>8, <1>9, <1>10, <1>11, <1>12 DEF Next, Run

\* What is known of the job of a Send that is under way.
LEMMA Busy ==
    ASSUME Inv, SerialInv, NEW m \in Job, Send(m) \/ Relaunch(m)
    PROVE  /\ waiting = m /\ Active(m) /\ ~ Moved(m)
           /\ job[m].rank \in Rank /\ job[m].src \in Host /\ job[m].dest \in Name
           /\ run[job[m].rank].pc = "done" /\ location[job[m].rank] \in Name
           /\ job[m].src = nodeOf[location[job[m].rank]]
           /\ job[m].pc \in {"info", "files", "relaunch", "restore", "delete"} => Dest(m) \in Host
           /\ \A k \in Job \ {m} : ~ Active(k) /\ waiting # k
<1>1. Active(m) /\ waiting = m /\ ~ Moved(m)
  BY JobMoves DEF Inv, SerialInv, OneJob, Active, Moved, Ended
<1>2. /\ job[m].rank \in Rank /\ job[m].src \in Host /\ job[m].dest \in Name
      /\ job[m].pc \in {"info", "files", "relaunch", "restore", "delete"} => Dest(m) \in Host
  BY <1>1 DEF Inv, JobOK, Started, Active, Ended, Dest
<1>3. run[job[m].rank].pc = "done" /\ location[job[m].rank] # NoName
  BY <1>2 DEF SerialInv, LaunchInv
<1>4. location[job[m].rank] \in Name
  BY <1>2, <1>3 DEF Inv, TypeOK
<1>5. job[m].src = nodeOf[location[job[m].rank]]
  BY <1>1 DEF SerialInv, ContainerInv
<1>. QED
  BY <1>1, <1>2, <1>3, <1>4, <1>5 DEF SerialInv, OneJob

\* Nobody migrates to where the rank is.
LEMMA Elsewhere ==
    ASSUME OneName, Inv, SerialInv, SendInv, NEW m \in Job, Send(m) \/ Relaunch(m), Dest(m) \in Host
    PROVE  Dest(m) # job[m].src
<1>1. /\ waiting = m /\ job[m].rank \in Rank /\ job[m].dest \in Name /\ location[job[m].rank] \in Name
      /\ job[m].src = nodeOf[location[job[m].rank]] /\ job[m].src \in Host
  BY Busy
<1>2. job[m].dest # location[job[m].rank]
  BY <1>1 DEF SendInv
<1>. QED
  BY <1>1, <1>2, NameAssumption DEF OneName, Dest

\* Why a job can fail if nothing else does: its rank has failed before, or
\* generation 0 or the root file system is not there.
LEMMA QuietFails ==
    ASSUME OneName, Inv, Serving, ~ Fault, NEW m \in Job, Send(m) \/ Relaunch(m)
    PROVE  /\ ~ SendFails(m)
           /\ Lock(m) => job'[m].pc = "dump"
           /\ DumpFails(m) => Stranded(job[m].rank)
           /\ LoadFails(m) => LacksParent(m)
           /\ RestoreFails(m) => LacksRootfs(m)
<1>. USE DEF Serving
<1>1. /\ waiting = m /\ Active(m) /\ ~ Moved(m)
      /\ job[m].rank \in Rank /\ job[m].src \in Host /\ run[job[m].rank].pc = "done"
      /\ location[job[m].rank] # NoName /\ job[m].src = nodeOf[location[job[m].rank]]
      /\ job[m].pc \in {"info", "files", "relaunch", "restore", "delete"} => Dest(m) \in Host
      /\ \A k \in Job \ {m} : ~ Active(k) /\ waiting # k
  BY Busy, NameAssumption
<1>2. ASSUME SendFails(m) PROVE FALSE
  <2>1. job[m].pc \in {"info", "files"} /\ Dest(m) \in Host
    BY <1>1, <1>2 DEF SendFails
  <2>2. ~ unfinished[Dest(m)] /\ Dest(m) # job[m].src
    BY <2>1, Elsewhere DEF SendInv
  <2>. QED
    BY <1>2, <2>2 DEF SendFails, Dest
<1>3. ASSUME RestoreFails(m), ~ LacksRootfs(m) PROVE FALSE
  <2>1. Restored(m) = work[job[m].rank]
    BY <1>3, RestoredIs DEF RestoreFails, SerialInv
  <2>2. Restored(m) \in Nat
    BY <1>1, <2>1 DEF Inv, TypeOK
  <2>. QED
    BY <1>3, <2>2 DEF RestoreFails
<1>4. ASSUME Lock(m) PROVE job'[m].pc = "dump"
  <2>1. job[m].pc = "called"
    BY <1>4 DEF Lock
  <2>2. reg[job[m].src][job[m].rank] # NoCont
    <3>1. \A k \in Job : ~ (waiting = k /\ Moved(k))
      BY <1>1
    <3>. QED
      BY <1>1, <3>1 DEF SerialInv, ContainerInv
  <2>3. job' = [job EXCEPT ![m].pc = "dump", ![m].final = job[m].type = "Migrate"]
    BY <1>4, <2>2 DEF Lock
  <2>. QED
    BY <2>3 DEF Inv, TypeOK, Jobs
<1>5. ASSUME DumpFails(m) PROVE Stranded(job[m].rank)
  <2>1. job[m].pc = "dump" /\ proc[job[m].src][job[m].rank] # "running"
    BY <1>5 DEF DumpFails
  <2>2. job[m].src \notin At(job[m].rank) /\ AtSource(m)
    BY <2>1 DEF At, AtSource
  <2>. QED
    BY <1>1, <2>2 DEF AliveInv
<1>6. ASSUME LoadFails(m) PROVE LacksParent(m)
  <2>1. job[m].pc = "relaunch" /\ Dest(m) \in Host /\ ~ Loadable(Dest(m), imageInfo[Dest(m)])
    BY <1>1, <1>6 DEF LoadFails, Dest
  <2>2. imageInfo[Dest(m)] = [rank |-> job[m].rank, gen |-> job[m].gen]
    BY <2>1 DEF SerialInv, FrozenInv, Dest
  <2>3. reg[Dest(m)][job[m].rank] = NoCont
    <3>1. SUFFICES ASSUME Home(job[m].rank, Dest(m)) PROVE FALSE
      BY <1>1, <2>1 DEF HomeInv, Stranded, StrandInv
    <3>2. Dest(m) # job[m].src
      BY <2>1, Elsewhere
    <3>3. PICK k \in Job : job[k].rank = job[m].rank /\ Arrived(k)
      BY <1>1, <3>1, <3>2 DEF Home
    <3>4. k = m
      BY <1>1, <3>3 DEF Arrived, Active, Ended
    <3>. QED
      BY <1>1, <2>1, <3>3, <3>4 DEF Arrived
  <2>4. job[m].rank \in state[Dest(m)]
    BY <2>1 DEF SendInv
  <2>5. image[Dest(m)][job[m].rank][job[m].gen] # Absent
    <3>1. image[Dest(m)][job[m].rank][job[m].gen] = work[job[m].rank]
      BY <2>1 DEF SerialInv, FrozenInv, Dest
    <3>. QED
      BY <1>1, <3>1, ContentAssumption DEF Inv, TypeOK
  <2>. QED
    BY <2>1, <2>2, <2>3, <2>4, <2>5 DEF Loadable, LacksParent, Dest
<1>. QED
  BY <1>2, <1>3, <1>4, <1>5, <1>6

\* Who fails.
LEMMA FailedBy ==
    ASSUME TypeOK, NEW m \in Job, Send(m) \/ Relaunch(m), job'[m].pc = "failed"
    PROVE  Lock(m) \/ DumpFails(m) \/ SendFails(m) \/ LoadFails(m) \/ RestoreFails(m)
BY JobIs DEF Send, Relaunch

\* A job changes by its own steps only.
LEMMA JobChanges ==
    ASSUME TypeOK, [Next]_vars, NEW k \in Job, job'[k] # job[k]
    PROVE  \/ Send(k) \/ Relaunch(k)
           \/ \E r \in Rank, d \in Name, t \in Types : Migrate(k, r, d, t)
<1>1. ASSUME NEW m \in Job, Send(m) \/ Relaunch(m), m # k PROVE FALSE
  BY <1>1, JobMoves
<1>2. ASSUME NEW m \in Job, NEW r \in Rank, NEW d \in Name, NEW t \in Types, Migrate(m, r, d, t), m # k
      PROVE  FALSE
  BY <1>2, MigrateIs
<1>. QED
  BY <1>1, <1>2, Others

LEMMA EndedKept ==
    ASSUME TypeOK, [Next]_vars, NEW k \in Job, job[k].pc \in Ended
    PROVE  job'[k] = job[k]
<1>1. ~ (Send(k) \/ Relaunch(k))
  BY JobMoves
<1>2. ASSUME NEW r \in Rank, NEW d \in Name, NEW t \in Types, Migrate(k, r, d, t) PROVE FALSE
  <2>1. job[k].pc = "new"
    BY <1>2, MigrateIs DEF Job
  <2>. QED
    BY <2>1 DEF Ended
<1>. QED
  BY <1>1, <1>2, JobChanges

\* Once a checkpoint directory is there, it stays.
LEMMA ImageGrows ==
    ASSUME Inv, SendInv, [Next]_vars, NEW h \in Host, NEW r \in Rank, NEW g \in Gen, image[h][r][g] # Absent
    PROVE  image'[h][r][g] # Absent
<1>1. ASSUME NEW m \in Job, SendFiles(m), r = job[m].rank, g = job[m].gen
      PROVE  image[job[m].src][r][g] # Absent
  BY <1>1 DEF SendInv, SendFiles
<1>. QED
  BY <1>1, ImageStep

LEMMA StrandedKept ==
    ASSUME TypeOK, [Next]_vars
    PROVE  \A r : Stranded(r) => Stranded(r)'
<1>. SUFFICES ASSUME NEW r, Stranded(r) PROVE Stranded(r)'
  OBVIOUS
<1>1. PICK k \in Job : job[k].rank = r /\ job[k].pc = "failed"
  BY DEF Stranded
<1>2. job'[k] = job[k]
  BY <1>1, EndedKept DEF Ended
<1>. QED
  BY <1>1, <1>2 DEF Stranded
-----------------------------------------------------------------------------
LEMMA StrandStep ==
    ASSUME OneName, Inv, Serving, ~ Fault, [Next]_vars
    PROVE  StrandInv'
<1>. USE DEF Serving
<1>1. ASSUME NEW k \in Job, job[k].pc = "failed"
      PROVE  /\ job'[k] = job[k]
             /\ At(job[k].rank)' = {}
             /\ location'[job[k].rank] = location[job[k].rank] /\ location[job[k].rank] # NoName
             /\ \A m \in Job : waiting' = m /\ job'[m].rank = job[k].rank =>
                    job'[m].pc \in {"called", "dump", "failed"}
  <2>1. job'[k] = job[k] /\ job[k].rank \in Rank
    BY <1>1, EndedKept DEF Ended, Inv, JobOK, Started
  <2>2. /\ At(job[k].rank) = {} /\ location[job[k].rank] # NoName /\ run[job[k].rank].pc = "done"
        /\ \A m \in Job : waiting = m /\ job[m].rank = job[k].rank =>
                job[m].pc \in {"called", "dump", "failed"}
    BY <1>1, <2>1 DEF StrandInv, SerialInv, LaunchInv
  <2>3. At(job[k].rank)' = {}
    <3>0. PICK r \in Rank : r = job[k].rank
      BY <2>1
    <3>1. ~ Begins(r)
      BY <2>2, <3>0 DEF Begins
    <3>2. ~ Resumes(r)
      BY <2>2, <3>0 DEF Resumes, SerialInv, OneJob, Active, Ended
    <3>3. Stays(r)
      BY <3>1, <3>2, AtStep DEF SerialInv
    <3>4. At(r)' = {}
      BY <2>2, <3>0, <3>3 DEF Stays
    <3>. QED
      BY <2>1, <3>0, <3>4 DEF At
  <2>4. location'[job[k].rank] = location[job[k].rank]
    <3>0. location \in [Rank -> Name \cup {NoName}]
      BY DEF Inv, TypeOK
    <3>1. ASSUME NEW r \in Rank, RegisterContainer(r) PROVE location'[job[k].rank] = location[job[k].rank]
      BY <2>1, <2>2, <3>0, <3>1 DEF RegisterContainer, Set
    <3>2. ASSUME NEW m \in Job, Return(m) PROVE location'[job[k].rank] = location[job[k].rank]
      BY <2>1, <2>2, <3>0, <3>2 DEF Return, Set
    <3>3. ASSUME NEW m \in Job, Send(m) \/ Relaunch(m) PROVE UNCHANGED location
      BY <3>3, JobMoves DEF Inv
    <3>4. ASSUME NEW r \in Rank, (\E h \in Host : Create(r, h)) \/ Launch(r) \/ LaunchFails(r)
          PROVE  UNCHANGED location
      BY <3>4 DEF Create, Launch, LaunchFails
    <3>5. ASSUME NEW m \in Job, LoseDonor(m) \/ \E r \in Rank, d \in Name, t \in Types : Migrate(m, r, d, t)
          PROVE  UNCHANGED location
      BY <3>5 DEF LoseDonor, Migrate
    <3>. QED
      BY <3>1, <3>2, <3>3, <3>4, <3>5, Others
  <2>5. ASSUME NEW m \in Job, waiting' = m, job'[m].rank = job[k].rank
        PROVE  job'[m].pc \in {"called", "dump", "failed"}
    <3>1. CASE waiting = m /\ job'[m] = job[m]
      BY <2>2, <2>5, <3>1
    <3>2. ASSUME Send(m) \/ Relaunch(m) PROVE job'[m].pc \in {"called", "dump", "failed"}
      <4>1. job[m].pc \in {"called", "dump"} /\ ~ Dump(m)
        <5>1. /\ waiting = m /\ job[m].rank = job[k].rank /\ job[m].src \in Host
              /\ job[m].pc \notin Ended
          BY <2>5, <3>2, Busy, JobMoves DEF Inv
        <5>. QED
          BY <2>2, <5>1 DEF Ended, Dump, At
      <4>2. Lock(m) \/ DumpFails(m)
        BY <3>2, <4>1 DEF Send, Relaunch, Connect, SendImageInfo, SendFiles, SendFails, Delete, Load, LoadFails,
                          Restore, RestoreFails
      <4>. QED
        BY <3>2, <4>2, JobIs DEF Inv
    <3>3. ASSUME NEW n \in Job, NEW r \in Rank, NEW d \in Name, NEW t \in Types, Migrate(n, r, d, t)
          PROVE  job'[m].pc = "called"
      BY <2>5, <3>3, MigrateIs DEF Inv
    <3>4. waiting # m => \E n \in Job, r \in Rank, d \in Name, t \in Types : Migrate(n, r, d, t)
      <4>1. ASSUME NEW n \in Job, Return(n) \/ LoseDonor(n) PROVE FALSE
        BY <2>5, <4>1 DEF Return, LoseDonor, NoJob, Job
      <4>2. ASSUME NEW n \in Job, Send(n) \/ Relaunch(n) PROVE UNCHANGED waiting
        BY <4>2, JobMoves DEF Inv
      <4>. QED
        BY <2>5, <4>1, <4>2, Others
    <3>. QED
      BY <3>1, <3>2, <3>3, <3>4, JobChanges DEF Inv
  <2>. QED
    BY <2>1, <2>2, <2>3, <2>4, <2>5
<1>2. ASSUME NEW k \in Job, job'[k].pc = "failed", job[k].pc # "failed"
      PROVE  /\ At(job[k].rank)' = {}
             /\ job'[k].rank = job[k].rank
             /\ location'[job[k].rank] # NoName
             /\ \A m \in Job : waiting' = m => job'[m].pc = "failed"
  <2>1. Send(k) \/ Relaunch(k)
    BY <1>2, JobChanges, MigrateIs DEF Inv
  <2>2. /\ waiting = k /\ job[k].rank \in Rank /\ location[job[k].rank] # NoName
        /\ UNCHANGED <<location, waiting>> /\ job'[k].rank = job[k].rank
    BY <2>1, Busy, JobMoves, NameAssumption DEF Inv
  <2>3. DumpFails(k) \/ LoadFails(k) \/ RestoreFails(k)
    BY <1>2, <2>1, FailedBy, QuietFails DEF Inv
  <2>4. At(job[k].rank) = {}
    <3>1. CASE DumpFails(k)
      BY <2>1, <3>1, QuietFails DEF Stranded, StrandInv
    <3>2. CASE LoadFails(k) \/ RestoreFails(k)
      BY <3>2 DEF LoadFails, RestoreFails, SerialInv, TypeInv, Active, Ended, FrozenInv, Frozen
    <3>. QED
      BY <2>3, <3>1, <3>2
  <2>5. UNCHANGED proc
    BY <2>3 DEF DumpFails, LoadFails, RestoreFails, procVars
  <2>. QED
    BY <1>2, <2>2, <2>4, <2>5 DEF At
<1>3. ASSUME NEW k \in Job, job'[k].pc = "failed"
      PROVE  /\ At(job[k].rank)' = {}
             /\ job'[k].rank = job[k].rank
             /\ location'[job'[k].rank] # NoName
             /\ \A m \in Job : waiting' = m /\ job'[m].rank = job'[k].rank =>
                    job'[m].pc \in {"called", "dump", "failed"}
  <2>1. CASE job[k].pc = "failed"
    BY <1>1, <2>1
  <2>2. CASE job[k].pc # "failed"
    BY <1>2, <1>3, <2>2
  <2>. QED
    BY <2>1, <2>2
<1>. QED
  BY <1>3 DEF StrandInv

LEMMA SendStep ==
    ASSUME OneName, Inv, Serving, ~ Fault, [Next]_vars
    PROVE  SendInv'
<1>. USE DEF Serving
<1>0. /\ state \in [Host -> SUBSET Rank] /\ image \in [Host -> [Rank -> [Gen -> Contents]]]
      /\ reg \in [Host -> [Rank -> Containers]] /\ work \in [Rank -> Nat]
      /\ \A m \in Job : job[m].gen \in Nat
  BY DEF Inv, TypeOK, Jobs
<1>1. \A h \in Host : ~ unfinished'[h]
  <2>1. ASSUME NEW m \in Job, Send(m) \/ Relaunch(m) PROVE UNCHANGED unfinished
    BY <2>1, QuietFails
       DEF Send, Relaunch, Lock, Dump, DumpFails, Connect, SendImageInfo, SendFiles, Delete, Load, LoadFails,
           Restore, RestoreFails, nodeVars
  <2>2. ASSUME NEW r \in Rank, Run(r) \/ LaunchFails(r) PROVE UNCHANGED unfinished
    BY <2>2 DEF Run, Create, Launch, RegisterContainer, LaunchFails, nodeVars
  <2>3. ASSUME NEW m \in Job, \/ Return(m) \/ LoseDonor(m)
                              \/ \E r \in Rank, d \in Name, t \in Types : Migrate(m, r, d, t)
        PROVE  UNCHANGED unfinished
    BY <2>3 DEF Return, LoseDonor, Migrate, nodeVars
  <2>4. ASSUME NEW h \in Host, NEW r \in Rank, Compute(h, r) PROVE UNCHANGED unfinished
    BY <2>4 DEF Compute, nodeVars
  <2>5. UNCHANGED vars => UNCHANGED unfinished
    BY DEF vars, nodeVars
  <2>6. UNCHANGED unfinished
    BY <2>1, <2>2, <2>3, <2>4, <2>5 DEF Next
  <2>. QED
    BY <2>6 DEF SendInv
<1>2. ASSUME NEW m \in Job, waiting' = m PROVE job'[m].dest # location'[job'[m].rank]
  <2>1. ASSUME NEW k \in Job, NEW r \in Rank, NEW d \in Name, NEW t \in Types, Migrate(k, r, d, t)
        PROVE  job'[m].dest # location'[job'[m].rank]
    BY <1>2, <2>1 DEF Migrate, NewJob, Inv, TypeOK
  <2>2. ASSUME NEW k \in Job, Send(k) \/ Relaunch(k) PROVE job'[m].dest # location'[job'[m].rank]
    BY <1>2, <2>2, JobMoves DEF Inv, SendInv
  <2>3. ASSUME NEW k \in Job, Return(k) \/ LoseDonor(k) PROVE FALSE
    BY <1>2, <2>3 DEF Return, LoseDonor, NoJob, Job
  <2>4. ASSUME NEW r \in Rank, (\E h \in Host : Create(r, h)) \/ Launch(r) \/ LaunchFails(r)
        PROVE  job'[m].dest # location'[job'[m].rank]
    BY <1>2, <2>4 DEF Create, Launch, LaunchFails, SendInv
  <2>5. ASSUME NEW r \in Rank, RegisterContainer(r) PROVE FALSE
    BY <1>2, <2>5 DEF RegisterContainer, NoJob, Job
  <2>6. UNCHANGED <<location, waiting, job>> => job'[m].dest # location'[job'[m].rank]
    BY <1>2 DEF SendInv
  <2>. QED
    BY <2>1, <2>2, <2>3, <2>4, <2>5, <2>6, Others
<1>3. ASSUME NEW m \in Job, job'[m].pc \in {"connect", "info", "files"}
      PROVE  image'[job'[m].src][job'[m].rank][job'[m].gen] # Absent
  <2>1. CASE Dump(m)
    <3>1. /\ job[m].pc = "dump" /\ job[m].rank \in Rank /\ job[m].src \in Host
          /\ job'[m].gen = reg[job[m].src][job[m].rank].next
          /\ job'[m].rank = job[m].rank /\ job'[m].src = job[m].src
      BY <2>1, Busy, JobIs, JobMoves DEF Inv, Dump, Send
    <3>2. reg[job[m].src][job[m].rank] # NoCont
      BY <3>1 DEF Inv, MutexInv, SendHoldsContainer, Sending
    <3>3. reg[job[m].src][job[m].rank].next \in Nat
      BY <1>0, <3>1, <3>2 DEF Containers
    <3>4. reg[job[m].src][job[m].rank].next <= 2 * m - 1
      BY <3>1, <3>2, <3>3, BoundAssumption DEF SerialInv, GenInv, Job
    <3>5. PICK g \in Gen : g = reg[job[m].src][job[m].rank].next
      BY <3>3, <3>4, BoundAssumption DEF Gen, Job
    <3>6. image' = [image EXCEPT ![job[m].src][job[m].rank][g] = work[job[m].rank]]
      BY <2>1, <3>5 DEF Dump
    <3>7. work[job[m].rank] # Absent
      BY <1>0, <3>1, ContentAssumption
    <3>. QED
      BY <1>0, <3>1, <3>5, <3>6, <3>7, SMTT(30)
  <2>2. CASE ~ Dump(m)
    <3>1. /\ job[m].pc \in {"connect", "info", "files"}
          /\ job'[m].src = job[m].src /\ job'[m].rank = job[m].rank /\ job'[m].gen = job[m].gen
      <4>1. CASE job'[m] = job[m]
        BY <1>3, <4>1
      <4>2. CASE Send(m) \/ Relaunch(m)
        <5>1. job'[m].src = job[m].src /\ job'[m].rank = job[m].rank /\ job'[m].gen = job[m].gen
          BY <2>2, <4>2, JobMoves, JobIs DEF Inv
        <5>2. Connect(m) \/ SendImageInfo(m)
          BY <1>3, <2>2, <4>2, JobIs DEF Inv, Send, Relaunch
        <5>. QED
          BY <5>1, <5>2 DEF Connect, SendImageInfo
      <4>3. ASSUME NEW r \in Rank, NEW d \in Name, NEW t \in Types, Migrate(m, r, d, t) PROVE FALSE
        BY <1>3, <4>3, MigrateIs DEF Inv
      <4>. QED
        BY <4>1, <4>2, <4>3, JobChanges DEF Inv
    <3>2. job[m].src \in Host /\ job[m].rank \in Rank
      BY <3>1 DEF Inv, JobOK, Started
    <3>3. job[m].gen \in Gen
      <4>1. job[m].gen <= 2 * m - 1
        BY <3>1 DEF SerialInv, GenInv
      <4>. QED
        BY <1>0, <4>1, BoundAssumption DEF Gen, Job
    <3>4. image[job[m].src][job[m].rank][job[m].gen] # Absent
      BY <3>1 DEF SendInv
    <3>5. image'[job[m].src][job[m].rank][job[m].gen] # Absent
      BY <3>2, <3>3, <3>4, ImageGrows
    <3>. QED
      BY <3>1, <3>5
  <2>. QED
    BY <2>1, <2>2
<1>4. ASSUME NEW m \in Job, job'[m].pc = "relaunch" PROVE job'[m].rank \in state'[Dest(m)']
  <2>1. CASE SendFiles(m)
    <3>1. job[m].rank \in Rank /\ Dest(m) \in Host /\ job'[m].rank = job[m].rank /\ job'[m].dest = job[m].dest
      BY <2>1, Busy, JobMoves DEF Inv, SendFiles, Send
    <3>2. state' = [state EXCEPT ![Dest(m)] = @ \cup {job[m].rank}]
      BY <2>1 DEF SendFiles, Dest
    <3>. QED
      BY <1>0, <3>1, <3>2 DEF Dest
  <2>2. CASE ~ SendFiles(m)
    <3>1. job'[m] = job[m]
      <4>1. ~ (Send(m) \/ Relaunch(m))
        BY <1>4, <2>2, JobIs DEF Inv, Send, Relaunch
      <4>2. ASSUME NEW r \in Rank, NEW d \in Name, NEW t \in Types, Migrate(m, r, d, t) PROVE FALSE
        BY <1>4, <4>2, MigrateIs DEF Inv
      <4>. QED
        BY <4>1, <4>2, JobChanges DEF Inv
    <3>2. /\ Active(m) /\ job[m].pc = "relaunch" /\ job[m].rank \in state[Dest(m)]
          /\ job[m].rank \in Rank /\ Dest(m) \in Host
      BY <1>4, <3>1 DEF SendInv, Active, Ended, Inv, JobOK, Started, Dest
    <3>3. ASSUME NEW k \in Job, Send(k) \/ Relaunch(k) PROVE UNCHANGED state
      <4>1. k = m
        BY <3>2, <3>3, Busy
      <4>. QED
        BY <3>2, <3>3, <4>1
           DEF Send, Relaunch, Lock, Dump, DumpFails, Connect, SendImageInfo, SendFiles, SendFails, Delete,
               Load, LoadFails, Restore, RestoreFails, nodeVars
    <3>4. ASSUME NEW r \in Rank, NEW h \in Host, Create(r, h) PROVE \A n \in Host : state[n] \subseteq state'[n]
      <4>1. state \in [Host -> SUBSET Rank]
        BY <1>0 DEF TypeOK, Inv
      <4>2. \/ UNCHANGED state
            \/ state' = [state EXCEPT ![h] = @ \cup {r}]
        BY <3>4 DEF Create
      <4>. QED
        BY <4>1, <4>2
    <3>5. ASSUME NEW r \in Rank, Launch(r) \/ RegisterContainer(r) \/ LaunchFails(r) PROVE UNCHANGED state
      BY <3>5 DEF Launch, RegisterContainer, LaunchFails, nodeVars
    <3>6. ASSUME NEW k \in Job, \/ Return(k) \/ LoseDonor(k)
                                \/ \E r \in Rank, d \in Name, t \in Types : Migrate(k, r, d, t)
          PROVE  UNCHANGED state
      BY <3>6 DEF Return, LoseDonor, Migrate, nodeVars
    <3>7. ASSUME NEW h \in Host, NEW r \in Rank, Compute(h, r) PROVE UNCHANGED state
      BY <3>7 DEF Compute, nodeVars
    <3>8. UNCHANGED vars => UNCHANGED state
      BY DEF vars, nodeVars
    <3>9. \A n \in Host : state[n] \subseteq state'[n]
      BY <3>3, <3>4, <3>5, <3>6, <3>7, <3>8 DEF Next, Run
    <3>. QED
      BY <3>1, <3>2, <3>9 DEF Dest
  <2>. QED
    BY <2>1, <2>2
<1>. QED
  BY <1>1, <1>2, <1>3, <1>4 DEF SendInv, Dest

LEMMA HomeStep ==
    ASSUME OneName, Inv, Serving, ~ Fault, [Next]_vars, \A m \in Job : ~ LoseDonor(m)
    PROVE  HomeInv'
<1>. USE DEF Serving
<1>0. /\ reg \in [Host -> [Rank -> Containers]] /\ run \in [Rank -> Runs]
      /\ location \in [Rank -> Name \cup {NoName}] /\ NoName \notin Name /\ NoJob \notin Job
  BY NameAssumption DEF Inv, TypeOK, NoJob, Job
<1>1. \A m \in Job : job[m].pc \in {"restore", "delete"} => waiting = m
  BY DEF SerialInv, OneJob, Active, Ended
<1>2. \A m \in Job : waiting = m /\ Moved(m) => job[m].rank \in Rank /\ run[job[m].rank].pc = "done"
  BY DEF Moved, Inv, JobOK, Started, SerialInv, LaunchInv
<1>3. \A m \in Job : Arrived(m) => job[m].rank \in Rank /\ run[job[m].rank].pc = "done"
  BY <1>2 DEF Arrived, Inv, JobOK, Started, SerialInv, LaunchInv
<1>stranded. \A r : Stranded(r) => Stranded(r)'
  BY StrandedKept DEF Inv
<1>4. CASE UNCHANGED <<location, waiting, job, run, reg>>
  BY <1>4, <1>stranded DEF HomeInv, Home, Arrived, Moved, Dest
<1>5. ASSUME NEW r \in Rank, NEW h \in Host, Create(r, h) PROVE HomeInv'
  <2>1. /\ run[r].pc = "new" /\ UNCHANGED <<location, waiting, job>>
        /\ \A q \in Rank \ {r} : run'[q] = run[q] /\ \A n \in Host : reg'[n][q] = reg[n][q]
    BY <1>0, <1>5 DEF Create
  <2>2. \A n \in Host : ~ Home(r, n)
    BY <1>3, <2>1 DEF Home, SerialInv, LaunchInv
  <2>3. \A n \in Host : reg[n][r] = NoCont
    BY <2>1, <2>2 DEF HomeInv, Stranded, StrandInv, SerialInv, LaunchInv
  <2>4. ASSUME NEW n \in Host, reg'[n][r] # NoCont PROVE run'[r].pc = "created" /\ run'[r].at = n
    BY <1>0, <1>5, <2>3, <2>4 DEF Create
  <2>5. ASSUME NEW q \in Rank, NEW n \in Host, reg'[n][q] # NoCont PROVE Home(q, n)' \/ Stranded(q)'
    <3>1. CASE q = r
      BY <2>4, <2>5, <3>1 DEF Home
    <3>2. CASE q # r
      <4>1. Home(q, n) \/ Stranded(q)
        BY <2>1, <2>5, <3>2 DEF HomeInv
      <4>. QED
        BY <2>1, <3>2, <4>1, <1>stranded DEF Home, Arrived, Moved, Dest
    <3>. QED
      BY <3>1, <3>2
  <2>. QED
    BY <2>5 DEF HomeInv
<1>6. ASSUME NEW r \in Rank, Launch(r) \/ LaunchFails(r) PROVE HomeInv'
  <2>1. /\ run[r].pc = "created" /\ run'[r].pc \in {"launched", "failed"} /\ run'[r].at = run[r].at
        /\ UNCHANGED <<location, waiting, job, reg>> /\ \A q \in Rank \ {r} : run'[q] = run[q]
    BY <1>0, <1>6 DEF Launch, LaunchFails, nodeVars, Runs
  <2>2. ASSUME NEW q \in Rank, NEW n \in Host, Home(q, n) PROVE Home(q, n)'
    BY <2>1, <2>2 DEF Home, Arrived, Moved, Dest
  <2>. QED
    BY <2>1, <2>2, <1>stranded DEF HomeInv
<1>7. ASSUME NEW r \in Rank, RegisterContainer(r) PROVE HomeInv'
  <2>1. /\ waiting = NoJob /\ UNCHANGED <<waiting, job, reg>> /\ run[r].pc = "launched"
        /\ \A q \in Rank \ {r} : run'[q] = run[q] /\ location'[q] = location[q]
        /\ location'[r] = hostname[run[r].at]
    BY <1>0, <1>7 DEF RegisterContainer, Set, nodeVars
  <2>2. run[r].at \in Host /\ location'[r] # NoName /\ nodeOf[location'[r]] = run[r].at
    BY <1>0, <2>1, NameAssumption DEF Inv, PlaceOK
  <2>3. \A n \in Host : Home(r, n) => n = run[r].at
    BY <1>3, <2>1 DEF Home, SerialInv, LaunchInv
  <2>4. ASSUME NEW q \in Rank, NEW n \in Host, Home(q, n) PROVE Home(q, n)'
    <3>1. CASE q = r
      BY <1>0, <2>1, <2>2, <2>3, <2>4, <3>1 DEF Home
    <3>2. CASE q # r
      BY <2>1, <2>4, <3>2 DEF Home, Arrived, Moved, Dest
    <3>. QED
      BY <3>1, <3>2
  <2>. QED
    BY <2>1, <2>4, <1>stranded DEF HomeInv
<1>8. ASSUME NEW m \in Job, NEW r \in Rank, NEW d \in Name, NEW t \in Types, Migrate(m, r, d, t)
      PROVE  HomeInv'
  <2>1. /\ waiting = NoJob /\ waiting' = m /\ job'[m].pc = "called"
        /\ UNCHANGED <<location, run, reg>>
    BY <1>8, MigrateIs DEF Inv
  <2>2. \A k \in Job : ~ Arrived(k)
    BY <1>0, <1>1, <2>1 DEF Arrived
  <2>3. \A k \in Job : ~ (waiting' = k /\ Moved(k)')
    BY <2>1 DEF Moved
  <2>4. ASSUME NEW q \in Rank, NEW n \in Host, Home(q, n) PROVE Home(q, n)'
    BY <2>1, <2>2, <2>3, <2>4 DEF Home
  <2>. QED
    BY <2>1, <2>4, <1>stranded DEF HomeInv
<1>9. ASSUME NEW m \in Job, Send(m) \/ Relaunch(m) PROVE HomeInv'
  <2>1. /\ UNCHANGED <<location, waiting, run>> /\ \A k \in Job \ {m} : job'[k] = job[k]
        /\ job'[m].rank = job[m].rank /\ job'[m].src = job[m].src /\ job'[m].dest = job[m].dest
        /\ job'[m].type = job[m].type
    BY <1>9, JobMoves DEF Inv
  <2>2. /\ waiting = m /\ Active(m) /\ ~ Moved(m) /\ job[m].rank \in Rank /\ job[m].src \in Host
        /\ job[m].src = nodeOf[location[job[m].rank]]
        /\ \A k \in Job \ {m} : ~ Active(k) /\ waiting # k
    BY <1>9, Busy
  <2>3. ASSUME NEW q \in Rank, NEW n \in Host, Load(m), n = Dest(m), q = imageInfo[n].rank PROVE Home(q, n)'
    <3>1. job'[m].pc = "restore"
      BY <1>9, <2>3, JobIs DEF Inv
    <3>2. q = job[m].rank
      <4>1. job[m].pc = "relaunch"
        BY <2>3 DEF Load
      <4>2. imageInfo[Dest(m)] = [rank |-> job[m].rank, gen |-> job[m].gen]
        BY <4>1 DEF SerialInv, FrozenInv, Dest
      <4>. QED
        BY <2>3, <4>2
    <3>. QED
      BY <2>1, <2>3, <3>1, <3>2 DEF Home, Arrived, Dest
  <2>4. ASSUME Moved(m)' PROVE Delete(m) /\ \A n \in Host : n = job[m].src => reg'[n][job[m].rank] = NoCont
    <3>1. job'[m].pc = "done" /\ job[m].type # "PreDump"
      BY <2>1, <2>4 DEF Moved
    <3>2. Delete(m)
      BY <1>9, <3>1, JobIs DEF Inv, Send, Relaunch
    <3>. QED
      BY <1>0, <2>2, <3>2 DEF Delete
  <2>5. ASSUME NEW q \in Rank, NEW n \in Host, Home(q, n), reg'[n][q] # NoCont
        PROVE  Home(q, n)' \/ Stranded(q)'
    <3>1. CASE run[q].pc \in {"created", "launched", "failed"} /\ n = run[q].at
      BY <2>1, <3>1 DEF Home
    <3>2. CASE location[q] # NoName /\ n = nodeOf[location[q]]
      <4>1. SUFFICES ASSUME NEW k \in Job, waiting' = k, Moved(k)', job'[k].rank = q PROVE FALSE
        BY <2>1, <3>2 DEF Home
      <4>2. k = m
        BY <2>1, <2>2, <4>1
      <4>. QED
        BY <2>1, <2>2, <2>4, <2>5, <3>2, <4>1, <4>2
    <3>3. ASSUME NEW k \in Job, job[k].rank = q, Arrived(k), n = Dest(k) PROVE Home(q, n)' \/ Stranded(q)'
      <4>1. k = m /\ job[m].pc \in {"restore", "delete"}
        BY <1>1, <2>2, <3>3 DEF Arrived
      <4>2. Restore(m) \/ Delete(m) \/ RestoreFails(m)
        BY <1>9, <4>1, QuietFails
           DEF Send, Relaunch, Lock, Dump, DumpFails, Connect, SendImageInfo, SendFiles, Load, LoadFails
      <4>3. ASSUME RestoreFails(m) PROVE Stranded(q)'
        BY <1>9, <2>1, <3>3, <4>1, <4>3, JobIs DEF Inv, Stranded
      <4>4. Arrived(m)' \/ RestoreFails(m)
        <5>1. CASE Restore(m)
          BY <1>9, <5>1, JobIs DEF Inv, Arrived
        <5>2. CASE Delete(m)
          <6>1. job'[m].pc = "done" /\ job[m].pc = "delete"
            BY <1>9, <5>2, JobIs DEF Inv, Delete
          <6>2. job[m].type # "PreDump"
            BY <6>1 DEF SerialInv, TypeInv, Active, Ended
          <6>. QED
            BY <2>1, <2>2, <6>1, <6>2 DEF Arrived, Moved
        <5>. QED
          BY <4>2, <5>1, <5>2
      <4>. QED
        BY <2>1, <3>3, <4>1, <4>3, <4>4 DEF Home, Dest
    <3>. QED
      BY <2>5, <3>1, <3>2, <3>3 DEF Home
  <2>6. ASSUME NEW q \in Rank, NEW n \in Host, reg'[n][q] # NoCont PROVE Home(q, n)' \/ Stranded(q)'
    <3>1. reg[n][q] # NoCont \/ (Load(m) /\ n = Dest(m) /\ q = imageInfo[n].rank)
      BY <1>9, <2>6, RegIs DEF Dest
    <3>2. CASE reg[n][q] # NoCont
      <4>1. Home(q, n) \/ Stranded(q)
        BY <3>2 DEF HomeInv
      <4>. QED
        BY <2>5, <2>6, <4>1, <1>stranded
    <3>. QED
      BY <2>3, <3>1, <3>2
  <2>. QED
    BY <2>6 DEF HomeInv
<1>10. ASSUME NEW m \in Job, Return(m) PROVE HomeInv'
  <2>1. waiting = m /\ waiting' = NoJob /\ UNCHANGED <<job, run, reg>> /\ job[m].pc \in Ended
    BY <1>10 DEF Return, nodeVars
  <2>2. \A k \in Job : Arrived(k) => k = m /\ Moved(m)
    BY <1>1, <2>1 DEF Arrived, Ended
  <2>3. /\ Moved(m) => location' = [location EXCEPT ![job[m].rank] = job[m].dest]
        /\ ~ Moved(m) => UNCHANGED location
    BY <1>10 DEF Return, Moved, Set
  <2>4. job[m].rank \in Rank /\ job[m].dest \in Name
    BY <2>1 DEF Inv, JobOK, Started, Ended
  <2>5. ASSUME NEW q \in Rank, NEW n \in Host, Home(q, n) PROVE Home(q, n)'
    <3>1. CASE run[q].pc \in {"created", "launched", "failed"} /\ n = run[q].at
      BY <2>1, <3>1 DEF Home
    <3>2. CASE /\ location[q] # NoName /\ n = nodeOf[location[q]]
               /\ ~ \E k \in Job : waiting = k /\ Moved(k) /\ job[k].rank = q
      <4>1. location'[q] = location[q]
        BY <1>0, <2>1, <2>3, <2>4, <3>2
      <4>. QED
        BY <1>0, <2>1, <3>2, <4>1 DEF Home
    <3>3. ASSUME NEW k \in Job, job[k].rank = q, Arrived(k), n = Dest(k) PROVE Home(q, n)'
      <4>1. k = m /\ Moved(m)
        BY <2>2, <3>3
      <4>2. location'[q] = job[m].dest
        BY <1>0, <2>3, <2>4, <3>3, <4>1
      <4>. QED
        BY <1>0, <2>1, <2>4, <3>3, <4>1, <4>2 DEF Home, Dest
    <3>. QED
      BY <2>5, <3>1, <3>2, <3>3 DEF Home
  <2>. QED
    BY <2>1, <2>5, <1>stranded DEF HomeInv
<1>. QED
  BY <1>4, <1>5, <1>6, <1>7, <1>8, <1>9, <1>10, Others

\* A process keeps running unless the job that is under way is of its rank and
\* stops it.
LEMMA KeepsRunning ==
    ASSUME Inv, SerialInv, [Next]_vars, NEW r \in Rank, NEW h \in At(r)
    PROVE  \/ h \in At(r)'
           \/ \E m \in Job : /\ (Dump(m) /\ job[m].final) \/ Delete(m)
                             /\ waiting = m /\ job[m].rank = r /\ h = job[m].src
BY ProcStops, Busy DEF Send

LEMMA AliveStep ==
    ASSUME OneName, Inv, Serving, ~ Fault, [Next]_vars, \A m \in Job : ~ LoseDonor(m)
    PROVE  AliveInv'
<1>. USE DEF Serving
<1>0. /\ run \in [Rank -> Runs] /\ proc \in [Host -> [Rank -> {"none", "running", "stopped"}]]
      /\ location \in [Rank -> Name \cup {NoName}] /\ NoName \notin Name /\ NoJob \notin Job
      /\ \A r \in Rank : location[r] # NoName => nodeOf[location[r]] \in Host
  BY NameAssumption DEF Inv, TypeOK, NoJob, Job, PlaceOK
<1>1. ASSUME NEW r \in Rank, run'[r].pc = "launched" PROVE run'[r].at \in At(r)'
  <2>1. CASE Launch(r)
    <3>1. run[r].at \in Host /\ run'[r].at = run[r].at
      BY <1>0, <2>1 DEF Launch, Inv, PlaceOK, Runs
    <3>. QED
      BY <1>0, <2>1, <3>1 DEF Launch, At
  <2>2. CASE run'[r] = run[r]
    <3>1. \A m \in Job : (Dump(m) \/ Delete(m)) => job[m].rank # r
      BY <1>1, <2>2, Busy DEF Send
    <3>. QED
      BY <1>1, <2>2, <3>1, KeepsRunning DEF AliveInv
  <2>3. ASSUME NEW q \in Rank, (\E h \in Host : Create(q, h)) \/ Launch(q) \/ RegisterContainer(q) \/ LaunchFails(q)
        PROVE  Launch(r) \/ run'[r] = run[r]
    <3>1. CASE q # r
      BY <1>0, <2>3, <3>1 DEF Create, Launch, RegisterContainer, LaunchFails
    <3>2. CASE q = r
      <4>1. ASSUME NEW h \in Host, Create(r, h) PROVE run'[r].pc \in {"created", "failed"}
        BY <1>0, <4>1 DEF Create, Runs
      <4>2. ASSUME RegisterContainer(r) \/ LaunchFails(r) PROVE run'[r].pc \in {"done", "failed"}
        BY <1>0, <4>2 DEF RegisterContainer, LaunchFails, Runs
      <4>. QED
        BY <1>1, <2>3, <3>2, <4>1, <4>2
    <3>. QED
      BY <3>1, <3>2
  <2>4. ASSUME NEW m \in Job, \/ Send(m) \/ Relaunch(m)
                              \/ \E q \in Rank, d \in Name, t \in Types : Migrate(m, q, d, t)
        PROVE  UNCHANGED run
    BY <2>4, JobMoves, MigrateIs DEF Inv
  <2>. QED
    BY <2>1, <2>2, <2>3, <2>4, Others
<1>2. ASSUME NEW r \in Rank, location'[r] # NoName, ~ Coming(r)', ~ Stranded(r)'
      PROVE  nodeOf[location'[r]] \in At(r)'
  <2>1. ~ Stranded(r)
    BY <1>2, StrandedKept DEF Inv
  <2>2. ASSUME location'[r] = location[r], ~ Coming(r) PROVE nodeOf[location'[r]] \in At(r)'
    <3>1. nodeOf[location[r]] \in At(r)
      BY <1>2, <2>1, <2>2 DEF AliveInv
    <3>. QED
      BY <2>2, <3>1, KeepsRunning DEF Coming
  <2>3. ASSUME UNCHANGED <<waiting, job>> PROVE ~ Coming(r)
    BY <1>2, <2>3 DEF Coming
  <2>4. ASSUME NEW q \in Rank, RegisterContainer(q) PROVE nodeOf[location'[r]] \in At(r)'
    <3>1. UNCHANGED <<waiting, job>> /\ location' = [location EXCEPT ![q] = hostname[run[q].at]]
      BY <2>4 DEF RegisterContainer, Set
    <3>2. CASE q = r
      <4>1. run[r].pc = "launched" /\ run[r].at \in Host
        BY <2>4, <3>2 DEF RegisterContainer, Inv, PlaceOK
      <4>2. nodeOf[location'[r]] = run[r].at
        BY <1>0, <3>1, <3>2, <4>1, NameAssumption
      <4>3. run[r].at \in At(r) /\ UNCHANGED proc
        BY <2>4, <4>1 DEF AliveInv, RegisterContainer, procVars
      <4>. QED
        BY <4>2, <4>3 DEF At
    <3>3. CASE q # r
      BY <1>0, <2>2, <2>3, <3>1, <3>3
    <3>. QED
      BY <3>2, <3>3
  <2>5. ASSUME NEW q \in Rank, (\E h \in Host : Create(q, h)) \/ Launch(q) \/ LaunchFails(q)
        PROVE  UNCHANGED <<location, waiting, job>>
    BY <2>5 DEF Create, Launch, LaunchFails
  <2>6. ASSUME NEW m \in Job, NEW q \in Rank, NEW d \in Name, NEW t \in Types, Migrate(m, q, d, t)
        PROVE  UNCHANGED location /\ ~ Coming(r)
    BY <1>0, <2>6, MigrateIs DEF Coming, Inv
  <2>7. ASSUME NEW m \in Job, Send(m) \/ Relaunch(m) PROVE UNCHANGED location /\ ~ Coming(r)
    <3>1. /\ UNCHANGED <<location, waiting>> /\ job'[m].rank = job[m].rank
          /\ \A k \in Job \ {m} : job'[k] = job[k]
      BY <2>7, JobMoves DEF Inv
    <3>. QED
      BY <1>2, <3>1 DEF Coming
  <2>8. ASSUME NEW m \in Job, Return(m) PROVE nodeOf[location'[r]] \in At(r)'
    <3>1. /\ waiting = m /\ job[m].pc \in Ended /\ UNCHANGED <<job, proc>>
          /\ Moved(m) => location' = [location EXCEPT ![job[m].rank] = job[m].dest]
          /\ ~ Moved(m) => UNCHANGED location
      BY <2>8 DEF Return, Moved, Set, procVars
    <3>2. CASE r = job[m].rank
      <4>1. job[m].pc # "failed"
        BY <2>1, <3>2 DEF Stranded
      <4>2. CASE Moved(m)
        <5>1. Dest(m) \in At(r)
          BY <2>1, <3>1, <3>2, <4>2 DEF AliveInv, AtDest
        <5>2. location'[r] = job[m].dest
          BY <1>0, <3>1, <3>2, <4>2
        <5>. QED
          BY <3>1, <5>1, <5>2 DEF At, Dest
      <4>3. CASE ~ Moved(m)
        <5>1. AtSource(m)
          BY <3>1, <4>1, <4>3 DEF Moved, AtSource, Ended
        <5>2. nodeOf[location[r]] \in At(r)
          BY <2>1, <3>1, <3>2, <5>1 DEF AliveInv
        <5>. QED
          BY <3>1, <4>3, <5>2 DEF At
      <4>. QED
        BY <4>2, <4>3
    <3>3. CASE r # job[m].rank
      <4>1. location'[r] = location[r]
        BY <1>0, <3>1, <3>3
      <4>2. ~ Coming(r)
        BY <3>1, <3>3 DEF Coming
      <4>. QED
        BY <2>2, <4>1, <4>2
    <3>. QED
      BY <3>2, <3>3
  <2>. QED
    BY <2>2, <2>3, <2>4, <2>5, <2>6, <2>7, <2>8, Others
<1>3. ASSUME NEW m \in Job, waiting' = m, NEW r \in Rank, job'[m].rank = r, ~ Stranded(r)'
      PROVE  /\ AtSource(m)' => nodeOf[location'[r]] \in At(r)'
             /\ AtDest(m)' => Dest(m)' \in At(r)'
  <2>1. ~ Stranded(r)
    BY <1>3, StrandedKept DEF Inv
  <2>2. CASE Send(m) \/ Relaunch(m)
    <3>1. /\ waiting = m /\ job[m].rank = r /\ job[m].src = nodeOf[location[r]] /\ ~ Moved(m)
          /\ job[m].src \in Host /\ job[m].pc \notin Ended
          /\ UNCHANGED location /\ job'[m].dest = job[m].dest /\ job'[m].type = job[m].type
          /\ \A k \in Job : Dump(k) \/ Delete(k) => k = m
      BY <1>3, <2>2, Busy, JobMoves DEF Inv, Send
    <3>2. job[m].final \in BOOLEAN
      BY DEF Inv, TypeOK, Jobs
    <3>3. ASSUME AtSource(m)' PROVE AtSource(m) /\ ~ (Dump(m) /\ job[m].final) /\ ~ Delete(m)
      <4>1. CASE Lock(m)
        BY <4>1 DEF Lock, AtSource, Dump, Delete
      <4>2. CASE Dump(m)
        BY <2>2, <3>3, <4>2, JobIs DEF Inv, AtSource, Dump, Delete
      <4>3. CASE Connect(m) \/ SendImageInfo(m)
        <5>1. job[m].pc \in {"connect", "info"} /\ job'[m].pc \in {"info", "files"}
          BY <2>2, <4>3, JobIs DEF Inv, Connect, SendImageInfo
        <5>2. ~ Lock(m) /\ ~ SendFiles(m) /\ ~ Dump(m) /\ ~ Delete(m)
          BY <5>1 DEF Lock, SendFiles, Dump, Delete
        <5>3. job'[m].final = job[m].final
          BY <2>2, <5>2, JobIs DEF Inv
        <5>. QED
          BY <3>3, <5>1, <5>2, <5>3 DEF AtSource
      <4>4. CASE SendFiles(m)
        <5>1. /\ job[m].pc = "files" /\ ~ Dump(m) /\ ~ Delete(m)
              /\ job[m].type = "PreDump" => ~ job[m].final
          BY <4>4 DEF SendFiles, Dump, Delete, SerialInv, TypeInv, Active, Ended
        <5>2. \/ job[m].final /\ job'[m].pc = "relaunch"
              \/ ~ job[m].final
          BY <2>2, <4>4, <5>1, JobIs DEF Inv
        <5>. QED
          BY <3>3, <5>1, <5>2 DEF AtSource
      <4>5. CASE Load(m) \/ Restore(m)
        BY <2>2, <3>3, <4>5, JobIs DEF Inv, AtSource
      <4>6. CASE Delete(m)
        <5>1. job[m].pc = "delete" /\ job'[m].pc = "done"
          BY <2>2, <4>6, JobIs DEF Inv, Delete
        <5>2. job[m].type # "PreDump"
          BY <5>1 DEF SerialInv, TypeInv, Active, Ended
        <5>. QED
          BY <3>1, <3>3, <5>1, <5>2 DEF AtSource
      <4>7. CASE DumpFails(m) \/ SendFails(m) \/ LoadFails(m) \/ RestoreFails(m)
        BY <2>2, <3>3, <4>7, JobIs DEF Inv, AtSource
      <4>. QED
        BY <2>2, <4>1, <4>2, <4>3, <4>4, <4>5, <4>6, <4>7 DEF Send, Relaunch
    <3>4. ASSUME AtSource(m)' PROVE nodeOf[location'[r]] \in At(r)'
      <4>1. job[m].src \in At(r)
        BY <2>1, <3>1, <3>3, <3>4 DEF AliveInv
      <4>2. job[m].src \in At(r)'
        BY <3>1, <3>3, <3>4, <4>1, KeepsRunning
      <4>. QED
        BY <3>1, <4>2
    <3>5. ASSUME AtDest(m)' PROVE Restore(m) \/ Delete(m)
      <4>1. job'[m].pc = "delete" \/ (job'[m].pc = "done" /\ job[m].type # "PreDump")
        BY <3>1, <3>5 DEF AtDest, Moved
      <4>. QED
        BY <2>2, <4>1, JobIs DEF Inv, Send, Relaunch
    <3>6. ASSUME AtDest(m)' PROVE Dest(m) \in At(r)'
      <4>1. CASE Restore(m)
        <5>1. job[m].pc = "restore" /\ Resume(m) /\ Dest(m) \in Host
          BY <2>2, <4>1, Busy DEF Restore
        <5>2. job[m].loaded = r
          BY <3>1, <5>1 DEF SerialInv, FrozenInv
        <5>3. proc' = [proc EXCEPT ![Dest(m)][r] = "running"]
          BY <5>1, <5>2 DEF Resume, Dest
        <5>. QED
          BY <1>0, <5>1, <5>3 DEF At
      <4>2. CASE Delete(m)
        <5>1. job[m].pc = "delete"
          BY <4>2 DEF Delete
        <5>2. Dest(m) # job[m].src
          BY <5>1 DEF SerialInv, FrozenInv, Dest
        <5>3. Dest(m) \in At(r)
          BY <2>1, <3>1, <5>1 DEF AliveInv, AtDest
        <5>. QED
          BY <3>1, <5>2, <5>3, KeepsRunning
      <4>. QED
        BY <3>5, <3>6, <4>1, <4>2
    <3>. QED
      BY <3>1, <3>4, <3>6 DEF Dest
  <2>3. ASSUME NEW k \in Job, NEW q \in Rank, NEW d \in Name, NEW t \in Types, Migrate(k, q, d, t)
        PROVE  ~ AtDest(m)' /\ nodeOf[location'[r]] \in At(r)'
    <3>1. k = m /\ q = r /\ job'[m].pc = "called" /\ waiting = NoJob /\ location[r] # NoName /\ UNCHANGED <<location, proc>>
      BY <1>3, <2>3, MigrateIs DEF Inv
    <3>2. ~ Coming(r)
      BY <1>0, <3>1 DEF Coming
    <3>3. nodeOf[location[r]] \in At(r)
      BY <2>1, <3>1, <3>2 DEF AliveInv
    <3>. QED
      BY <3>1, <3>3 DEF AtDest, Moved, At
  <2>4. CASE /\ waiting = m /\ job'[m] = job[m] /\ location'[r] = location[r]
             /\ \A k \in Job : ~ Send(k)
    <3>1. /\ AtSource(m) => nodeOf[location[r]] \in At(r)
          /\ AtDest(m) => Dest(m) \in At(r)
      BY <1>3, <2>1, <2>4 DEF AliveInv
    <3>2. \A h \in At(r) : h \in At(r)'
      BY <2>4, KeepsRunning DEF Send
    <3>3. (AtSource(m)' => AtSource(m)) /\ (AtDest(m)' => AtDest(m)) /\ Dest(m)' = Dest(m)
      BY <2>4 DEF AtSource, AtDest, Moved, Dest
    <3>. QED
      BY <2>4, <3>1, <3>2, <3>3
  <2>5. ASSUME NEW k \in Job, Send(k) \/ Relaunch(k) PROVE k = m
    BY <1>3, <2>5, Busy, JobMoves DEF Inv
  <2>6. ASSUME NEW k \in Job, Return(k) PROVE FALSE
    BY <1>0, <1>3, <2>6 DEF Return
  <2>7. ASSUME NEW q \in Rank, (\E h \in Host : Create(q, h)) \/ Launch(q) \/ RegisterContainer(q) \/ LaunchFails(q)
        PROVE  UNCHANGED <<location, waiting, job>>
    BY <1>0, <1>3, <2>7 DEF Create, Launch, RegisterContainer, LaunchFails
  <2>8. \/ Send(m) \/ Relaunch(m)
        \/ \E k \in Job, q \in Rank, d \in Name, t \in Types : Migrate(k, q, d, t)
        \/ UNCHANGED <<location, waiting, job>> /\ \A k \in Job : ~ Send(k)
    BY <2>5, <2>6, <2>7, Others
  <2>9. CASE UNCHANGED <<location, waiting, job>> /\ \A k \in Job : ~ Send(k)
    BY <1>3, <2>4, <2>9
  <2>10. CASE \E k \in Job, q \in Rank, d \in Name, t \in Types : Migrate(k, q, d, t)
    BY <2>3, <2>10
  <2>. QED
    BY <2>2, <2>8, <2>9, <2>10
<1>4. ASSUME NEW m \in Job, waiting' = m PROVE job'[m].rank \in Rank
  <2>1. JobOK'
    BY JobStep DEF Inv
  <2>2. Started(m)'
    <3>1. OneJob'
      BY OneStep DEF Inv, SerialInv
    <3>. QED
      BY <1>0, <1>4, <3>1 DEF OneJob
  <2>. QED
    BY <2>1, <2>2 DEF JobOK
<1>5. ASSUME NEW m \in Job, waiting' = m, ~ Stranded(job[m].rank)'
      PROVE  /\ AtSource(m)' => nodeOf[location'[job'[m].rank]] \in At(job[m].rank)'
             /\ AtDest(m)' => Dest(m)' \in At(job[m].rank)'
  <2>1. PICK r \in Rank : r = job'[m].rank
    BY <1>4, <1>5
  <2>2. ~ Stranded(r)'
    BY <1>5, <2>1 DEF Stranded
  <2>. QED
    BY <1>3, <1>5, <2>1, <2>2 DEF At
<1>. QED
  BY <1>1, <1>2, <1>5 DEF AliveInv

LEMMA ServingInitially == Init => ServingInv
<1>. SUFFICES ASSUME Init PROVE Serving
  BY DEF ServingInv
<1>1. /\ \A m \in Job : job[m].pc = "new" /\ waiting # m
      /\ \A r \in Rank : location[r] = NoName /\ run[r].pc = "new"
      /\ \A h \in Host, r \in Rank : reg[h][r] = NoCont
      /\ \A h \in Host : ~ unfinished[h]
  BY DEF Init, NewJob, NoJob, Job
<1>2. HomeInv /\ SendInv /\ AliveInv /\ StrandInv
  BY <1>1 DEF HomeInv, SendInv, AliveInv, StrandInv, LacksParent
<1>. QED
  BY <1>2, SerialInitially DEF Serving

LEMMA ServingStep == ASSUME OneName, Inv, ServingInv, [Next]_vars PROVE ServingInv'
<1>. SUFFICES ASSUME faults' = 0 PROVE Serving'
  BY DEF ServingInv
<1>1. Serving /\ ~ Fault /\ \A m \in Job : ~ LoseDonor(m)
  BY QuietStep DEF ServingInv, Inv
<1>2. SerialInv'
  BY <1>1, SerialStep DEF Serving
<1>. QED
  BY <1>1, <1>2, HomeStep, SendStep, AliveStep, StrandStep DEF Serving

LEMMA ServingAlways == ASSUME OneName PROVE Spec => [](Inv /\ ServingInv)
<1>1. Init => Inv /\ ServingInv
  BY Initially, ServingInitially
<1>2. Inv /\ ServingInv /\ [Next]_vars => Inv' /\ ServingInv'
  BY ServingStep, TypeStep, JobStep, PlaceStep, MutexStep DEF Inv
<1>. QED
  BY <1>1, <1>2, PTL DEF Spec

\* A rank's first failure.
LEMMA FirstFails ==
    ASSUME OneName, Inv, ServingInv, [Next]_vars, NEW m \in Job, FailsFirst(m)
    PROVE  \/ RestoreFails(m) /\ LacksRootfs(m)
           \/ LoadFails(m) /\ LacksParent(m)
<1>1. Serving /\ ~ Fault
  BY QuietStep DEF FailsFirst, ServingInv, Inv
<1>2. job[m].pc # "failed" /\ job'[m].pc = "failed" /\ ~ Stranded(job[m].rank)
  BY DEF FailsFirst, Stranded
<1>3. Send(m) \/ Relaunch(m)
  BY <1>2, JobChanges, MigrateIs DEF Inv
<1>. QED
  BY <1>1, <1>2, <1>3, FailedBy, QuietFails DEF Inv

\* While nothing else fails, the first migration of a rank that fails was
\* refused by Load for lack of generation 0 or by the launch for lack of the
\* root file system, whatever was migrated before and between any number of
\* nodes: nothing else that a Send or a Relaunch needs is ever missing
\* (migrate.go:45-116, migrate-recipient.go:179-221, checkpoint.go:146,
\* image.go:198).
THEOREM OnlyParentIsMissing == ASSUME OneName PROVE Spec => OnlyParentLacks
<1>1. ASSUME Inv, ServingInv, [Next]_vars, NEW m \in Job, FailsFirst(m)
      PROVE  LacksRootfs(m) \/ LacksParent(m)
  BY <1>1, FirstFails
<1>2. Inv /\ ServingInv /\ [Next]_vars => [\A m \in Job : FailsFirst(m) => LacksRootfs(m) \/ LacksParent(m)]_vars
  BY <1>1
<1>. QED
  BY <1>2, ServingAlways, PTL DEF Spec, OnlyParentLacks
-----------------------------------------------------------------------------
(***************************************************************************)
(* Two nodes                                                               *)
(***************************************************************************)

\* Once a container has a checkpoint, both nodes have its generation 0, or a
\* job is about to send it.
Parented(r) == \A h \in Host : image[h][r][Parent] # Absent
Sends(m, r) == /\ job[m].rank = r /\ job[m].gen = Parent
               /\ job[m].pc \in {"connect", "info", "files"}
PairInv ==
    /\ \A m \in Job : job[m].pc \in {"connect", "info", "files", "relaunch"} =>
            reg[job[m].src][job[m].rank].next > 0
    /\ \A m \in Job : job[m].pc = "restore" => Parented(job[m].rank)
    /\ \A r \in Rank : Stranded(r) => Parented(r)
    /\ \A r \in Rank, h \in Host :
            reg[h][r] # NoCont /\ reg[h][r].next > 0 => Parented(r) \/ \E m \in Job : Sends(m, r)

LEMMA ParentedKept ==
    ASSUME Inv, SendInv, [Next]_vars, NEW r \in Rank, Parented(r)
    PROVE  Parented(r)'
<1>1. Parent \in Gen
  BY BoundAssumption DEF Parent, Gen
<1>. QED
  BY <1>1, ImageGrows DEF Parented

\* Load finds generation 0.
LEMMA PairLoads ==
    ASSUME Inv, SerialInv, PairInv, NEW m \in Job, Send(m) \/ Relaunch(m), job[m].pc = "relaunch"
    PROVE  Parented(job[m].rank)
<1>1. /\ job[m].src \in Host /\ job[m].rank \in Rank /\ reg[job[m].src][job[m].rank].next > 0
      /\ reg[job[m].src][job[m].rank] # NoCont
  BY Busy DEF PairInv, Inv, MutexInv, SendHoldsContainer, Sending
<1>2. \A k \in Job : ~ Sends(k, job[m].rank)
  BY Busy DEF Sends, Active, Ended
<1>. QED
  BY <1>1, <1>2 DEF PairInv

LEMMA PairFails ==
    ASSUME OneName, Inv, Serving, PairInv, ~ Fault, NEW m \in Job, Send(m) \/ Relaunch(m)
    PROVE  /\ ~ SendFails(m) /\ ~ LoadFails(m)
           /\ job'[m].pc = "failed" => Parented(job[m].rank)
<1>1. ~ SendFails(m) /\ (Lock(m) => job'[m].pc = "dump")
  BY QuietFails
<1>2. ASSUME LoadFails(m) PROVE FALSE
  <2>1. job[m].pc = "relaunch" /\ Dest(m) \in Host /\ image[Dest(m)][job[m].rank][Parent] = Absent
    BY <1>2, QuietFails, Busy DEF LoadFails, Serving, LacksParent, Dest
  <2>. QED
    BY <2>1, PairLoads DEF Parented, Serving
<1>3. ASSUME DumpFails(m) PROVE Parented(job[m].rank)
  BY <1>3, QuietFails, Busy DEF PairInv, Serving
<1>4. ASSUME RestoreFails(m) PROVE Parented(job[m].rank)
  BY <1>4 DEF PairInv, RestoreFails
<1>. QED
  BY <1>1, <1>2, <1>3, <1>4, FailedBy DEF Inv

LEMMA PairStep ==
    ASSUME OneName, Inv, Serving, PairInv, ~ Fault, [Next]_vars,
           NEW a \in Host, NEW b \in Host, Host = {a, b}
    PROVE  PairInv'
<1>. USE DEF Serving
<1>0. reg \in [Host -> [Rank -> Containers]] /\ image \in [Host -> [Rank -> [Gen -> Contents]]]
  BY DEF Inv, TypeOK
<1>1. ASSUME NEW r \in Rank, Stranded(r)' PROVE Parented(r)'
  <2>1. PICK k \in Job : job'[k].rank = r /\ job'[k].pc = "failed"
    BY <1>1 DEF Stranded
  <2>2. CASE job'[k] = job[k]
    BY <2>1, <2>2, ParentedKept DEF PairInv, Stranded
  <2>3. CASE job'[k] # job[k]
    <3>1. Send(k) \/ Relaunch(k)
      BY <2>1, <2>3, JobChanges, MigrateIs DEF Inv
    <3>. QED
      BY <2>1, <3>1, JobMoves, PairFails, ParentedKept DEF Inv
  <2>. QED
    BY <2>2, <2>3
<1>8. ASSUME NEW m \in Job, job'[m].pc = "restore", NEW r, r = job'[m].rank PROVE Parented(r)'
  <2>1. CASE job'[m] = job[m]
    <3>1. job[m].pc = "restore" /\ r = job[m].rank /\ r \in Rank
      BY <1>8, <2>1 DEF Inv, JobOK, Started
    <3>. QED
      BY <3>1, ParentedKept DEF PairInv
  <2>2. CASE job'[m] # job[m]
    <3>1. (Send(m) \/ Relaunch(m)) /\ job'[m].pc # "called"
      BY <1>8, <2>2, JobChanges, MigrateIs DEF Inv
    <3>2. Load(m) /\ r = job[m].rank /\ r \in Rank
      BY <1>8, <3>1, JobIs, JobMoves, Busy DEF Inv, Send, Relaunch
    <3>3. job[m].pc = "relaunch"
      BY <3>2 DEF Load
    <3>. QED
      BY <3>1, <3>2, <3>3, PairLoads, ParentedKept
  <2>. QED
    BY <2>1, <2>2
<1>2. \/ UNCHANGED reg
      \/ \E r \in Rank, h \in Host : Create(r, h) /\ UNCHANGED <<job, image>>
      \/ \E m \in Job : Send(m) \/ Relaunch(m)
  <2>1. ASSUME NEW r \in Rank, Launch(r) \/ RegisterContainer(r) \/ LaunchFails(r) PROVE UNCHANGED reg
    BY <2>1 DEF Launch, RegisterContainer, LaunchFails, nodeVars
  <2>2. ASSUME NEW m \in Job, NEW r \in Rank, NEW d \in Name, NEW t \in Types, Migrate(m, r, d, t)
        PROVE  UNCHANGED reg
    BY <2>2, MigrateIs DEF Inv
  <2>3. ASSUME NEW r \in Rank, NEW h \in Host, Create(r, h) PROVE UNCHANGED <<job, image>>
    BY <2>3 DEF Create
  <2>. QED
    BY <2>1, <2>2, <2>3, Others
<1>3. ASSUME NEW r \in Rank, NEW h \in Host, Create(r, h)
      PROVE  /\ run[r].pc = "new"
             /\ \A q \in Rank, n \in Host : reg'[n][q] # reg[n][q] => q = r /\ reg'[n][q].next = 0
  <2>1. run[r].pc = "new"
    BY <1>3 DEF Create
  <2>2. CASE UNCHANGED reg
    BY <2>1, <2>2
  <2>3. CASE reg' = [reg EXCEPT ![h][r] = [next |-> 0, gens |-> {}]]
    <3>1. reg'[h][r].next = 0
      BY <1>0, <2>3
    <3>2. \A q \in Rank, n \in Host : reg'[n][q] # reg[n][q] => q = r /\ n = h
      BY <1>0, <2>3
    <3>. QED
      BY <2>1, <3>1, <3>2
  <2>. QED
    BY <1>3, <2>2, <2>3 DEF Create
<1>4. ASSUME NEW m \in Job, job'[m].pc \in {"connect", "info", "files", "relaunch"}
      PROVE  reg'[job'[m].src][job'[m].rank].next > 0
  <2>1. CASE Dump(m)
    <3>1. /\ job[m].src \in Host /\ job[m].rank \in Rank
          /\ job'[m].src = job[m].src /\ job'[m].rank = job[m].rank
      BY <2>1, Busy, JobMoves DEF Inv, Send
    <3>2. reg[job[m].src][job[m].rank] # NoCont
      BY <2>1 DEF Dump, Inv, MutexInv, SendHoldsContainer, Sending
    <3>3. reg' = [reg EXCEPT ![job[m].src][job[m].rank] = WithCheckpoint(reg[job[m].src][job[m].rank])]
      BY <2>1 DEF Dump
    <3>4. reg[job[m].src][job[m].rank].next \in Nat
      BY <1>0, <3>1, <3>2 DEF Containers
    <3>. QED
      BY <1>0, <3>1, <3>3, <3>4 DEF WithCheckpoint
  <2>2. CASE ~ Dump(m)
    <3>1. /\ job[m].pc \in {"connect", "info", "files", "relaunch"}
          /\ job'[m].src = job[m].src /\ job'[m].rank = job[m].rank
          /\ job'[m] = job[m] \/ UNCHANGED reg
      <4>1. CASE job'[m] = job[m]
        BY <1>4, <4>1
      <4>2. CASE Send(m) \/ Relaunch(m)
        <5>1. job'[m].src = job[m].src /\ job'[m].rank = job[m].rank
          BY <4>2, JobMoves DEF Inv
        <5>2. Connect(m) \/ SendImageInfo(m) \/ SendFiles(m)
          BY <1>4, <2>2, <4>2, JobIs DEF Inv, Send, Relaunch
        <5>. QED
          BY <5>1, <5>2 DEF Connect, SendImageInfo, SendFiles, nodeVars
      <4>3. ASSUME NEW r \in Rank, NEW d \in Name, NEW t \in Types, Migrate(m, r, d, t) PROVE FALSE
        BY <1>4, <4>3, MigrateIs DEF Inv
      <4>. QED
        BY <4>1, <4>2, <4>3, JobChanges DEF Inv
    <3>2. /\ job[m].src \in Host /\ job[m].rank \in Rank /\ Active(m) /\ run[job[m].rank].pc = "done"
          /\ reg[job[m].src][job[m].rank].next > 0
      BY <3>1 DEF Active, Ended, Inv, JobOK, Started, SerialInv, LaunchInv, PairInv
    <3>3. ASSUME NEW k \in Job, Send(k) \/ Relaunch(k), job'[m] = job[m] PROVE FALSE
      <4>1. k = m /\ job'[m] = job[m]
        BY <3>2, <3>3, Busy
      <4>2. /\ Connect(m) => job[m].pc = "connect" /\ job'[m].pc = "info"
            /\ SendImageInfo(m) => job[m].pc = "info" /\ job'[m].pc = "files"
            /\ SendFiles(m) => job[m].pc = "files" /\ job'[m].pc # "files"
            /\ Load(m) => job'[m].pc = "restore"
        BY <3>3, <4>1, JobIs DEF Inv, Connect, SendImageInfo, SendFiles
      <4>3. Connect(m) \/ SendImageInfo(m) \/ SendFiles(m) \/ Load(m)
        BY <3>1, <3>3, <4>1, JobIs DEF Inv, Send, Relaunch, Lock, Dump, Delete, Restore
      <4>. QED
        BY <3>1, <4>1, <4>2, <4>3
    <3>4. CASE UNCHANGED reg
      BY <3>1, <3>2, <3>4
    <3>5. ASSUME NEW r \in Rank, NEW h \in Host, Create(r, h)
          PROVE  reg'[job[m].src][job[m].rank] = reg[job[m].src][job[m].rank]
      BY <1>3, <3>2, <3>5
    <3>. QED
      BY <1>2, <3>1, <3>2, <3>3, <3>4, <3>5
  <2>. QED
    BY <2>1, <2>2
<1>5. ASSUME NEW r \in Rank, NEW h \in Host, reg'[h][r] = reg[h][r], reg[h][r] # NoCont, reg[h][r].next > 0
      PROVE  Parented(r)' \/ \E m \in Job : Sends(m, r)'
  <2>1. CASE Parented(r)
    BY <2>1, ParentedKept
  <2>2. ASSUME NEW m \in Job, Sends(m, r) PROVE Parented(r)' \/ Sends(m, r)'
    <3>1. CASE job'[m] = job[m]
      BY <2>2, <3>1 DEF Sends
    <3>2. CASE Connect(m) \/ SendImageInfo(m)
      <4>1. ~ Dump(m) /\ (Send(m) \/ Relaunch(m))
        BY <3>2 DEF Connect, SendImageInfo, Dump, Send
      <4>2. job'[m].pc \in {"info", "files"} /\ job'[m].rank = job[m].rank /\ job'[m].gen = job[m].gen
        BY <3>2, <4>1, JobIs, JobMoves DEF Inv
      <4>. QED
        BY <2>2, <4>2 DEF Sends
    <3>3. CASE SendFiles(m)
      <4>1. /\ Send(m) /\ job[m].src \in Host /\ Dest(m) \in Host /\ Dest(m) # job[m].src
            /\ job[m].rank = r /\ job[m].gen = Parent
            /\ image[job[m].src][r][Parent] # Absent
        BY <2>2, <3>3, Busy DEF Send, SendFiles, SendInv, Dest, Sends
      <4>2. PICK g \in Gen, s \in Host, d \in Host :
                g = Parent /\ s = job[m].src /\ d = Dest(m) /\ s # d
        BY <4>1, BoundAssumption DEF Parent, Gen
      <4>3. image' = [image EXCEPT ![d][r][g] = image[s][r][g]]
        BY <3>3, <4>1, <4>2 DEF SendFiles, Dest
      <4>4. image'[d][r][g] # Absent /\ image'[s][r][g] # Absent
        BY <1>0, <4>1, <4>2, <4>3
      <4>5. \A n \in Host : n = s \/ n = d
        BY <4>2
      <4>6. \A n \in Host : image'[n][r][Parent] # Absent
        BY <4>2, <4>4, <4>5
      <4>. QED
        BY <4>6 DEF Parented, Parent
    <3>4. CASE Send(m) \/ Relaunch(m)
      <4>1. Connect(m) \/ SendImageInfo(m) \/ SendFiles(m)
        BY <2>2, <3>4, PairFails
           DEF Sends, Send, Relaunch, Lock, Dump, DumpFails, Delete, Load, LoadFails, Restore, RestoreFails
      <4>. QED
        BY <3>2, <3>3, <4>1
    <3>5. ASSUME NEW q \in Rank, NEW d \in Name, NEW t \in Types, Migrate(m, q, d, t) PROVE FALSE
      <4>1. job[m].pc = "new"
        BY <3>5, MigrateIs DEF Inv, Job
      <4>. QED
        BY <2>2, <4>1 DEF Sends
    <3>. QED
      BY <3>1, <3>4, <3>5, JobChanges DEF Inv
  <2>. QED
    BY <1>5, <2>1, <2>2 DEF PairInv
<1>6. ASSUME NEW r \in Rank, NEW h \in Host, reg'[h][r] # NoCont, reg'[h][r].next > 0, reg'[h][r] # reg[h][r]
      PROVE  Parented(r)' \/ \E m \in Job : Sends(m, r)'
  <2>1. PICK m \in Job : Send(m) \/ Relaunch(m)
    BY <1>2, <1>3, <1>6
  <2>2. CASE /\ Dump(m) /\ h = job[m].src /\ r = job[m].rank /\ reg[h][r] # NoCont
    <3>1. /\ job[m].pc = "dump" /\ job'[m].pc = "connect" /\ job'[m].gen = reg[h][r].next /\ job'[m].rank = r
      BY <2>1, <2>2, JobIs, JobMoves DEF Inv, Dump
    <3>2. reg[h][r].next \in Nat
      BY <1>0, <2>2 DEF Containers
    <3>3. CASE reg[h][r].next = 0
      BY <3>1, <3>3 DEF Sends, Parent
    <3>4. CASE reg[h][r].next > 0
      <4>1. \A k \in Job : ~ Sends(k, r)
        BY <2>1, <3>1, Busy DEF Sends, Active, Ended
      <4>2. Parented(r)
        BY <2>2, <3>4, <4>1 DEF PairInv
      <4>. QED
        BY <4>2, ParentedKept
    <3>. QED
      BY <3>2, <3>3, <3>4
  <2>3. CASE Load(m) /\ h = Dest(m) /\ r = imageInfo[h].rank
    <3>1. job[m].pc = "relaunch"
      BY <2>3 DEF Load
    <3>2. r = job[m].rank
      <4>1. imageInfo[Dest(m)] = [rank |-> job[m].rank, gen |-> job[m].gen]
        BY <3>1 DEF SerialInv, FrozenInv, Dest
      <4>. QED
        BY <2>3, <4>1
    <3>3. Parented(r)
      BY <2>1, <3>1, <3>2, PairLoads
    <3>. QED
      BY <3>3, ParentedKept
  <2>4. CASE DumpFails(m) /\ h = job[m].src /\ r = job[m].rank
    <3>1. Parented(r)
      BY <2>1, <2>4, QuietFails DEF PairInv
    <3>. QED
      BY <3>1, ParentedKept
  <2>. QED
    BY <1>6, <2>1, <2>2, <2>3, <2>4, RegIs DEF Dest
<1>7. ASSUME NEW r \in Rank, NEW h \in Host, reg'[h][r] # NoCont, reg'[h][r].next > 0
      PROVE  Parented(r)' \/ \E m \in Job : Sends(m, r)'
  BY <1>5, <1>6, <1>7
<1>. QED
  BY <1>1, <1>4, <1>7, <1>8 DEF PairInv

\* Between two nodes a rank migrates there and back any number of times, and
\* as long as nothing else fails, each migration succeeds if the image has been
\* unpacked at its destination: the source keeps the directory of generation 0,
\* which Load asks for at its return, and a failure that is the first of its
\* rank can only be the launch without a root file system (image.go:198,
\* container_registry.go:130, migrate-recipient.go:197).
THEOREM PairServes ==
    ASSUME OneName, NEW a \in Host, NEW b \in Host, Host = {a, b}
    PROVE  Spec => NoFaultNoFailure
<1>. DEFINE I == faults = 0 => PairInv
<1>1. Init => I
  BY DEF Init, NewJob, PairInv, Stranded
<1>2. Inv /\ ServingInv /\ I /\ [Next]_vars => I'
  <2>. SUFFICES ASSUME Inv, ServingInv, I, [Next]_vars, faults' = 0 PROVE PairInv'
    OBVIOUS
  <2>1. faults = 0 /\ ~ Fault
    BY QuietStep DEF Inv
  <2>. QED
    BY <2>1, PairStep DEF ServingInv
<1>3. ASSUME Inv, ServingInv, I, [Next]_vars, NEW m \in Job, FailsFirst(m) PROVE LacksRootfs(m)
  <2>1. faults = 0 /\ ~ Fault
    BY <1>3, QuietStep DEF Inv, FailsFirst
  <2>2. ~ LoadFails(m)
    BY <1>3, <2>1, PairFails DEF Relaunch, ServingInv
  <2>. QED
    BY <1>3, <2>2, FirstFails
<1>4. Inv /\ ServingInv /\ I /\ [Next]_vars => [\A m \in Job : FailsFirst(m) => LacksRootfs(m)]_vars
  BY <1>3
<1>. QED
  BY <1>1, <1>2, <1>4, ServingAlways, PTL DEF Spec, NoFaultNoFailure
=============================================================================
