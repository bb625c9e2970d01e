----------------------------- MODULE Migration ------------------------------
(***************************************************************************)
(* The migration of containers across the cluster: the control loop of the *)
(* coordinator with its location database (srv/coordinator/control.go,     *)
(* location.go, migrate.go), the handlers Run and Send of the nymphs       *)
(* (srv/nymph/server.go, migrate.go), the container registers and the      *)
(* checkpoints of each node (pkg/container).                               *)
(*                                                                         *)
(* A job is one migration request.  The control loop serves one request at *)
(* a time and waits for the donor's Send; Send holds the mutex of the      *)
(* donor's register from its first step to its last.                       *)
(*                                                                         *)
(* Data: a process is the number of steps it has computed; an image is the *)
(* number its process had when it was dumped.  The files of one checkpoint *)
(* are transferred in one step that succeeds or fails half-way: module     *)
(* Transfer has the protocol in detail.  CRIU and libcontainer are         *)
(* external: they dump what runs, and restore what is complete, in the     *)
(* root file system of the container's image if it is unpacked there.      *)
(*                                                                         *)
(* Bounds: MaxJobs migrations, MaxFaults faults, MaxWork steps of a        *)
(* process.  Each rank of Rank is run once; of the Runs of others, only    *)
(* the images that they have unpacked before are modelled.                 *)
(***************************************************************************)
EXTENDS Integers

CONSTANTS
    Rank,
    Image,          \* the container images
    imageOf,        \* the image that the Run of a rank names
    Host,           \* the nodes, each with a nymph
    Name,           \* what operators and nodes call them
    nodeOf,         \* the node a name resolves to; NoHost if nothing answers there
    hostname,       \* what os.Hostname returns on a node
    Types,          \* the migration types operators ask for
    LosesDonor,     \* can the control loop lose its connection to a donor?
    MaxJobs, MaxFaults, MaxWork,
    NoRank, NoName, NoHost, NoCont, NoImage,
    Absent, Partial \* contents of a checkpoint directory, other than an image

Job == 1 .. MaxJobs
NoJob == 0
Gen == 0 .. 2 * MaxJobs

ASSUME NameAssumption ==
    /\ nodeOf \in [Name -> Host \cup {NoHost}]
    /\ hostname \in [Host -> Name]
    /\ \A h \in Host : nodeOf[hostname[h]] = h
    /\ NoRank \notin Rank /\ NoName \notin Name /\ NoHost \notin Host
ASSUME ImageAssumption == imageOf \in [Rank -> Image]
ASSUME BoundAssumption == MaxJobs \in Nat /\ MaxFaults \in Nat /\ MaxWork \in Nat
ASSUME TypesAssumption ==
    Types \subseteq {"Migrate", "PreDump", "WithPreDump"} /\ LosesDonor \in BOOLEAN
ASSUME ContentAssumption ==
    /\ Absent \notin Nat /\ Partial \notin Nat /\ Absent # Partial
    /\ NoCont \notin [next : Nat, gens : SUBSET Nat]
    /\ NoImage \notin [rank : Rank, gen : Nat]

VARIABLES
    \* the coordinator
    location,       \* LocationDB.db: a rank's host name
    waiting,        \* the job the control loop waits for
    \* the nodes
    reg,            \* ContainerRegister.reg: next checkpoint id and checkpoints
    mutex,          \* the job that holds ContainerRegister.Mutex
    image,          \* the checkpoint directories, by rank and generation
    state,          \* the ranks with a state file in the factory directory
    imageInfo,      \* Recipient.imageInfo
    unfinished,     \* Recipient.File is not nil
    rootfs,         \* Nymph.images: the images unpacked on a node
    \* the processes
    proc,           \* by node and rank: none, running or stopped
    work,           \* how far the processes of a rank have come
    \* the operators
    run,            \* where the Run of a rank is, and on which node
    job,            \* the migrations
    faults

nodeVars == <<reg, image, state, imageInfo, unfinished, rootfs>>
procVars == <<proc, work>>
vars == <<location, waiting, nodeVars, mutex, procVars, run, job, faults>>

Ended == {"done", "failed"}
NewJob == [pc |-> "new", rank |-> NoRank, src |-> NoHost, dest |-> NoName,
           type |-> "none", final |-> FALSE, gen |-> 0, loaded |-> NoRank]

Init ==
    /\ location = [r \in Rank |-> NoName]
    /\ waiting = NoJob
    /\ reg = [h \in Host |-> [r \in Rank |-> NoCont]]
    /\ mutex = [h \in Host |-> NoJob]
    /\ image = [h \in Host |-> [r \in Rank |-> [g \in Gen |-> Absent]]]
    /\ state = [h \in Host |-> {}]
    /\ imageInfo = [h \in Host |-> NoImage]
    /\ unfinished = [h \in Host |-> FALSE]
    /\ rootfs \in [Host -> SUBSET Image]
    /\ proc = [h \in Host |-> [r \in Rank |-> "none"]]
    /\ work = [r \in Rank |-> 0]
    /\ run = [r \in Rank |-> [pc |-> "new", at |-> NoHost]]
    /\ job = [m \in Job |-> NewJob]
    /\ faults = 0

Fault ==
    /\ faults < MaxFaults
    /\ faults' = faults + 1

-----------------------------------------------------------------------------
\* LocationDB.Set.
Set(r, name) == location' = [location EXCEPT ![r] = name]

(***************************************************************************)
(* Nymph.Run                                                               *)
(***************************************************************************)

\* getImage unpacks the image, unless it is there.  Then GetOrCreate registers a
\* new container; Factory.Create refuses one whose directory exists.
Create(r, h) ==
    /\ run[r].pc = "new"
    /\ mutex[h] = NoJob
    /\ rootfs' = [rootfs EXCEPT ![h] = @ \cup {imageOf[r]}]
    /\ IF reg[h][r] = NoCont /\ r \notin state[h]
       THEN /\ reg' = [reg EXCEPT ![h][r] = [next |-> 0, gens |-> {}]]
            /\ state' = [state EXCEPT ![h] = @ \cup {r}]
            /\ run' = [run EXCEPT ![r] = [pc |-> "created", at |-> h]]
       ELSE /\ run' = [run EXCEPT ![r].pc = "failed"]
            /\ UNCHANGED <<reg, state>>
    /\ UNCHANGED <<location, waiting, mutex, image, imageInfo, unfinished, procVars, job, faults>>

\* Launch starts the init process, with no mutex held.
Launch(r) ==
    /\ run[r].pc = "created"
    /\ proc' = [proc EXCEPT ![run[r].at][r] = "running"]
    /\ run' = [run EXCEPT ![r].pc = "launched"]
    /\ UNCHANGED <<location, waiting, nodeVars, mutex, work, job, faults>>

\* The container stays in the register.
LaunchFails(r) ==
    /\ run[r].pc = "created"
    /\ Fault
    /\ run' = [run EXCEPT ![r].pc = "failed"]
    /\ UNCHANGED <<location, waiting, nodeVars, mutex, procVars, job>>

\* RegisterContainer: the control loop has to be free to serve it.
RegisterContainer(r) ==
    /\ run[r].pc = "launched"
    /\ waiting = NoJob
    /\ Set(r, hostname[run[r].at])
    /\ run' = [run EXCEPT ![r].pc = "done"]
    /\ UNCHANGED <<waiting, nodeVars, mutex, procVars, job, faults>>

-----------------------------------------------------------------------------
(***************************************************************************)
(* The control loop                                                        *)
(***************************************************************************)

\* migrateImpl and Migrate, up to the call of Send: a rank that is not known,
\* and a destination that is the source, are refused.
Migrate(m, r, d, t) ==
    /\ waiting = NoJob
    /\ \A k \in Job : job[k].pc = "new" <=> m <= k
    /\ location[r] # NoName
    /\ location[r] # d
    /\ waiting' = m
    /\ job' = [job EXCEPT ![m] = [NewJob EXCEPT !.pc = "called", !.rank = r, !.type = t,
                                                !.src = nodeOf[location[r]], !.dest = d]]
    /\ UNCHANGED <<location, nodeVars, mutex, procVars, run, faults>>

\* Mutant: the location is set after a pre-dump, too.
ReturnAlwaysSets(m) ==
    /\ waiting = m
    /\ job[m].pc \in Ended
    /\ waiting' = NoJob
    /\ IF job[m].pc = "done"
       THEN Set(job[m].rank, job[m].dest)
       ELSE UNCHANGED location
    /\ UNCHANGED <<nodeVars, mutex, procVars, run, job, faults>>

\* The rest of migrateImpl, when the donor has answered.
Return(m) ==
    /\ waiting = m
    /\ job[m].pc \in Ended
    /\ waiting' = NoJob
    /\ IF job[m].pc = "done" /\ job[m].type # "PreDump"
       THEN Set(job[m].rank, job[m].dest)
       ELSE UNCHANGED location
    /\ UNCHANGED <<nodeVars, mutex, procVars, run, job, faults>>

\* The connection to the donor breaks: the request fails, Send goes on.
LoseDonor(m) ==
    /\ LosesDonor
    /\ waiting = m
    /\ job[m].pc \notin Ended
    /\ Fault
    /\ waiting' = NoJob
    /\ UNCHANGED <<location, nodeVars, mutex, procVars, run, job>>

-----------------------------------------------------------------------------
(***************************************************************************)
(* Nymph.Send, at the donor                                                *)
(***************************************************************************)

Advance(m, pc) == job' = [job EXCEPT ![m].pc = pc]

\* Mutant: the deferred Unlock is missing.
FinishLocked(m, pc) ==
    /\ Advance(m, pc)
    /\ UNCHANGED mutex

\* Send returns and its deferred Unlock runs.
Finish(m, pc) ==
    /\ Advance(m, pc)
    /\ mutex' = [mutex EXCEPT ![job[m].src] = NoJob]

\* What NewCheckpoint leaves of the container.
WithCheckpoint(c) == [next |-> c.next + 1, gens |-> c.gens \cup {c.next}]

\* Mutant: Send does not take the mutex.
LockNothing(m) ==
    LET h == job[m].src IN
    /\ job[m].pc = "called"
    /\ IF reg[h][job[m].rank] = NoCont
       THEN Advance(m, "failed")
       ELSE job' = [job EXCEPT ![m].pc = "dump", ![m].final = job[m].type = "Migrate"]
    /\ UNCHANGED <<location, waiting, nodeVars, mutex, procVars, run, faults>>

\* Send takes the mutex and looks the container up.
Lock(m) ==
    LET h == job[m].src IN
    /\ job[m].pc = "called"
    /\ mutex[h] = NoJob
    /\ IF reg[h][job[m].rank] = NoCont
       THEN /\ Advance(m, "failed")
            /\ UNCHANGED mutex
       ELSE /\ job' = [job EXCEPT ![m].pc = "dump", ![m].final = job[m].type = "Migrate"]
            /\ mutex' = [mutex EXCEPT ![h] = m]
    /\ UNCHANGED <<location, waiting, nodeVars, procVars, run, faults>>

\* NewCheckpoint and Dump; the final dump stops the process.
Dump(m) ==
    LET h == job[m].src
        r == job[m].rank
        g == reg[h][r].next
    IN
    /\ job[m].pc = "dump"
    /\ proc[h][r] = "running"
    /\ reg' = [reg EXCEPT ![h][r] = WithCheckpoint(@)]
    /\ image' = [image EXCEPT ![h][r][g] = work[r]]
    /\ proc' = [proc EXCEPT ![h][r] = IF job[m].final THEN "stopped" ELSE @]
    /\ job' = [job EXCEPT ![m].pc = "connect", ![m].gen = g]
    /\ UNCHANGED <<location, waiting, state, imageInfo, unfinished, rootfs, mutex, work, run, faults>>

\* A process that does not run cannot be dumped; a dump that fails leaves it
\* running.  Without its directory there is no checkpoint to dump.
DumpFails(m) ==
    LET h == job[m].src
        r == job[m].rank
    IN
    /\ job[m].pc = "dump"
    /\ \/ /\ \/ proc[h][r] # "running" /\ UNCHANGED faults
             \/ Fault
          /\ reg' = [reg EXCEPT ![h][r] = WithCheckpoint(@)]
          /\ image' = [image EXCEPT ![h][r][reg[h][r].next] = Partial]
       \/ Fault /\ UNCHANGED <<reg, image>>
    /\ Finish(m, "failed")
    /\ UNCHANGED <<location, waiting, state, imageInfo, unfinished, rootfs, procVars, run>>

\* NewMigrationDonor dials until somebody answers.
Connect(m) ==
    /\ job[m].pc = "connect"
    /\ nodeOf[job[m].dest] # NoHost
    /\ Advance(m, "info")
    /\ UNCHANGED <<location, waiting, nodeVars, mutex, procVars, run, faults>>

\* sendState begins with the image info.
SendImageInfo(m) ==
    /\ job[m].pc = "info"
    /\ imageInfo' = [imageInfo EXCEPT ![nodeOf[job[m].dest]] =
                        [rank |-> job[m].rank, gen |-> job[m].gen]]
    /\ Advance(m, "files")
    /\ UNCHANGED <<location, waiting, reg, image, state, unfinished, rootfs, mutex, procVars, run, faults>>

\* The state file and the checkpoint directory arrive.
SendFiles(m) ==
    LET h == job[m].src
        d == nodeOf[job[m].dest]
        r == job[m].rank
        g == job[m].gen
    IN
    /\ job[m].pc = "files"
    /\ d # h
    /\ ~ unfinished[d]
    /\ image' = [image EXCEPT ![d][r][g] = image[h][r][g]]
    /\ state' = [state EXCEPT ![d] = @ \cup {r}]
    /\ \/ job[m].final /\ Advance(m, "relaunch") /\ UNCHANGED mutex
       \/ /\ job[m].type = "WithPreDump" /\ ~ job[m].final
          /\ job' = [job EXCEPT ![m].pc = "dump", ![m].final = TRUE]
          /\ UNCHANGED mutex
       \/ job[m].type = "PreDump" /\ Finish(m, "done")
    /\ UNCHANGED <<location, waiting, reg, imageInfo, unfinished, rootfs, procVars, run, faults>>

\* The transfer fails: the recipient has an unfinished file of an earlier
\* transfer; the donor is the recipient, and truncates the state file it is
\* about to read; or there is a fault before or within a file.
SendFails(m) ==
    LET h == job[m].src
        d == nodeOf[job[m].dest]
        r == job[m].rank
        g == job[m].gen
    IN
    /\ job[m].pc \in {"info", "files"}
    /\ \/ /\ job[m].pc = "files" /\ unfinished[d]
          /\ UNCHANGED <<image, state, unfinished, faults>>
       \/ /\ job[m].pc = "files" /\ ~ unfinished[d] /\ d = h
          /\ state' = [state EXCEPT ![h] = @ \ {r}]
          /\ unfinished' = [unfinished EXCEPT ![h] = TRUE]
          /\ UNCHANGED <<image, faults>>
       \/ /\ Fault
          /\ UNCHANGED <<image, state, unfinished>>
       \/ /\ job[m].pc = "files" /\ ~ unfinished[d] /\ d # h
          /\ Fault
          /\ image' = [image EXCEPT ![d][r][g] = Partial]
          /\ state' = [state EXCEPT ![d] = @ \cup {r}]
          /\ unfinished' \in {unfinished, [unfinished EXCEPT ![d] = TRUE]}
    /\ Finish(m, "failed")
    /\ UNCHANGED <<location, waiting, reg, imageInfo, rootfs, procVars, run>>

\* Mutant: the container is destroyed but stays in the register.
DeleteKeepsEntry(m) ==
    LET h == job[m].src
        r == job[m].rank
    IN
    /\ job[m].pc = "delete"
    /\ state' = [state EXCEPT ![h] = @ \ {r}]
    /\ proc' = [proc EXCEPT ![h][r] = "none"]
    /\ Finish(m, "done")
    /\ UNCHANGED <<location, waiting, reg, image, imageInfo, unfinished, rootfs, work, run, faults>>

\* DeleteUnlocked and the end of Send.
Delete(m) ==
    LET h == job[m].src
        r == job[m].rank
    IN
    /\ job[m].pc = "delete"
    /\ reg' = [reg EXCEPT ![h][r] = NoCont]
    /\ state' = [state EXCEPT ![h] = @ \ {r}]
    /\ proc' = [proc EXCEPT ![h][r] = "none"]
    /\ Finish(m, "done")
    /\ UNCHANGED <<location, waiting, image, imageInfo, unfinished, rootfs, work, run, faults>>

-----------------------------------------------------------------------------
(***************************************************************************)
(* Recipient.Relaunch, at the destination                                  *)
(***************************************************************************)

\* The generation that ImageInfo announces as the parent: the field Parent is
\* never set.
Parent == 0

\* Can Load make a container of what the image info says?
Loadable(h, info) ==
    /\ reg[h][info.rank] = NoCont
    /\ info.rank \in state[h]
    /\ image[h][info.rank][info.gen] # Absent
    /\ image[h][info.rank][Parent] # Absent

\* Mutant: the next checkpoint gets the number before the loaded one.
LoadMiscounts(m) ==
    LET h == nodeOf[job[m].dest]
        info == imageInfo[h]
    IN
    /\ job[m].pc = "relaunch"
    /\ mutex[h] = NoJob
    /\ Loadable(h, info)
    /\ reg' = [reg EXCEPT ![h][info.rank] = [next |-> info.gen - 1, gens |-> {info.gen, Parent}]]
    /\ job' = [job EXCEPT ![m].pc = "restore", ![m].loaded = info.rank]
    /\ UNCHANGED <<location, waiting, image, state, imageInfo, unfinished, rootfs, mutex, procVars, run, faults>>

\* Mutant: the next checkpoint gets the number of the loaded one.
LoadCountsAgain(m) ==
    LET h == nodeOf[job[m].dest]
        info == imageInfo[h]
    IN
    /\ job[m].pc = "relaunch"
    /\ mutex[h] = NoJob
    /\ Loadable(h, info)
    /\ reg' = [reg EXCEPT ![h][info.rank] = [next |-> info.gen, gens |-> {info.gen, Parent}]]
    /\ job' = [job EXCEPT ![m].pc = "restore", ![m].loaded = info.rank]
    /\ UNCHANGED <<location, waiting, image, state, imageInfo, unfinished, rootfs, mutex, procVars, run, faults>>

\* Load, under the mutex of the destination's register.
Load(m) ==
    LET h == nodeOf[job[m].dest]
        info == imageInfo[h]
    IN
    /\ job[m].pc = "relaunch"
    /\ mutex[h] = NoJob
    /\ Loadable(h, info)
    /\ reg' = [reg EXCEPT ![h][info.rank] = [next |-> info.gen + 1, gens |-> {info.gen, Parent}]]
    /\ job' = [job EXCEPT ![m].pc = "restore", ![m].loaded = info.rank]
    /\ UNCHANGED <<location, waiting, image, state, imageInfo, unfinished, rootfs, mutex, procVars, run, faults>>

\* Mutant: the donor is not told that loading failed.
LoadFailsUnnoticed(m) ==
    LET h == nodeOf[job[m].dest] IN
    /\ job[m].pc = "relaunch"
    /\ mutex[h] = NoJob
    /\ ~ Loadable(h, imageInfo[h])
    /\ Advance(m, "delete")
    /\ UNCHANGED <<location, waiting, nodeVars, mutex, procVars, run, faults>>

LoadFails(m) ==
    LET h == nodeOf[job[m].dest] IN
    /\ job[m].pc = "relaunch"
    /\ mutex[h] = NoJob
    /\ ~ Loadable(h, imageInfo[h])
    /\ Finish(m, "failed")
    /\ UNCHANGED <<location, waiting, nodeVars, procVars, run, faults>>

\* Mutant: the lowest one.
Oldest(c) == CHOOSE g \in c.gens : \A k \in c.gens : k >= g

\* latestCheckpoint: the highest generation that the container has.
Latest(c) == CHOOSE g \in c.gens : \A k \in c.gens : k <= g

\* What Launch restores for job m.  The container that Load returned may have
\* been destroyed since, and its root file system is where its configuration
\* says only if a Run has unpacked the image on this node: nobody sends it.
Restored(m) ==
    LET h == nodeOf[job[m].dest]
        r == job[m].loaded
    IN  IF reg[h][r] = NoCont \/ imageOf[r] \notin rootfs[h] THEN Absent
        ELSE image[h][r][Latest(reg[h][r])]

\* The restored process runs, from where the image has it.
Resume(m) ==
    LET h == nodeOf[job[m].dest]
        r == job[m].loaded
    IN
    /\ Restored(m) \in Nat
    /\ proc' = [proc EXCEPT ![h][r] = "running"]
    /\ work' = [work EXCEPT ![r] = Restored(m)]

\* Launch restores the container; Relaunch returns to the donor.
Restore(m) ==
    /\ job[m].pc = "restore"
    /\ Resume(m)
    /\ Advance(m, "delete")
    /\ UNCHANGED <<location, waiting, nodeVars, mutex, run, faults>>

\* The image is not complete or has no root file system, CRIU fails, or something
\* after the restore does (a PostRestore hook, Status, the way back to the
\* donor).  The container stays in the register.
RestoreFails(m) ==
    /\ job[m].pc = "restore"
    /\ \/ Restored(m) \notin Nat /\ UNCHANGED <<procVars, faults>>
       \/ Fault /\ UNCHANGED procVars
       \/ Fault /\ Resume(m)
    /\ Finish(m, "failed")
    /\ UNCHANGED <<location, waiting, nodeVars, run>>

-----------------------------------------------------------------------------

\* A running process computes.
Compute(h, r) ==
    /\ proc[h][r] = "running"
    /\ work[r] < MaxWork
    /\ work' = [work EXCEPT ![r] = @ + 1]
    /\ UNCHANGED <<location, waiting, nodeVars, mutex, proc, run, job, faults>>

Run(r) == (\E h \in Host : Create(r, h)) \/ Launch(r) \/ RegisterContainer(r)

Send(m) == Lock(m) \/ Dump(m) \/ DumpFails(m) \/ Connect(m) \/ SendImageInfo(m)
           \/ SendFiles(m) \/ SendFails(m) \/ Delete(m)

Relaunch(m) == Load(m) \/ LoadFails(m) \/ Restore(m) \/ RestoreFails(m)

Next ==
    \/ \E r \in Rank : Run(r) \/ LaunchFails(r)
    \/ \E m \in Job : Send(m) \/ Relaunch(m) \/ Return(m) \/ LoseDonor(m)
    \/ \E m \in Job, r \in Rank, d \in Name, t \in Types : Migrate(m, r, d, t)
    \/ \E h \in Host, r \in Rank : Compute(h, r)

\* The goroutines of Send and Relaunch and the control loop run on; a fault is
\* never certain, but if nothing else is possible the call fails.
Fairness ==
    \A m \in Job : WF_vars(Send(m)) /\ WF_vars(Relaunch(m)) /\ WF_vars(Return(m))

Spec == Init /\ [][Next]_vars
FairSpec == Spec /\ Fairness
-----------------------------------------------------------------------------
(***************************************************************************)
(* Properties                                                              *)
(***************************************************************************)

JobPCs == {"new", "called", "dump", "connect", "info", "files", "relaunch", "restore",
           "delete", "done", "failed"}
Jobs == [pc : JobPCs, rank : Rank \cup {NoRank}, src : Host \cup {NoHost},
         dest : Name \cup {NoName}, type : Types \cup {"none"},
         final : BOOLEAN, gen : Nat, loaded : Rank \cup {NoRank}]
Runs == [pc : {"new", "created", "launched", "done", "failed"}, at : Host \cup {NoHost}]
Containers == [next : Nat, gens : SUBSET Nat] \cup {NoCont}
Contents == Nat \cup {Absent, Partial}
Infos == [rank : Rank, gen : Nat] \cup {NoImage}

TypeOK ==
    /\ location \in [Rank -> Name \cup {NoName}]
    /\ waiting \in Job \cup {NoJob}
    /\ reg \in [Host -> [Rank -> Containers]]
    /\ mutex \in [Host -> Job \cup {NoJob}]
    /\ image \in [Host -> [Rank -> [Gen -> Contents]]]
    /\ state \in [Host -> SUBSET Rank]
    /\ imageInfo \in [Host -> Infos]
    /\ unfinished \in [Host -> BOOLEAN]
    /\ rootfs \in [Host -> SUBSET Image]
    /\ proc \in [Host -> [Rank -> {"none", "running", "stopped"}]]
    /\ work \in [Rank -> Nat]
    /\ run \in [Rank -> Runs]
    /\ job \in [Job -> Jobs]
    /\ faults \in Nat

\* The nodes where rank r runs.
At(r) == {h \in Host : proc[h][r] = "running"}

\* Migrations move processes without ever running them twice and without
\* losing what they have computed (Send, Load, Restore and DeleteUnlocked
\* together), whatever fails on the way.
Place == INSTANCE Placement WITH at <- [r \in Rank |-> At(r)]
MovesProcesses == Place!Spec

\* A rank that was launched has a container in some register: a failed
\* migration strands it at worst, and DeleteUnlocked never takes the last one.
NeverLost ==
    \A r \in Rank : run[r].pc = "done" => \E h \in Host : reg[h][r] # NoCont

\* Between requests the location database leads to a node that has the
\* container, so that the next request reaches it (control.go:146-157).
LocatedIsRegistered ==
    waiting = NoJob =>
        \A r \in Rank : location[r] # NoName => reg[nodeOf[location[r]]][r] # NoCont

\* The container that Send looked up stays in the register until Send is done
\* with it, although the control loop may have sent other requests: the mutex
\* is held all along, and DeleteUnlocked does not panic
\* (container_registry.go:150-153).
Sending(m) ==
    job[m].pc \in {"dump", "connect", "info", "files", "relaunch", "restore", "delete"}
SendHoldsContainer == \A m \in Job : Sending(m) => reg[job[m].src][job[m].rank] # NoCont

\* Send holds the mutex of its node while Relaunch takes the one of the
\* destination.  As long as the control loop waits for its donors, nobody waits
\* for the other: both are free when they are asked for, whatever has failed
\* before (migrate.go:51-52, container_registry.go:102).
LocksAreFree ==
    \A m \in Job :
        /\ job[m].pc = "called" => mutex[job[m].src] = NoJob
        /\ job[m].pc = "relaunch" => mutex[nodeOf[job[m].dest]] = NoJob

\* What a migration may lack at its destination: the root file system, which is
\* there only if an earlier Run has unpacked the image (image.go:198), and
\* generation 0, which ImageInfo announces as the parent (checkpoint.go:146).
LacksRootfs(m) ==
    job[m].pc = "restore" /\ imageOf[job[m].rank] \notin rootfs[nodeOf[job[m].dest]]
LacksParent(m) ==
    job[m].pc = "relaunch" /\ image[nodeOf[job[m].dest]][job[m].rank][Parent] = Absent

\* In this step m fails, without a fault so far, and as the first of its rank:
\* its process has stopped then, and every later migration fails, too.
FailsFirst(m) ==
    /\ faults' = 0
    /\ job'[m].pc = "failed"
    /\ \A k \in Job : job[k].rank = job[m].rank => job[k].pc # "failed"

\* A migration in which nothing fails succeeds, if the image is unpacked at the
\* destination: the container can be dumped, sent, loaded and restored
\* (migrate.go:45-116, migrate-recipient.go:179-221).
NoFaultNoFailure == [][\A m \in Job : FailsFirst(m) => LacksRootfs(m)]_vars

\* Between any number of nodes, these two are all that can be missing.  Nothing
\* else that jobs leave behind, on their way there and back, gets in the way of
\* the next one.
OnlyParentLacks == [][\A m \in Job : FailsFirst(m) => LacksRootfs(m) \/ LacksParent(m)]_vars

\* The number of a checkpoint tells its age, on whatever nodes migrations, pre-
\* dumps and failures have left the directories of a rank: no later one holds
\* less work, and complete ones of the same number hold the same.  So the image
\* with the highest number is the one to restore (container.go:157-170), and a
\* rank and a number are enough to name an image to the recipient, which counts
\* on from there (checkpoint.go:81-97, container_registry.go:126-136).
LaterIsNewer ==
    \A r \in Rank, g \in Gen, h \in Host : image[h][r][g] \in Nat =>
        \A k \in Gen, i \in Host : g <= k /\ image[i][r][k] \in Nat =>
            image[h][r][g] <= image[i][r][k]

\* The operator gets an answer: the control loop does not wait for ever for a
\* donor, so the coordinator goes on serving requests.
ControlReturns == \A m \in Job : waiting = m ~> waiting # m
=============================================================================
