------------------------------ MODULE Transfer ------------------------------
(***************************************************************************)
(* The transfer of checkpoints into one nymph: donors                      *)
(* (srv/nymph/migrate-donor.go, through the client of pkg/nymph/migrate.go)*)
(* and the single Recipient object that serves all of them                 *)
(* (srv/nymph/migrate-recipient.go).                                       *)
(*                                                                         *)
(* A session is one call of sendCheckpoint (srv/nymph/migrate.go:12): a    *)
(* client with its own sequence number that sends the image info, the      *)
(* state file and the files of the checkpoint directory, and then asks for *)
(* a relaunch if it is the last of its migration.  The coordinator's       *)
(* control loop asks for one migration at a time, but when it loses the    *)
(* connection to a donor it goes on to the next request while the donor    *)
(* still sends.                                                            *)
(*                                                                         *)
(* Every RPC runs in a goroutine of its own and Recipient has no lock.  A  *)
(* handler is split where it blocks in the file system, with GOMAXPROCS(1) *)
(* (konk.go:17) the points where another handler can run; a call may also  *)
(* be served after its client has given up.                                *)
(*                                                                         *)
(* Data: a file is a sequence of chunks, each marked with the session that *)
(* read it and its position.  Sizes count chunks of ChunkSize bytes.       *)
(* Bound: MaxFaults faults (lost connections, failing system calls).       *)
(***************************************************************************)
EXTENDS Integers, Sequences

CONSTANTS
    Session,        \* the calls of sendCheckpoint
    donorOf,        \* the nymph that makes the call
    imageOf,        \* the image info it sends: rank, id, generation
    stateOf,        \* the name of the state file (StatePath)
    filesOf,        \* the names in the checkpoint directory (Readdir)
    sizeOf,         \* sizeOf[s][f]: the chunks of the donor's file f
    launches,       \* is it a full dump, followed by Relaunch?
    baseOf,         \* the call that sends generation 0 of its container
    Name,           \* all the names, relative to the nymph's root directory
    Links,          \* the names that are symbolic links
    NoFile, NoSession, NoImage,
    MaxFaults,      \* bound: faults in a behaviour
    TornWrites      \* may a failing write leave part of a chunk behind?

ASSUME PlanAssumption ==
    /\ stateOf \in [Session -> Name \ Links]
    /\ filesOf \in [Session -> SUBSET Name]
    /\ sizeOf \in [Session -> [Name -> Nat]]
    /\ launches \in [Session -> BOOLEAN]
    /\ baseOf \in [Session -> Session]
    /\ \A s \in Session : stateOf[baseOf[s]] = stateOf[s]
    /\ Links \subseteq Name
ASSUME NoneAssumption == NoFile \notin Name /\ NoSession \notin Session
ASSUME FaultAssumption == MaxFaults \in Nat /\ TornWrites \in BOOLEAN

VARIABLES
    \* the Recipient
    seq,            \* r.seq
    imageInfo,      \* r.imageInfo
    Size,           \* r.Size
    File,           \* the name r.File was opened with, or NoFile for nil
    ToWrite,        \* r.ToWrite
    disk,           \* the contents of the regular files
    created,        \* the names that exist
    registered,     \* the containers in the nymph's register, by state file
    loaded,         \* what Relaunch loaded and launched, and for whom
    \* the donors
    pc,             \* where the donor is
    todo,           \* the files it has not begun to send
    cur,            \* the file it is sending
    pos,            \* how many chunks of it were acknowledged
    mseq,           \* m.seq of its client
    call,           \* the RPC of its client, until the handler returns
    \* the environment
    waiting,        \* the session the control loop waits for
    faults

recipientVars == <<seq, imageInfo, Size, File, ToWrite, disk, created, registered, loaded>>
donorVars == <<todo, cur, pos, mseq>>
vars == <<recipientVars, donorVars, pc, call, waiting, faults>>

AllFiles(s) == {stateOf[s]} \cup filesOf[s]
Chunk(s, n) == [by |-> s, n |-> n]
AnyChunk == [by : Session, n : Nat]
Content(s, f) == [n \in 1 .. sizeOf[s][f] |-> Chunk(s, n)]

NoCall == [op |-> "none", stage |-> "none", file |-> NoFile]
Ops == {"none", "ImageInfo", "FileInfo", "LinkInfo", "FileData", "Relaunch"}
Ended == {"done", "failed"}

Init ==
    /\ seq = 4
    /\ imageInfo = NoImage
    /\ Size = 0
    /\ File = NoFile
    /\ ToWrite = 0
    /\ disk = [f \in Name |-> <<>>]
    /\ created = {}
    /\ registered = {}
    /\ loaded = {}
    /\ pc = [s \in Session |-> "idle"]
    /\ todo = [s \in Session |-> AllFiles(s)]
    /\ cur = [s \in Session |-> NoFile]
    /\ pos = [s \in Session |-> 0]
    /\ mseq = [s \in Session |-> 0]
    /\ call = [s \in Session |-> NoCall]
    /\ waiting = NoSession
    /\ faults = 0

(***************************************************************************)
(* The donor                                                               *)
(***************************************************************************)

\* The client puts an RPC on the wire and waits.
Issue(s, op, file) ==
    /\ pc' = [pc EXCEPT ![s] = "waiting"]
    /\ call' = [call EXCEPT ![s] = [op |-> op, stage |-> "sent", file |-> file]]
    /\ UNCHANGED <<recipientVars, waiting, faults>>

\* Mutant: the control loop does not wait for the donors.
BeginAnytime(s) ==
    /\ pc[s] = "idle"
    /\ \A t \in Session : donorOf[t] = donorOf[s] => pc[t] \in Ended \cup {"idle"}
    /\ baseOf[s] # s => pc[baseOf[s]] \in Ended
    /\ waiting' = s
    /\ pc' = [pc EXCEPT ![s] = "image"]
    /\ UNCHANGED <<recipientVars, donorVars, call, faults>>

\* The control loop hands the migration to the donor.  The donor holds the
\* mutex of its containers while it sends, so it sends one checkpoint at a time,
\* and it has dumped and sent generation 0 before the later ones.
Begin(s) ==
    /\ waiting = NoSession
    /\ pc[s] = "idle"
    /\ \A t \in Session : donorOf[t] = donorOf[s] => pc[t] \in Ended \cup {"idle"}
    /\ baseOf[s] # s => pc[baseOf[s]] \in Ended
    /\ waiting' = s
    /\ pc' = [pc EXCEPT ![s] = "image"]
    /\ UNCHANGED <<recipientVars, donorVars, call, faults>>

\* sendState begins with the image info.
SendImageInfo(s) ==
    /\ pc[s] = "image"
    /\ Issue(s, "ImageInfo", NoFile)
    /\ UNCHANGED donorVars

\* SendFile: the state file first, then the directory in any order.
SendFile(s) ==
    /\ pc[s] = "next"
    /\ \E f \in IF stateOf[s] \in todo[s] THEN {stateOf[s]} ELSE todo[s] :
          /\ Issue(s, IF f \in Links THEN "LinkInfo" ELSE "FileInfo", f)
          /\ cur' = [cur EXCEPT ![s] = f]
          /\ todo' = [todo EXCEPT ![s] = @ \ {f}]
    /\ pos' = [pos EXCEPT ![s] = 0]
    /\ UNCHANGED mseq

\* The loop of SendFile: the next chunk that Read returned.
SendChunk(s) ==
    /\ pc[s] = "data"
    /\ Issue(s, "FileData", NoFile)
    /\ UNCHANGED donorVars

SendRelaunch(s) ==
    /\ pc[s] = "sent"
    /\ launches[s]
    /\ Issue(s, "Relaunch", NoFile)
    /\ UNCHANGED donorVars

\* sendCheckpoint returns without a relaunch.
SkipRelaunch(s) ==
    /\ pc[s] = "sent"
    /\ ~ launches[s]
    /\ pc' = [pc EXCEPT ![s] = "done"]
    /\ UNCHANGED <<recipientVars, donorVars, call, waiting, faults>>

\* Where SendFile goes when n chunks are acknowledged and ws files are left:
\* the next chunk, the next file, or the end of SendCheckpoint.
Continue(s, f, n, ws) ==
    IF f \notin Links /\ n < sizeOf[s][f] THEN "data"
    ELSE IF ws # {} THEN "next" ELSE "sent"

\* Mutants: the client accepts any number; it wants its last one again.
ExpectedAny(s) == TRUE
ExpectedSame(s) == call[s].op = "ImageInfo" \/ seq = mseq[s]

\* The client accepts a sequence number if it follows its last one; the image
\* info starts the sequence.
Expected(s) == call[s].op = "ImageInfo" \/ seq = mseq[s] + 1

(***************************************************************************)
(* The recipient                                                           *)
(***************************************************************************)

\* Mutant: r.seq is not incremented, and the client counts for itself.
ReplySameSeq(s) ==
    /\ UNCHANGED seq
    /\ call' = [call EXCEPT ![s] = NoCall]
    /\ IF pc[s] = "waiting"
       THEN LET n == IF call[s].op = "FileData" THEN pos[s] + 1 ELSE 0
            IN  /\ mseq' = [mseq EXCEPT ![s] = seq]
                /\ pos' = [pos EXCEPT ![s] = n]
                /\ pc' = [pc EXCEPT ![s] = IF call[s].op = "ImageInfo" THEN "next"
                                           ELSE Continue(s, cur[s], n, todo[s])]
       ELSE UNCHANGED <<mseq, pos, pc>>
    /\ UNCHANGED <<todo, cur, waiting>>

\* The handler returns r.seq and increments it.
Reply(s) ==
    /\ seq' = seq + 1
    /\ call' = [call EXCEPT ![s] = NoCall]
    /\ IF pc[s] = "waiting" /\ Expected(s)
       THEN LET n == IF call[s].op = "FileData" THEN pos[s] + 1 ELSE 0
            IN  /\ mseq' = [mseq EXCEPT ![s] = seq]
                /\ pos' = [pos EXCEPT ![s] = n]
                /\ pc' = [pc EXCEPT ![s] = IF call[s].op = "ImageInfo" THEN "next"
                                           ELSE Continue(s, cur[s], n, todo[s])]
       ELSE /\ UNCHANGED <<mseq, pos>>
            /\ pc' = [pc EXCEPT ![s] = IF @ = "waiting" THEN "failed" ELSE @]
    /\ UNCHANGED <<todo, cur, waiting>>

\* The handler returns an error; r.seq stays.
ErrorReply(s) ==
    /\ call' = [call EXCEPT ![s] = NoCall]
    /\ pc' = [pc EXCEPT ![s] = IF @ = "waiting" THEN "failed" ELSE @]
    /\ UNCHANGED <<seq, donorVars, waiting>>

\* The handler blocks; file is what it holds on to.
Block(s, file) ==
    /\ call' = [call EXCEPT ![s].stage = "blocked", ![s].file = file]
    /\ UNCHANGED <<seq, donorVars, pc, waiting>>

Arrived(s, op) == call[s].op = op /\ call[s].stage = "sent"
Blocked(s, op) == call[s].op = op /\ call[s].stage = "blocked"

Fault ==
    /\ faults < MaxFaults
    /\ faults' = faults + 1

HandleImageInfo(s) ==
    /\ Arrived(s, "ImageInfo")
    /\ imageInfo' = imageOf[s]
    /\ Reply(s)
    /\ UNCHANGED <<Size, File, ToWrite, disk, created, registered, loaded, faults>>

\* r.Size is set before the check for an unfinished file.
EnterFileInfo(s) ==
    /\ Arrived(s, "FileInfo")
    /\ Size' = sizeOf[s][call[s].file]
    /\ IF File # NoFile THEN ErrorReply(s) ELSE Block(s, call[s].file)
    /\ UNCHANGED <<imageInfo, File, ToWrite, disk, created, registered, loaded, faults>>

\* OpenFile truncates; the size is read from r.Size again.
OpenFile(s) ==
    /\ Blocked(s, "FileInfo")
    /\ File' = call[s].file
    /\ disk' = [disk EXCEPT ![call[s].file] = <<>>]
    /\ created' = created \cup {call[s].file}
    /\ ToWrite' = Size
    /\ Reply(s)
    /\ UNCHANGED <<imageInfo, Size, registered, loaded, faults>>

\* MkdirAll fails, or OpenFile, which then sets r.File to nil.
OpenFileFails(s) ==
    /\ Blocked(s, "FileInfo")
    /\ Fault
    /\ File' \in {File, NoFile}
    /\ ErrorReply(s)
    /\ UNCHANGED <<imageInfo, Size, ToWrite, disk, created, registered, loaded>>

EnterLinkInfo(s) ==
    /\ Arrived(s, "LinkInfo")
    /\ IF File # NoFile THEN ErrorReply(s) ELSE Block(s, call[s].file)
    /\ UNCHANGED <<imageInfo, Size, File, ToWrite, disk, created, registered, loaded, faults>>

\* Symlink fails on a name that exists.
Symlink(s) ==
    /\ Blocked(s, "LinkInfo")
    /\ IF call[s].file \in created
       THEN /\ ErrorReply(s)
            /\ UNCHANGED created
       ELSE /\ Reply(s)
            /\ created' = created \cup {call[s].file}
    /\ UNCHANGED <<imageInfo, Size, File, ToWrite, disk, registered, loaded, faults>>

\* A write to a nil File fails.
EnterFileData(s) ==
    /\ Arrived(s, "FileData")
    /\ IF ToWrite < 1 \/ File = NoFile THEN ErrorReply(s) ELSE Block(s, File)
    /\ UNCHANGED <<imageInfo, Size, File, ToWrite, disk, created, registered, loaded, faults>>

\* Mutants: the file is never closed; the chunk before the right one is written.
WriteDataOpen(s) ==
    /\ Blocked(s, "FileData")
    /\ disk' = [disk EXCEPT ![call[s].file] = Append(@, Chunk(s, pos[s] + 1))]
    /\ ToWrite' = ToWrite - 1
    /\ Reply(s)
    /\ UNCHANGED <<imageInfo, Size, File, created, registered, loaded, faults>>

WriteDataBehind(s) ==
    /\ Blocked(s, "FileData")
    /\ disk' = [disk EXCEPT ![call[s].file] = Append(@, Chunk(s, pos[s] - 1))]
    /\ ToWrite' = ToWrite - 1
    /\ File' = IF ToWrite' = 0 THEN NoFile ELSE File
    /\ Reply(s)
    /\ UNCHANGED <<imageInfo, Size, created, registered, loaded, faults>>

\* The chunk goes to the file that was open when the handler started; the
\* count and the close go to what the recipient has now.
WriteData(s) ==
    /\ Blocked(s, "FileData")
    /\ disk' = [disk EXCEPT ![call[s].file] = Append(@, Chunk(s, pos[s] + 1))]
    /\ ToWrite' = ToWrite - 1
    /\ File' = IF ToWrite' = 0 THEN NoFile ELSE File
    /\ Reply(s)
    /\ UNCHANGED <<imageInfo, Size, created, registered, loaded, faults>>

\* A write also fails when another handler has closed the file meanwhile.
WriteFails(s) ==
    /\ Blocked(s, "FileData")
    /\ \/ Fault
       \/ File # call[s].file /\ UNCHANGED faults
    /\ \/ UNCHANGED disk
       \/ TornWrites /\ disk' = [disk EXCEPT ![call[s].file] = Append(@, Chunk(s, 0))]
    /\ ErrorReply(s)
    /\ UNCHANGED <<imageInfo, Size, File, ToWrite, created, registered, loaded>>

Announced(t) == imageOf[t] = imageInfo

\* Load finds no such container in the register, a state file that some call
\* has written, and the directories of the checkpoint and of generation 0,
\* which ImageInfo announces as its parent.
Loadable(t) ==
    /\ stateOf[t] \notin registered
    /\ stateOf[t] \in created
    /\ \E u \in Session : stateOf[u] = stateOf[t] /\ disk[stateOf[t]] = Content(u, stateOf[t])
    /\ filesOf[t] \cap created # {}
    /\ filesOf[baseOf[t]] \cap created # {}

Whole(t, f) == f \in created /\ (f \notin Links => disk[f] = Content(t, f))

\* CRIU restores a full dump that is whole, with what its link leads to.
Restorable(t) ==
    /\ launches[t]
    /\ \A f \in filesOf[t] : Whole(t, f)
    /\ filesOf[t] \cap Links # {} => \A f \in filesOf[baseOf[t]] : Whole(baseOf[t], f)

\* Load puts the container into the register.
Register(t) ==
    /\ Announced(t) /\ Loadable(t)
    /\ registered' = registered \cup {stateOf[t]}

\* Load and Launch get whatever image info came last.  Relaunch has no sequence
\* number.
HandleRelaunch(s) ==
    /\ Arrived(s, "Relaunch")
    /\ \E t \in Session : Register(t) /\ Restorable(t)
    /\ loaded' = loaded \cup {[by |-> s, image |-> imageInfo]}
    /\ call' = [call EXCEPT ![s] = NoCall]
    /\ pc' = [pc EXCEPT ![s] = IF @ = "waiting" THEN "done" ELSE @]
    /\ UNCHANGED <<seq, imageInfo, Size, File, ToWrite, disk, created, donorVars, waiting, faults>>

\* Load returns an error, or Launch does; then the container stays registered.
RefuseRelaunch(s) ==
    /\ Arrived(s, "Relaunch")
    /\ \/ /\ ~ \E t \in Session : Announced(t) /\ Loadable(t)
          /\ UNCHANGED registered
       \/ \E t \in Session : Register(t) /\ ~ Restorable(t)
    /\ ErrorReply(s)
    /\ UNCHANGED <<imageInfo, Size, File, ToWrite, disk, created, loaded, faults>>

\* Loading or restoring fails for another reason.
RelaunchFails(s) ==
    /\ Arrived(s, "Relaunch")
    /\ Fault
    /\ UNCHANGED registered \/ \E t \in Session : Register(t)
    /\ ErrorReply(s)
    /\ UNCHANGED <<imageInfo, Size, File, ToWrite, disk, created, loaded>>

(***************************************************************************)
(* The environment                                                         *)
(***************************************************************************)

\* The donor fails to read a file or loses its connection to the recipient; a
\* call it made is served nevertheless.
Abort(s) ==
    /\ pc[s] \notin Ended \cup {"idle"}
    /\ Fault
    /\ pc' = [pc EXCEPT ![s] = "failed"]
    /\ UNCHANGED <<recipientVars, donorVars, call, waiting>>

\* Send returns to the control loop.
Return(s) ==
    /\ waiting = s
    /\ pc[s] \in Ended
    /\ waiting' = NoSession
    /\ UNCHANGED <<recipientVars, donorVars, pc, call, faults>>

\* The control loop loses its connection to the donor, which goes on sending.
LoseDonor(s) ==
    /\ waiting = s
    /\ pc[s] \notin Ended
    /\ Fault
    /\ waiting' = NoSession
    /\ UNCHANGED <<recipientVars, donorVars, pc, call>>

Donor(s) ==
    \/ SendImageInfo(s) \/ SendFile(s) \/ SendChunk(s)
    \/ SendRelaunch(s) \/ SkipRelaunch(s)

Handler(s) ==
    \/ HandleImageInfo(s)
    \/ EnterFileInfo(s) \/ OpenFile(s)
    \/ EnterLinkInfo(s) \/ Symlink(s)
    \/ EnterFileData(s) \/ WriteData(s)
    \/ HandleRelaunch(s) \/ RefuseRelaunch(s)

Failure(s) ==
    OpenFileFails(s) \/ WriteFails(s) \/ RelaunchFails(s) \/ Abort(s) \/ LoseDonor(s)

Next == \E s \in Session : Begin(s) \/ Donor(s) \/ Handler(s) \/ Return(s) \/ Failure(s)

\* Goroutines and the donor's loop are never held up for ever, and the operator
\* asks for every migration.
Fairness ==
    \A s \in Session :
        WF_vars(Donor(s)) /\ WF_vars(Handler(s)) /\ WF_vars(Return(s)) /\ SF_vars(Begin(s))

Spec == Init /\ [][Next]_vars
FairSpec == Spec /\ Fairness
-----------------------------------------------------------------------------
(***************************************************************************)
(* Properties                                                              *)
(***************************************************************************)

PCs == {"idle", "image", "next", "data", "waiting", "sent", "done", "failed"}

TypeOK ==
    /\ seq \in Nat
    /\ Size \in Nat
    /\ File \in Name \cup {NoFile}
    /\ ToWrite \in Int
    /\ disk \in [Name -> Seq(AnyChunk)]
    /\ created \subseteq Name
    /\ registered \subseteq Name
    /\ pc \in [Session -> PCs]
    /\ todo \in [Session -> SUBSET Name]
    /\ cur \in [Session -> Name \cup {NoFile}]
    /\ pos \in [Session -> Nat]
    /\ mseq \in [Session -> Nat]
    /\ call \in [Session -> [op : Ops, stage : {"none", "sent", "blocked"}, file : Name \cup {NoFile}]]
    /\ waiting \in Session \cup {NoSession}
    /\ faults \in Nat

Intact(s) ==
    \A f \in AllFiles(s) : f \in created /\ (f \notin Links => disk[f] = Content(s, f))

\* When SendCheckpoint returns without an error (migrate-donor.go:145-155), the
\* recipient has every file of the checkpoint, whole and in order, even if
\* other donors sent at the same time and late handlers interfered.
SentMeansIntact ==
    [][\A s \in Session : pc[s] # "sent" /\ pc'[s] = "sent" => Intact(s)']_vars

\* Sessions that got past the image info and have not ended.
Live == {s \in Session : pc[s] \in {"next", "data", "waiting", "sent"} /\ call[s].op # "ImageInfo"}

\* No two clients hold the same sequence number, so that at most one of them
\* can have its next call accepted (pkg/nymph/migrate.go:80, 108, 126).
OneInSequence ==
    \A s, t \in Live : s # t => mseq[s] # mseq[t]

\* Relaunch restarts the container of the session that asks for it
\* (migrate.go:106, "Now, send a checkpoint and launch it").
LaunchesOwnImage == \A l \in loaded : l.image = imageOf[l.by]

\* File is "current file data" (migrate-recipient.go:23): when a donor announces
\* its next file, the previous one is finished.
NothingUnfinished ==
    \A s \in Session : Arrived(s, "FileInfo") \/ Arrived(s, "LinkInfo") => File = NoFile

\* Both hold while nothing fails and the control loop loses no donor: then it
\* has one migration at a time sent to the recipient (control.go:34-57), which
\* has closed each file that holds something (migrate-recipient.go:167-172).
SerialLaunchesOwnImage == faults = 0 => LaunchesOwnImage
SerialNothingUnfinished == faults = 0 => NothingUnfinished

\* Without faults every migration the operator asks for comes to its end.
EverySessionDone == \A s \in Session : <>(pc[s] = "done" \/ faults # 0)
=============================================================================
