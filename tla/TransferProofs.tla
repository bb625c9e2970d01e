--------------------------- MODULE TransferProofs ---------------------------
(***************************************************************************)
(* Transfer delivers what it says it delivered: for any sessions, any      *)
(* files, any number of faults and any interleaving of donors and          *)
(* handlers, a donor whose SendCheckpoint succeeds has left every file of  *)
(* the checkpoint whole on the recipient.                                  *)
(*                                                                         *)
(* The argument: every handler that touches the disk also consumes a       *)
(* sequence number, and a client goes on only if its numbers follow one    *)
(* another.  So only the last session to get a number (the leader) can     *)
(* still succeed, and nobody wrote anything since.                         *)
(*                                                                         *)
(* While nothing fails the sessions come one after another, as the control *)
(* loop serves one migration at a time: Relaunch restarts the container of *)
(* the session that asks for it, and no announcement meets an open file.   *)
(***************************************************************************)
EXTENDS Transfer, TLAPS

\* A session whose next call can still be accepted.
Leader(s) == s \in Live /\ mseq[s] = seq - 1

Announcing(s) == pc[s] = "waiting" /\ call[s].op \in {"FileInfo", "LinkInfo"}
InData(s) == pc[s] = "data" \/ (pc[s] = "waiting" /\ call[s].op = "FileData")
Unstarted(s) ==
    pc[s] \in {"idle", "image"} \/ (pc[s] = "waiting" /\ call[s].op = "ImageInfo")

Chunks(s, n) == [k \in 1 .. n |-> Chunk(s, k)]
Good(s, f) == f \in created /\ (f \notin Links => disk[f] = Content(s, f))

\* No two live sessions have the same number, and none is ahead of r.seq.
SeqInv ==
    /\ \A s \in Live : mseq[s] < seq
    /\ \A s, t \in Live : s # t => mseq[s] # mseq[t]

\* A call in flight belongs to a client that waits or has given up; what it
\* refers to.
CallInv ==
    \A s \in Session :
        /\ call[s].op # "none" => pc[s] \in {"waiting", "failed"}
        /\ call[s].op \in {"FileInfo", "LinkInfo"} => call[s].file \in Name
        /\ call[s].stage = "blocked" => call[s].file \in Name

\* Where a donor is in its list of files.
DonorInv ==
    \A s \in Session :
        /\ todo[s] \subseteq AllFiles(s)
        /\ Unstarted(s) => todo[s] = AllFiles(s)
        /\ pc[s] = "sent" => todo[s] = {}
        /\ Announcing(s) =>
              /\ cur[s] \in AllFiles(s) \ todo[s]
              /\ call[s].file = cur[s]
              /\ call[s].op = "LinkInfo" <=> cur[s] \in Links
        /\ InData(s) =>
              /\ cur[s] \in AllFiles(s) \ (todo[s] \cup Links)
              /\ pos[s] < sizeOf[s][cur[s]]

\* What the leader has delivered so far.
Delivered(s) ==
    /\ \A f \in AllFiles(s) \ todo[s] :
          \/ f = cur[s] /\ (InData(s) \/ Announcing(s))
          \/ Good(s, f)
    /\ InData(s) =>
          /\ cur[s] \in created
          /\ disk[cur[s]] = Chunks(s, pos[s])
          /\ File \in {cur[s], NoFile}
          /\ call[s].stage = "blocked" => call[s].file = cur[s]

DiskInv == \A s \in Session : Leader(s) => Delivered(s)

IInv == TypeOK /\ SeqInv /\ CallInv /\ DonorInv /\ DiskInv
-----------------------------------------------------------------------------
(***************************************************************************)
(* Lemmas                                                                  *)
(***************************************************************************)

LEMMA FilesAreNames ==
  ASSUME NEW s \in Session
  PROVE  AllFiles(s) \subseteq Name /\ stateOf[s] \in AllFiles(s)
  BY PlanAssumption DEF AllFiles

LEMMA ChunksType ==
  ASSUME NEW s \in Session, NEW n \in Nat
  PROVE  Chunks(s, n) \in Seq(AnyChunk)
<1>1. \A k \in 1 .. n : Chunk(s, k) \in AnyChunk
  BY DEF Chunk, AnyChunk
<1>. QED
  BY <1>1 DEF Chunks

\* Writing any chunk keeps the type of the disk.
LEMMA AppendType ==
  ASSUME disk \in [Name -> Seq(AnyChunk)],
         NEW f \in Name, NEW s \in Session, NEW n \in Nat
  PROVE  [disk EXCEPT ![f] = Append(@, Chunk(s, n))] \in [Name -> Seq(AnyChunk)]
<1>1. Chunk(s, n) \in AnyChunk
  BY DEF Chunk, AnyChunk
<1>2. Append(disk[f], Chunk(s, n)) \in Seq(AnyChunk)
  BY <1>1
<1>. QED
  BY <1>2

\* So does truncating a file.
LEMMA TruncateType ==
  ASSUME disk \in [Name -> Seq(AnyChunk)], NEW f \in Name
  PROVE  [disk EXCEPT ![f] = <<>>] \in [Name -> Seq(AnyChunk)]
<1>1. <<>> \in Seq(AnyChunk)
  OBVIOUS
<1>. QED
  BY <1>1

\* Writing the next chunk of a file extends what was there by one.
LEMMA AppendChunk ==
  ASSUME NEW s \in Session, NEW n \in Nat
  PROVE  Append(Chunks(s, n), Chunk(s, n + 1)) = Chunks(s, n + 1)
<1>1. Len(Chunks(s, n)) = n /\ Len(Chunks(s, n + 1)) = n + 1
  BY ChunksType DEF Chunks
<1>. QED
  BY <1>1, ChunksType DEF Chunks, Chunk

LEMMA NoChunks ==
  ASSUME NEW s \in Session
  PROVE  Chunks(s, 0) = <<>>
  BY ChunksType DEF Chunks

\* A step that hands out no number, writes nothing and leaves the sessions
\* that stay live as they are keeps SeqInv and DiskInv.
LEMMA QuietStep ==
  ASSUME SeqInv, DiskInv,
         UNCHANGED <<seq, disk, created>>, File' \in {File, NoFile},
         \A t \in Live' : /\ t \in Live
                          /\ pc'[t] = pc[t] /\ call'[t] = call[t] /\ todo'[t] = todo[t]
                          /\ cur'[t] = cur[t] /\ pos'[t] = pos[t] /\ mseq'[t] = mseq[t]
  PROVE  SeqInv' /\ DiskInv'
<1>1. SeqInv'
  BY DEF SeqInv
<1>2. ASSUME NEW s \in Session, Leader(s)'
      PROVE  Delivered(s)'
  <2>1. Leader(s) /\ Delivered(s)
    BY <1>2 DEF Leader, DiskInv
  <2>. QED
    BY <1>2, <2>1 DEF Leader, Delivered, InData, Announcing, Good
<1>. QED
  BY <1>1, <1>2 DEF DiskInv

\* A reply dethrones the old leader: after it, only the session that got the
\* number can be in sequence, and only if it was before or has just begun.
LEMMA ReplyStep ==
  ASSUME TypeOK, SeqInv, CallInv, NEW s \in Session, Reply(s), call[s].op # "none"
  PROVE  /\ SeqInv'
         /\ \A t \in Session : Leader(t)' =>
               /\ t = s
               /\ pc[s] = "waiting"
               /\ call[s].op = "ImageInfo" \/ Leader(s)
               /\ mseq'[s] = seq
<1>1. /\ seq \in Nat /\ seq' = seq + 1
      /\ mseq \in [Session -> Nat] /\ pc \in [Session -> PCs]
      /\ call' = [call EXCEPT ![s] = NoCall]
      /\ DOMAIN call = Session
  BY DEF Reply, TypeOK
<1>2. \A t \in Session \ {s} : mseq'[t] = mseq[t] /\ pc'[t] = pc[t] /\ call'[t] = call[t]
  BY <1>1 DEF Reply
<1>3. \A t \in Session \ {s} : t \in Live' => t \in Live /\ mseq'[t] < seq
  BY <1>2 DEF Live, SeqInv
<1>4. s \in Live' => pc[s] = "waiting" /\ Expected(s) /\ mseq'[s] = seq
  <2>1. CASE pc[s] = "waiting" /\ Expected(s)
    BY <1>1, <2>1 DEF Reply
  <2>2. CASE ~ (pc[s] = "waiting" /\ Expected(s))
    BY <1>1, <2>2 DEF Reply, Live, CallInv
  <2>. QED
    BY <2>1, <2>2
<1>. QED
  BY <1>1, <1>2, <1>3, <1>4 DEF SeqInv, Leader, Live, Expected

-----------------------------------------------------------------------------
(***************************************************************************)
(* Types, calls and donors                                                 *)
(***************************************************************************)

\* TypeOK in two parts: what the helpers Reply, ErrorReply and Block assign,
\* and what the handlers assign besides.
DonorTypes ==
    /\ seq \in Nat
    /\ pc \in [Session -> PCs]
    /\ todo \in [Session -> SUBSET Name]
    /\ cur \in [Session -> Name \cup {NoFile}]
    /\ pos \in [Session -> Nat]
    /\ mseq \in [Session -> Nat]
    /\ call \in [Session -> [op : Ops, stage : {"none", "sent", "blocked"}, file : Name \cup {NoFile}]]
    /\ waiting \in Session \cup {NoSession}

RecipientTypes ==
    /\ Size \in Nat
    /\ File \in Name \cup {NoFile}
    /\ ToWrite \in Int
    /\ disk \in [Name -> Seq(AnyChunk)]
    /\ created \subseteq Name
    /\ registered \subseteq Name
    /\ faults \in Nat

LocalInv == DonorTypes /\ CallInv /\ DonorInv

LEMMA RegisterType ==
  ASSUME registered \subseteq Name, NEW t \in Session, Register(t)
  PROVE  registered' \subseteq Name
BY PlanAssumption DEF Register

LEMMA TypeParts == TypeOK <=> DonorTypes /\ RecipientTypes
  BY DEF TypeOK, DonorTypes, RecipientTypes

\* Faults are counted in Nat.
LEMMA FaultType ==
  ASSUME faults \in Nat, Fault
  PROVE  faults' \in Nat
  BY DEF Fault

\* The initial states satisfy the invariant.
LEMMA InitIInv == Init => IInv
<1>. SUFFICES ASSUME Init PROVE IInv
  OBVIOUS
<1>1. TypeOK
  BY PlanAssumption, FilesAreNames DEF Init, TypeOK, NoCall, Ops, PCs, AllFiles
<1>. QED
  BY <1>1 DEF Init, IInv, SeqInv, CallInv, DonorInv, DiskInv, Leader, Live, NoCall,
              Announcing, InData, Unstarted

LEMMA ErrorReplyLocal ==
  ASSUME LocalInv, NEW s \in Session, ErrorReply(s)
  PROVE  LocalInv'
<1>. USE DEF LocalInv, ErrorReply, donorVars
<1>1. DonorTypes'
  BY DEF DonorTypes, PCs, Ops, NoCall
<1>2. CallInv'
  BY DEF DonorTypes, CallInv, NoCall
<1>3. DonorInv'
  BY DEF DonorTypes, DonorInv, Announcing, InData, Unstarted, NoCall
<1>. QED
  BY <1>1, <1>2, <1>3

LEMMA BlockLocal ==
  ASSUME LocalInv, NEW s \in Session, NEW file \in Name, Block(s, file),
         call[s].op # "none",
         call[s].op = "FileData" \/ file = call[s].file
  PROVE  LocalInv'
<1>. USE DEF LocalInv, Block, donorVars
<1>1. DonorTypes'
  BY DEF DonorTypes
<1>2. CallInv'
  BY DEF DonorTypes, CallInv
<1>3. DonorInv'
  BY DEF DonorTypes, DonorInv, Announcing, InData, Unstarted
<1>. QED
  BY <1>1, <1>2, <1>3

LEMMA ReplyLocal ==
  ASSUME LocalInv, NEW s \in Session, Reply(s),
         call[s].op \in {"ImageInfo", "FileInfo", "LinkInfo", "FileData"}
  PROVE  LocalInv'
<1>. USE DEF LocalInv, Reply
<1>1. DonorTypes'
  BY DEF DonorTypes, PCs, Ops, NoCall, Continue
<1>2. CallInv'
  BY DEF DonorTypes, CallInv, NoCall
<1>3. DonorInv'
  BY PlanAssumption DEF DonorTypes, CallInv, DonorInv, Announcing, InData, Unstarted, NoCall, AllFiles, Continue
<1>. QED
  BY <1>1, <1>2, <1>3

\* Every step keeps the types and the bookkeeping of calls and donors.
LEMMA NextLocal ==
  ASSUME TypeOK, CallInv, DonorInv, [Next]_vars
  PROVE  TypeOK' /\ CallInv' /\ DonorInv'
<1>. SUFFICES LocalInv' /\ RecipientTypes'
  BY TypeParts DEF LocalInv, TypeOK, DonorTypes, RecipientTypes
<1>0. LocalInv /\ RecipientTypes
  BY TypeParts DEF LocalInv
<1>1. ASSUME NEW s \in Session, Begin(s)
      PROVE  LocalInv' /\ RecipientTypes'
  <2>1. RecipientTypes'
    BY <1>1, <1>0 DEF Begin, RecipientTypes, recipientVars
  <2>2. DonorTypes'
    BY <1>1, <1>0 DEF Begin, LocalInv, DonorTypes, PCs, Ops, donorVars, recipientVars
  <2>3. CallInv'
    BY <1>1, <1>0, PlanAssumption DEF Begin, LocalInv, DonorTypes, CallInv, DonorInv, AllFiles, Ended, donorVars
  <2>4. DonorInv'
    BY <1>1, <1>0, PlanAssumption DEF Begin, LocalInv, DonorTypes, CallInv, DonorInv, Announcing, InData, Unstarted, AllFiles, Ended, donorVars
  <2>. QED
    BY <2>1, <2>2, <2>3, <2>4 DEF LocalInv
<1>2. ASSUME NEW s \in Session, SendImageInfo(s)
      PROVE  LocalInv' /\ RecipientTypes'
  <2>1. RecipientTypes'
    BY <1>2, <1>0 DEF SendImageInfo, Issue, RecipientTypes, recipientVars
  <2>2. DonorTypes'
    BY <1>2, <1>0 DEF SendImageInfo, Issue, LocalInv, DonorTypes, PCs, Ops, donorVars, recipientVars
  <2>3. CallInv'
    BY <1>2, <1>0, PlanAssumption DEF SendImageInfo, Issue, LocalInv, DonorTypes, CallInv, DonorInv, AllFiles, Ended, donorVars
  <2>4. DonorInv'
    BY <1>2, <1>0, PlanAssumption DEF SendImageInfo, Issue, LocalInv, DonorTypes, CallInv, DonorInv, Announcing, InData, Unstarted, AllFiles, Ended, donorVars
  <2>. QED
    BY <2>1, <2>2, <2>3, <2>4 DEF LocalInv
<1>3. ASSUME NEW s \in Session, SendChunk(s)
      PROVE  LocalInv' /\ RecipientTypes'
  <2>1. RecipientTypes'
    BY <1>3, <1>0 DEF SendChunk, Issue, RecipientTypes, recipientVars
  <2>2. DonorTypes'
    BY <1>3, <1>0 DEF SendChunk, Issue, LocalInv, DonorTypes, PCs, Ops, donorVars, recipientVars
  <2>3. CallInv'
    BY <1>3, <1>0, PlanAssumption DEF SendChunk, Issue, LocalInv, DonorTypes, CallInv, DonorInv, AllFiles, Ended, donorVars
  <2>4. DonorInv'
    BY <1>3, <1>0, PlanAssumption DEF SendChunk, Issue, LocalInv, DonorTypes, CallInv, DonorInv, Announcing, InData, Unstarted, AllFiles, Ended, donorVars
  <2>. QED
    BY <2>1, <2>2, <2>3, <2>4 DEF LocalInv
<1>4. ASSUME NEW s \in Session, SendRelaunch(s)
      PROVE  LocalInv' /\ RecipientTypes'
  <2>1. RecipientTypes'
    BY <1>4, <1>0 DEF SendRelaunch, Issue, RecipientTypes, recipientVars
  <2>2. DonorTypes'
    BY <1>4, <1>0 DEF SendRelaunch, Issue, LocalInv, DonorTypes, PCs, Ops, donorVars, recipientVars
  <2>3. CallInv'
    BY <1>4, <1>0, PlanAssumption DEF SendRelaunch, Issue, LocalInv, DonorTypes, CallInv, DonorInv, AllFiles, Ended, donorVars
  <2>4. DonorInv'
    BY <1>4, <1>0, PlanAssumption DEF SendRelaunch, Issue, LocalInv, DonorTypes, CallInv, DonorInv, Announcing, InData, Unstarted, AllFiles, Ended, donorVars
  <2>. QED
    BY <2>1, <2>2, <2>3, <2>4 DEF LocalInv
<1>5. ASSUME NEW s \in Session, SkipRelaunch(s)
      PROVE  LocalInv' /\ RecipientTypes'
  <2>1. RecipientTypes'
    BY <1>5, <1>0 DEF SkipRelaunch, RecipientTypes, recipientVars
  <2>2. DonorTypes'
    BY <1>5, <1>0 DEF SkipRelaunch, LocalInv, DonorTypes, PCs, Ops, donorVars, recipientVars
  <2>3. CallInv'
    BY <1>5, <1>0, PlanAssumption DEF SkipRelaunch, LocalInv, DonorTypes, CallInv, DonorInv, AllFiles, Ended, donorVars
  <2>4. DonorInv'
    BY <1>5, <1>0, PlanAssumption DEF SkipRelaunch, LocalInv, DonorTypes, CallInv, DonorInv, Announcing, InData, Unstarted, AllFiles, Ended, donorVars
  <2>. QED
    BY <2>1, <2>2, <2>3, <2>4 DEF LocalInv
<1>6. ASSUME NEW s \in Session, Return(s)
      PROVE  LocalInv' /\ RecipientTypes'
  <2>1. RecipientTypes'
    BY <1>6, <1>0 DEF Return, RecipientTypes, recipientVars
  <2>2. DonorTypes'
    BY <1>6, <1>0 DEF Return, LocalInv, DonorTypes, PCs, Ops, donorVars, recipientVars
  <2>3. CallInv'
    BY <1>6, <1>0, PlanAssumption DEF Return, LocalInv, DonorTypes, CallInv, DonorInv, AllFiles, Ended, donorVars
  <2>4. DonorInv'
    BY <1>6, <1>0, PlanAssumption DEF Return, LocalInv, DonorTypes, CallInv, DonorInv, Announcing, InData, Unstarted, AllFiles, Ended, donorVars
  <2>. QED
    BY <2>1, <2>2, <2>3, <2>4 DEF LocalInv
<1>7. ASSUME NEW s \in Session, Abort(s)
      PROVE  LocalInv' /\ RecipientTypes'
  <2>1. RecipientTypes'
    BY <1>7, <1>0, FaultType DEF Abort, RecipientTypes, recipientVars
  <2>2. DonorTypes'
    BY <1>7, <1>0 DEF Abort, Fault, LocalInv, DonorTypes, PCs, Ops, donorVars, recipientVars
  <2>3. CallInv'
    BY <1>7, <1>0, PlanAssumption DEF Abort, Fault, LocalInv, DonorTypes, CallInv, DonorInv, AllFiles, Ended, donorVars
  <2>4. DonorInv'
    BY <1>7, <1>0, PlanAssumption DEF Abort, Fault, LocalInv, DonorTypes, CallInv, DonorInv, Announcing, InData, Unstarted, AllFiles, Ended, donorVars
  <2>. QED
    BY <2>1, <2>2, <2>3, <2>4 DEF LocalInv
<1>8. ASSUME NEW s \in Session, LoseDonor(s)
      PROVE  LocalInv' /\ RecipientTypes'
  <2>1. RecipientTypes'
    BY <1>8, <1>0, FaultType DEF LoseDonor, RecipientTypes, recipientVars
  <2>2. DonorTypes'
    BY <1>8, <1>0 DEF LoseDonor, Fault, LocalInv, DonorTypes, PCs, Ops, donorVars, recipientVars
  <2>3. CallInv'
    BY <1>8, <1>0, PlanAssumption DEF LoseDonor, Fault, LocalInv, DonorTypes, CallInv, DonorInv, AllFiles, Ended, donorVars
  <2>4. DonorInv'
    BY <1>8, <1>0, PlanAssumption DEF LoseDonor, Fault, LocalInv, DonorTypes, CallInv, DonorInv, Announcing, InData, Unstarted, AllFiles, Ended, donorVars
  <2>. QED
    BY <2>1, <2>2, <2>3, <2>4 DEF LocalInv
<1>9. ASSUME NEW s \in Session, SendFile(s)
      PROVE  LocalInv' /\ RecipientTypes'
  <2>1. RecipientTypes'
    BY <1>9, <1>0 DEF SendFile, Issue, RecipientTypes, recipientVars
  <2>2. PICK f \in IF stateOf[s] \in todo[s] THEN {stateOf[s]} ELSE todo[s] :
          /\ Issue(s, IF f \in Links THEN "LinkInfo" ELSE "FileInfo", f)
          /\ cur' = [cur EXCEPT ![s] = f]
          /\ todo' = [todo EXCEPT ![s] = @ \ {f}]
    BY <1>9 DEF SendFile
  <2>3. f \in todo[s] /\ f \in AllFiles(s) /\ f \in Name
    BY <1>0, <2>2, FilesAreNames DEF LocalInv, DonorInv
  <2>4. pc[s] = "next" /\ pos' = [pos EXCEPT ![s] = 0] /\ UNCHANGED mseq
    BY <1>9 DEF SendFile
  <2>5. DonorTypes'
    BY <1>0, <2>2, <2>3, <2>4 DEF Issue, LocalInv, DonorTypes, PCs, Ops, recipientVars
  <2>6. CallInv'
    BY <1>0, <2>2, <2>3 DEF Issue, LocalInv, DonorTypes, CallInv
  <2>7. DonorInv'
    <3>1. ASSUME NEW t \in Session, t # s
          PROVE  /\ pc'[t] = pc[t] /\ call'[t] = call[t] /\ todo'[t] = todo[t]
                 /\ cur'[t] = cur[t] /\ pos'[t] = pos[t]
      BY <1>0, <2>2, <2>4, <3>1 DEF Issue, LocalInv, DonorTypes
    <3>2. /\ pc'[s] = "waiting" /\ cur'[s] = f /\ todo'[s] = todo[s] \ {f}
          /\ call'[s].op = (IF f \in Links THEN "LinkInfo" ELSE "FileInfo")
          /\ call'[s].file = f
      BY <1>0, <2>2 DEF Issue, LocalInv, DonorTypes
    <3>. QED
      BY <1>0, <2>3, <3>1, <3>2 DEF LocalInv, DonorInv, Announcing, InData, Unstarted
  <2>. QED
    BY <2>1, <2>5, <2>6, <2>7 DEF LocalInv
<1>10. ASSUME NEW s \in Session, HandleImageInfo(s)
      PROVE  LocalInv' /\ RecipientTypes'
  <2>1. RecipientTypes'
    BY <1>10, <1>0 DEF HandleImageInfo, RecipientTypes, LocalInv, CallInv
  <2>2. LocalInv'
    BY <1>10, <1>0, ReplyLocal DEF HandleImageInfo, Arrived
  <2>. QED
    BY <2>1, <2>2
<1>11. ASSUME NEW s \in Session, EnterFileInfo(s)
      PROVE  LocalInv' /\ RecipientTypes'
  <2>1. RecipientTypes'
    BY <1>11, <1>0, PlanAssumption DEF EnterFileInfo, Arrived, RecipientTypes, LocalInv, CallInv
  <2>2. LocalInv'
    <3>1. CASE ErrorReply(s)
      BY <1>0, <3>1, ErrorReplyLocal
    <3>2. CASE Block(s, call[s].file)
      <4>1. call[s].op # "none" /\ call[s].file \in Name
        BY <1>11, <1>0 DEF EnterFileInfo, Arrived, LocalInv, CallInv
      <4>. QED
        BY <1>0, <3>2, <4>1, BlockLocal
    <3>. QED
      BY <1>11, <3>1, <3>2 DEF EnterFileInfo
  <2>. QED
    BY <2>1, <2>2
<1>12. ASSUME NEW s \in Session, OpenFile(s)
      PROVE  LocalInv' /\ RecipientTypes'
  <2>1. RecipientTypes'
    <3>1. call[s].file \in Name
      BY <1>12, <1>0 DEF OpenFile, Blocked, LocalInv, CallInv
    <3>2. [disk EXCEPT ![call[s].file] = <<>>] \in [Name -> Seq(AnyChunk)]
      BY <1>0, <3>1, TruncateType DEF RecipientTypes
    <3>. QED
      BY <1>12, <1>0, <3>1, <3>2 DEF OpenFile, RecipientTypes
  <2>2. LocalInv'
    BY <1>12, <1>0, ReplyLocal DEF OpenFile, Blocked
  <2>. QED
    BY <2>1, <2>2
<1>13. ASSUME NEW s \in Session, OpenFileFails(s)
      PROVE  LocalInv' /\ RecipientTypes'
  <2>1. RecipientTypes'
    BY <1>13, <1>0, FaultType DEF OpenFileFails, RecipientTypes
  <2>2. LocalInv'
    BY <1>13, <1>0, ErrorReplyLocal DEF OpenFileFails
  <2>. QED
    BY <2>1, <2>2
<1>14. ASSUME NEW s \in Session, EnterLinkInfo(s)
      PROVE  LocalInv' /\ RecipientTypes'
  <2>1. RecipientTypes'
    BY <1>14, <1>0 DEF EnterLinkInfo, RecipientTypes, LocalInv, CallInv
  <2>2. LocalInv'
    <3>1. CASE ErrorReply(s)
      BY <1>0, <3>1, ErrorReplyLocal
    <3>2. CASE Block(s, call[s].file)
      <4>1. call[s].op # "none" /\ call[s].file \in Name
        BY <1>14, <1>0 DEF EnterLinkInfo, Arrived, LocalInv, CallInv
      <4>. QED
        BY <1>0, <3>2, <4>1, BlockLocal
    <3>. QED
      BY <1>14, <3>1, <3>2 DEF EnterLinkInfo
  <2>. QED
    BY <2>1, <2>2
<1>15. ASSUME NEW s \in Session, Symlink(s)
      PROVE  LocalInv' /\ RecipientTypes'
  <2>1. RecipientTypes'
    BY <1>15, <1>0 DEF Symlink, Blocked, RecipientTypes, LocalInv, CallInv
  <2>2. LocalInv'
    BY <1>15, <1>0, ErrorReplyLocal, ReplyLocal DEF Symlink, Blocked
  <2>. QED
    BY <2>1, <2>2
<1>16. ASSUME NEW s \in Session, EnterFileData(s)
      PROVE  LocalInv' /\ RecipientTypes'
  <2>1. RecipientTypes'
    BY <1>16, <1>0 DEF EnterFileData, RecipientTypes, LocalInv, CallInv
  <2>2. LocalInv'
    <3>1. CASE ErrorReply(s)
      BY <1>0, <3>1, ErrorReplyLocal
    <3>2. CASE File # NoFile /\ Block(s, File)
      BY <1>16, <1>0, <3>2, BlockLocal DEF EnterFileData, Arrived, RecipientTypes
    <3>. QED
      BY <1>16, <3>1, <3>2 DEF EnterFileData
  <2>. QED
    BY <2>1, <2>2
<1>17. ASSUME NEW s \in Session, WriteData(s)
      PROVE  LocalInv' /\ RecipientTypes'
  <2>1. RecipientTypes'
    <3>1. call[s].file \in Name /\ pos[s] + 1 \in Nat
      BY <1>17, <1>0 DEF WriteData, Blocked, LocalInv, CallInv, DonorTypes
    <3>2. disk' \in [Name -> Seq(AnyChunk)]
      BY <1>17, <1>0, <3>1, AppendType DEF WriteData, RecipientTypes
    <3>. QED
      BY <1>17, <1>0, <3>2 DEF WriteData, RecipientTypes
  <2>2. LocalInv'
    BY <1>17, <1>0, ReplyLocal DEF WriteData, Blocked
  <2>. QED
    BY <2>1, <2>2
<1>18. ASSUME NEW s \in Session, WriteFails(s)
      PROVE  LocalInv' /\ RecipientTypes'
  <2>1. RecipientTypes'
    <3>1. call[s].file \in Name
      BY <1>18, <1>0 DEF WriteFails, Blocked, LocalInv, CallInv
    <3>2. faults' \in Nat
      BY <1>18, <1>0, FaultType DEF WriteFails, RecipientTypes
    <3>3. disk' \in [Name -> Seq(AnyChunk)]
      <4>1. [disk EXCEPT ![call[s].file] = Append(@, Chunk(s, 0))] \in [Name -> Seq(AnyChunk)]
        BY <1>0, <3>1, AppendType DEF RecipientTypes
      <4>. QED
        BY <1>18, <1>0, <4>1 DEF WriteFails, RecipientTypes
    <3>. QED
      BY <1>18, <1>0, <3>2, <3>3 DEF WriteFails, RecipientTypes
  <2>2. LocalInv'
    BY <1>18, <1>0, ErrorReplyLocal DEF WriteFails
  <2>. QED
    BY <2>1, <2>2
<1>19. ASSUME NEW s \in Session, RelaunchFails(s) \/ RefuseRelaunch(s)
      PROVE  LocalInv' /\ RecipientTypes'
  <2>1. RecipientTypes'
    <3>1. UNCHANGED registered \/ \E t \in Session : Register(t)
      BY <1>19 DEF RelaunchFails, RefuseRelaunch
    <3>2. registered' \subseteq Name
      BY <1>0, <3>1, RegisterType DEF RecipientTypes
    <3>. QED
      BY <1>19, <1>0, <3>2, FaultType DEF RelaunchFails, RefuseRelaunch, RecipientTypes
  <2>2. LocalInv'
    BY <1>19, <1>0, ErrorReplyLocal DEF RelaunchFails, RefuseRelaunch
  <2>. QED
    BY <2>1, <2>2
<1>20. ASSUME NEW s \in Session, HandleRelaunch(s)
      PROVE  LocalInv' /\ RecipientTypes'
  <2>1. RecipientTypes'
    <3>1. registered' \subseteq Name
      BY <1>0, <1>20, RegisterType DEF HandleRelaunch, RecipientTypes
    <3>. QED
      BY <1>20, <1>0, <3>1 DEF HandleRelaunch, RecipientTypes
  <2>2. LocalInv'
    BY <1>20, <1>0 DEF HandleRelaunch, Arrived, LocalInv, DonorTypes, CallInv, DonorInv,
                      Announcing, InData, Unstarted, NoCall, PCs, Ops, donorVars
  <2>. QED
    BY <2>1, <2>2
<1>21. CASE UNCHANGED vars
  BY <1>21, <1>0 DEF vars, recipientVars, donorVars, LocalInv, DonorTypes, RecipientTypes,
     CallInv, DonorInv, Announcing, InData, Unstarted
<1>. QED
  BY <1>1, <1>2, <1>3, <1>4, <1>5, <1>6, <1>7, <1>8, <1>9, <1>10, <1>11, <1>12, <1>13, <1>14, <1>15, <1>16, <1>17, <1>18, <1>19, <1>20, <1>21 DEF Next, Donor, Handler, Failure
-----------------------------------------------------------------------------
(***************************************************************************)
(* Sequence numbers and the disk                                           *)
(***************************************************************************)

\* A handler that ends with an error and writes nothing is quiet: its client
\* is no longer live.
LEMMA ErrorReplyQuiet ==
  ASSUME TypeOK, SeqInv, CallInv, DiskInv, NEW s \in Session, ErrorReply(s),
         call[s].op # "none", UNCHANGED <<disk, created>>, File' \in {File, NoFile}
  PROVE  SeqInv' /\ DiskInv'
<1>1. pc[s] \in {"waiting", "failed"} /\ pc'[s] = "failed"
  BY DEF ErrorReply, CallInv, TypeOK
<1>2. s \notin Live'
  BY <1>1 DEF Live
<1>3. \A t \in Session \ {s} : pc'[t] = pc[t] /\ call'[t] = call[t]
  BY DEF ErrorReply, TypeOK
<1>4. UNCHANGED <<seq, todo, cur, pos, mseq>>
  BY DEF ErrorReply, donorVars
<1>5. \A t \in Live' : /\ t \in Live
                       /\ pc'[t] = pc[t] /\ call'[t] = call[t] /\ todo'[t] = todo[t]
                       /\ cur'[t] = cur[t] /\ pos'[t] = pos[t] /\ mseq'[t] = mseq[t]
  BY <1>2, <1>3, <1>4 DEF Live
<1>. QED
  BY <1>4, <1>5, QuietStep

\* A step that moves one live session on, hands out no number and writes
\* nothing keeps SeqInv, and DiskInv if it keeps what that session delivered.
LEMMA MoveStep ==
  ASSUME TypeOK, SeqInv, DiskInv, NEW s \in Live,
         UNCHANGED <<seq, disk, created, mseq, File>>,
         \A t \in Session \ {s} :
             /\ pc'[t] = pc[t] /\ call'[t] = call[t] /\ todo'[t] = todo[t]
             /\ cur'[t] = cur[t] /\ pos'[t] = pos[t],
         Leader(s) /\ Delivered(s) => Delivered(s)'
  PROVE  SeqInv' /\ DiskInv'
<1>1. Live' \subseteq Live
  BY DEF Live
<1>2. SeqInv'
  BY <1>1 DEF SeqInv
<1>3. ASSUME NEW t \in Session, Leader(t)'
      PROVE  Delivered(t)'
  <2>1. Leader(t) /\ Delivered(t)
    BY <1>1, <1>3 DEF Leader, DiskInv
  <2>2. CASE t = s
    BY <2>1, <2>2
  <2>3. CASE t # s
    BY <2>1, <2>3 DEF Delivered, InData, Announcing, Good
  <2>. QED
    BY <2>2, <2>3
<1>. QED
  BY <1>2, <1>3 DEF DiskInv

\* A blocking handler changes nothing its client has delivered.
LEMMA BlockQuiet ==
  ASSUME TypeOK, SeqInv, CallInv, DonorInv, DiskInv, NEW s \in Session, NEW file \in Name,
         Block(s, file), UNCHANGED <<disk, created, File>>,
         call[s].op \in {"FileInfo", "LinkInfo", "FileData"},
         call[s].op = "FileData" => file = File
  PROVE  SeqInv' /\ DiskInv'
<1>1. /\ UNCHANGED <<seq, todo, cur, pos, mseq, pc>>
      /\ \A t \in Session \ {s} : call'[t] = call[t]
      /\ call'[s].op = call[s].op /\ call'[s].file = file
  BY DEF Block, donorVars, TypeOK
<1>2. Leader(s) /\ Delivered(s) => Delivered(s)'
  <2>1. (InData(s)' <=> InData(s)) /\ (Announcing(s)' <=> Announcing(s))
    BY <1>1 DEF InData, Announcing
  <2>2. InData(s) /\ call'[s].stage = "blocked" /\ File \in {cur[s], NoFile} => file = cur[s]
    BY NoneAssumption, <1>1 DEF InData, CallInv
  <2>. QED
    BY <1>1, <2>1, <2>2 DEF Delivered, Good
<1>3. CASE s \in Live
  BY <1>1, <1>2, <1>3, MoveStep
<1>4. CASE s \notin Live
  BY <1>1, <1>4, QuietStep DEF Live
<1>. QED
  BY <1>3, <1>4

\* Every step keeps the sequence numbers apart and the leader's files whole.
LEMMA NextDisk ==
  ASSUME ~ TornWrites, IInv, [Next]_vars
  PROVE  SeqInv' /\ DiskInv'
<1>0. TypeOK /\ SeqInv /\ CallInv /\ DonorInv /\ DiskInv
  BY DEF IInv
<1>1. ASSUME NEW s \in Session,
             Begin(s) \/ SendImageInfo(s) \/ SkipRelaunch(s) \/ Return(s) \/ Abort(s) \/ LoseDonor(s)
      PROVE  SeqInv' /\ DiskInv'
  <2>1. UNCHANGED <<recipientVars, donorVars>>
    BY <1>1 DEF Begin, SendImageInfo, Issue, SkipRelaunch, Return, Abort, LoseDonor
  <2>2. \A t \in Live' : t \in Live /\ pc'[t] = pc[t] /\ call'[t] = call[t]
    BY <1>1, <1>0 DEF Begin, SendImageInfo, Issue, SkipRelaunch, Return, Abort, LoseDonor, Live, TypeOK
  <2>. QED
    BY <1>0, <2>1, <2>2, QuietStep DEF recipientVars, donorVars
<1>2. ASSUME NEW s \in Session, SendFile(s)
      PROVE  SeqInv' /\ DiskInv'
  <2>1. PICK f \in IF stateOf[s] \in todo[s] THEN {stateOf[s]} ELSE todo[s] :
          /\ Issue(s, IF f \in Links THEN "LinkInfo" ELSE "FileInfo", f)
          /\ cur' = [cur EXCEPT ![s] = f]
          /\ todo' = [todo EXCEPT ![s] = @ \ {f}]
    BY <1>2 DEF SendFile
  <2>2. /\ pc[s] = "next" /\ call[s].op = "none"
        /\ pos' = [pos EXCEPT ![s] = 0]
        /\ UNCHANGED <<seq, disk, created, mseq, File>>
    BY <1>2, <1>0, <2>1 DEF SendFile, Issue, recipientVars, CallInv
  <2>3. /\ pc'[s] = "waiting" /\ cur'[s] = f /\ todo'[s] = todo[s] \ {f}
        /\ call'[s].op = IF f \in Links THEN "LinkInfo" ELSE "FileInfo"
    BY <1>0, <2>1 DEF Issue, TypeOK
  <2>4. \A t \in Session \ {s} :
             /\ pc'[t] = pc[t] /\ call'[t] = call[t] /\ todo'[t] = todo[t]
             /\ cur'[t] = cur[t] /\ pos'[t] = pos[t]
    BY <1>0, <2>1, <2>2 DEF Issue, TypeOK
  <2>5. Leader(s) /\ Delivered(s) => Delivered(s)'
    BY <2>2, <2>3 DEF Delivered, InData, Announcing, Good
  <2>6. s \in Live
    BY <2>2 DEF Live
  <2>. QED
    BY <1>0, <2>2, <2>4, <2>5, <2>6, MoveStep
<1>3. ASSUME NEW s \in Session, SendChunk(s) \/ SendRelaunch(s)
      PROVE  SeqInv' /\ DiskInv'
  <2>1. /\ pc[s] \in {"data", "sent"}
        /\ pc[s] = "data" <=> SendChunk(s)
        /\ call[s].op = "none"
        /\ UNCHANGED <<recipientVars, donorVars>>
    BY <1>3, <1>0 DEF SendChunk, SendRelaunch, Issue, CallInv
  <2>2. /\ pc'[s] = "waiting"
        /\ call'[s] = [op |-> IF pc[s] = "data" THEN "FileData" ELSE "Relaunch",
                       stage |-> "sent", file |-> NoFile]
    BY <1>3, <1>0 DEF SendChunk, SendRelaunch, Issue, TypeOK
  <2>3. \A t \in Session \ {s} : pc'[t] = pc[t] /\ call'[t] = call[t]
    BY <1>3, <1>0 DEF SendChunk, SendRelaunch, Issue, TypeOK
  <2>4. Leader(s) /\ Delivered(s) => Delivered(s)'
    BY <2>1, <2>2 DEF Delivered, InData, Announcing, Good, recipientVars, donorVars
  <2>5. s \in Live
    BY <2>1 DEF Live
  <2>6. UNCHANGED <<seq, disk, created, mseq, File, todo, cur, pos>>
    BY <2>1 DEF recipientVars, donorVars
  <2>7. \A t \in Session \ {s} :
             /\ pc'[t] = pc[t] /\ call'[t] = call[t] /\ todo'[t] = todo[t]
             /\ cur'[t] = cur[t] /\ pos'[t] = pos[t]
    BY <2>3, <2>6
  <2>. QED
    BY <1>0, <2>4, <2>5, <2>6, <2>7, MoveStep
<1>4. ASSUME NEW s \in Session, HandleImageInfo(s)
      PROVE  SeqInv' /\ DiskInv'
  <2>1. Reply(s) /\ call[s].op = "ImageInfo" /\ UNCHANGED <<disk, created, todo>>
    BY <1>4 DEF HandleImageInfo, Arrived, Reply
  <2>2. ASSUME NEW t \in Session, Leader(t)'
        PROVE  Delivered(t)'
    <3>1. t = s /\ pc[s] = "waiting"
      BY <1>0, <2>1, <2>2, ReplyStep
    <3>2. todo'[s] = AllFiles(s) /\ pc'[s] = "next"
      BY <1>0, <2>1, <3>1 DEF DonorInv, Unstarted, Reply, Expected, TypeOK
    <3>. QED
      BY <3>1, <3>2 DEF Delivered, InData
  <2>. QED
    BY <1>0, <2>1, <2>2, ReplyStep DEF DiskInv
<1>5. ASSUME NEW s \in Session, OpenFile(s)
      PROVE  SeqInv' /\ DiskInv'
  <2>1. Reply(s) /\ call[s].op = "FileInfo" /\ UNCHANGED <<todo, cur>>
    BY <1>5 DEF OpenFile, Blocked, Reply
  <2>2. ASSUME NEW t \in Session, Leader(t)'
        PROVE  Delivered(t)'
    <3>1. t = s /\ pc[s] = "waiting" /\ Leader(s) /\ Delivered(s)
      BY <1>0, <2>1, <2>2, ReplyStep DEF DiskInv
    <3>2. /\ call[s].file = cur[s] /\ cur[s] \in AllFiles(s) \ (todo[s] \cup Links)
          /\ cur[s] \in Name /\ sizeOf[s][cur[s]] \in Nat
      BY <1>0, <2>1, <3>1, FilesAreNames, PlanAssumption DEF DonorInv, Announcing
    <3>3. /\ disk'[cur[s]] = <<>> /\ created' = created \cup {cur[s]} /\ File' = cur[s]
          /\ \A f \in Name \ {cur[s]} : disk'[f] = disk[f]
      BY <1>5, <1>0, <3>2 DEF OpenFile, TypeOK
    <3>4. \A f \in AllFiles(s) \ todo[s] : f # cur[s] => Good(s, f)'
      BY <2>1, <3>1, <3>3, FilesAreNames DEF Delivered, Good
    <3>5. /\ call'[s] = NoCall /\ pos'[s] = 0
          /\ pc'[s] = IF 0 < sizeOf[s][cur[s]] THEN "data"
                      ELSE IF todo[s] # {} THEN "next" ELSE "sent"
      BY <1>0, <2>1, <2>2, <3>1, <3>2 DEF Reply, Expected, Leader, TypeOK, Continue
    <3>6. CASE 0 < sizeOf[s][cur[s]]
      BY <2>1, <3>1, <3>3, <3>4, <3>5, <3>6, NoChunks DEF Delivered, InData, NoCall
    <3>7. CASE ~ (0 < sizeOf[s][cur[s]])
      <4>1. Content(s, cur[s]) = <<>>
        BY <3>2, <3>7, NoChunks DEF Content, Chunks
      <4>2. Good(s, cur[s])'
        BY <2>1, <3>3, <4>1 DEF Good
      <4>. QED
        BY <2>1, <3>1, <3>4, <3>5, <3>7, <4>2 DEF Delivered, InData, NoCall
    <3>. QED
      BY <3>6, <3>7
  <2>. QED
    BY <1>0, <2>1, <2>2, ReplyStep DEF DiskInv
<1>6. ASSUME NEW s \in Session, Symlink(s), call[s].file \notin created
      PROVE  SeqInv' /\ DiskInv'
  <2>1. /\ Reply(s) /\ call[s].op = "LinkInfo" /\ UNCHANGED <<todo, cur, disk>>
        /\ created' = created \cup {call[s].file}
    BY <1>6 DEF Symlink, Blocked, Reply
  <2>2. ASSUME NEW t \in Session, Leader(t)'
        PROVE  Delivered(t)'
    <3>1. t = s /\ pc[s] = "waiting" /\ Leader(s) /\ Delivered(s)
      BY <1>0, <2>1, <2>2, ReplyStep DEF DiskInv
    <3>2. call[s].file = cur[s] /\ cur[s] \in Links
      BY <1>0, <2>1, <3>1 DEF DonorInv, Announcing
    <3>3. \A f \in AllFiles(s) \ todo[s] : Good(s, f)'
      BY <2>1, <3>1, <3>2 DEF Delivered, Good
    <3>4. pc'[s] \in {"next", "sent"}
      BY <1>0, <2>1, <2>2, <3>1, <3>2 DEF Reply, Expected, Leader, TypeOK, Continue
    <3>. QED
      BY <2>1, <3>1, <3>3, <3>4 DEF Delivered, InData
  <2>. QED
    BY <1>0, <2>1, <2>2, ReplyStep DEF DiskInv
<1>7. ASSUME NEW s \in Session, WriteData(s)
      PROVE  SeqInv' /\ DiskInv'
  <2>1. /\ Reply(s) /\ call[s].op = "FileData" /\ call[s].stage = "blocked"
        /\ UNCHANGED <<todo, cur, created>> /\ File' \in {File, NoFile}
    BY <1>7 DEF WriteData, Blocked, Reply
  <2>2. ASSUME NEW t \in Session, Leader(t)'
        PROVE  Delivered(t)'
    <3>1. t = s /\ pc[s] = "waiting" /\ Leader(s) /\ Delivered(s)
      BY <1>0, <2>1, <2>2, ReplyStep DEF DiskInv
    <3>2. /\ cur[s] \in AllFiles(s) \ (todo[s] \cup Links) /\ cur[s] \in Name
          /\ pos[s] \in Nat /\ sizeOf[s][cur[s]] \in Nat /\ pos[s] < sizeOf[s][cur[s]]
      BY <1>0, <2>1, <3>1, FilesAreNames, PlanAssumption DEF DonorInv, InData, TypeOK
    <3>3. /\ InData(s) /\ cur[s] \in created /\ disk[cur[s]] = Chunks(s, pos[s])
          /\ call[s].file = cur[s] /\ File \in {cur[s], NoFile}
      BY <2>1, <3>1 DEF Delivered, InData
    <3>4. /\ disk'[cur[s]] = Chunks(s, pos[s] + 1)
          /\ \A f \in Name \ {cur[s]} : disk'[f] = disk[f]
      BY <1>7, <1>0, <3>2, <3>3, AppendChunk DEF WriteData, TypeOK
    <3>5. \A f \in AllFiles(s) \ todo[s] : f # cur[s] => Good(s, f)'
      BY <2>1, <3>1, <3>4, FilesAreNames DEF Delivered, Good
    <3>6. /\ call'[s] = NoCall /\ pos'[s] = pos[s] + 1
          /\ pc'[s] = IF pos[s] + 1 < sizeOf[s][cur[s]] THEN "data"
                      ELSE IF todo[s] # {} THEN "next" ELSE "sent"
      BY <1>0, <2>1, <2>2, <3>1, <3>2 DEF Reply, Expected, Leader, TypeOK, Continue
    <3>7. CASE pos[s] + 1 < sizeOf[s][cur[s]]
      BY <2>1, <3>1, <3>3, <3>4, <3>5, <3>6, <3>7 DEF Delivered, InData, NoCall
    <3>8. CASE ~ (pos[s] + 1 < sizeOf[s][cur[s]])
      <4>1. Content(s, cur[s]) = Chunks(s, pos[s] + 1)
        BY <3>2, <3>8 DEF Content, Chunks
      <4>2. Good(s, cur[s])'
        BY <2>1, <3>3, <3>4, <4>1 DEF Good
      <4>. QED
        BY <2>1, <3>1, <3>5, <3>6, <3>8, <4>2 DEF Delivered, InData, NoCall
    <3>. QED
      BY <3>7, <3>8
  <2>. QED
    BY <1>0, <2>1, <2>2, ReplyStep DEF DiskInv
<1>8. ASSUME NEW s \in Session, EnterFileInfo(s) \/ EnterLinkInfo(s) \/ EnterFileData(s)
      PROVE  SeqInv' /\ DiskInv'
  <2>1. /\ call[s].op \in {"FileInfo", "LinkInfo", "FileData"}
        /\ UNCHANGED <<disk, created, File>>
        /\ \/ ErrorReply(s)
           \/ call[s].op # "FileData" /\ Block(s, call[s].file)
           \/ call[s].op = "FileData" /\ File # NoFile /\ Block(s, File)
    BY <1>8 DEF EnterFileInfo, EnterLinkInfo, EnterFileData, Arrived
  <2>2. CASE ErrorReply(s)
    BY <1>0, <2>1, <2>2, ErrorReplyQuiet
  <2>3. CASE call[s].op # "FileData" /\ Block(s, call[s].file)
    <3>1. call[s].file \in Name
      BY <1>0, <2>1, <2>3 DEF CallInv
    <3>. QED
      BY <1>0, <2>1, <2>3, <3>1, BlockQuiet
  <2>4. CASE call[s].op = "FileData" /\ File # NoFile /\ Block(s, File)
    <3>1. File \in Name
      BY <1>0, <2>4 DEF TypeOK
    <3>. QED
      BY <1>0, <2>1, <2>4, <3>1, BlockQuiet
  <2>. QED
    BY <2>1, <2>2, <2>3, <2>4
<1>9. ASSUME NEW s \in Session,
             \/ OpenFileFails(s) \/ WriteFails(s) \/ RelaunchFails(s) \/ RefuseRelaunch(s)
             \/ Symlink(s) /\ call[s].file \in created
      PROVE  SeqInv' /\ DiskInv'
  <2>1. ErrorReply(s) /\ call[s].op # "none" /\ UNCHANGED <<disk, created>> /\ File' \in {File, NoFile}
    BY <1>9 DEF OpenFileFails, WriteFails, RelaunchFails, RefuseRelaunch, Symlink, Arrived, Blocked
  <2>. QED
    BY <1>0, <2>1, ErrorReplyQuiet
<1>10. ASSUME NEW s \in Session, HandleRelaunch(s)
       PROVE  SeqInv' /\ DiskInv'
  <2>1. UNCHANGED <<seq, disk, created, File, donorVars>>
    BY <1>10 DEF HandleRelaunch
  <2>2. pc[s] \in {"waiting", "failed"}
    BY <1>10, <1>0 DEF HandleRelaunch, Arrived, CallInv
  <2>3. \A t \in Live' : t \in Live /\ pc'[t] = pc[t] /\ call'[t] = call[t]
    BY <1>10, <1>0, <2>2 DEF HandleRelaunch, Live, TypeOK
  <2>. QED
    BY <1>0, <2>1, <2>3, QuietStep DEF donorVars
<1>11. CASE UNCHANGED vars
  <2>1. Live' = Live
    BY <1>11 DEF vars, Live
  <2>. QED
    BY <1>0, <1>11, <2>1, QuietStep DEF vars, recipientVars, donorVars
<1>. QED
  BY <1>1, <1>2, <1>3, <1>4, <1>5, <1>6, <1>7, <1>8, <1>9, <1>10, <1>11
     DEF Next, Donor, Handler, Failure
-----------------------------------------------------------------------------
(***************************************************************************)
(* Theorems                                                                *)
(***************************************************************************)

\* The inductive invariant holds in every reachable state, unless a write
\* that fails leaves part of a chunk behind.
THEOREM Invariance ==
  ASSUME ~ TornWrites
  PROVE  Spec => []IInv
<1>1. IInv /\ [Next]_vars => IInv'
  BY NextLocal, NextDisk DEF IInv
<1>. QED
  BY <1>1, InitIInv, PTL DEF Spec

\* The recipient and its donors stay well-typed (server and client of the
\* transfer protocol), torn writes or not.
THEOREM TypeCorrect == Spec => []TypeOK
<1>1. Init => TypeOK /\ CallInv /\ DonorInv
  BY InitIInv DEF IInv
<1>2. TypeOK /\ CallInv /\ DonorInv /\ [Next]_vars => (TypeOK /\ CallInv /\ DonorInv)'
  BY NextLocal
<1>. QED
  BY <1>1, <1>2, PTL DEF Spec

\* No two live clients hold the same sequence number: at most one of any
\* number of donors can have its next call accepted (pkg/nymph/migrate.go:80).
THEOREM SequenceSafety ==
  ASSUME ~ TornWrites
  PROVE  Spec => []OneInSequence
<1>1. IInv => OneInSequence
  BY DEF IInv, SeqInv, OneInSequence
<1>. QED
  BY <1>1, Invariance, PTL

\* A step to "sent" is a reply that makes its session the leader.
LEMMA SentIsLeader ==
  ASSUME TypeOK, CallInv, Next, NEW s \in Session, pc[s] # "sent", pc'[s] = "sent"
  PROVE  Leader(s)'
<1>1. Reply(s)
  <2>. PICK t \in Session : Begin(t) \/ Donor(t) \/ Handler(t) \/ Return(t) \/ Failure(t)
    BY DEF Next
  <2>1. CASE Begin(t) \/ Donor(t) \/ Return(t) \/ Failure(t)
    BY <2>1 DEF TypeOK, Begin, Donor, SendImageInfo, SendFile, SendChunk, SendRelaunch,
       SkipRelaunch, Issue, Return, Failure, OpenFileFails, WriteFails, RelaunchFails,
       ErrorReply, Abort, LoseDonor
  <2>2. CASE Handler(t)
    <3>1. Reply(t) \/ ErrorReply(t) \/ (\E f : Block(t, f)) \/ HandleRelaunch(t)
      BY <2>2 DEF Handler, HandleImageInfo, EnterFileInfo, OpenFile, EnterLinkInfo,
         Symlink, EnterFileData, WriteData, RefuseRelaunch
    <3>2. ~ (ErrorReply(t) \/ (\E f : Block(t, f)) \/ HandleRelaunch(t))
      BY DEF ErrorReply, Block, HandleRelaunch, TypeOK
    <3>3. t = s
      BY <3>1, <3>2 DEF Reply, TypeOK
    <3>. QED
      BY <3>1, <3>2, <3>3
  <2>. QED
    BY <2>1, <2>2
<1>2. mseq'[s] = seq /\ seq' = seq + 1 /\ call'[s] = NoCall
  BY <1>1 DEF Reply, TypeOK
<1>. QED
  BY <1>2 DEF Leader, Live, NoCall, TypeOK

\* For any sessions, files, interleavings and number of faults: when
\* SendCheckpoint succeeds (migrate-donor.go:145-155), the recipient has every
\* file of the checkpoint, whole.
THEOREM DeliverySafety ==
  ASSUME ~ TornWrites
  PROVE  Spec => SentMeansIntact
<1>1. IInv /\ IInv' /\ [Next]_vars =>
        [\A s \in Session : pc[s] # "sent" /\ pc'[s] = "sent" => Intact(s)']_vars
  <2>. SUFFICES ASSUME IInv, IInv', Next, NEW s \in Session, pc[s] # "sent", pc'[s] = "sent"
                PROVE  Intact(s)'
    BY DEF vars
  <2>1. Leader(s)'
    BY SentIsLeader DEF IInv
  <2>2. todo'[s] = {} /\ Delivered(s)'
    BY <2>1 DEF IInv, DonorInv, DiskInv
  <2>. QED
    BY <2>2 DEF Delivered, InData, Announcing, Good, Intact
<1>. QED
  BY <1>1, Invariance, PTL DEF Spec, SentMeansIntact
-----------------------------------------------------------------------------
(***************************************************************************)
(* Without faults the sessions come one after another.                     *)
(***************************************************************************)

Busy(s) == pc[s] \in {"image", "next", "data", "waiting", "sent"}
InSequence(s) ==
    pc[s] \in {"next", "data", "sent"} \/ (pc[s] = "waiting" /\ call[s].op # "ImageInfo")

\* The control loop waits for whoever is busy, whose numbers are in sequence.
TurnInv ==
    faults = 0 =>
        \A s \in Session :
            /\ Busy(s) => waiting = s
            /\ call[s].op # "none" => pc[s] = "waiting"
            /\ InSequence(s) => imageInfo = imageOf[s] /\ mseq[s] = seq - 1

\* A file that is open belongs to a session that has chunks of it to send.
FileInv ==
    faults = 0 =>
        /\ File # NoFile =>
              \E s \in Session : InData(s) /\ File = cur[s] /\ ToWrite = sizeOf[s][cur[s]] - pos[s]
        /\ \A s \in Session :
              /\ Blocked(s, "FileInfo") => Size = sizeOf[s][cur[s]]
              /\ Blocked(s, "FileData") => call[s].file = File

Bookkeeping == TypeOK /\ CallInv /\ DonorInv

LEMMA NoFault ==
  ASSUME TypeOK, [Next]_vars, faults' = 0
  PROVE  faults = 0
BY DEF TypeOK, Next, vars, Begin, Donor, SendImageInfo, SendFile, SendChunk, SendRelaunch, SkipRelaunch,
       Issue, Return, Handler, HandleImageInfo, EnterFileInfo, OpenFile, EnterLinkInfo, Symlink,
       EnterFileData, WriteData, HandleRelaunch, RefuseRelaunch, Failure, OpenFileFails, WriteFails, RelaunchFails,
       Abort, LoseDonor, Fault

\* What can happen without a fault.
LEMMA Faultless ==
  ASSUME TypeOK, TurnInv, FileInv, faults' = 0, NEW s \in Session, Failure(s)
  PROVE  FALSE
<1>1. ~ Fault
  BY DEF Fault, TypeOK
<1>2. WriteFails(s) /\ File # call[s].file /\ UNCHANGED faults
  BY <1>1 DEF Failure, OpenFileFails, WriteFails, RelaunchFails, Abort, LoseDonor
<1>3. Blocked(s, "FileData") /\ faults = 0
  BY <1>2 DEF WriteFails
<1>. QED
  BY <1>2, <1>3 DEF FileInv

\* Who has a call under way is alone, and the next number is its own.
LEMMA Alone ==
  ASSUME TypeOK, TurnInv, faults = 0, NEW s \in Session, call[s].op # "none"
  PROVE  /\ pc[s] = "waiting" /\ Expected(s)
         /\ \A t \in Session \ {s} : ~ Busy(t) /\ call[t].op = "none"
<1>1. pc[s] = "waiting" /\ waiting = s
  BY DEF TurnInv, Busy
<1>2. Expected(s)
  BY <1>1 DEF TurnInv, InSequence, Expected, TypeOK
<1>3. ASSUME NEW t \in Session \ {s} PROVE ~ Busy(t) /\ call[t].op = "none"
  BY <1>1 DEF TurnInv, Busy
<1>. QED
  BY <1>1, <1>2, <1>3

\* A file that is open is that of the call, which is FileData.
LEMMA OpenIsData ==
  ASSUME TypeOK, TurnInv, FileInv, faults = 0, NEW s \in Session, call[s].op # "none", File # NoFile
  PROVE  InData(s) /\ File = cur[s] /\ ToWrite = sizeOf[s][cur[s]] - pos[s]
<1>1. PICK t \in Session : InData(t) /\ File = cur[t] /\ ToWrite = sizeOf[t][cur[t]] - pos[t]
  BY DEF FileInv
<1>. QED
  BY <1>1, Alone DEF InData, Busy

\* What a reply in turn does.
LEMMA ReplyIs ==
  ASSUME TypeOK, NEW s \in Session, Reply(s), pc[s] = "waiting", Expected(s)
  PROVE  /\ call'[s] = NoCall /\ cur' = cur
         /\ call[s].op = "FileData" =>
               pos'[s] = pos[s] + 1 /\ pc'[s] = Continue(s, cur[s], pos[s] + 1, todo[s])
         /\ call[s].op \in {"FileInfo", "LinkInfo"} =>
               pos'[s] = 0 /\ pc'[s] = Continue(s, cur[s], 0, todo[s])
         /\ \A t \in Session \ {s} : call'[t] = call[t]
BY DEF Reply, TypeOK

LEMMA SizeType == \A s \in Session : \A f \in Name : sizeOf[s][f] \in Nat
BY PlanAssumption

\* The turn passes from session to session.
LEMMA TurnStep ==
  ASSUME Bookkeeping, TurnInv, FileInv, [Next]_vars
  PROVE  TurnInv'
<1>. SUFFICES ASSUME faults' = 0 PROVE TurnInv'
  BY DEF TurnInv
<1>0. faults = 0 /\ TypeOK
  BY NoFault DEF Bookkeeping
<1>1. ASSUME NEW s \in Session, Begin(s) PROVE TurnInv'
  BY <1>1, <1>0, NoneAssumption DEF Begin, donorVars, recipientVars, TurnInv, Busy, InSequence, TypeOK, Ended
<1>2. ASSUME NEW s \in Session, SendImageInfo(s) PROVE TurnInv'
  BY <1>2, <1>0 DEF SendImageInfo, Issue, donorVars, recipientVars, TurnInv, Busy, InSequence, TypeOK, Ended
<1>3. ASSUME NEW s \in Session, SendFile(s) PROVE TurnInv'
  BY <1>3, <1>0 DEF SendFile, Issue, donorVars, recipientVars, TurnInv, Busy, InSequence, TypeOK, Ended
<1>4. ASSUME NEW s \in Session, SendChunk(s) PROVE TurnInv'
  BY <1>4, <1>0 DEF SendChunk, Issue, donorVars, recipientVars, TurnInv, Busy, InSequence, TypeOK, Ended
<1>5. ASSUME NEW s \in Session, SendRelaunch(s) PROVE TurnInv'
  BY <1>5, <1>0 DEF SendRelaunch, Issue, donorVars, recipientVars, TurnInv, Busy, InSequence, TypeOK, Ended
<1>6. ASSUME NEW s \in Session, SkipRelaunch(s) PROVE TurnInv'
  BY <1>6, <1>0 DEF SkipRelaunch, donorVars, recipientVars, TurnInv, Busy, InSequence, TypeOK, Ended
<1>7. ASSUME NEW s \in Session, Return(s) PROVE TurnInv'
  BY <1>7, <1>0 DEF Return, donorVars, recipientVars, TurnInv, Busy, InSequence, TypeOK, Ended
<1>8. ASSUME NEW s \in Session, HandleImageInfo(s) PROVE TurnInv'
  BY <1>8, <1>0 DEF HandleImageInfo, Arrived, Reply, Expected, Continue, NoCall, TurnInv, Busy, InSequence, TypeOK, Ended
<1>9. ASSUME NEW s \in Session, EnterFileInfo(s) PROVE TurnInv'
  BY <1>9, <1>0 DEF EnterFileInfo, Arrived, ErrorReply, Block, NoCall, donorVars, TurnInv, Busy, InSequence, TypeOK, Ended
<1>10. ASSUME NEW s \in Session, OpenFile(s) PROVE TurnInv'
  BY <1>10, <1>0 DEF OpenFile, Blocked, Reply, Expected, Continue, NoCall, TurnInv, Busy, InSequence, TypeOK, Ended
<1>11. ASSUME NEW s \in Session, EnterLinkInfo(s) PROVE TurnInv'
  BY <1>11, <1>0 DEF EnterLinkInfo, Arrived, ErrorReply, Block, NoCall, donorVars, TurnInv, Busy, InSequence, TypeOK, Ended
<1>12. ASSUME NEW s \in Session, Symlink(s) PROVE TurnInv'
  <2>1. CASE ErrorReply(s)
    BY <1>12, <1>0, <2>1 DEF Symlink, Blocked, ErrorReply, NoCall, donorVars, TurnInv, Busy, InSequence, TypeOK
  <2>2. CASE Reply(s)
    BY <1>12, <1>0, <2>2 DEF Symlink, Blocked, Reply, Expected, Continue, NoCall, TurnInv, Busy, InSequence, TypeOK
  <2>. QED
    BY <1>12, <2>1, <2>2 DEF Symlink
<1>13. ASSUME NEW s \in Session, EnterFileData(s) PROVE TurnInv'
  BY <1>13, <1>0 DEF EnterFileData, Arrived, ErrorReply, Block, NoCall, donorVars, TurnInv, Busy, InSequence, TypeOK, Ended
<1>14. ASSUME NEW s \in Session, WriteData(s) PROVE TurnInv'
  BY <1>14, <1>0 DEF WriteData, Blocked, Reply, Expected, Continue, NoCall, TurnInv, Busy, InSequence, TypeOK, Ended
<1>15. ASSUME NEW s \in Session, HandleRelaunch(s) PROVE TurnInv'
  BY <1>15, <1>0 DEF HandleRelaunch, Arrived, NoCall, donorVars, TurnInv, Busy, InSequence, TypeOK, Ended
<1>17. ASSUME NEW s \in Session, RefuseRelaunch(s) PROVE TurnInv'
  BY <1>17, <1>0 DEF RefuseRelaunch, Arrived, ErrorReply, NoCall, donorVars, TurnInv, Busy, InSequence, TypeOK, Ended
<1>16. CASE UNCHANGED vars
  BY <1>16, <1>0 DEF vars, recipientVars, donorVars, TurnInv, Busy, InSequence, TypeOK, Ended
<1>. QED
  BY <1>0, <1>1, <1>2, <1>3, <1>4, <1>5, <1>6, <1>7, <1>8, <1>9, <1>10, <1>11, <1>12, <1>13, <1>14, <1>15, <1>16, <1>17, Faultless DEF Next, Donor, Handler

\* The files are finished, if each has a chunk at least.
LEMMA FileStep ==
  ASSUME Bookkeeping, TurnInv, FileInv, [Next]_vars,
         \A s \in Session : \A f \in AllFiles(s) \ Links : sizeOf[s][f] > 0
  PROVE  FileInv'
<1>. SUFFICES ASSUME faults' = 0 PROVE FileInv'
  BY DEF FileInv
<1>0. faults = 0 /\ TypeOK
  BY NoFault DEF Bookkeeping
<1>1. ASSUME NEW s \in Session, Begin(s) PROVE FileInv'
  BY <1>1, <1>0 DEF Begin, donorVars, recipientVars, FileInv, TurnInv, Busy, InSequence, InData, Announcing, Bookkeeping, TypeOK, CallInv, DonorInv, Arrived, Blocked
<1>2. ASSUME NEW s \in Session, SendImageInfo(s) PROVE FileInv'
  BY <1>2, <1>0 DEF SendImageInfo, Issue, donorVars, recipientVars, FileInv, TurnInv, Busy, InSequence, InData, Announcing, Bookkeeping, TypeOK, CallInv, DonorInv, Arrived, Blocked
<1>3. ASSUME NEW s \in Session, SendFile(s) PROVE FileInv'
  BY <1>3, <1>0 DEF SendFile, Issue, donorVars, recipientVars, FileInv, TurnInv, Busy, InSequence, InData, Announcing, Bookkeeping, TypeOK, CallInv, DonorInv, Arrived, Blocked
<1>4. ASSUME NEW s \in Session, SendChunk(s) PROVE FileInv'
  BY <1>4, <1>0 DEF SendChunk, Issue, donorVars, recipientVars, FileInv, TurnInv, Busy, InSequence, InData, Announcing, Bookkeeping, TypeOK, CallInv, DonorInv, Arrived, Blocked
<1>5. ASSUME NEW s \in Session, SendRelaunch(s) PROVE FileInv'
  BY <1>5, <1>0 DEF SendRelaunch, Issue, donorVars, recipientVars, FileInv, TurnInv, Busy, InSequence, InData, Announcing, Bookkeeping, TypeOK, CallInv, DonorInv, Arrived, Blocked
<1>6. ASSUME NEW s \in Session, SkipRelaunch(s) PROVE FileInv'
  BY <1>6, <1>0 DEF SkipRelaunch, donorVars, recipientVars, FileInv, TurnInv, Busy, InSequence, InData, Announcing, Bookkeeping, TypeOK, CallInv, DonorInv, Arrived, Blocked
<1>7. ASSUME NEW s \in Session, Return(s) PROVE FileInv'
  BY <1>7, <1>0 DEF Return, donorVars, recipientVars, FileInv, TurnInv, Busy, InSequence, InData, Announcing, Bookkeeping, TypeOK, CallInv, DonorInv, Arrived, Blocked
<1>8. ASSUME NEW s \in Session, HandleImageInfo(s) PROVE FileInv'
  BY <1>8, <1>0 DEF HandleImageInfo, Arrived, Reply, Expected, Continue, NoCall, FileInv, TurnInv, Busy, InSequence, InData, Announcing, Bookkeeping, TypeOK, CallInv, DonorInv, Blocked
<1>9. ASSUME NEW s \in Session, EnterFileInfo(s) PROVE FileInv'
  <2>1. call[s].op = "FileInfo" /\ pc[s] = "waiting" /\ call[s].file = cur[s]
    BY <1>9, <1>0, Alone DEF EnterFileInfo, Arrived, Bookkeeping, DonorInv, Announcing
  <2>2. File = NoFile
    BY <1>0, <2>1, OpenIsData DEF InData
  <2>3. /\ File' = NoFile /\ Size' = sizeOf[s][cur[s]] /\ cur' = cur
        /\ call'[s].op = "FileInfo" /\ \A t \in Session \ {s} : call'[t].op = "none"
    BY <1>9, <1>0, <2>1, <2>2, Alone DEF EnterFileInfo, Block, donorVars, TypeOK
  <2>. QED
    BY <2>3 DEF FileInv, Blocked
<1>10. ASSUME NEW s \in Session, OpenFile(s) PROVE FileInv'
  <2>1. call[s].op = "FileInfo" /\ pc[s] = "waiting" /\ call[s].file = cur[s] /\ cur[s] \in AllFiles(s) \ Links
    BY <1>10, <1>0, Alone DEF OpenFile, Blocked, Bookkeeping, DonorInv, Announcing
  <2>2. Size = sizeOf[s][cur[s]] /\ Size > 0 /\ Size \in Nat
    BY <1>10, <1>0, <2>1 DEF OpenFile, FileInv, TypeOK
  <2>3. /\ call'[s] = NoCall /\ cur' = cur /\ pos'[s] = 0 /\ pc'[s] = Continue(s, cur[s], 0, todo[s])
        /\ \A t \in Session \ {s} : call'[t].op = "none"
    BY <1>10, <1>0, <2>1, Alone, ReplyIs DEF OpenFile
  <2>4. pc'[s] = "data"
    BY <2>1, <2>2, <2>3 DEF Continue
  <2>5. File' = cur'[s] /\ ToWrite' = sizeOf[s][cur'[s]] - pos'[s]
    BY <1>10, <2>1, <2>2, <2>3 DEF OpenFile
  <2>. QED
    BY <2>3, <2>4, <2>5 DEF FileInv, InData, Blocked, NoCall
<1>11. ASSUME NEW s \in Session, EnterLinkInfo(s) PROVE FileInv'
  <2>1. call[s].op = "LinkInfo" /\ pc[s] = "waiting"
    BY <1>11, <1>0, Alone DEF EnterLinkInfo, Arrived
  <2>2. File = NoFile
    BY <1>0, <2>1, OpenIsData DEF InData
  <2>3. /\ File' = NoFile
        /\ call'[s].op = "LinkInfo" /\ \A t \in Session \ {s} : call'[t].op = "none"
    BY <1>11, <1>0, <2>1, <2>2, Alone DEF EnterLinkInfo, Block, TypeOK
  <2>. QED
    BY <2>3 DEF FileInv, Blocked
<1>12. ASSUME NEW s \in Session, Symlink(s) PROVE FileInv'
  <2>1. call[s].op = "LinkInfo" /\ pc[s] = "waiting"
    BY <1>12, <1>0, Alone DEF Symlink, Blocked
  <2>2. File = NoFile
    BY <1>0, <2>1, OpenIsData DEF InData
  <2>3. File' = NoFile /\ call'[s] = NoCall /\ \A t \in Session \ {s} : call'[t].op = "none"
    BY <1>12, <1>0, <2>1, <2>2, Alone DEF Symlink, Reply, ErrorReply, TypeOK
  <2>. QED
    BY <2>3 DEF FileInv, Blocked, NoCall
<1>13. ASSUME NEW s \in Session, EnterFileData(s) PROVE FileInv'
  <2>1. call[s].op = "FileData" /\ pc[s] = "waiting"
    BY <1>13, <1>0, Alone DEF EnterFileData, Arrived
  <2>2. CASE File = NoFile
    <3>1. File' = NoFile /\ call'[s] = NoCall /\ \A t \in Session \ {s} : call'[t].op = "none"
      BY <1>13, <1>0, <2>1, <2>2, Alone DEF EnterFileData, ErrorReply, TypeOK
    <3>. QED
      BY <3>1 DEF FileInv, Blocked, NoCall
  <2>3. CASE File # NoFile
    <3>1. InData(s) /\ File = cur[s] /\ ToWrite = sizeOf[s][cur[s]] - pos[s]
      BY <1>0, <2>1, <2>3, OpenIsData
    <3>2. cur[s] \in AllFiles(s) /\ pos[s] < sizeOf[s][cur[s]] /\ pos[s] \in Nat
      BY <3>1, <1>0 DEF Bookkeeping, DonorInv, TypeOK
    <3>3. ToWrite >= 1
      BY <3>1, <3>2, SizeType, FilesAreNames
    <3>4. Block(s, File) /\ UNCHANGED <<File, ToWrite>>
      BY <1>13, <2>3, <3>3, <1>0 DEF EnterFileData, TypeOK
    <3>5. /\ call'[s].op = "FileData" /\ call'[s].file = File /\ UNCHANGED <<pc, cur, pos>>
          /\ \A t \in Session \ {s} : call'[t].op = "none"
      BY <3>4, <1>0, <2>1, Alone DEF Block, donorVars, TypeOK
    <3>. QED
      BY <2>1, <3>1, <3>4, <3>5 DEF FileInv, InData, Blocked
  <2>. QED
    BY <2>2, <2>3
<1>14. ASSUME NEW s \in Session, WriteData(s) PROVE FileInv'
  <2>1. call[s].op = "FileData" /\ pc[s] = "waiting" /\ Expected(s)
    BY <1>14, <1>0, Alone DEF WriteData, Blocked
  <2>2. /\ call'[s] = NoCall /\ cur' = cur /\ pos'[s] = pos[s] + 1
        /\ pc'[s] = Continue(s, cur[s], pos[s] + 1, todo[s])
        /\ \A t \in Session \ {s} : call'[t].op = "none"
    BY <1>14, <1>0, <2>1, Alone, ReplyIs DEF WriteData
  <2>3. CASE File' = NoFile
    BY <2>2, <2>3 DEF FileInv, Blocked, NoCall
  <2>4. CASE File' # NoFile
    <3>1. File # NoFile /\ File' = File /\ ToWrite' = ToWrite - 1 /\ ToWrite' # 0
      BY <1>14, <2>4 DEF WriteData
    <3>2. InData(s) /\ File = cur[s] /\ ToWrite = sizeOf[s][cur[s]] - pos[s]
      BY <1>0, <2>1, <3>1, OpenIsData
    <3>3. cur[s] \in AllFiles(s) \ Links /\ pos[s] < sizeOf[s][cur[s]] /\ pos[s] \in Nat
      BY <3>2, <1>0 DEF Bookkeeping, DonorInv, TypeOK
    <3>4. sizeOf[s][cur[s]] \in Nat
      BY <3>3, SizeType, FilesAreNames
    <3>5. pos[s] + 1 < sizeOf[s][cur[s]] /\ ToWrite' = sizeOf[s][cur'[s]] - pos'[s]
      BY <2>2, <3>1, <3>2, <3>3, <3>4
    <3>6. pc'[s] = "data"
      BY <2>2, <3>3, <3>5 DEF Continue
    <3>. QED
      BY <2>2, <3>1, <3>2, <3>5, <3>6 DEF FileInv, InData, Blocked, NoCall
  <2>. QED
    BY <2>3, <2>4
<1>15. ASSUME NEW s \in Session, HandleRelaunch(s) PROVE FileInv'
  BY <1>15, <1>0 DEF HandleRelaunch, Arrived, NoCall, donorVars, FileInv, TurnInv, Busy, InSequence, InData, Announcing, Bookkeeping, TypeOK, CallInv, DonorInv, Blocked
<1>17. ASSUME NEW s \in Session, RefuseRelaunch(s) PROVE FileInv'
  BY <1>17, <1>0 DEF RefuseRelaunch, Arrived, ErrorReply, NoCall, donorVars, FileInv, TurnInv, Busy, InSequence, InData, Announcing, Bookkeeping, TypeOK, CallInv, DonorInv, Blocked
<1>16. CASE UNCHANGED vars
  BY <1>16, <1>0 DEF vars, recipientVars, donorVars, FileInv, TurnInv, Busy, InSequence, InData, Announcing, Bookkeeping, TypeOK, CallInv, DonorInv, Arrived, Blocked
<1>. QED
  BY <1>0, <1>1, <1>2, <1>3, <1>4, <1>5, <1>6, <1>7, <1>8, <1>9, <1>10, <1>11, <1>12, <1>13, <1>14, <1>15, <1>16, <1>17, Faultless DEF Next, Donor, Handler

LEMMA InitTurn == Init => TurnInv /\ FileInv
BY NoneAssumption DEF Init, TurnInv, FileInv, Busy, InSequence, Blocked, NoCall

\* While nothing fails, Relaunch restarts the container of the session that
\* asks for it (migrate-recipient.go:182), although it takes the image info that
\* came last: nobody else has sent one since.
THEOREM LaunchSafety ==
  ASSUME \A s \in Session : \A f \in AllFiles(s) \ Links : sizeOf[s][f] > 0
  PROVE  Spec => []SerialLaunchesOwnImage
<1>1. Init => Bookkeeping /\ TurnInv /\ FileInv /\ SerialLaunchesOwnImage
  BY InitIInv, InitTurn DEF IInv, Bookkeeping, SerialLaunchesOwnImage, LaunchesOwnImage, Init
<1>2. ASSUME Bookkeeping, TurnInv, FileInv, SerialLaunchesOwnImage, [Next]_vars
      PROVE  (Bookkeeping /\ TurnInv /\ FileInv /\ SerialLaunchesOwnImage)'
  <2>1. Bookkeeping' /\ TurnInv' /\ FileInv'
    BY <1>2, NextLocal, TurnStep, FileStep DEF Bookkeeping
  <2>2. SerialLaunchesOwnImage'
    <3>. SUFFICES ASSUME faults' = 0 PROVE LaunchesOwnImage'
      BY DEF SerialLaunchesOwnImage
    <3>0. faults = 0 /\ LaunchesOwnImage
      BY <1>2, NoFault DEF Bookkeeping, SerialLaunchesOwnImage
    <3>1. ASSUME NEW s \in Session, HandleRelaunch(s)
          PROVE  LaunchesOwnImage'
      <4>1. imageInfo = imageOf[s]
        BY <1>2, <3>0, <3>1, Alone DEF HandleRelaunch, Arrived, TurnInv, InSequence, Bookkeeping
      <4>. QED
        BY <3>0, <3>1, <4>1 DEF HandleRelaunch, LaunchesOwnImage
    <3>2. CASE UNCHANGED loaded
      BY <3>0, <3>2 DEF LaunchesOwnImage
    <3>3. (\E s \in Session : HandleRelaunch(s)) \/ UNCHANGED loaded
      BY <1>2 DEF Next, vars, recipientVars, Begin, Donor, SendImageInfo, SendFile, SendChunk, SendRelaunch,
         SkipRelaunch, Issue, Return, Handler, HandleImageInfo, EnterFileInfo, OpenFile, EnterLinkInfo,
         Symlink, EnterFileData, WriteData, RefuseRelaunch, Failure, OpenFileFails, WriteFails, RelaunchFails, Abort,
         LoseDonor
    <3>. QED
      BY <3>1, <3>2, <3>3
  <2>. QED
    BY <2>1, <2>2
<1>. QED
  BY <1>1, <1>2, PTL DEF Spec

\* While nothing fails, each file is closed before the next one is announced
\* (migrate-recipient.go:109-115, 167-172), provided that no file is empty.
THEOREM FileSafety ==
  ASSUME \A s \in Session : \A f \in AllFiles(s) \ Links : sizeOf[s][f] > 0
  PROVE  Spec => []SerialNothingUnfinished
<1>1. Init => Bookkeeping /\ TurnInv /\ FileInv
  BY InitIInv, InitTurn DEF IInv, Bookkeeping
<1>2. Bookkeeping /\ TurnInv /\ FileInv /\ [Next]_vars => (Bookkeeping /\ TurnInv /\ FileInv)'
  BY NextLocal, TurnStep, FileStep DEF Bookkeeping
<1>3. Bookkeeping /\ TurnInv /\ FileInv => SerialNothingUnfinished
  <2>. SUFFICES ASSUME Bookkeeping, TurnInv, FileInv, faults = 0, File # NoFile, NEW s \in Session,
                       Arrived(s, "FileInfo") \/ Arrived(s, "LinkInfo")
                PROVE  FALSE
    BY DEF SerialNothingUnfinished, NothingUnfinished
  <2>1. call[s].op \in {"FileInfo", "LinkInfo"} /\ TypeOK
    BY DEF Arrived, Bookkeeping
  <2>2. InData(s) /\ pc[s] = "waiting"
    BY <2>1, Alone, OpenIsData
  <2>. QED
    BY <2>1, <2>2 DEF InData
<1>. QED
  BY <1>1, <1>2, <1>3, PTL DEF Spec
=============================================================================
