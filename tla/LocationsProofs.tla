--------------------------- MODULE LocationsProofs ---------------------------
(***************************************************************************)
(* Theorems about Locations, for any ranks, hosts, commands and bounds.    *)
(*                                                                         *)
(* Findable is not inductive: while a Run or a migration is busy with a    *)
(* rank, it runs where they say.  The invariant adds that a rank that is   *)
(* not tangled is what at most one of them is busy with, where it may run  *)
(* until that one is done, and that nobody moves a location while the      *)
(* control loop is busy.                                                   *)
(***************************************************************************)
EXTENDS Locations, FiniteSetTheorems, TLAPS

ReqType == [rank : Rank, src : Host, dest : Host, final : BOOLEAN, by : {"operator", "scheduler"},
            pc : {"called", "locked", "dumped", "restored", "done", "failed"}]
SchedType == [pc : {"wait", "ticked", "picked", "request", "waiting", "panicked"}, last : Nat,
              ranks : SUBSET Rank, locs : SUBSET Host, rank : Rank \cup {NoRank},
              dest : Host \cup {NoHost}]
CmdType == [pc : {"new", "call", "launch", "register"},
            rank : Rank \cup {NoRank}, host : Host \cup {NoHost}]

\* What TypeOK does not say of records: a command that is under way has a rank
\* and a host, and so has the scheduler when it has picked them.
RecordsOK ==
    /\ \A c \in Command :
          \/ cmd[c] = NewCommand
          \/ cmd[c].pc # "new" /\ cmd[c].rank \in Rank /\ cmd[c].host \in Host
    /\ sched.pc \in {"picked", "request"} => sched.rank \in Rank
    /\ sched.pc = "request" => sched.dest \in Host

\* The migration that the control loop is busy with leads elsewhere, and the
\* location of its rank stays the source until it returns.
ReqInv ==
    req # NoReq =>
        /\ req.src # req.dest
        /\ location[req.rank] = req.src
        /\ req.pc = "restored" => req.final

\* At most one operation is busy with a rank that is not tangled.
AloneInv ==
    \A r \in Rank \ tangled :
        /\ \A c, d \in Command : cmd[c].rank = r /\ cmd[d].rank = r => c = d
        /\ req.rank = r => ~ Running(r)

\* Where it runs, if at all.
Launched(r, h) == \E c \in Command : cmd[c].rank = r /\ cmd[c].host = h /\ cmd[c].pc = "register"
Moved(r, h) == req.rank = r /\ req.dest = h /\ req.final /\ req.pc \in {"restored", "done"}
WhereInv ==
    \A r \in Rank \ tangled : \A h \in Host :
        reg[h][r] = "running" => location[r] = h \/ Launched(r, h) \/ Moved(r, h)

\* A Run has its rank to itself.
RunInv ==
    \A c \in Command : \A h \in Host :
        cmd[c].rank \in Rank \ tangled /\ h # cmd[c].host => reg[h][cmd[c].rank] # "running"

\* The source does not run what has been dumped for good.
DumpedInv ==
    req.rank \in Rank \ tangled /\ req.final /\ req.pc \in {"dumped", "restored", "done"} =>
        reg[req.src][req.rank] # "running"

Inv == TypeOK /\ RecordsOK /\ ReqInv /\ AloneInv /\ WhereInv /\ RunInv /\ DumpedInv
-----------------------------------------------------------------------------
\* The records that are built.
LEMMA TypeStep ==
    ASSUME TypeOK, RecordsOK, [Next]_vars
    PROVE  TypeOK' /\ RecordsOK'
<1>. USE LocationsAssumption DEF TypeOK, RecordsOK, NoReq, NewCommand, Waiting, Known, Free, bounds
<1>1. ASSUME NEW c \in Command, GetOrCreate(c) PROVE TypeOK' /\ RecordsOK'
  BY <1>1 DEF GetOrCreate
<1>2. ASSUME NEW c \in Command, Launch(c) PROVE TypeOK' /\ RecordsOK'
  BY <1>2 DEF Launch
<1>3. ASSUME NEW c \in Command, RunFails(c) PROVE TypeOK' /\ RecordsOK'
  BY <1>3 DEF RunFails
<1>4. ASSUME NEW c \in Command, RegisterContainer(c) PROVE TypeOK' /\ RecordsOK'
  BY <1>4 DEF RegisterContainer
<1>5. ASSUME NEW c \in Command, RegisterFails(c) PROVE TypeOK' /\ RecordsOK'
  BY <1>5 DEF RegisterFails, Tangle
<1>6. ASSUME NEW c \in Command, NEW r \in Rank, AllocateHost(c, r) PROVE TypeOK' /\ RecordsOK'
  BY <1>6 DEF AllocateHost, Call, Offer, LocationsStat, Tangle
<1>7. ASSUME NEW c \in Command, NEW r \in Rank, NEW h \in Host, RunAt(c, r, h) PROVE TypeOK' /\ RecordsOK'
  BY <1>7 DEF RunAt, Call, Tangle
<1>8. ASSUME NEW h \in Host, NEW r \in Rank, ProcessEnds(h, r) PROVE TypeOK' /\ RecordsOK'
  BY <1>8 DEF ProcessEnds
<1>9. ASSUME NEW r \in Rank, NEW d \in Host, NEW final \in BOOLEAN, Request(r, d, final) PROVE TypeOK' /\ RecordsOK'
  BY <1>9 DEF Request, Migrate, Tangle
<1>10. CASE Lock
  BY <1>10 DEF Lock, Advance
<1>11. CASE Dump
  BY <1>11 DEF Dump, Advance
<1>12. CASE PreDumped
  <2>1. req # NoReq /\ req' = [req EXCEPT !.pc = "done"]
    BY <1>12 DEF PreDumped, Advance
  <2>. QED
    BY <1>12, <2>1 DEF PreDumped
<1>13. CASE Relaunch
  BY <1>13 DEF Relaunch, Advance
<1>14. CASE SendRefused
  BY <1>14 DEF SendRefused, Advance
<1>15. CASE SendFails
  <2>1. req.pc \in {"called", "locked", "dumped", "restored"} /\ req' = [req EXCEPT !.pc = "failed"]
    BY <1>15 DEF SendFails, Advance
  <2>3. req \in ReqType
    BY <2>1 DEF ReqType
  <2>0. req' \in ReqType
    BY <2>1, <2>3 DEF ReqType
  <2>2. reg' \in [Host -> [Rank -> {"none", "stopped", "running"}]] /\ tangled' \subseteq Rank
    <3>1. CASE UNCHANGED <<reg, tangled>>
      BY <3>1
    <3>2. CASE reg' = [reg EXCEPT ![req.dest][req.rank] = "stopped"] /\ UNCHANGED tangled
      BY <3>2
    <3>3. CASE UNCHANGED reg /\ Tangle(req.rank, TRUE)
      BY <3>3, <2>3 DEF Tangle, ReqType
    <3>. QED
      BY <1>15, <3>1, <3>2, <3>3 DEF SendFails
  <2>. QED
    BY <1>15, <2>0, <2>2 DEF SendFails, ReqType
<1>16. CASE Delete
  BY <1>16 DEF Delete, Advance
<1>17. CASE Return
  BY <1>17 DEF Return
<1>18. CASE Tick
  BY <1>18 DEF Tick
<1>19. CASE PickContainer
  <2>1. Cardinality(sched.ranks) \in Nat
    BY FS_Subset, FS_CardinalityType
  <2>2. \/ \E r \in Rank : sched' = [sched EXCEPT !.pc = "picked", !.ranks = {}, !.rank = r, !.locs = nymphs]
        \/ sched' = Waiting(Cardinality(sched.ranks))
    BY <1>19 DEF PickContainer
  <2>3. UNCHANGED <<location, nymphs, req, up, reg, cmd, bounds, tangled>>
    BY <1>19 DEF PickContainer
  <2>4. CASE \E r \in Rank : sched' = [sched EXCEPT !.pc = "picked", !.ranks = {}, !.rank = r, !.locs = nymphs]
    BY <2>3, <2>4
  <2>5. CASE sched' = Waiting(Cardinality(sched.ranks))
    BY <2>1, <2>3, <2>5
  <2>. QED
    BY <2>2, <2>4, <2>5
<1>20. CASE PickTarget
  <2>1. \/ \E d \in Host : sched' = [sched EXCEPT !.pc = "request", !.locs = {}, !.dest = d]
        \/ sched' = [sched EXCEPT !.pc = "panicked"]
    BY <1>20 DEF PickTarget
  <2>. QED
    BY <1>20, <2>1 DEF PickTarget
<1>21. CASE SchedulerRequests
  <2>1. CASE Migrate(sched.rank, sched.dest, TRUE, "scheduler") /\ sched' = [sched EXCEPT !.pc = "waiting"]
    <3>1. req' \in ReqType
      BY <1>21, <2>1 DEF SchedulerRequests, Migrate, ReqType
    <3>2. tangled' \subseteq Rank /\ migrations' \in Nat
      BY <1>21, <2>1 DEF SchedulerRequests, Migrate, Tangle
    <3>. QED
      BY <1>21, <2>1, <3>1, <3>2 DEF SchedulerRequests, ReqType
  <2>2. CASE sched' = Waiting(sched.last) /\ UNCHANGED <<req, migrations, tangled>>
    BY <1>21, <2>2 DEF SchedulerRequests
  <2>. QED
    BY <1>21, <2>1, <2>2 DEF SchedulerRequests
<1>22. ASSUME NEW h \in Host, Start(h) PROVE TypeOK' /\ RecordsOK'
  BY <1>22 DEF Start
<1>23. ASSUME NEW h \in Host, RegisterNymph(h) PROVE TypeOK' /\ RecordsOK'
  BY <1>23 DEF RegisterNymph
<1>24. ASSUME NEW h \in Host, DestroyContainers(h) PROVE TypeOK' /\ RecordsOK'
  BY <1>24 DEF DestroyContainers
<1>25. ASSUME NEW h \in Host, UnregisterNymph(h) PROVE TypeOK' /\ RecordsOK'
  BY <1>25 DEF UnregisterNymph
<1>26. ASSUME NEW h \in Host, Exit(h) PROVE TypeOK' /\ RecordsOK'
  <2>1. /\ cmd' \in [Command -> CmdType]
        /\ \A c \in Command : cmd'[c] = NewCommand \/ cmd'[c] = cmd[c]
    BY <1>26 DEF Exit, CmdType
  <2>2. req' \in ReqType \cup {NoReq}
    <3>1. CASE Sending(h)
      <4>1. req \in ReqType
        BY <3>1 DEF Sending, ReqType
      <4>. QED
        BY <1>26, <3>1, <4>1 DEF Exit, Advance, ReqType
    <3>2. CASE ~ Sending(h)
      BY <1>26, <3>2 DEF Exit, ReqType
    <3>. QED
      BY <3>1, <3>2
  <2>3. tangled' \subseteq Rank
    <3>1. \A c \in Command : cmd[c].pc \in {"launch", "register"} => cmd[c].rank \in Rank
      OBVIOUS
    <3>2. Sending(h) => req.rank \in Rank
      BY DEF Sending
    <3>. QED
      BY <1>26, <3>1, <3>2 DEF Exit
  <2>4. reg' \in [Host -> [Rank -> {"none", "stopped", "running"}]]
    BY <1>26 DEF Exit
  <2>5. up' \in [Host -> {"down", "registering", "serving", "leaving", "left"}]
    BY <1>26 DEF Exit
  <2>6. UNCHANGED <<location, nymphs, sched, bounds>>
    BY <1>26 DEF Exit
  <2>7. TypeOK'
    BY <2>1, <2>2, <2>3, <2>4, <2>5, <2>6 DEF ReqType, CmdType
  <2>. QED
    BY <2>1, <2>6, <2>7
<1>27. CASE UNCHANGED vars
  BY <1>27 DEF vars
<1>. QED
  BY <1>1, <1>2, <1>3, <1>4, <1>5, <1>6, <1>7, <1>8, <1>9, <1>10, <1>11, <1>12, <1>13, <1>14, <1>15, <1>16, <1>17, <1>18, <1>19, <1>20, <1>21, <1>22, <1>23, <1>24, <1>25, <1>26, <1>27 DEF Next, Run, Send
-----------------------------------------------------------------------------
\* Send goes on and nothing else of the control loop.
SendStep ==
    /\ req # NoReq
    /\ req.rank \in Rank /\ req.src \in Host /\ req.dest \in Host
    /\ req'.rank = req.rank /\ req'.src = req.src /\ req'.dest = req.dest /\ req'.final = req.final
    /\ UNCHANGED <<location, cmd, sched>>
    /\ tangled \subseteq tangled'

LEMMA SendMoves ==
    ASSUME TypeOK, Send \/ SendFails
    PROVE  SendStep
<1>. USE DEF TypeOK, NoReq, SendStep, Advance
<1>1. req # NoReq
  <2>1. req.pc \in {"called", "locked", "dumped", "restored"}
    BY DEF Send, Lock, Dump, PreDumped, Relaunch, SendRefused, SendFails, Delete
  <2>. QED
    BY <2>1
<1>2. req \in ReqType
  BY <1>1 DEF ReqType
<1>3. \E pc : req' = [req EXCEPT !.pc = pc]
  <2>1. CASE Lock
    BY <2>1 DEF Lock
  <2>2. CASE Dump \/ PreDumped \/ Relaunch
    BY <2>2 DEF Dump, PreDumped, Relaunch
  <2>3. CASE SendRefused \/ SendFails \/ Delete
    BY <2>3 DEF SendRefused, SendFails, Delete
  <2>. QED
    BY <2>1, <2>2, <2>3 DEF Send
<1>4. UNCHANGED <<location, cmd, sched>> /\ tangled \subseteq tangled'
  BY DEF Send, Lock, Dump, PreDumped, Relaunch, SendRefused, SendFails, Delete, Tangle
<1>. QED
  BY <1>1, <1>2, <1>3, <1>4 DEF ReqType

LEMMA ReqStep ==
    ASSUME TypeOK, RecordsOK, ReqInv, [Next]_vars
    PROVE  ReqInv'
<1>. USE LocationsAssumption DEF TypeOK, ReqInv, NoReq
<1>1. CASE UNCHANGED <<location, req>>
  BY <1>1
<1>2. ASSUME NEW c \in Command, RegisterContainer(c) PROVE ReqInv'
  BY <1>2 DEF RegisterContainer, Free
<1>3. ASSUME NEW r \in Rank, NEW d \in Host, NEW final \in BOOLEAN, NEW by, Migrate(r, d, final, by),
             UNCHANGED location
      PROVE  ReqInv'
  BY <1>3 DEF Migrate
<1>4. CASE Send \/ SendFails
  <2>1. SendStep
    BY <1>4, SendMoves
  <2>2. req'.pc = "restored" => req.final
    BY <1>4, <2>1 DEF Send, Lock, Dump, PreDumped, Relaunch, SendRefused, SendFails, Delete, Advance, SendStep
  <2>. QED
    BY <2>1, <2>2 DEF SendStep
<1>5. CASE Return
  BY <1>5 DEF Return
<1>6. ASSUME NEW h \in Host, Exit(h) PROVE ReqInv'
  <2>1. CASE Sending(h)
    <3>1. req \in ReqType
      BY <2>1 DEF Sending, ReqType
    <3>. QED
      BY <1>6, <2>1, <3>1 DEF Exit, Advance, ReqType
  <2>2. CASE ~ Sending(h)
    BY <1>6, <2>2 DEF Exit
  <2>. QED
    BY <2>1, <2>2
<1>7. ASSUME NEW c \in Command, Run(c) PROVE RegisterContainer(c) \/ UNCHANGED <<location, req>>
  BY <1>7 DEF Run, GetOrCreate, Launch, RunFails, RegisterFails
<1>8. ASSUME NEW c \in Command, NEW r \in Rank, AllocateHost(c, r) \/ \E h \in Host : RunAt(c, r, h)
      PROVE  UNCHANGED <<location, req>>
  BY <1>8 DEF AllocateHost, RunAt, Call
<1>9. ASSUME SchedulerRequests
      PROVE  UNCHANGED <<location, req>> \/ (Migrate(sched.rank, sched.dest, TRUE, "scheduler") /\ UNCHANGED location)
  BY <1>9 DEF SchedulerRequests
<1>10. SchedulerRequests => sched.rank \in Rank /\ sched.dest \in Host
  BY DEF SchedulerRequests, RecordsOK
<1>11. Tick \/ PickContainer \/ PickTarget => UNCHANGED <<location, req>>
  BY DEF Tick, PickContainer, PickTarget
<1>12. ASSUME NEW h \in Host,
              \/ Start(h) \/ RegisterNymph(h) \/ DestroyContainers(h) \/ UnregisterNymph(h)
              \/ \E r \in Rank : ProcessEnds(h, r)
       PROVE  UNCHANGED <<location, req>>
  BY <1>12 DEF Start, RegisterNymph, DestroyContainers, UnregisterNymph, ProcessEnds
<1>13. ASSUME NEW r \in Rank, NEW d \in Host, NEW final \in BOOLEAN, Request(r, d, final)
       PROVE  Migrate(r, d, final, "operator") /\ UNCHANGED location
  BY <1>13 DEF Request
<1>14. CASE SchedulerRequests
  BY <1>1, <1>3, <1>9, <1>10, <1>14
<1>15. CASE \E c \in Command : Run(c) \/ \E r \in Rank : AllocateHost(c, r) \/ \E h \in Host : RunAt(c, r, h)
  BY <1>1, <1>2, <1>7, <1>8, <1>15
<1>16. CASE \E r \in Rank, d \in Host, final \in BOOLEAN : Request(r, d, final)
  BY <1>3, <1>13, <1>16
<1>17. CASE \/ \E h \in Host, r \in Rank : ProcessEnds(h, r)
            \/ \E h \in Host :
                  Start(h) \/ RegisterNymph(h) \/ DestroyContainers(h) \/ UnregisterNymph(h) \/ Exit(h)
  BY <1>1, <1>6, <1>12, <1>17
<1>18. CASE Tick \/ PickContainer \/ PickTarget
  BY <1>1, <1>11, <1>18
<1>19. CASE UNCHANGED vars
  BY <1>1, <1>19 DEF vars
<1>. QED
  BY <1>4, <1>5, <1>14, <1>15, <1>16, <1>17, <1>18, <1>19 DEF Next
-----------------------------------------------------------------------------
Core == AloneInv /\ WhereInv /\ RunInv /\ DumpedInv

\* Where a rank runs and who is busy with it, after each step.
LEMMA CoreStep ==
    ASSUME Inv, TypeOK', RecordsOK', [Next]_vars
    PROVE  Core'
<1>. USE LocationsAssumption DEF Inv, TypeOK, RecordsOK, NoReq, NewCommand, Running
<1>1. CASE UNCHANGED <<location, reg, cmd, req, tangled>>
  <2>1. AloneInv'
    BY <1>1 DEF AloneInv
  <2>2. WhereInv'
    BY <1>1 DEF WhereInv, Launched, Moved
  <2>3. RunInv'
    BY <1>1 DEF RunInv
  <2>4. DumpedInv'
    BY <1>1 DEF DumpedInv
  <2>. QED
    BY <2>1, <2>2, <2>3, <2>4 DEF Core
<1>2. ASSUME NEW c \in Command, GetOrCreate(c) PROVE Core'
  <2>1. AloneInv'
    BY <1>2 DEF GetOrCreate, AloneInv
  <2>2. WhereInv'
    BY <1>2 DEF GetOrCreate, WhereInv, Launched, Moved
  <2>3. RunInv'
    BY <1>2 DEF GetOrCreate, RunInv
  <2>4. DumpedInv'
    BY <1>2 DEF GetOrCreate, DumpedInv
  <2>. QED
    BY <2>1, <2>2, <2>3, <2>4 DEF Core
<1>3. ASSUME NEW c \in Command, Launch(c) PROVE Core'
  <2>1. AloneInv'
    BY <1>3 DEF Launch, AloneInv
  <2>2. WhereInv'
    BY <1>3 DEF Launch, WhereInv, Launched, Moved
  <2>3. RunInv'
    BY <1>3 DEF Launch, RunInv, AloneInv
  <2>4. DumpedInv'
    BY <1>3 DEF Launch, DumpedInv, AloneInv
  <2>. QED
    BY <2>1, <2>2, <2>3, <2>4 DEF Core
<1>4. ASSUME NEW c \in Command, RunFails(c) PROVE Core'
  <2>1. AloneInv'
    BY <1>4 DEF RunFails, AloneInv
  <2>2. WhereInv'
    BY <1>4 DEF RunFails, WhereInv, Launched, Moved
  <2>3. RunInv'
    BY <1>4 DEF RunFails, RunInv
  <2>4. DumpedInv'
    BY <1>4 DEF RunFails, DumpedInv
  <2>. QED
    BY <2>1, <2>2, <2>3, <2>4 DEF Core
<1>5. ASSUME NEW c \in Command, RegisterContainer(c) PROVE Core'
  <2>1. AloneInv'
    BY <1>5 DEF RegisterContainer, Free, AloneInv
  <2>2. WhereInv'
    BY <1>5 DEF RegisterContainer, Free, WhereInv, Launched, Moved, RunInv
  <2>3. RunInv'
    BY <1>5 DEF RegisterContainer, Free, RunInv
  <2>4. DumpedInv'
    BY <1>5 DEF RegisterContainer, Free, DumpedInv
  <2>. QED
    BY <2>1, <2>2, <2>3, <2>4 DEF Core
<1>6. ASSUME NEW c \in Command, RegisterFails(c) PROVE Core'
  <2>1. AloneInv'
    BY <1>6 DEF RegisterFails, Tangle, AloneInv
  <2>2. WhereInv'
    BY <1>6 DEF RegisterFails, Tangle, WhereInv, Launched, Moved
  <2>3. RunInv'
    BY <1>6 DEF RegisterFails, Tangle, RunInv
  <2>4. DumpedInv'
    BY <1>6 DEF RegisterFails, Tangle, DumpedInv
  <2>. QED
    BY <2>1, <2>2, <2>3, <2>4 DEF Core
<1>7. ASSUME NEW c \in Command, NEW r \in Rank, NEW h \in Host, Call(c, r, h), \A g \in Host \ {h} : r \in tangled' \/ reg[g][r] # "running" PROVE Core'
  <2>1. AloneInv'
    BY <1>7 DEF Call, Tangle, Busy, AloneInv
  <2>2. WhereInv'
    BY <1>7 DEF Call, Tangle, Busy, WhereInv, Launched, Moved
  <2>3. RunInv'
    BY <1>7 DEF Call, Tangle, Busy, RunInv
  <2>4. DumpedInv'
    BY <1>7 DEF Call, Tangle, Busy, DumpedInv
  <2>. QED
    BY <2>1, <2>2, <2>3, <2>4 DEF Core
<1>8. ASSUME NEW h \in Host, NEW r \in Rank, ProcessEnds(h, r) PROVE Core'
  <2>1. AloneInv'
    BY <1>8 DEF ProcessEnds, AloneInv
  <2>2. WhereInv'
    BY <1>8 DEF ProcessEnds, WhereInv, Launched, Moved
  <2>3. RunInv'
    BY <1>8 DEF ProcessEnds, RunInv
  <2>4. DumpedInv'
    BY <1>8 DEF ProcessEnds, DumpedInv
  <2>. QED
    BY <2>1, <2>2, <2>3, <2>4 DEF Core
<1>9. ASSUME NEW r \in Rank, NEW d \in Host, NEW final \in BOOLEAN, NEW by, Migrate(r, d, final, by), UNCHANGED <<location, reg, cmd>> PROVE Core'
  <2>1. AloneInv'
    BY <1>9 DEF Migrate, Free, Tangle, AloneInv
  <2>2. WhereInv'
    BY <1>9 DEF Migrate, Free, Tangle, WhereInv, Launched, Moved
  <2>3. RunInv'
    BY <1>9 DEF Migrate, Free, Tangle, RunInv
  <2>4. DumpedInv'
    BY <1>9 DEF Migrate, Free, Tangle, DumpedInv
  <2>. QED
    BY <2>1, <2>2, <2>3, <2>4 DEF Core
<1>10. CASE Lock
  <2>0. SendStep
    BY <1>10, SendMoves DEF Send
  <2>1. AloneInv'
    BY <1>10, <2>0 DEF Lock, Advance, SendStep, AloneInv
  <2>2. WhereInv'
    BY <1>10, <2>0 DEF Lock, Advance, SendStep, WhereInv, Launched, Moved, ReqInv
  <2>3. RunInv'
    BY <1>10, <2>0 DEF Lock, Advance, SendStep, RunInv, AloneInv
  <2>4. DumpedInv'
    BY <1>10, <2>0 DEF Lock, Advance, SendStep, DumpedInv, ReqInv
  <2>. QED
    BY <2>1, <2>2, <2>3, <2>4 DEF Core
<1>11. CASE Dump
  <2>0. SendStep
    BY <1>11, SendMoves DEF Send
  <2>1. AloneInv'
    BY <1>11, <2>0 DEF Dump, Advance, SendStep, AloneInv
  <2>2. WhereInv'
    BY <1>11, <2>0 DEF Dump, Advance, SendStep, WhereInv, Launched, Moved, ReqInv
  <2>3. RunInv'
    BY <1>11, <2>0 DEF Dump, Advance, SendStep, RunInv, AloneInv
  <2>4. DumpedInv'
    BY <1>11, <2>0 DEF Dump, Advance, SendStep, DumpedInv, ReqInv
  <2>. QED
    BY <2>1, <2>2, <2>3, <2>4 DEF Core
<1>12. CASE PreDumped
  <2>0. SendStep
    BY <1>12, SendMoves DEF Send
  <2>1. AloneInv'
    BY <1>12, <2>0 DEF PreDumped, Advance, SendStep, AloneInv
  <2>2. WhereInv'
    BY <1>12, <2>0 DEF PreDumped, Advance, SendStep, WhereInv, Launched, Moved, ReqInv
  <2>3. RunInv'
    BY <1>12, <2>0 DEF PreDumped, Advance, SendStep, RunInv, AloneInv
  <2>4. DumpedInv'
    BY <1>12, <2>0 DEF PreDumped, Advance, SendStep, DumpedInv, ReqInv
  <2>. QED
    BY <2>1, <2>2, <2>3, <2>4 DEF Core
<1>13. CASE Relaunch
  <2>0. SendStep
    BY <1>13, SendMoves DEF Send
  <2>1. AloneInv'
    BY <1>13, <2>0 DEF Relaunch, Advance, SendStep, AloneInv
  <2>2. WhereInv'
    BY <1>13, <2>0 DEF Relaunch, Advance, SendStep, WhereInv, Launched, Moved, ReqInv
  <2>3. RunInv'
    BY <1>13, <2>0 DEF Relaunch, Advance, SendStep, RunInv, AloneInv
  <2>4. DumpedInv'
    BY <1>13, <2>0 DEF Relaunch, Advance, SendStep, DumpedInv, ReqInv
  <2>. QED
    BY <2>1, <2>2, <2>3, <2>4 DEF Core
<1>14. CASE SendRefused
  <2>0. SendStep
    BY <1>14, SendMoves DEF Send
  <2>1. AloneInv'
    BY <1>14, <2>0 DEF SendRefused, Advance, SendStep, AloneInv
  <2>2. WhereInv'
    BY <1>14, <2>0 DEF SendRefused, Advance, SendStep, WhereInv, Launched, Moved, ReqInv
  <2>3. RunInv'
    BY <1>14, <2>0 DEF SendRefused, Advance, SendStep, RunInv, AloneInv
  <2>4. DumpedInv'
    BY <1>14, <2>0 DEF SendRefused, Advance, SendStep, DumpedInv, ReqInv
  <2>. QED
    BY <2>1, <2>2, <2>3, <2>4 DEF Core
<1>15. CASE SendFails
  <2>0. SendStep
    BY <1>15, SendMoves DEF Send
  <2>1. AloneInv'
    BY <1>15, <2>0 DEF SendFails, Advance, SendStep, Tangle, AloneInv
  <2>2. WhereInv'
    BY <1>15, <2>0 DEF SendFails, Advance, SendStep, Tangle, WhereInv, Launched, Moved, ReqInv
  <2>3. RunInv'
    BY <1>15, <2>0 DEF SendFails, Advance, SendStep, Tangle, RunInv, AloneInv
  <2>4. DumpedInv'
    BY <1>15, <2>0 DEF SendFails, Advance, SendStep, Tangle, DumpedInv, ReqInv
  <2>. QED
    BY <2>1, <2>2, <2>3, <2>4 DEF Core
<1>16. CASE Delete
  <2>0. SendStep
    BY <1>16, SendMoves DEF Send
  <2>1. AloneInv'
    BY <1>16, <2>0 DEF Delete, Advance, SendStep, AloneInv
  <2>2. WhereInv'
    BY <1>16, <2>0 DEF Delete, Advance, SendStep, WhereInv, Launched, Moved, ReqInv
  <2>3. RunInv'
    BY <1>16, <2>0 DEF Delete, Advance, SendStep, RunInv, AloneInv
  <2>4. DumpedInv'
    BY <1>16, <2>0 DEF Delete, Advance, SendStep, DumpedInv, ReqInv
  <2>. QED
    BY <2>1, <2>2, <2>3, <2>4 DEF Core
<1>17. CASE Return
  <2>1. AloneInv'
    BY <1>17 DEF Return, AloneInv
  <2>2. WhereInv'
    BY <1>17 DEF Return, WhereInv, Launched, Moved, ReqInv, DumpedInv, AloneInv
  <2>3. RunInv'
    BY <1>17 DEF Return, RunInv
  <2>4. DumpedInv'
    BY <1>17 DEF Return, DumpedInv
  <2>. QED
    BY <2>1, <2>2, <2>3, <2>4 DEF Core
<1>18. ASSUME NEW h \in Host, DestroyContainers(h) PROVE Core'
  <2>1. AloneInv'
    BY <1>18 DEF DestroyContainers, AloneInv
  <2>2. WhereInv'
    BY <1>18 DEF DestroyContainers, WhereInv, Launched, Moved
  <2>3. RunInv'
    BY <1>18 DEF DestroyContainers, RunInv
  <2>4. DumpedInv'
    BY <1>18 DEF DestroyContainers, DumpedInv
  <2>. QED
    BY <2>1, <2>2, <2>3, <2>4 DEF Core
<1>19. ASSUME NEW h \in Host, Exit(h) PROVE Core'
  <2>1. AloneInv'
    BY <1>19 DEF Exit, Sending, Advance, AloneInv
  <2>2. WhereInv'
    BY <1>19 DEF Exit, Sending, Advance, WhereInv, Launched, Moved
  <2>3. RunInv'
    BY <1>19 DEF Exit, Sending, Advance, RunInv
  <2>4. DumpedInv'
    BY <1>19 DEF Exit, Sending, Advance, DumpedInv
  <2>. QED
    BY <2>1, <2>2, <2>3, <2>4 DEF Core
<1>20. ASSUME NEW c \in Command, NEW r \in Rank, AllocateHost(c, r) PROVE Core'
  <2>1. PICK h \in Host : h \in Offer(r) /\ Call(c, r, h)
    <3>1. DOMAIN LocationsStat \subseteq Host
      BY DEF LocationsStat, Known
    <3>2. Offer(r) \subseteq Host
      BY <3>1 DEF Offer, Known
    <3>. QED
      BY <1>20, <3>2 DEF AllocateHost
  <2>2. ASSUME r \notin tangled' PROVE ~ Running(r) /\ req.rank # r
    BY <2>1, <2>2 DEF Call, Tangle, Busy
  <2>3. r \in Known => h = location[r]
    BY <2>1 DEF Offer
  <2>4. ASSUME NEW g \in Host \ {h}, r \notin tangled' PROVE reg[g][r] # "running"
    <3>1. r \notin tangled
      BY <2>1, <2>4 DEF Call, Tangle
    <3>2. reg[g][r] = "running" => location[r] = g
      BY <2>2, <2>4, <3>1 DEF WhereInv, Launched, Moved
    <3>. QED
      BY <2>3, <2>4, <3>2 DEF Known
  <2>. QED
    BY <1>7, <2>1, <2>4
<1>21. ASSUME NEW c \in Command, NEW r \in Rank, NEW h \in Host, RunAt(c, r, h) PROVE Core'
  BY <1>7, <1>21 DEF RunAt
<1>22. ASSUME NEW r \in Rank, NEW d \in Host, NEW final \in BOOLEAN, Request(r, d, final) PROVE Core'
  BY <1>9, <1>22 DEF Request
<1>23. CASE SchedulerRequests
  BY <1>1, <1>9, <1>23 DEF SchedulerRequests
<1>24. CASE Tick \/ PickContainer \/ PickTarget
  BY <1>1, <1>24 DEF Tick, PickContainer, PickTarget
<1>25. ASSUME NEW h \in Host, Start(h) \/ RegisterNymph(h) \/ UnregisterNymph(h) PROVE Core'
  BY <1>1, <1>25 DEF Start, RegisterNymph, UnregisterNymph
<1>26. CASE UNCHANGED vars
  BY <1>1, <1>26 DEF vars
<1>. HIDE DEF Inv, TypeOK, RecordsOK, NoReq, NewCommand, Running
<1>. QED
  BY <1>2, <1>3, <1>4, <1>5, <1>6, <1>8, <1>10, <1>11, <1>12, <1>13, <1>14, <1>15, <1>16, <1>17, <1>18,
     <1>19, <1>20, <1>21, <1>22, <1>23, <1>24, <1>25, <1>26
     DEF Next, Run, Send
-----------------------------------------------------------------------------
LEMMA Initially == Init => Inv
BY LocationsAssumption
   DEF Init, Inv, TypeOK, RecordsOK, ReqInv, AloneInv, WhereInv, RunInv, DumpedInv, NoReq, Waiting, NewCommand,
       Running

LEMMA InvStep ==
    ASSUME Inv, [Next]_vars
    PROVE  Inv'
BY TypeStep, ReqStep, CoreStep DEF Inv, Core

LEMMA Invariance == Spec => []Inv
BY Initially, InvStep, PTL DEF Spec

\* Every variable keeps its type, whatever is run, migrated and stopped.
THEOREM TypeCorrect == Spec => []TypeOK
BY Invariance, PTL DEF Inv

\* Nobody busy with a rank: it runs where the coordinator says, and nowhere
\* else (server.go:278-291, control.go:122-127, 86-96, 139-157).
THEOREM Findability == Spec => []Findable
<1>1. Inv => Findable
  BY DEF Inv, Findable, Busy, Running, WhereInv, Launched, Moved
<1>. QED
  BY <1>1, Invariance, PTL
-----------------------------------------------------------------------------
\* The scheduler has seen ranks that are known, and two nymphs.  A location is
\* never forgotten, and the scheduler keeps its copy of the nymphs.
SchedInv ==
    /\ sched.pc = "ticked" => sched.ranks \subseteq Known
    /\ sched.pc = "picked" => sched.rank \in Known /\ \E g, h \in sched.locs : g # h
    /\ sched.pc # "panicked"

LEMMA TwoElements ==
    ASSUME NEW S, IsFiniteSet(S), Cardinality(S) >= 2
    PROVE  \E x, y \in S : x # y
<1>1. SUFFICES ASSUME \A x, y \in S : x = y PROVE FALSE
  OBVIOUS
<1>2. Cardinality(S) \in Nat
  BY FS_CardinalityType
<1>3. CASE S = {}
  BY <1>2, <1>3, FS_EmptySet
<1>4. ASSUME NEW x \in S PROVE FALSE
  <2>1. S = {x}
    BY <1>1, <1>4
  <2>2. Cardinality(S) = 1
    BY <2>1, FS_Singleton
  <2>. QED
    BY <2>2
<1>. QED
  BY <1>3, <1>4

LEMMA KnownGrows ==
    ASSUME TypeOK, RecordsOK, [Next]_vars
    PROVE  Known \subseteq Known'
<1>. USE LocationsAssumption DEF TypeOK, RecordsOK, Known
<1>1. CASE UNCHANGED location
  BY <1>1
<1>2. ASSUME NEW c \in Command, RegisterContainer(c) PROVE Known \subseteq Known'
  BY <1>2 DEF RegisterContainer, NewCommand
<1>3. CASE Return
  <2>1. req \in ReqType
    BY <1>3 DEF Return, ReqType, NoReq
  <2>. QED
    BY <1>3, <2>1 DEF Return, ReqType
<1>4. ASSUME NEW c \in Command,
             \/ GetOrCreate(c) \/ Launch(c) \/ RunFails(c) \/ RegisterFails(c)
             \/ \E r \in Rank : AllocateHost(c, r) \/ \E h \in Host : RunAt(c, r, h)
      PROVE  UNCHANGED location
  BY <1>4 DEF GetOrCreate, Launch, RunFails, RegisterFails, AllocateHost, RunAt, Call
<1>5. ASSUME NEW h \in Host,
             \/ Start(h) \/ RegisterNymph(h) \/ DestroyContainers(h) \/ UnregisterNymph(h) \/ Exit(h)
             \/ \E r \in Rank : ProcessEnds(h, r)
      PROVE  UNCHANGED location
  BY <1>5 DEF Start, RegisterNymph, DestroyContainers, UnregisterNymph, Exit, ProcessEnds
<1>6. ASSUME NEW r \in Rank, NEW d \in Host, NEW final \in BOOLEAN, Request(r, d, final)
      PROVE  UNCHANGED location
  BY <1>6 DEF Request
<1>7. Send \/ SendFails => UNCHANGED location
  BY SendMoves DEF SendStep
<1>8. Tick \/ PickContainer \/ PickTarget \/ SchedulerRequests => UNCHANGED location
  BY DEF Tick, PickContainer, PickTarget, SchedulerRequests
<1>9. UNCHANGED vars => UNCHANGED location
  BY DEF vars
<1>. HIDE DEF TypeOK, RecordsOK, Known
<1>. QED
  BY <1>1, <1>2, <1>3, <1>4, <1>5, <1>6, <1>7, <1>8, <1>9 DEF Next, Run

LEMMA SchedStep ==
    ASSUME TypeOK, RecordsOK, SchedInv, [Next]_vars
    PROVE  SchedInv'
<1>. USE LocationsAssumption DEF TypeOK, SchedInv
<1>0. Known \subseteq Known'
  BY KnownGrows
<1>1. CASE UNCHANGED sched
  BY <1>0, <1>1
<1>2. CASE Return
  BY <1>0, <1>2 DEF Return, Waiting
<1>3. CASE Tick
  BY <1>0, <1>3 DEF Tick
<1>4. CASE PickContainer
  <2>1. IsFiniteSet(nymphs)
    BY FS_Subset
  <2>2. CASE /\ Cardinality(nymphs) >= 2
             /\ \E r \in sched.ranks :
                   sched' = [sched EXCEPT !.pc = "picked", !.ranks = {}, !.rank = r, !.locs = nymphs]
    <3>1. \E g, h \in nymphs : g # h
      BY <2>1, <2>2, TwoElements
    <3>2. sched'.pc = "picked" /\ sched'.rank \in sched.ranks /\ sched'.locs = nymphs
      BY <2>2
    <3>. QED
      BY <1>0, <1>4, <3>1, <3>2 DEF PickContainer
  <2>3. CASE sched' = Waiting(Cardinality(sched.ranks))
    BY <2>3 DEF Waiting
  <2>. QED
    BY <1>4, <2>2, <2>3 DEF PickContainer
<1>5. CASE PickTarget
  <2>1. sched.rank \in Known /\ sched.locs \ {location[sched.rank]} # {}
    <3>1. sched.pc = "picked"
      BY <1>5 DEF PickTarget
    <3>2. sched.rank \in Known /\ \E g, h \in sched.locs : g # h
      BY <3>1
    <3>. QED
      BY <3>2
  <2>2. \E d \in sched.locs : sched' = [sched EXCEPT !.pc = "request", !.locs = {}, !.dest = d]
    BY <1>5, <2>1 DEF PickTarget
  <2>3. sched'.pc = "request"
    BY <2>2
  <2>. QED
    BY <2>3
<1>6. CASE SchedulerRequests
  <2>1. sched' = [sched EXCEPT !.pc = "waiting"] \/ sched' = Waiting(sched.last)
    BY <1>6 DEF SchedulerRequests
  <2>2. sched'.pc \in {"waiting", "wait"}
    BY <2>1 DEF Waiting
  <2>. QED
    BY <2>2
<1>7. ASSUME NEW c \in Command,
             \/ Run(c)
             \/ \E r \in Rank : AllocateHost(c, r) \/ \E h \in Host : RunAt(c, r, h)
      PROVE  UNCHANGED sched
  BY <1>7 DEF Run, GetOrCreate, Launch, RunFails, RegisterContainer, RegisterFails, AllocateHost, RunAt, Call
<1>8. ASSUME NEW h \in Host,
             \/ Start(h) \/ RegisterNymph(h) \/ DestroyContainers(h) \/ UnregisterNymph(h) \/ Exit(h)
             \/ \E r \in Rank : ProcessEnds(h, r)
      PROVE  UNCHANGED sched
  BY <1>8 DEF Start, RegisterNymph, DestroyContainers, UnregisterNymph, Exit, ProcessEnds
<1>9. ASSUME NEW r \in Rank, NEW d \in Host, NEW final \in BOOLEAN, Request(r, d, final)
      PROVE  UNCHANGED sched
  BY <1>9 DEF Request
<1>10. Send \/ SendFails => UNCHANGED sched
  BY SendMoves DEF SendStep
<1>11. UNCHANGED vars => UNCHANGED sched
  BY DEF vars
<1>. HIDE DEF TypeOK, SchedInv
<1>. QED
  BY <1>1, <1>2, <1>3, <1>4, <1>5, <1>6, <1>7, <1>8, <1>9, <1>10, <1>11 DEF Next

\* The scheduler never panics: the rank and the nymphs that it has seen are
\* enough for the rest of its round (scheduler.go:47-78).
THEOREM SchedulerSafety == Spec => []SchedulerGoesOn
<1>1. Init => SchedInv
  BY DEF Init, SchedInv, Waiting
<1>2. Inv /\ SchedInv /\ [Next]_vars => SchedInv'
  BY SchedStep DEF Inv
<1>3. SchedInv => SchedulerGoesOn
  BY DEF SchedInv, SchedulerGoesOn
<1>. QED
  BY <1>1, <1>2, <1>3, Invariance, PTL DEF Spec
-----------------------------------------------------------------------------
(***************************************************************************)
(* Locations implements Placement.                                         *)
(***************************************************************************)

\* The nodes where a rank runs, as RunsOnce has them.
Placed(r) == IF r \in tangled THEN {} ELSE {h \in Host : reg[h][r] = "running"}
placed == [r \in Rank |-> Placed(r)]
noWork == [r \in Rank |-> 0]

\* A rank that is not tangled runs on one node at most.
LEMMA OneNode ==
    ASSUME Inv, NEW r \in Rank, NEW g \in Host, NEW h \in Host, g \in Placed(r), h \in Placed(r)
    PROVE  g = h
<1>0. r \in Rank \ tangled /\ reg[g][r] = "running" /\ reg[h][r] = "running"
  BY DEF Placed
<1>1. \A n \in Host : Launched(r, n) => n = g /\ n = h
  BY <1>0 DEF Launched, Inv, RunInv
<1>2. \A n \in Host : Moved(r, n) => location[r] # g /\ location[r] # h
  BY <1>0 DEF Moved, Inv, DumpedInv, ReqInv, NoReq
<1>3. /\ location[r] = g \/ Launched(r, g) \/ Moved(r, g)
      /\ location[r] = h \/ Launched(r, h) \/ Moved(r, h)
  BY <1>0 DEF Inv, WhereInv
<1>. QED
  BY <1>1, <1>2, <1>3 DEF Moved

\* Steps after which every rank runs where it ran, or nowhere.
LEMMA FreezeStep ==
    ASSUME \A r \in Rank : Placed(r)' = Placed(r) \/ Placed(r)' = {}
    PROVE  Place!Next
<1>. DEFINE stopped == {r \in Rank : r \in tangled' \/ \A h \in Host : reg'[h][r] # "running"}
<1>1. placed' = [r \in Rank |-> IF r \in stopped THEN {} ELSE placed[r]]
  BY DEF placed, Placed
<1>2. Place!Freeze(stopped)
  BY <1>1 DEF Place!Freeze, placed, Placed
<1>3. stopped \in SUBSET Rank
  OBVIOUS
<1>. HIDE DEF stopped
<1>. QED
  BY <1>2, <1>3 DEF Place!Next, Place!Freeze

\* A step after which a rank runs that ran nowhere.
LEMMA PlaceStep ==
    ASSUME NEW r \in Rank, NEW h \in Host, r \notin tangled, UNCHANGED tangled,
           reg \in [Host -> [Rank -> {"none", "stopped", "running"}]],
           reg' = [reg EXCEPT ![h][r] = "running"],
           \A g \in Host : reg[g][r] # "running"
    PROVE  Place!Next
<1>1. Placed(r) = {} /\ Placed(r)' = {h}
  BY DEF Placed
<1>2. \A q \in Rank \ {r} : Placed(q)' = Placed(q)
  BY DEF Placed
<1>3. placed' = [placed EXCEPT ![r] = {h}]
  BY <1>1, <1>2 DEF placed
<1>4. Place!Place(r, h)
  BY <1>1, <1>3 DEF Place!Place, placed, Placed
<1>. QED
  BY <1>4 DEF Place!Next

LEMMA PlacementStep ==
    ASSUME Inv, Next
    PROVE  Place!Next
<1>0. reg \in [Host -> [Rank -> {"none", "stopped", "running"}]]
  BY DEF Inv, TypeOK
<1>1. ASSUME tangled \subseteq tangled',
             \A h \in Host, r \in Rank : reg'[h][r] = "running" <=> reg[h][r] = "running"
      PROVE  Place!Next
  BY <1>1, FreezeStep DEF Placed
<1>2. CASE UNCHANGED reg /\ tangled \subseteq tangled'
  BY <1>1, <1>2
<1>3. ASSUME NEW c \in Command, GetOrCreate(c) PROVE Place!Next
  <2>1. cmd[c].host \in Host /\ cmd[c].rank \in Rank
    BY <1>3 DEF GetOrCreate, Inv, RecordsOK, NewCommand
  <2>. QED
    BY <1>0, <1>1, <1>3, <2>1 DEF GetOrCreate
<1>4. ASSUME NEW c \in Command, Launch(c) PROVE Place!Next
  <2>. DEFINE r == cmd[c].rank
              h == cmd[c].host
  <2>1. h \in Host /\ r \in Rank
    BY <1>4 DEF Launch, Inv, RecordsOK, NewCommand
  <2>2. reg' = [reg EXCEPT ![h][r] = "running"] /\ UNCHANGED tangled
    BY <1>4 DEF Launch
  <2>. HIDE DEF r, h
  <2>3. CASE r \in tangled \/ reg[h][r] = "running"
    <3>1. \A q \in Rank : Placed(q)' = Placed(q)
      BY <1>0, <2>1, <2>2, <2>3 DEF Placed
    <3>. QED
      BY <3>1, FreezeStep
  <2>4. CASE r \notin tangled /\ reg[h][r] # "running"
    <3>1. \A g \in Host : reg[g][r] # "running"
      BY <2>1, <2>4 DEF Inv, RunInv, r, h
    <3>. QED
      BY <1>0, <2>1, <2>2, <2>4, <3>1, PlaceStep
  <2>. QED
    BY <2>3, <2>4
<1>5. ASSUME NEW h \in Host, NEW r \in Rank, ProcessEnds(h, r) PROVE Place!Next
  <2>1. reg' = [reg EXCEPT ![h][r] = "stopped"] /\ UNCHANGED tangled
    BY <1>5 DEF ProcessEnds
  <2>2. \A q \in Rank \ {r} : Placed(q)' = Placed(q)
    BY <1>0, <2>1 DEF Placed
  <2>3. Placed(r)' \subseteq Placed(r) \ {h}
    BY <1>0, <2>1 DEF Placed
  <2>4. h \in Placed(r) \/ Placed(r)' = Placed(r)
    BY <1>0, <1>5, <2>1 DEF ProcessEnds, Placed
  <2>5. Placed(r)' = Placed(r) \/ Placed(r)' = {}
    BY <2>3, <2>4, OneNode DEF Placed
  <2>. QED
    BY <2>2, <2>5, FreezeStep
<1>6. CASE Dump
  <2>1. PICK r \in Rank, h \in Host : r = req.rank /\ h = req.src
    BY <1>6 DEF Dump, Inv, TypeOK, NoReq
  <2>2. /\ UNCHANGED tangled /\ reg[h][r] = "running"
        /\ UNCHANGED reg \/ reg' = [reg EXCEPT ![h][r] = "stopped"]
    BY <1>0, <1>6, <2>1 DEF Dump
  <2>3. CASE reg' = [reg EXCEPT ![h][r] = "stopped"]
    <3>1. \A q \in Rank \ {r} : Placed(q)' = Placed(q)
      BY <1>0, <2>2, <2>3 DEF Placed
    <3>2. Placed(r)' \subseteq Placed(r) \ {h}
      BY <1>0, <2>1, <2>2, <2>3 DEF Placed
    <3>3. h \in Placed(r) \/ Placed(r) = {}
      BY <2>1, <2>2 DEF Placed
    <3>4. Placed(r)' = {}
      BY <2>1, <3>2, <3>3, OneNode DEF Placed
    <3>. QED
      BY <3>1, <3>4, FreezeStep
  <2>. QED
    BY <1>2, <2>2, <2>3
<1>7. CASE Relaunch
  <2>. DEFINE r == req.rank
              d == req.dest
  <2>1. r \in Rank /\ d \in Host /\ req \in ReqType /\ req # NoReq
    BY <1>7 DEF Relaunch, Inv, TypeOK, NoReq, ReqType
  <2>2. reg' = [reg EXCEPT ![d][r] = "running"] /\ UNCHANGED tangled /\ req.pc = "dumped" /\ req.final
    BY <1>7 DEF Relaunch
  <2>3. CASE r \in tangled
    <3>1. \A q \in Rank : Placed(q)' = Placed(q)
      BY <1>0, <2>1, <2>2, <2>3 DEF Placed
    <3>. QED
      BY <3>1, FreezeStep
  <2>4. CASE r \notin tangled
    <3>1. \A g \in Host : ~ Launched(r, g) /\ ~ Moved(r, g)
      BY <2>1, <2>2, <2>4 DEF Launched, Moved, Inv, AloneInv, Running
    <3>2. location[r] = req.src /\ reg[req.src][r] # "running"
      BY <2>1, <2>2, <2>4 DEF Inv, ReqInv, DumpedInv
    <3>3. \A g \in Host : reg[g][r] # "running"
      BY <2>1, <2>4, <3>1, <3>2 DEF Inv, WhereInv
    <3>. QED
      BY <1>0, <2>1, <2>2, <2>4, <3>3, PlaceStep
  <2>. QED
    BY <2>3, <2>4
<1>8. CASE SendFails
  <2>1. tangled \subseteq tangled' /\ req.pc \in {"called", "locked", "dumped", "restored"}
    BY <1>8 DEF SendFails, Tangle
  <2>2. req.rank \in Rank /\ req.dest \in Host
    BY <2>1 DEF Inv, TypeOK, NoReq
  <2>3. UNCHANGED reg \/ (/\ reg[req.dest][req.rank] = "none"
                          /\ reg' = [reg EXCEPT ![req.dest][req.rank] = "stopped"])
    BY <1>8 DEF SendFails
  <2>. QED
    BY <1>0, <1>1, <2>1, <2>2, <2>3
<1>9. CASE Delete
  <2>1. /\ req.rank \in Rank /\ req.src \in Host /\ UNCHANGED tangled /\ req.pc = "restored" /\ req # NoReq
        /\ reg' = [reg EXCEPT ![req.src][req.rank] = "none"]
    BY <1>9 DEF Delete, Inv, TypeOK, NoReq
  <2>2. req.rank \in tangled \/ reg[req.src][req.rank] # "running"
    BY <2>1 DEF Inv, ReqInv, DumpedInv
  <2>3. \A q \in Rank : Placed(q)' = Placed(q)
    BY <1>0, <2>1, <2>2 DEF Placed
  <2>. QED
    BY <2>3, FreezeStep
<1>10. ASSUME NEW h \in Host, DestroyContainers(h) \/ Exit(h) PROVE Place!Next
  <2>1. reg' = [reg EXCEPT ![h] = [r \in Rank |-> "none"]] /\ tangled \subseteq tangled'
    BY <1>10 DEF DestroyContainers, Exit
  <2>2. ASSUME NEW r \in Rank PROVE Placed(r)' = Placed(r) \/ Placed(r)' = {}
    <3>1. Placed(r)' \subseteq Placed(r) \ {h}
      BY <1>0, <2>1 DEF Placed
    <3>2. h \in Placed(r) => Placed(r)' = {}
      BY <3>1, OneNode DEF Placed
    <3>3. h \notin Placed(r) => Placed(r)' = Placed(r) \/ Placed(r)' = {}
      BY <1>0, <2>1 DEF Placed
    <3>. QED
      BY <3>2, <3>3
  <2>. QED
    BY <2>2, FreezeStep
<1>11. ASSUME NEW c \in Command, RunFails(c) \/ RegisterContainer(c) \/ RegisterFails(c) PROVE Place!Next
  BY <1>2, <1>11 DEF RunFails, RegisterContainer, RegisterFails, Tangle
<1>12. ASSUME NEW c \in Command, NEW r \in Rank,
              AllocateHost(c, r) \/ \E h \in Host : RunAt(c, r, h)
       PROVE  Place!Next
  BY <1>2, <1>12 DEF AllocateHost, RunAt, Call, Tangle
<1>13. ASSUME NEW r \in Rank, NEW d \in Host, NEW final \in BOOLEAN, Request(r, d, final) PROVE Place!Next
  BY <1>2, <1>13 DEF Request, Migrate, Tangle
<1>14. CASE Lock \/ PreDumped \/ SendRefused \/ Return
  BY <1>2, <1>14 DEF Lock, PreDumped, SendRefused, Return
<1>15. CASE Tick \/ PickContainer \/ PickTarget \/ SchedulerRequests
  BY <1>2, <1>15 DEF Tick, PickContainer, PickTarget, SchedulerRequests, Migrate, Tangle
<1>16. ASSUME NEW h \in Host, Start(h) \/ RegisterNymph(h) \/ UnregisterNymph(h) PROVE Place!Next
  BY <1>2, <1>16 DEF Start, RegisterNymph, UnregisterNymph
<1>. QED
  BY <1>3, <1>4, <1>5, <1>6, <1>7, <1>8, <1>9, <1>10, <1>11, <1>12, <1>13, <1>14, <1>15, <1>16
     DEF Next, Run, Send

\* While a Run or a migration is busy with a rank, too, it runs on one node at
\* a time, and starts or resumes only when it has been stopped (server.go:278-
\* 291, control.go:86-96, 139-157; migrate.go:45-116, migrate-recipient.go:179).
THEOREM Refinement == Spec => RunsOnce
<1>1. Init => Place!Init
  BY DEF Init, Place!Init
<1>2. Inv /\ [Next]_vars => [Place!Next]_(Place!vars)
  <2>1. UNCHANGED vars => UNCHANGED Place!vars
    BY DEF vars, Place!vars
  <2>. QED
    BY <2>1, PlacementStep
<1>. QED
  BY <1>1, <1>2, Invariance, PTL DEF Spec, RunsOnce, Place!Spec
=============================================================================
