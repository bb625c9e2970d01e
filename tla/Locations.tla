------------------------------ MODULE Locations ------------------------------
(***************************************************************************)
(* Who knows where a rank runs: the control loop of the coordinator with   *)
(* its location database and its table of nymphs (srv/coordinator), the    *)
(* commands that run and migrate ranks (cmd/run.go, console.go), the       *)
(* scheduler, and the nymphs that come and go meanwhile.                   *)
(*                                                                         *)
(* Ranks are run any number of times, with a host name or with the one the *)
(* coordinator offers; module Migration, where each is run once, has what  *)
(* the nymphs do in a migration in more detail, and Registration the table *)
(* of nymphs.  The control loop serves one request at a time; all but      *)
(* migrations are served at once.  A call of a nymph waits until the nymph *)
(* serves: NewClient dials for ever, and a nymph has its socket before it  *)
(* registers but serves calls only afterwards (nymph.go:19, 47, 51).       *)
(*                                                                         *)
(* Data: a pre-dump followed by a migration counts as a migration.  Nymphs *)
(* are stopped only while they serve; module Node has the other cases. The *)
(* control loop does not lose its connection to a donor that goes on.      *)
(* Bounds: MaxRuns commands, MaxMigrations migrations, MaxEnds ends.       *)
(***************************************************************************)
EXTENDS Naturals, FiniteSets

CONSTANTS
    Rank, Host,
    Command,        \* the invocations of konk run that there can be at a time
    NoRank, NoHost,
    Schedules,      \* is the scheduler started? (coordinator.go:21-22)
    MaxRuns, MaxMigrations, MaxEnds

ASSUME LocationsAssumption ==
    /\ IsFiniteSet(Rank) /\ NoRank \notin Rank
    /\ IsFiniteSet(Host) /\ NoHost \notin Host
    /\ Schedules \in BOOLEAN
    /\ MaxRuns \in Nat /\ MaxMigrations \in Nat /\ MaxEnds \in Nat

VARIABLES
    \* the coordinator
    location,       \* LocationDB.db
    nymphs,         \* the locations in NymphSet
    req,            \* the migration that the control loop is busy with
    sched,          \* the locals of Scheduler.Start
    \* the nymphs
    up,             \* how far the nymph of a host is
    reg,            \* the containers in its register: none, stopped or running
    \* the operators
    cmd,            \* the calls of konk run
    runs, migrations, ends,
    \* history
    tangled         \* the ranks that may have gone astray, see Tangle

bounds == <<runs, migrations, ends>>
vars == <<location, nymphs, req, sched, up, reg, cmd, bounds, tangled>>

NoReq == [rank |-> NoRank, src |-> NoHost, dest |-> NoHost, final |-> FALSE,
          by |-> "nobody", pc |-> "none"]
Waiting(last) ==
    [pc |-> "wait", last |-> last, ranks |-> {}, locs |-> {}, rank |-> NoRank, dest |-> NoHost]
NewCommand == [pc |-> "new", rank |-> NoRank, host |-> NoHost]

Init ==
    /\ location = [r \in Rank |-> NoHost]
    /\ nymphs = {}
    /\ req = NoReq
    /\ sched = Waiting(0)
    /\ up = [h \in Host |-> "down"]
    /\ reg = [h \in Host |-> [r \in Rank |-> "none"]]
    /\ cmd = [c \in Command |-> NewCommand]
    /\ runs = 0 /\ migrations = 0 /\ ends = 0
    /\ tangled = {}

Known == {r \in Rank : location[r] # NoHost}

\* The control loop takes the next request.
Free == req = NoReq

\* Does the nymph of h serve calls?  Also while _Close runs.
Serving(h) == up[h] \in {"serving", "leaving", "left"}

\* Send holds the mutex of the register of h.
Sending(h) == req.src = h /\ req.pc \in {"locked", "dumped", "restored"}

-----------------------------------------------------------------------------
(***************************************************************************)
(* What operators are warned of: operations on a rank that overlap, a      *)
(* registration that fails, an answer of a recipient that is lost, a       *)
(* nymph that ends below a Run.                                            *)
(***************************************************************************)

Running(r) == \E c \in Command : cmd[c].rank = r
Busy(r) == Running(r) \/ req.rank = r

Tangle(r, overlap) == tangled' = IF overlap THEN tangled \cup {r} ELSE tangled

-----------------------------------------------------------------------------
(***************************************************************************)
(* konk run                                                                *)
(***************************************************************************)

\* The counts that allocateHost compares.  LocationsStat increments a copy, so
\* a host has one container at most.
LocationsStat == [h \in {location[r] : r \in Known} |-> 1]

\* Mutant: the rank is not looked up.
OfferAny(r) ==
    {h \in DOMAIN LocationsStat : \A g \in DOMAIN LocationsStat : LocationsStat[h] <= LocationsStat[g]}

\* allocateHost: where the rank is, or else a host with the fewest containers.
Offer(r) ==
    IF r \in Known THEN {location[r]}
    ELSE {h \in DOMAIN LocationsStat :
            \A g \in DOMAIN LocationsStat : LocationsStat[h] <= LocationsStat[g]}

Call(c, r, h) ==
    /\ cmd[c].pc = "new"
    /\ runs < MaxRuns
    /\ runs' = runs + 1
    /\ cmd' = [cmd EXCEPT ![c] = [pc |-> "call", rank |-> r, host |-> h]]
    /\ Tangle(r, Busy(r))
    /\ UNCHANGED <<location, nymphs, req, sched, up, reg, migrations, ends>>

\* RunCmd without a host name.  It ends if the coordinator knows no location.
AllocateHost(c, r) ==
    /\ Free
    /\ \E h \in Offer(r) : Call(c, r, h)

\* RunCmd with a host name.  Operators do not name one while the rank runs on
\* another.
RunAt(c, r, h) ==
    /\ \A g \in Host \ {h} : reg[g][r] # "running"
    /\ Call(c, r, h)

\* Nymph.Run is called: the container of the rank is created unless the
\* register has one.
GetOrCreate(c) ==
    LET h == cmd[c].host
        r == cmd[c].rank
    IN
    /\ cmd[c].pc = "call"
    /\ Serving(h)
    /\ ~ Sending(h)
    /\ reg' = [reg EXCEPT ![h][r] = IF @ = "none" THEN "stopped" ELSE @]
    /\ cmd' = [cmd EXCEPT ![c].pc = "launch"]
    /\ UNCHANGED <<location, nymphs, req, sched, up, bounds, tangled>>

\* Launch, without the mutex.
Launch(c) ==
    LET h == cmd[c].host
        r == cmd[c].rank
    IN
    /\ cmd[c].pc = "launch"
    /\ reg[h][r] # "none"
    /\ reg' = [reg EXCEPT ![h][r] = "running"]
    /\ cmd' = [cmd EXCEPT ![c].pc = "register"]
    /\ UNCHANGED <<location, nymphs, req, sched, up, bounds, tangled>>

\* The call fails before the process is started.
RunFails(c) ==
    /\ cmd[c].pc \in {"call", "launch"}
    /\ cmd' = [cmd EXCEPT ![c] = NewCommand]
    /\ UNCHANGED <<location, nymphs, req, sched, up, reg, bounds, tangled>>

\* The nymph tells the coordinator, and the command ends.
RegisterContainer(c) ==
    /\ cmd[c].pc = "register"
    /\ Free
    /\ location' = [location EXCEPT ![cmd[c].rank] = cmd[c].host]
    /\ cmd' = [cmd EXCEPT ![c] = NewCommand]
    /\ UNCHANGED <<nymphs, req, sched, up, reg, bounds, tangled>>

\* Its connection to the coordinator is broken: Run returns an error, and the
\* process runs.
RegisterFails(c) ==
    /\ cmd[c].pc = "register"
    /\ cmd' = [cmd EXCEPT ![c] = NewCommand]
    /\ Tangle(cmd[c].rank, TRUE)
    /\ UNCHANGED <<location, nymphs, req, sched, up, reg, bounds>>

\* The program of a rank ends; its container stays in the register.
ProcessEnds(h, r) ==
    /\ reg[h][r] = "running"
    /\ reg' = [reg EXCEPT ![h][r] = "stopped"]
    /\ UNCHANGED <<location, nymphs, req, sched, up, cmd, bounds, tangled>>

-----------------------------------------------------------------------------
(***************************************************************************)
(* Migrations                                                              *)
(***************************************************************************)

\* Mutant: the rank is not looked up before it is migrated.
MigrateUnknown(r, d, final, by) ==
    /\ Free
    /\ location[r] # d
    /\ migrations < MaxMigrations
    /\ migrations' = migrations + 1
    /\ req' = [rank |-> r, src |-> location[r], dest |-> d, final |-> final, by |-> by, pc |-> "called"]
    /\ Tangle(r, Running(r))

\* migrateImpl and Migrate up to the call of Send.  A rank that is not known,
\* or that is at the destination, is refused.
Migrate(r, d, final, by) ==
    /\ Free
    /\ r \in Known
    /\ location[r] # d
    /\ migrations < MaxMigrations
    /\ migrations' = migrations + 1
    /\ req' = [rank |-> r, src |-> location[r], dest |-> d, final |-> final, by |-> by, pc |-> "called"]
    /\ Tangle(r, Running(r))

\* konk console migrate.
Request(r, d, final) ==
    /\ Migrate(r, d, final, "operator")
    /\ UNCHANGED <<location, nymphs, sched, up, reg, cmd, runs, ends>>

Advance(pc) == req' = [req EXCEPT !.pc = pc]

\* Send takes the mutex and looks the container up.
Lock ==
    /\ req.pc = "called"
    /\ Serving(req.src)
    /\ Advance(IF reg[req.src][req.rank] = "none" THEN "failed" ELSE "locked")
    /\ UNCHANGED <<location, nymphs, sched, up, reg, cmd, bounds, tangled>>

Dump ==
    /\ req.pc = "locked"
    /\ reg[req.src][req.rank] = "running"
    /\ reg' = [reg EXCEPT ![req.src][req.rank] = IF req.final THEN "stopped" ELSE @]
    /\ Advance("dumped")
    /\ UNCHANGED <<location, nymphs, sched, up, cmd, bounds, tangled>>

\* The checkpoint has been sent to the destination, and that was all.
PreDumped ==
    /\ req.pc = "dumped"
    /\ Serving(req.dest)
    /\ ~ req.final
    /\ Advance("done")
    /\ UNCHANGED <<location, nymphs, sched, up, reg, cmd, bounds, tangled>>

\* Load and Launch.
Relaunch ==
    /\ req.pc = "dumped"
    /\ Serving(req.dest)
    /\ req.final
    /\ reg[req.dest][req.rank] = "none"
    /\ reg' = [reg EXCEPT ![req.dest][req.rank] = "running"]
    /\ Advance("restored")
    /\ UNCHANGED <<location, nymphs, sched, up, cmd, bounds, tangled>>

\* Nothing runs that could be dumped, or Load refuses.
SendRefused ==
    /\ \/ req.pc = "locked" /\ reg[req.src][req.rank] # "running"
       \/ /\ req.pc = "dumped" /\ Serving(req.dest)
          /\ req.final /\ reg[req.dest][req.rank] # "none"
    /\ Advance("failed")
    /\ UNCHANGED <<location, nymphs, sched, up, reg, cmd, bounds, tangled>>

\* The call, the dump or the transfer fails; the container is loaded but not restored; or
\* the answer to the donor is lost.
SendFails ==
    /\ \/ req.pc \in {"called", "locked", "dumped"} /\ UNCHANGED <<reg, tangled>>
       \/ /\ req.pc = "dumped" /\ req.final /\ Serving(req.dest)
          /\ reg[req.dest][req.rank] = "none"
          /\ reg' = [reg EXCEPT ![req.dest][req.rank] = "stopped"]
          /\ UNCHANGED tangled
       \/ req.pc = "restored" /\ UNCHANGED reg /\ Tangle(req.rank, TRUE)
    /\ Advance("failed")
    /\ UNCHANGED <<location, nymphs, sched, up, cmd, bounds>>

\* DeleteUnlocked at the source.
Delete ==
    /\ req.pc = "restored"
    /\ reg' = [reg EXCEPT ![req.src][req.rank] = "none"]
    /\ Advance("done")
    /\ UNCHANGED <<location, nymphs, sched, up, cmd, bounds, tangled>>

\* Mutant: the location is set although Migrate has failed.
ReturnSets ==
    /\ req.pc \in {"done", "failed"}
    /\ location' = [location EXCEPT ![req.rank] = IF req.final THEN req.dest ELSE @]
    /\ sched' = IF req.by = "scheduler" THEN Waiting(sched.last) ELSE sched
    /\ req' = NoReq
    /\ UNCHANGED <<nymphs, up, reg, cmd, bounds, tangled>>

\* The rest of migrateImpl; the scheduler goes on, if it was its request.
Return ==
    /\ req.pc \in {"done", "failed"}
    /\ location' = [location EXCEPT ![req.rank] =
                        IF req.pc = "done" /\ req.final THEN req.dest ELSE @]
    /\ sched' = IF req.by = "scheduler" THEN Waiting(sched.last) ELSE sched
    /\ req' = NoReq
    /\ UNCHANGED <<nymphs, up, reg, cmd, bounds, tangled>>

-----------------------------------------------------------------------------
(***************************************************************************)
(* Scheduler.Start                                                         *)
(***************************************************************************)

\* Every ten seconds: the ranks that are known.
Tick ==
    /\ Schedules
    /\ migrations < MaxMigrations
    /\ sched.pc = "wait"
    /\ sched' = [sched EXCEPT !.pc = "ticked", !.ranks = Known]
    /\ UNCHANGED <<location, nymphs, req, up, reg, cmd, bounds, tangled>>

\* Mutant: one nymph is enough.
PickContainerAlone ==
    /\ sched.pc = "ticked"
    /\ LET curLen == Cardinality(sched.ranks) IN
       IF curLen > 0 /\ sched.last = curLen
       THEN \E r \in sched.ranks :
               sched' = [sched EXCEPT !.pc = "picked", !.ranks = {}, !.rank = r, !.locs = nymphs]
       ELSE sched' = Waiting(curLen)
    /\ UNCHANGED <<location, nymphs, req, up, reg, cmd, bounds, tangled>>

\* The nymphs; nothing is migrated while the number of ranks changes.
PickContainer ==
    /\ sched.pc = "ticked"
    /\ LET curLen == Cardinality(sched.ranks) IN
       IF curLen > 0 /\ sched.last = curLen /\ Cardinality(nymphs) >= 2
       THEN \E r \in sched.ranks :
               sched' = [sched EXCEPT !.pc = "picked", !.ranks = {}, !.rank = r, !.locs = nymphs]
       ELSE sched' = Waiting(curLen)
    /\ UNCHANGED <<location, nymphs, req, up, reg, cmd, bounds, tangled>>

\* Where the container is now, and a target among the nymphs of before.  It
\* panics if the rank is not known any more, or if there is no target.
PickTarget ==
    LET targets == sched.locs \ {location[sched.rank]} IN
    /\ sched.pc = "picked"
    /\ IF sched.rank \in Known /\ targets # {}
       THEN \E d \in targets : sched' = [sched EXCEPT !.pc = "request", !.locs = {}, !.dest = d]
       ELSE sched' = [sched EXCEPT !.pc = "panicked"]
    /\ UNCHANGED <<location, nymphs, req, up, reg, cmd, bounds, tangled>>

\* Its request is served; it is refused if the rank has come there meanwhile.
SchedulerRequests ==
    /\ sched.pc = "request"
    /\ Free
    /\ \/ /\ Migrate(sched.rank, sched.dest, TRUE, "scheduler")
          /\ sched' = [sched EXCEPT !.pc = "waiting"]
       \/ /\ location[sched.rank] = sched.dest
          /\ sched' = Waiting(sched.last)
          /\ UNCHANGED <<req, migrations, tangled>>
    /\ UNCHANGED <<location, nymphs, up, reg, cmd, runs, ends>>

-----------------------------------------------------------------------------
(***************************************************************************)
(* Nymphs                                                                  *)
(***************************************************************************)

\* The socket is open, and registerNymph asks the coordinator.
Start(h) ==
    /\ up[h] = "down"
    /\ up' = [up EXCEPT ![h] = "registering"]
    /\ UNCHANGED <<location, nymphs, req, sched, reg, cmd, bounds, tangled>>

RegisterNymph(h) ==
    /\ up[h] = "registering"
    /\ Free
    /\ nymphs' = nymphs \cup {h}
    /\ up' = [up EXCEPT ![h] = "serving"]
    /\ UNCHANGED <<location, req, sched, reg, cmd, bounds, tangled>>

\* _Close destroys the containers; nobody tells the coordinator.
DestroyContainers(h) ==
    /\ up[h] = "serving"
    /\ ends < MaxEnds
    /\ ends' = ends + 1
    /\ ~ Sending(h)
    /\ up' = [up EXCEPT ![h] = "leaving"]
    /\ reg' = [reg EXCEPT ![h] = [r \in Rank |-> "none"]]
    /\ UNCHANGED <<location, nymphs, req, sched, cmd, runs, migrations, tangled>>

UnregisterNymph(h) ==
    /\ up[h] = "leaving"
    /\ Free
    /\ nymphs' = nymphs \ {h}
    /\ up' = [up EXCEPT ![h] = "left"]
    /\ UNCHANGED <<location, req, sched, reg, cmd, bounds, tangled>>

\* The process ends with its register and its handlers.
Exit(h) ==
    LET cut == {c \in Command : cmd[c].host = h /\ cmd[c].pc \in {"launch", "register"}} IN
    /\ up[h] = "left"
    /\ up' = [up EXCEPT ![h] = "down"]
    /\ reg' = [reg EXCEPT ![h] = [r \in Rank |-> "none"]]
    /\ cmd' = [c \in Command |-> IF c \in cut THEN NewCommand ELSE cmd[c]]
    /\ IF Sending(h) THEN Advance("failed") ELSE UNCHANGED req
    /\ tangled' = tangled \cup {r \in Rank : reg[h][r] # "none"} \cup {cmd[c].rank : c \in cut}
                    \cup (IF Sending(h) THEN {req.rank} ELSE {})
    /\ UNCHANGED <<location, nymphs, sched, bounds>>

-----------------------------------------------------------------------------
Run(c) == GetOrCreate(c) \/ Launch(c) \/ RunFails(c) \/ RegisterContainer(c) \/ RegisterFails(c)

Send == Lock \/ Dump \/ PreDumped \/ Relaunch \/ SendRefused \/ Delete

Next ==
    \/ \E c \in Command :
          \/ Run(c)
          \/ \E r \in Rank : AllocateHost(c, r) \/ \E h \in Host : RunAt(c, r, h)
    \/ \E h \in Host, r \in Rank : ProcessEnds(h, r)
    \/ \E r \in Rank, d \in Host, final \in BOOLEAN : Request(r, d, final)
    \/ Send \/ SendFails \/ Return
    \/ Tick \/ PickContainer \/ PickTarget \/ SchedulerRequests
    \/ \E h \in Host :
          Start(h) \/ RegisterNymph(h) \/ DestroyContainers(h) \/ UnregisterNymph(h) \/ Exit(h)

\* Handlers run on, failures are never certain, and the goroutines that wait
\* for the control loop are served in the order in which they came.
Fairness ==
    /\ WF_vars(Send) /\ WF_vars(Return)
    /\ \A h \in Host : SF_vars(RegisterNymph(h))

Spec == Init /\ [][Next]_vars
FairSpec == Spec /\ Fairness
-----------------------------------------------------------------------------
(***************************************************************************)
(* Properties                                                              *)
(***************************************************************************)

TypeOK ==
    /\ location \in [Rank -> Host \cup {NoHost}]
    /\ nymphs \subseteq Host
    /\ req \in [rank : Rank, src : Host, dest : Host, final : BOOLEAN, by : {"operator", "scheduler"},
                pc : {"called", "locked", "dumped", "restored", "done", "failed"}] \cup {NoReq}
    /\ sched \in [pc : {"wait", "ticked", "picked", "request", "waiting", "panicked"}, last : Nat,
                  ranks : SUBSET Rank, locs : SUBSET Host, rank : Rank \cup {NoRank},
                  dest : Host \cup {NoHost}]
    /\ up \in [Host -> {"down", "registering", "serving", "leaving", "left"}]
    /\ reg \in [Host -> [Rank -> {"none", "stopped", "running"}]]
    /\ cmd \in [Command -> [pc : {"new", "call", "launch", "register"},
                            rank : Rank \cup {NoRank}, host : Host \cup {NoHost}]]
    /\ runs \in Nat /\ migrations \in Nat /\ ends \in Nat
    /\ tangled \subseteq Rank

\* Once nobody is busy with a rank, it runs on one node at most, and the
\* coordinator knows which: a request to migrate it gets there, and another Run
\* of it does not start a second copy elsewhere.  The ranks of Tangle are the
\* only exceptions: a Run that overlaps with another operation on its rank may
\* register it where it is not any more (server.go:278-291, control.go:122-127,
\* 86-96, 139-157).
Findable ==
    \A r \in Rank \ tangled : ~ Busy(r) =>
        \A h \in Host : reg[h][r] = "running" => location[r] = h

\* Also while a Run or a migration is busy with it, a rank starts and resumes
\* only where it runs nowhere else, whichever node its operation was sent to:
\* the nodes implement Placement.  Nothing is said of the ranks of Tangle, and
\* what the ranks have computed is in module Migration (server.go:278-291,
\* control.go:86-96, 139-157; migrate.go:45-116, migrate-recipient.go:179-221).
Place == INSTANCE Placement WITH
            at <- [r \in Rank |-> IF r \in tangled THEN {} ELSE {h \in Host : reg[h][r] = "running"}],
            work <- [r \in Rank |-> 0]
RunsOnce == Place!Spec

\* The scheduler never panics, although locations and nymphs change between its
\* looks at them: the rank it has seen is still known (scheduler.go:66), and
\* there is a target left (scheduler.go:78).
SchedulerGoesOn == sched.pc # "panicked"

\* A nymph that opens its socket registers and serves (nymph.go:15-16).
NymphsServe == \A h \in Host : up[h] = "registering" ~> up[h] # "registering"
=============================================================================
