# A TLA+ development of konk

konk runs the ranks of a parallel program as containers on a cluster and
migrates them between nodes while they run. This directory keeps TLA+ models of
its services, the TLC configurations that check them and TLAPS proofs. All paths
below are relative to `src/`.

Run everything in this directory:

    tlc -config Registration.cfg MCRegistration     # or any other run
    tlapm RegistrationProofs.tla

`PROJECT.json` lists the runs with their modules and configurations, maps each
definition to the lines it models, and lists the findings and the hazards.

## 1. The system

One **coordinator** serves the cluster and every node runs a **nymph**. They
talk over Go's `net/rpc`; an operator's commands (`konk run`, `konk console`)
are RPC calls, too.

| Component | Code | State | Operations |
|---|---|---|---|
| Control loop | `srv/coordinator/control.go`, `server.go`, `migrate.go` | the channel `requests` | one goroutine takes one request at a time: allocate, register, migrate, signal, (un)register nymph |
| Location database | `srv/coordinator/location.go` | `db`: rank to host name | `Get`, `Set`, `Unset`, `Dump`, `LocationsStat` |
| Scheduler | `srv/coordinator/scheduler.go` (not started, `coordinator.go:21`) | the number of ranks seen last | every ten seconds: a random rank to a random other nymph |
| Nymph table | `srv/coordinator/nymph_set.go` | a bitset of ids, a map from host name to id | `Add`, `Del` |
| Nymph | `srv/nymph/nymph.go`, `server.go` | `Id`, container register, images, networks | start, register, `Run`, `_Close` |
| Donor | `srv/nymph/migrate.go`, `migrate-donor.go`, `pkg/nymph/migrate.go` | the client's sequence number | `Send`: dump, send files, relaunch, delete |
| Recipient | `srv/nymph/migrate-recipient.go` | `seq`, `imageInfo`, the file being written | `ImageInfo`, `FileInfo`, `LinkInfo`, `FileData`, `Relaunch` |
| Container register | `pkg/container/container_registry.go` | rank to container, a mutex, directories on disk | `GetOrCreate`, `Load`, `DeleteUnlocked`, `Destroy` |
| Containers, checkpoints | `pkg/container/container.go`, `checkpoint.go` | checkpoints by generation, the next number | `NewCheckpoint`, `Dump`, `Launch` (start or restore) |
| Images | `pkg/container/image.go`, `getImage` in `srv/nymph/server.go` | image per name, a directory each, a mutex | unpack an archive, read its configuration, remember it, remove it |
| Networks | `pkg/network`, `pkg/hook` | bridge, vxlan and veth links, RDMA number ranges | create, hooks (a process each), `PostRestore`, `Destroy` |
| Commands | `cmd/run.go`, `cmd/console.go` | none | `allocateHost` or a host name, `Run`; `Migrate` |
| Transport | `pkg/util/server.go`, `pkg/*/client.go` | connections | dial (for ever), serve each call in a goroutine |

How they interact. A nymph registers with the coordinator and gets an id, from
which it derives the RDMA queue pair numbers of its containers. `Run` on a nymph
creates and launches a container, then registers its location. The image of a
container is unpacked by the first `Run` that names it and shared by later ones.
`konk run` without a host name asks the coordinator for one. `Migrate` at the
coordinator looks the location up, calls `Send` on the donor and *waits for it
inside the control loop*. `Send` holds the mutex of the donor's register from
the look-up to the deletion; it dumps the container, connects to the recipient,
sends the files one RPC at a time under a sequence number, asks for `Relaunch`
and deletes its own container. The coordinator then sets the location. Each
nymph has a single `Recipient`, without a lock, which serves all donors.

What is hard here: handlers of several donors that interleave in the one
recipient; calls served after their caller has given up; a failure between the
dump that stops the process and the answer that it runs again; the two copies of
a container during a migration and the database that says where it is; the
control loop that waits for other nodes; killed processes that return under the
same host name. `PROJECT.json` names each of these at its line.

What makes each part correct:

* nymph table and registration: nymphs that serve never share an id, in spite of
  kills, lost replies and registrations from the same host;
* transfer: a donor that is told that all went well has left whole files, and a
  relaunch starts the image that was sent;
* migration: a process runs on one node at most and loses no work; a container
  remains somewhere; the database leads to it; a migration without faults
  succeeds, and the control loop returns from it;
* locations: once no operation on a rank is under way, the rank runs on one node
  at most and the coordinator knows which, whatever has failed, unless two
  operations on the rank overlapped; the scheduler survives what changes between
  its looks at locations and nymphs;
* node: what runs is on the bridge, and a nymph that ends leaves nothing that
  keeps the next one from starting;
* images: nobody uses half an image, and what an earlier nymph or another `Run`
  has left never keeps a sound archive from being unpacked.

## 2. The modules

    NymphSet, IdLease <--- Registration <--- MCRegistration
                                        <--- RegistrationProofs
    Transfer <--- MCTransfer
             <--- TransferProofs
    Placement <-- Migration <--- MCMigration
                            <--- MigrationProofs <--- MigrationServesProofs
                                                          <--- MigrationImagesProofs
    Images <----- Node <-------- MCNode
                       <-------- NodeProofs
    Placement <-- Locations <--- MCLocations
                            <--- LocationsProofs

Several arrows into a module are modules that extend it. `Migration` and
`Locations` refer to `Placement` and `Registration` to `IdLease` through
`INSTANCE ... WITH`: these two are what a component promises, and have no code
of their own. Definitions marked "Mutant" are
plausible bugs of the code: each shows that some property notices one. They are
used by no specification.

### NymphSet, Registration, IdLease

`NymphSet` is `nymph_set.go`: the bits set (`activeIds`), the length of the
bitset, and the map. `NextId` is `NextClear(0)` with its fallback on `Count()`;
`willf/bitset` itself is external, modelled from how `nymph_set.go` uses it.

`Registration` has per location a nymph process (`down`, `registering`,
`serving`, `closing`), its connection, its `Id`, and the calls under way.
`Start`, `Registered` and `Close` are `nymph.go:Run`, `registerNymph` and
`_Close`; `HandleRegister` and `HandleUnregister` are the cases of the control
loop; `Kill`, `ConnectionLost` and `RestartCoordinator` are the environment. A
registration may be served after the process that sent it is gone. An
unregistration may be, too, if `LateUnregister` is TRUE; see section 5.

`IdLease` is what registration promises: ids are lent to holders, one at a time
and to one holder at a time, until the holder is gone. `LendsIds` says that
`Registration` implements it: what a location has been lent is the `Id` of its
registered process, and before that the id in the answer on its way to it.

### Transfer

One action per RPC of the donor (`SendImageInfo`, `SendFile`, `SendChunk`,
`SendRelaunch`) and one or two per handler of the recipient: a handler that
blocks in the file system is split there (`EnterFileInfo`/`OpenFile`,
`EnterLinkInfo`/`Symlink`, `EnterFileData`/`WriteData`), since `GOMAXPROCS(1)`
makes those the places where another goroutine runs. A session is one call of
`sendCheckpoint`. The control loop starts a session when the previous one has
answered, or after it has lost that donor (`LoseDonor`), which is how two donors
come to write to one recipient. `Abort` ends a donor while its last call is
still to be served. File contents are sequences of chunks marked with their
session and position, so that a chunk of the wrong donor or at the wrong place
shows.

`Relaunch` succeeds only if what was announced last can be loaded and restored.
`Loadable` is what `Load` asks for: a container that is not in the register yet
(`registered`), a state file that some session has written to the end, the
checkpoint's directory and that of generation 0, which `ImageInfo` always names
as the parent; `baseOf` is the session that sends generation 0 of the same
container. `Restorable` is what CRIU asks for: a final dump (a pre-dump has no
processes to resume) whose files, and those of the parent it leads to, are whole.
A container that is loaded but not restored stays registered (`RefuseRelaunch`).

### Migration, Placement

`Migration` composes the control loop, the location database, the handlers `Run`
and `Send`, the container registers, checkpoints and processes of all nodes. A
*job* is a migration request; its `pc` is where `Send` (or `Relaunch`, which
`Send` waits for) is. `Lock` to `Delete` are the steps of `Send`, `Load` and
`Restore` those of `Relaunch`, with a failing variant each. Mutexes, the
numbering of checkpoints (`next`, `gens`), the directories left behind
(`image`), the state file that `Factory.Create` trips over, and an unfinished
file at the recipient (`unfinished`) all carry over from one job to the next.
Names are distinct from nodes: a node can have an alias, and a name can lead
nowhere.

`rootfs` says which container images a node has unpacked. `Run` unpacks the one
it names; nobody sends one. A checkpoint is restored in the root file system
that the container's configuration names, below `RootDir`
(`pkg/container/image.go:198`), so `Restored` has nothing to resume at a node
where the image was never unpacked, and `RestoreFails` is then the only way on,
at no fault. The ranks of the model are run once and each run is in one place;
to have destinations with the image, `Init` lets any nodes have unpacked any
images already, for other ranks.

`Placement` is what migration promises, as a specification: a rank runs on one
node at a time, may be frozen and placed anywhere, and its work never goes back.
`MovesProcesses` says that `Migration` implements it, mapping `at` to the nodes
where the processes of a rank run. `RunsOnce` says that `Locations` does, where
several ranks freeze at once when a nymph ends, and work is left out; a rank of
`tangled` (see below) runs nowhere in that mapping.

### Images, Node

`Images` is what `getImage` and `NewImage` do to the disk: `tree` says which
entry of its archive each path of an image holds, `unpacking` and `at` which
image is being unpacked under `imagesMutex`, and how far. `Fits` says what
`unpackImage` can do with an entry: a directory or a link must not exist yet,
everything needs the directory it is in. An archive ends with `readSpec`.
Archives are constants: sequences of entries with a kind, a name, the directory
and the target of a link.

`Node` is one node: the nymph processes that follow one another there
(`nymph.go:Run`, `NewNymph`, `_Close`, the crash handler and the context that
signals cancel), with the links and processes they leave. `nymph` is how far
`Run` is, `closing` how far `_Close` is; both go on side by side, because
`ServerLoop` still accepts calls while the crash handler works. `handler` holds
the `Run`, `Relaunch` or `Send` that is served for a rank, `asked` the image
that its `Run` names, `image` that of the container in the register. A `Run`
panics, and ends the nymph without `_Close`, if its image cannot be unpacked or
its rank has no address (`RunPanics`). `link` is the veth pair of a rank: `host`
(both ends on the host, after a hook that failed half-way), `loose` (in the
container, but not on the bridge) or `up`. `Start`, `StartUnnoticed` and
`StartFails` are the outcomes of the Prestart hook: an error that is returned is
swallowed by `RunHook` (`pkg/network/network.go:153`), and the container is
started without its network; one that ends in `log.Fatal` fails the launch. A
pair left on the host by one failure makes every later start of the rank fail in
the first way. In `PostRestore` the same `log.Fatal` ends the nymph. `incidents`
remembers which kinds of trouble a behaviour has had, so that a property can say
which of them it withstands.

### Locations

`Locations` is the coordinator's view of where ranks run: the control loop, the
location database, the table of nymphs as a set of locations, `konk run` with
and without a host name, `konk console migrate`, the scheduler, and nymphs that
come and go. `req` is the migration that the control loop is busy with; while
there is one it serves nothing else. `cmd` holds the calls of `konk run`,
`sched` the locals of `Scheduler.Start`, `reg` the containers of each register.
`LocationsStat` is constant 1 on the hosts that are known, as the code
increments a copy. `tangled` is history: the ranks on which operations
overlapped, or where an answer or a registration was lost, or a nymph ended
below a `Run`. What happens to those is left open by the code, and `Findable`
exempts them; without the exemption TLC finds, for example, a `Run` that
registers a rank where it was before a migration. `Tangle` is called where one
of these happens, and is no guard of any action.

### How the modules relate

Except for `Images` within `Node` and `NymphSet` within `Registration`, the
modules share no variables. Each looks at the same services at another level of
detail:

* `Transfer` has the calls of one `SendCheckpoint`; `Migration` and `Locations`
  take the outcomes that `Transfer` shows to be possible.
* `Migration` has mutexes, generations and images of each dump, but each rank is
  run once and nymphs live for ever; `Locations` has neither, but ranks are run
  any number of times and nymphs end.
* `Registration` has ids, connections and lost replies; `Locations` has only
  whether a nymph is in the table.
* `Node` has the kernel's objects of one host, and all points where a nymph can
  end; `Locations` ends nymphs only while they serve.

## 3. The runs

| Run | Instance | Shows |
|---|---|---|
| `registration` | 3 locations, 2 processes each, 1 restart of the coordinator | `LendsIds`, `QpnRangesDisjoint`, `ServingIdsAreActive`, `NextIdIsFree`, types |
| `registration_retry` | 1 location | **violation** of `RegistrationCompletes` |
| `transfer_faults` | 3 sessions of 2 donors, up to 2 faults, fair | `SentMeansIntact`, `OneInSequence`, types; without faults `SerialLaunchesOwnImage`, `SerialNothingUnfinished`, `EverySessionDone` |
| `transfer_empty` | 3 sessions, one file is empty | **violation** of `NothingUnfinished` |
| `transfer_launch` | 3 sessions, 1 fault | **violation** of `LaunchesOwnImage` |
| `migration_faults` | 3 nodes, 2 ranks, 2 jobs, 2 faults | `MovesProcesses`, `NeverLost`, `LocatedIsRegistered`, `LaterIsNewer`, `LocksAreFree`; without faults before it, `OnlyParentLacks` |
| `migration_serves` | 2 nodes, 2 ranks, 3 jobs, no faults, fair | `NoFaultNoFailure`, `ControlReturns` |
| `migration_loses` | 2 nodes, an alias and a name of no node, 2 ranks, 2 jobs, 1 fault | `SendHoldsContainer`, types |
| `migration_hop` | 3 nodes, 1 rank, 2 jobs, no faults | **violation** of `NoFaultNoFailure` |
| `node_life` | 2 nymph processes in turn, 2 ranks and one without an address, a sound archive and one with a device in it, each kind of incident once | `RunningIsConnected`, `CleanExit`, `RememberedIsWhole`, `SoundUnpacks`, types |
| `locations` | 2 ranks, 2 hosts, 2 commands, 3 runs, 2 migrations, 1 end of a nymph, scheduler | `Findable`, `RunsOnce`, `SchedulerGoesOn`, types |
| `locations_wait` | 1 rank, 2 hosts, 1 run, 1 migration, fair | **violation** of `NymphsServe` |

What the violations are:

* `registration_retry`: `registerNymph` retries on a client that is shut down,
  for ever (`srv/nymph/server.go:311`).
* `transfer_empty`: a file is closed by its last `FileData` only; an empty one
  has none, and the recipient then refuses every other file
  (`migrate-recipient.go:167`).
* `transfer_launch`: `Relaunch` has no sequence number and loads the image info
  that came last, which may be another donor's (`migrate-recipient.go:182`). The
  control loop loses a donor that has sent all its files; another donor sends its
  container; then the `Relaunch` of the first one, which it still waits for, is
  served. It launches the container of the second, and the first donor deletes
  its own, which is launched nowhere.
* `migration_hop`: `ImageInfo` never sets `Parent`, so `Load` looks for
  generation 0 even if there is none: a container that has migrated from A to B
  cannot go on to C (`checkpoint.go:146`), although its image is unpacked there.
  The migration back to A succeeds, as `migration_serves` shows, because A still
  has generation 0.
* `locations_wait`: a nymph has its socket before it registers and serves calls
  only afterwards (`srv/nymph/nymph.go:19`, `47`, `51`). A migration that is
  requested in between makes the control loop wait for the donor, the donor for
  this nymph, and the nymph for the control loop.

What the passing runs show that is not in a name: `migration_loses` includes
migrations to the container's own node under an alias, which the coordinator
does not refuse (`srv/coordinator/migrate.go:19`), and to a name where nobody
answers, where `Send` dials for ever with the mutex held. `node_life` says what
a nymph leaves on its node: nothing, unless it is killed, gets a signal before
the crash handler is installed (`nymph.go:38`; it may have waited for the
coordinator for hours by then), a netlink call fails, or a `Run` or `Relaunch`
launches a container while `_Close` waits for the coordinator, or a `Run`
panics. Each of these exclusions is needed: without any one of them TLC refutes
`CleanExit`. A bridge that is left makes every later start fail, and this alone
is why `RunningIsConnected` withstands kills and early signals. `locations` says
that a nymph that closes leaves its ranks in the database, where no copy runs
any more: the entry misleads, but never hides a copy that does run.

`migration_faults` also looks at what jobs leave behind. Directories of
checkpoints pile up on all nodes, complete and partial, from pre-dumps, failed
and completed migrations; `LaterIsNewer` says that their numbers nevertheless
order them by age, across nodes, which `latestCheckpoint` and the recipient take
for granted. `LocksAreFree` says that the mutexes of donor and recipient, taken
one inside the other, are never waited for.

`OnlyParentLacks` bounds the damage of two gaps: nobody sends an image, and
`ImageInfo` names generation 0 as the parent of everything. It looks at the step
in which a migration fails while nothing has failed before, neither by a fault
nor in an earlier migration of the rank (`FailsFirst`): the destination then
lacks the root file system (`LacksRootfs`) or generation 0 (`LacksParent`), and
nothing else that jobs leave behind gets in the way of a later one. Such a
failure comes after the dump that stopped the process, so that every later
migration of the rank fails, too. `NoFaultNoFailure` says that only the root file
system can be missing. It holds between two nodes (`migration_serves`), and
`migration_hop` refutes it for three.

Why the bounds are enough. Three locations let one nymph leak an id, a second
free one and a third be given it; two processes per location give every
re-registration; a third process only repeats the second. In `Transfer` three
sessions are a session, its successor from the same donor (pre-dump and final
dump, which share the state file) and a rival; with two faults the control loop
can lose one donor and either it or a handler can fail besides. Two chunks
distinguish first, middle and last writes of a file. In `Migration` one image
is enough: a rank has only one, and the images of two ranks meet nowhere but in
`rootfs`; whether a destination has it is open from the start. Two jobs are
enough for a job to meet what a failed one left behind, and for two jobs to
overlap; two faults let both fail or one be lost and fail; three jobs without
faults let a container come back and leave again. One step of work distinguishes
an image from an older one. In `Node` two processes are one that leaves
something and one that meets it; a third is the second again, as all that stays
on a node is in the state (and the theorems hold for any number). Handlers of
two ranks can be at different places when `_Close` begins, one of them unpacking
what the other asks for. In `Locations` two commands are needed for two `Run`s
of a rank to overlap, a third run finds what they left; two migrations are one
there and one back; a nymph that ends once can start again and be migrated to.

`migration_faults` counts states that differ by an exchange of the ranks, or of
the nodes with their names, once (`MCSymmetry`): nothing in `Migration` tells
them apart, `Latest` chooses a number, and the run has no liveness property.

Deadlock is not checked: each model stops when its bounded work is used up.

### Fairness

`RegistrationCompletes` assumes that the control loop serves requests and
replies are delivered: both are goroutines that block on nothing else.
`EverySessionDone`, which says nothing of behaviours with faults, assumes weak
fairness of every donor and handler, goroutines which nothing holds up for ever,
and strong fairness of `Begin`, since the operator repeats a request that finds
the control loop busy. `ControlReturns` assumes weak fairness of each job's
`Send`, `Relaunch` and of the control loop. Weak is enough even for
`sync.Mutex`: in these instances no job waits for a mutex that others keep
taking. `NymphsServe`, which is refuted, assumes weak fairness of `Send` and of
the control loop's return, and strong fairness of the registration: goroutines
that wait for the channel `requests` are served in the order in which they came.
No fairness is assumed of faults, of operators' migrations or of computing.

## 4. The proofs

Every safety and action property that a passing run checks is a theorem. The
theorems hold for any set of locations, restarts, sessions, donors, files,
nodes, names, ranks, archives, commands, and any bounds. Each property needs a
stronger, inductive invariant; what it adds is said below.

**RegistrationProofs** assumes `~ LateUnregister`. The properties are not
inductive: that a new id is free needs to know that all bits are below the
length, and that an id stays marked needs to know who can clear it. `IInv` adds
two parts. The one that holds with late unregistrations, too
(`TableInvariance`): bits are below the length, the map is injective and its ids
are marked, nobody has an id of a coordinator to come, and who waits for
`UnregisterNymph` is closing. The one that needs the assumption: an id that a
process holds, or that is on its way to it, is marked, is held once, and is not
what the map would clear for another location; and an unregistration is under
way only while its caller waits. `QpnSafety` then follows since ranges of
distinct ids are disjoint (nonlinear arithmetic, in a lemma of its own).
`NextIdSafety` needs a counting argument: if no bit below the length is clear,
the bits are exactly `0 .. length - 1`, and `Count()` is the length.

`Refinement` (`LendsIds`) maps each step to one of `IdLease`. The serving of a
`RegisterNymph` that is still waited for lends an id, and that this id is free
is `NextIdSafety` with the part of `IInv` that says that what a process holds is
marked. Kills, lost connections and a restart of the coordinator, which forgets
all its processes at once, end leases. What `IInv` lacks is `AnsweredInv`: a
process that has its answer has no other call of its own under way, so that no
second answer replaces the id.

**TransferProofs** assumes `~ TornWrites` for the two main theorems and nothing
for `TypeCorrect`. The argument: every handler that changes what has been sent
takes a sequence number, and a client accepts one only if it is the successor of
its last. So among the sessions past their image info at most one, the *leader*,
holds `seq - 1`; all others will fail at their next call, whatever happens to
their data. `IInv` says of the leader only: the files it finished are whole, the
file it is sending holds just the chunks acknowledged so far, and nothing but
this file is open, if anything is. Each handler of another session either leaves
the disk alone or takes the number, and so ends the leader. From this
`DeliverySafety` (`SentMeansIntact`) and `SequenceSafety` (`OneInSequence`)
follow.

Two more theorems say what holds while nothing fails, if no file is empty.
`TurnInv` says that whoever is busy is the session the control loop waits for,
that its number is the last one given out, and that the image info is its own;
hence `LaunchSafety` (`SerialLaunchesOwnImage`). `FileInv` says that a file that
is open belongs to a session with as many chunks to send as the recipient has to
write; hence `FileSafety` (`SerialNothingUnfinished`). Both properties are
refuted with a fault, or with an empty file, by the runs above.

**MigrationProofs** has two parts. The first holds even if the control loop
loses donors: `Inv` says of a job where it leads (`JobOK`, `PlaceOK`) and that
between the look-up and the deletion it has the mutex of its source and the
container is there (`MutexInv`). `TypeCorrect` and `ContainerHeld`
(`SendHoldsContainer`) follow. The second part assumes `LosesDonor = FALSE`.
`SerialInv` adds that one job is under way at a time (`OneJob`), that
generations stay below their bound (`GenInv`), that what is migrated has been
launched (`LaunchInv`), that no rank runs twice (`OnceInv`), that the rank of a
job is frozen from the last dump to the restore while its image, at the source
and then at the destination, has all its work (`FrozenInv`), and where the
container of a rank is meanwhile (`ContainerInv`). From it follow
`ContainerKept` (`NeverLost`), `LocationCorrect` (`LocatedIsRegistered`) and
`Refinement`: each step of `Migration` is a step of `Placement` or leaves it
alone. With `HolderInv`, who has a mutex is a `Send` of that node that has not
returned, `LockSafety` (`LocksAreFree`) follows: when a job asks for a mutex, it
is the only one under way, and when it has sent its files, its destination is
not its source (`FrozenInv`).

The assumption is needed: once the control loop has lost a donor, its late
`Relaunch` may load what another donor has announced meanwhile, and deletes at
the source a container that was launched nowhere. This is what `transfer_launch`
shows from the side of the recipient.

**MigrationServesProofs** says what holds while nothing has failed, without
assuming that the control loop loses no donors: losing one is a fault.
`OnlyParentIsMissing` (`OnlyParentLacks`) and `PairServes` (`NoFaultNoFailure`
between two nodes) assume `OneName`: a node is reached under its own host name
only. With an alias a migration may go to the container's own node, and the
donor truncates what it is about to send. Both properties are about the first
failure of a rank. `ServingInv` says that everything else a migration asks for is
there: no container is left in a register where it is not at home, but for one
that a refused `Restore` left there (`HomeInv`), no file is open at a recipient,
the image to send is there and the recipient has the state file (`SendInv`), and
the process runs where the location, or the job, says (`AliveInv`), unless a
migration of its rank has failed (`Stranded`). Such a rank has stopped, and each
further migration of it fails at its dump, before it changes anything elsewhere
(`StrandInv`). What is left are the guard of `Load` on the parent and that of
`Restore` on the root file system, which no invariant grants. `PairInv` adds, for
two nodes, that both of them have generation 0 as soon as a container has been
loaded anywhere, a migration of it has failed, or it has made a checkpoint that
no job is still sending: the source keeps its directory. With three nodes this is
false, as `migration_hop` shows.

**MigrationImagesProofs** assumes `LosesDonor = FALSE`. `LaterIsNewer` compares
directories only; `AgeInv` adds what new ones are compared with: no directory
holds more work than the rank has done (`WorkInv`), the complete ones are in
order (`OrderInv`), where a rank runs, the next number of its container is above
those of all its complete directories on every node (`AheadInv`), a final
checkpoint that is on its way has the highest number (`CarriedInv`), and the
container that Load makes of it counts on from there (`CountInv`). The next
number of a stopped container that a failed migration left behind may well be in
use elsewhere; it is never dumped again. `ImagesInOrder` follows.

**NodeProofs** assumes nothing beyond what `Node` and `Images` say of their
constants. `HandlerInv` says who serves what. `TreeInv` says that while
`RootDir` exists, an image nobody remembers or unpacks has no files, and that
the one being unpacked has exactly the entries before `at`, each with the
directory it needs; `ImagesWhole` (`RememberedIsWhole`) and `SoundArchives`
(`SoundUnpacks`) follow. `LinkInv` says that, if no call fails and no launch is
late, a pair lives as long as its process, and processes only below a bridge;
with `ExitInv`, `Connected` (`RunningIsConnected`) and `Exits` (`CleanExit`)
follow.

**LocationsProofs** assumes nothing beyond its constants, either. `Findable`
speaks of ranks nobody is busy with. The invariant says where the others may
run: at the host of the one command or migration that is busy with the rank
(`AloneInv`, `WhereInv`, `RunInv`), and nowhere between the last dump and the
restore (`DumpedInv`); and that nobody moves a location while the control loop
is busy (`ReqInv`). Then `Findability` follows. `SchedulerSafety`
(`SchedulerGoesOn`) rests on two facts: a location that is known stays known,
and one of two nymphs is not the source, whatever has become of it.

`Refinement` (`RunsOnce`) needs a rank that is not tangled to run on one node at
most in *every* state, also while it is being moved (`OneNode`): `WhereInv` leaves
three places, and they exclude each other. Where a `Run` has launched it, it runs
there only (`RunInv`); where a migration has resumed it, it does not run at the
source (`DumpedInv`), which is what the location says until then (`ReqInv`). A step that starts or resumes such a rank finds
it running nowhere; one that tangles it takes it out of the mapping, and a rank
does not come back.

**Only model-checked**: the liveness properties `EverySessionDone` and
`ControlReturns`, for which the prover has neither fairness nor `ENABLED`, and
the violations. `NoFaultNoFailure` is proved for two nodes, as `migration_serves`
has them; for three it is refuted.

## 5. What is left out, and assumptions

* `LateUnregister = FALSE`: with a coordinator that serves an `UnregisterNymph`
  after the caller's connection broke, an id in use is cleared, because `Del`
  goes by host name. The properties of registration do not hold then.
* `QpnRangesDisjoint` speaks of nymphs registered with the same coordinator
  process. After a restart ids are given out again while older nymphs serve.
* `TornWrites = FALSE`: a failing `write` leaves nothing of its chunk behind.
* In `Migration` each rank is run once and processes never exit by themselves;
  the files of one checkpoint arrive in one step, or partly, with or without
  leaving a file unfinished; an empty file counts as such a fault. Only failures
  that `Transfer` shows to be possible are used.
* In `Migration` nobody but `Run` unpacks an image, and those that other ranks'
  runs have unpacked are there from the beginning. Images are sound and nymphs do
  not end, so that an image that is unpacked stays; `Images` and `Node` have the
  rest. Images of the same name have the same content.
* In `Transfer` the image of each container is unpacked at the recipient; if not,
  `Launch` fails as it does in `RelaunchFails`. A donor that has sent a later
  checkpoint of a container has sent generation 0 before it. What has been loaded
  stays in the recipient's register: no container that has arrived moves on.
* A `Relaunch` whose answer is lost is the fault after the restore: the process
  runs at the destination, a stopped container stays with the donor.
* A crash of a nymph or of the coordinator is not in `Migration`. Nymphs that
  close are in `Locations`, those that are killed in `Node`; the coordinator's
  restart would lose the location database with everything in it.
* Where `Migration` is proved to place ranks correctly, the control loop does
  not lose donors. `Locations` does not let it lose one that goes on, either.
* `LosesDonor = FALSE` in `migration_faults`: if the control loop loses the
  donor and the migration completes nevertheless, the location is not set
  (`control.go:151`) and `LocatedIsRegistered` fails.
* In `Node` a start of a container with its hooks is one step, and so is
  `NewVeth`; a nymph that is killed within them is killed before or after.
  Operators run a rank only where its process does not run. `libcontainer` may
  find a killed process still alive, and then keeps its directory.
* In `Locations` a pre-dump and the migration after it count as one migration,
  and nymphs end only while they serve. Operators do not name a host for a rank
  that runs on another.
* The coordinator's handlers take the location database's mutex for each access,
  but `Dump` returns the live map: `getRanks` of the scheduler would range over
  it while the control loop writes (`scheduler.go:43`). As the scheduler is not
  started, its look at the map is one step.
* CRIU, libcontainer, the file system and the bitset library are external. They
  dump what runs and restore what is whole, where its root file system is.
* The set of links, containers and files that a real node has besides konk's is
  taken to be empty.

### Not modelled

* the ovs network: creating it panics as unimplemented (`pkg/network/ovs.go:29`,
  called in line 71), and so do its hooks;
* what the rxe hooks write to the kernel, and what the kernel module makes of it
  (`rxe.go:87` sets the last number back at each Prestart); `Registration` has the
  ranges themselves;
* `Signal`: its receiver panics (`srv/nymph/server.go:162`), which is to a node
  what a kill of its nymph is (`Kill` in `Node`); `unregister` and
  `UnregisterContainer`: nobody calls them;
* labels, hardware addresses, terminals and time stamps: formatting and I/O that
  no property here speaks of;
* configuration, flags and help texts; of the commands, all but `run` and
  `console`, which only print or start a service. `konk run` reports the error
  of `Run` and nothing else, so its result is not modelled;
* `pkg/criu`, `pkg/node`, `pkg/initial`, `pkg/launch` and `pkg/mpirun`: a former
  implementation, or wrappers of other programs, which the services do not use.
