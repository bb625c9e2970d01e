-------------------------------- MODULE Node --------------------------------
(***************************************************************************)
(* The life of a nymph on one node, and the network links it leaves: the   *)
(* start and the end of the process (srv/nymph/nymph.go, server.go,        *)
(* pkg/util/context.go), the images it unpacks (module Images), the veth   *)
(* network with its hooks (pkg/network/veth.go, network.go), and how Run,  *)
(* Relaunch and Send change the containers meanwhile.                      *)
(*                                                                         *)
(* Links and processes belong to the kernel and outlive the nymph, unlike  *)
(* its register and its handlers.  A container has a veth pair with one end*)
(* in its own network namespace; the kernel deletes the pair with the      *)
(* namespace.  libcontainer and CRIU are external: they start, restore and *)
(* destroy processes, and run the hooks.                                   *)
(*                                                                         *)
(* incidents records what went wrong: a netlink call that fails, a kill, a *)
(* signal before the crash handler is there (each at most once); launches  *)
(* by handlers that still run when _Close has destroyed the containers;    *)
(* and a Run that panics.  Bound: MaxStarts processes.                     *)
(***************************************************************************)
EXTENDS Images

CONSTANTS
    Rank, NoRank,
    Addressable,    \* the ranks that CreateContainerAddr has an address for
    MaxStarts

ASSUME NoRankAssumption == NoRank \notin Rank
ASSUME AddressableAssumption == Addressable \subseteq Rank
ASSUME StartsAssumption == MaxStarts \in Nat

VARIABLES
    \* the nymph process
    nymph,          \* how far Run (nymph.go) is
    closing,        \* how far _Close is
    reg,            \* the ranks in ContainerRegister.reg
    mutex,          \* the rank whose Send holds ContainerRegister.Mutex
    handler,        \* the RPC that is served for a rank
    asked,          \* the image that the last Run of a rank asked for
    image,          \* the image in the configuration of a rank's container
    \* the node
    dir,            \* the ranks with a directory below RootDir
    bridge, vxlan,  \* do these links exist?
    link,           \* the veth pair of a rank
    proc,           \* the ranks whose processes run
    \* history
    starts, incidents

memory == <<nymph, closing, reg, mutex, handler, asked, image>>
kernel == <<bridge, vxlan, link, proc>>
vars == <<memory, imageVars, dir, kernel, starts, incidents>>

Init ==
    /\ nymph = "down" /\ closing = "no"
    /\ reg = {} /\ mutex = NoRank
    /\ handler = [r \in Rank |-> "idle"]
    /\ asked = [r \in Rank |-> NoImage]
    /\ image = [r \in Rank |-> NoImage]
    /\ ImagesInit
    /\ dir = {}
    /\ bridge = FALSE /\ vxlan = FALSE
    /\ link = [r \in Rank |-> "none"]
    /\ proc = {}
    /\ starts = 0 /\ incidents = {}

Incident(kind) ==
    /\ kind \notin incidents
    /\ incidents' = incidents \cup {kind}

\* The process is gone, and with it all it had in memory.
Gone ==
    /\ nymph' = "down" /\ closing' = "no"
    /\ reg' = {} /\ mutex' = NoRank
    /\ handler' = [r \in Rank |-> "idle"]
    /\ asked' = [r \in Rank |-> NoImage]
    /\ image' = [r \in Rank |-> NoImage]
    /\ ForgetImages

\* A pair without its container: only one whose ends are both on the host
\* survives.
Orphan(l) == IF l = "host" THEN "host" ELSE "none"

-----------------------------------------------------------------------------
(***************************************************************************)
(* Start                                                                   *)
(***************************************************************************)

\* RootDir is removed, with all that is in it.
Purge == dir' = {} /\ tree' = NoTree

\* NewNymph purges what an earlier process left in RootDir.
CreateRootDir ==
    /\ nymph = "down"
    /\ starts < MaxStarts
    /\ starts' = starts + 1
    /\ nymph' = "rooted"
    /\ Purge
    /\ UNCHANGED <<closing, reg, mutex, handler, asked, image, images, unpacking, at, kernel, incidents>>

\* instantiateNetworks: the bridge, the vxlan link, and the one on the other.
NewVeth ==
    /\ nymph = "rooted"
    /\ ~ bridge /\ ~ vxlan
    /\ bridge' = TRUE /\ vxlan' = TRUE
    /\ nymph' = "dialing"
    /\ UNCHANGED <<closing, reg, mutex, handler, asked, image, imageVars, dir, link, proc, starts, incidents>>

\* A link of that name exists, or a call fails: NewVeth destroys what it has
\* created, NewNymph closes, and the process exits.
NewVethFails ==
    /\ nymph = "rooted"
    /\ \/ (bridge \/ vxlan) /\ UNCHANGED incidents
       \/ Incident("fault")
    /\ Gone
    /\ Purge
    /\ UNCHANGED <<kernel, starts>>

\* coordinator.NewClient has reached the coordinator: the crash handler is
\* installed and the registration begins.
InstallCrashHandler ==
    /\ nymph = "dialing"
    /\ nymph' = "registering"
    /\ UNCHANGED <<closing, reg, mutex, handler, asked, image, imageVars, dir, kernel, starts, incidents>>

\* registerNymph has returned; ServerLoop begins, closing or not.
Serve ==
    /\ nymph = "registering"
    /\ nymph' = "serving"
    /\ UNCHANGED <<closing, reg, mutex, handler, asked, image, imageVars, dir, kernel, starts, incidents>>

-----------------------------------------------------------------------------
(***************************************************************************)
(* End                                                                     *)
(***************************************************************************)

\* The context is cancelled.  It waits for the crash handler if there is one.
Signal ==
    /\ nymph # "down"
    /\ closing = "no"
    /\ IF nymph \in {"rooted", "dialing"}
       THEN Gone /\ Incident("early")
       ELSE /\ closing' = "containers"
            /\ UNCHANGED <<nymph, reg, mutex, handler, asked, image, images, unpacking, at, incidents>>
    /\ UNCHANGED <<tree, dir, kernel, starts>>

\* ContainerRegister.Destroy kills the processes.  libcontainer refuses to
\* destroy the rest of a container that has not died yet; otherwise it runs
\* Poststop, which deletes the pair.
DestroyContainers ==
    /\ closing = "containers"
    /\ mutex = NoRank
    /\ \E alive \in SUBSET (reg \cap proc) :
          /\ dir' = dir \ (reg \ alive)
          /\ link' = [r \in Rank |-> IF r \in alive THEN Orphan(link[r])
                                     ELSE IF r \in reg THEN "none" ELSE link[r]]
    /\ proc' = proc \ reg
    /\ closing' = "images"
    /\ UNCHANGED <<nymph, reg, mutex, handler, asked, image, imageVars, bridge, vxlan, starts, incidents>>

\* The images are removed under their mutex; the next step waits for the
\* coordinator.
CloseImages ==
    /\ closing = "images"
    /\ unpacking = NoImage
    /\ RemoveImages
    /\ closing' = "root"
    /\ UNCHANGED <<nymph, reg, mutex, handler, asked, image, images, unpacking, at, dir, kernel,
                   starts, incidents>>

\* unregisterNymph has returned, with or without an error.
RemoveRootDir ==
    /\ closing = "root"
    /\ Purge
    /\ closing' = "networks"
    /\ UNCHANGED <<nymph, reg, mutex, handler, asked, image, images, unpacking, at, kernel, starts,
                   incidents>>

\* Links that were on the bridge are left alone.
Unbridged == [r \in Rank |-> IF link[r] = "up" THEN "loose" ELSE link[r]]

\* Mutant: the vxlan link is forgotten.
DestroyBridge ==
    /\ closing = "networks"
    /\ bridge' = FALSE /\ UNCHANGED <<vxlan, incidents>>
    /\ link' = Unbridged
    /\ closing' = "exit"
    /\ UNCHANGED <<nymph, reg, mutex, handler, asked, image, imageVars, dir, proc, starts>>

\* NetworkVeth.Destroy only warns of a link it cannot delete.
DestroyNetworks ==
    /\ closing = "networks"
    /\ \/ vxlan' = FALSE /\ bridge' = FALSE /\ link' = Unbridged /\ UNCHANGED incidents
       \/ vxlan' = TRUE /\ bridge' = FALSE /\ link' = Unbridged /\ Incident("fault")
       \/ vxlan' = FALSE /\ bridge' = TRUE /\ UNCHANGED link /\ Incident("fault")
    /\ closing' = "exit"
    /\ UNCHANGED <<nymph, reg, mutex, handler, asked, image, imageVars, dir, proc, starts>>

Exit ==
    /\ closing = "exit"
    /\ Gone
    /\ UNCHANGED <<tree, dir, kernel, starts, incidents>>

Kill ==
    /\ nymph # "down"
    /\ Incident("kill")
    /\ Gone
    /\ UNCHANGED <<tree, dir, kernel, starts>>

-----------------------------------------------------------------------------
(***************************************************************************)
(* Nymph.Run                                                               *)
(***************************************************************************)

Goto(r, pc) == handler' = [handler EXCEPT ![r] = pc]

\* A launch once the containers are destroyed will not be undone.
Launched(r) ==
    /\ proc' = proc \cup {r}
    /\ incidents' = IF closing \in {"images", "root", "networks", "exit"}
                    THEN incidents \cup {"late"} ELSE incidents

\* createHook asks for the working directory, which is RootDir.
HasWorkingDir == closing \notin {"networks", "exit"}

\* Mutant: a Run unpacks its image although another one is being unpacked.
GetImageUnlocked(r, i) ==
    /\ nymph = "serving"
    /\ handler[r] = "idle"
    /\ r \notin proc
    /\ asked' = [asked EXCEPT ![r] = i]
    /\ \/ i \in images /\ Goto(r, "create") /\ UNCHANGED imageVars
       \/ BeginImage(i) /\ Goto(r, "unpack")
    /\ UNCHANGED <<nymph, closing, reg, mutex, image, dir, kernel, starts, incidents>>

\* Run begins: getImage finds the image, or unpacks it under the mutex.
\* Operators run a rank that does not run.
GetImage(r, i) ==
    /\ nymph = "serving"
    /\ handler[r] = "idle"
    /\ r \notin proc
    /\ unpacking = NoImage
    /\ asked' = [asked EXCEPT ![r] = i]
    /\ \/ i \in images /\ Goto(r, "create") /\ UNCHANGED imageVars
       \/ BeginImage(i) /\ Goto(r, "unpack")
    /\ UNCHANGED <<nymph, closing, reg, mutex, image, dir, kernel, starts, incidents>>

UnpackEntry(r) ==
    /\ handler[r] = "unpack"
    /\ HasWorkingDir
    /\ Unpack
    /\ UNCHANGED <<memory, dir, kernel, starts, incidents>>

ImageReady(r) ==
    /\ handler[r] = "unpack"
    /\ Remember
    /\ Goto(r, "create")
    /\ UNCHANGED <<nymph, closing, reg, mutex, asked, image, dir, kernel, starts, incidents>>

\* Run panics, and with its goroutine the nymph ends: the image cannot be
\* unpacked, or there is no address for the rank.
RunPanics(r) ==
    /\ \/ handler[r] = "unpack" /\ (Stuck \/ ~ HasWorkingDir) /\ incidents' = incidents \cup {"panic"}
       \/ handler[r] = "unpack" /\ Incident("fault")
       \/ handler[r] = "create" /\ r \notin Addressable /\ incidents' = incidents \cup {"panic"}
    /\ Gone
    /\ UNCHANGED <<tree, dir, kernel, starts>>

\* A container of the rank that is in the register is taken as it is.
GetOrCreate(r) ==
    /\ handler[r] = "create"
    /\ r \in Addressable
    /\ HasWorkingDir
    /\ mutex = NoRank
    /\ IF r \in reg
       THEN UNCHANGED <<reg, dir, image>>
       ELSE /\ r \notin dir
            /\ reg' = reg \cup {r}
            /\ dir' = dir \cup {r}
            /\ image' = [image EXCEPT ![r] = asked[r]]
    /\ Goto(r, "start")
    /\ UNCHANGED <<nymph, closing, mutex, asked, imageVars, kernel, starts, incidents>>

\* There is no working directory for the hooks, or Factory.Create refuses the
\* directory of the container, or fails.
CreateFails(r) ==
    /\ handler[r] = "create"
    /\ r \in Addressable
    /\ \/ (~ HasWorkingDir \/ (r \notin reg /\ r \in dir)) /\ UNCHANGED incidents
       \/ Incident("fault")
    /\ Goto(r, "idle")
    /\ UNCHANGED <<nymph, closing, reg, mutex, asked, image, imageVars, dir, kernel, starts>>

\* The root file system in the configuration of r's container.
HasRootfs(r) == tree[image[r]][Rootfs] # 0

\* NewVethPair refuses names that exist on the host.
PairIsNew(r) == link[r] = "none"

\* Launch(Start): Prestart makes the pair and puts its ends where they belong.
Start(r) ==
    /\ handler[r] = "start"
    /\ r \in dir /\ HasRootfs(r)
    /\ PairIsNew(r)
    /\ bridge
    /\ link' = [link EXCEPT ![r] = "up"]
    /\ Launched(r)
    /\ Goto(r, "idle")
    /\ UNCHANGED <<nymph, closing, reg, mutex, asked, image, imageVars, dir, bridge, vxlan, starts>>

\* NewVethPair finds a link of that name, or fails, or vpeer cannot be set up:
\* Prestart returns an error, RunHook logs it and reports success, and the
\* container is started nevertheless.
StartUnnoticed(r) ==
    /\ handler[r] = "start"
    /\ r \in dir /\ HasRootfs(r)
    /\ \/ /\ ~ PairIsNew(r)
          /\ UNCHANGED link
          /\ Launched(r)
       \/ /\ PairIsNew(r)
          /\ Incident("fault")
          /\ link' \in {[link EXCEPT ![r] = l] : l \in {"none", "host"}}
          /\ proc' = proc \cup {r}
       \/ /\ PairIsNew(r) /\ bridge
          /\ Incident("fault")
          /\ link' = [link EXCEPT ![r] = "loose"]
          /\ proc' = proc \cup {r}
    /\ Goto(r, "idle")
    /\ UNCHANGED <<nymph, closing, reg, mutex, asked, image, imageVars, dir, bridge, vxlan, starts>>

\* Prestart ends with log.Fatal, before or after the move into the namespace,
\* or there is no directory, no root or no bridge any more: libcontainer kills
\* the process.
StartFails(r) ==
    /\ handler[r] = "start"
    /\ \/ (r \notin dir \/ ~ HasRootfs(r) \/ (PairIsNew(r) /\ ~ bridge)) /\ UNCHANGED <<link, incidents>>
       \/ /\ PairIsNew(r)
          /\ Incident("fault")
          /\ link' \in {link, [link EXCEPT ![r] = "host"]}
    /\ Goto(r, "idle")
    /\ UNCHANGED <<nymph, closing, reg, mutex, asked, image, imageVars, dir, bridge, vxlan, proc, starts>>

-----------------------------------------------------------------------------
(***************************************************************************)
(* Recipient.Relaunch                                                      *)
(***************************************************************************)

\* The files have arrived; Load registers the container.  Its configuration is
\* that of the donor, and so is its image, which no nymph sends.
Load(r, i) ==
    /\ nymph = "serving"
    /\ r \in Addressable
    /\ handler[r] = "idle"
    /\ mutex = NoRank
    /\ r \notin reg /\ r \notin proc
    /\ reg' = reg \cup {r}
    /\ dir' = dir \cup {r}
    /\ image' = [image EXCEPT ![r] = i]
    /\ Goto(r, "restore")
    /\ UNCHANGED <<nymph, closing, mutex, asked, imageVars, kernel, starts, incidents>>

\* CRIU makes the pair anew (DeclareExternal).  Prestart does nothing, since
\* the container is not being created.
Restore(r) ==
    /\ handler[r] = "restore"
    /\ r \in dir /\ HasRootfs(r)
    /\ link[r] = "none"
    /\ link' = [link EXCEPT ![r] = "loose"]
    /\ Launched(r)
    /\ Goto(r, "restored")
    /\ UNCHANGED <<nymph, closing, reg, mutex, asked, image, imageVars, dir, bridge, vxlan, starts>>

RestoreFails(r) ==
    /\ handler[r] = "restore"
    /\ \/ (r \notin dir \/ ~ HasRootfs(r) \/ link[r] # "none") /\ UNCHANGED incidents
       \/ Incident("fault")
    /\ Goto(r, "idle")
    /\ UNCHANGED <<nymph, closing, reg, mutex, asked, image, imageVars, dir, kernel, starts>>

\* Mutant: nobody asks the networks.
PostRestoreNothing(r) ==
    /\ handler[r] = "restored"
    /\ Goto(r, "idle")
    /\ UNCHANGED <<nymph, closing, reg, mutex, asked, image, imageVars, dir, kernel, starts, incidents>>

\* PostRestore puts vpeer on the bridge and up.
PostRestore(r) ==
    /\ handler[r] = "restored"
    /\ link[r] # "none"
    /\ bridge
    /\ link' = [link EXCEPT ![r] = "up"]
    /\ Goto(r, "idle")
    /\ UNCHANGED <<nymph, closing, reg, mutex, asked, image, imageVars, dir, bridge, vxlan, proc, starts, incidents>>

\* There is no vpeer, or it cannot be set up: Relaunch returns an error.
PostRestoreFails(r) ==
    /\ handler[r] = "restored"
    /\ \/ link[r] = "none" /\ UNCHANGED incidents
       \/ Incident("fault")
    /\ Goto(r, "idle")
    /\ UNCHANGED <<nymph, closing, reg, mutex, asked, image, imageVars, dir, kernel, starts>>

\* vpeer cannot be put on the bridge: log.Fatal ends the nymph itself.
PostRestoreFatal(r) ==
    /\ handler[r] = "restored"
    /\ link[r] # "none"
    /\ \/ ~ bridge /\ UNCHANGED incidents
       \/ Incident("fault")
    /\ Gone
    /\ UNCHANGED <<tree, dir, kernel, starts>>

-----------------------------------------------------------------------------
(***************************************************************************)
(* Nymph.Send, and processes                                               *)
(***************************************************************************)

Lock(r) ==
    /\ nymph = "serving"
    /\ handler[r] = "idle"
    /\ mutex = NoRank
    /\ r \in reg
    /\ mutex' = r
    /\ Goto(r, "send")
    /\ UNCHANGED <<nymph, closing, reg, asked, image, imageVars, dir, kernel, starts, incidents>>

\* The network namespace of r is gone with its last process.
Ended(r) ==
    /\ proc' = proc \ {r}
    /\ link' = [link EXCEPT ![r] = Orphan(@)]

\* The final dump.
Dump(r) ==
    /\ handler[r] = "send"
    /\ r \in proc
    /\ Ended(r)
    /\ Goto(r, "dumped")
    /\ UNCHANGED <<nymph, closing, reg, mutex, asked, image, imageVars, dir, bridge, vxlan, starts, incidents>>

\* The pair is deleted by either of its ends.
Poststop(r) == link' = [link EXCEPT ![r] = "none"]

\* Mutant: the deferred Unlock is missing.
DeleteLocked(r) ==
    /\ handler[r] = "dumped"
    /\ reg' = reg \ {r}
    /\ dir' = dir \ {r}
    /\ Poststop(r)
    /\ Goto(r, "idle")
    /\ UNCHANGED <<nymph, closing, mutex, asked, image, imageVars, bridge, vxlan, proc, starts, incidents>>

\* DeleteUnlocked, with Poststop, and the end of Send.
Delete(r) ==
    /\ handler[r] = "dumped"
    /\ reg' = reg \ {r}
    /\ dir' = dir \ {r}
    /\ Poststop(r)
    /\ mutex' = NoRank
    /\ Goto(r, "idle")
    /\ UNCHANGED <<nymph, closing, asked, image, imageVars, bridge, vxlan, proc, starts, incidents>>

\* Send fails, before the dump or after it; or it was only a pre-dump.
SendFails(r) ==
    /\ handler[r] \in {"send", "dumped"}
    /\ mutex' = NoRank
    /\ Goto(r, "idle")
    /\ UNCHANGED <<nymph, closing, reg, asked, image, imageVars, dir, kernel, starts, incidents>>

\* The program ends.  The container stays in the register.
ProcessEnds(r) ==
    /\ r \in proc
    /\ Ended(r)
    /\ UNCHANGED <<memory, imageVars, dir, bridge, vxlan, starts, incidents>>

Next ==
    \/ CreateRootDir \/ NewVeth \/ NewVethFails \/ InstallCrashHandler \/ Serve
    \/ Signal \/ DestroyContainers \/ CloseImages \/ RemoveRootDir \/ DestroyNetworks \/ Exit \/ Kill
    \/ \E r \in Rank :
          \/ UnpackEntry(r) \/ ImageReady(r) \/ RunPanics(r) \/ GetOrCreate(r) \/ CreateFails(r)
          \/ Start(r) \/ StartUnnoticed(r) \/ StartFails(r) \/ Restore(r) \/ RestoreFails(r)
          \/ PostRestore(r) \/ PostRestoreFails(r) \/ PostRestoreFatal(r)
          \/ Lock(r) \/ Dump(r) \/ Delete(r) \/ SendFails(r) \/ ProcessEnds(r)
    \/ \E r \in Rank, i \in Image : GetImage(r, i) \/ Load(r, i)

Spec == Init /\ [][Next]_vars
-----------------------------------------------------------------------------
(***************************************************************************)
(* Properties                                                              *)
(***************************************************************************)

TypeOK ==
    /\ nymph \in {"down", "rooted", "dialing", "registering", "serving"}
    /\ closing \in {"no", "containers", "images", "root", "networks", "exit"}
    /\ reg \subseteq Rank
    /\ mutex \in reg \cup {NoRank}
    /\ handler \in [Rank -> {"idle", "unpack", "create", "start", "restore", "restored", "send",
                            "dumped"}]
    /\ asked \in [Rank -> Image \cup {NoImage}]
    /\ image \in [Rank -> Image \cup {NoImage}]
    /\ ImagesTypeOK
    /\ dir \subseteq Rank
    /\ bridge \in BOOLEAN /\ vxlan \in BOOLEAN
    /\ link \in [Rank -> {"none", "host", "loose", "up"}]
    /\ proc \subseteq Rank
    /\ starts \in Nat
    /\ incidents \subseteq {"fault", "kill", "early", "late", "panic"}

\* While a nymph serves, the container of a rank that runs on its node is on
\* the bridge, once its launch is over: whatever nymphs before it were killed,
\* stopped early or closed in the middle of a migration, no container without
\* a network is left over or restored (veth.go:271-345, 385-404).
RunningIsConnected ==
    incidents \cap {"fault", "late"} = {} =>
        \A r \in Rank :
            r \in proc /\ nymph = "serving" /\ closing = "no" /\ handler[r] # "restored" =>
                link[r] = "up" /\ bridge

\* A nymph that is not running has left no links and no processes: the next one
\* can start (veth.go:188 refuses a bridge that exists).  The only exceptions
\* are kills, failing calls, a signal before the crash handler is there, and
\* launches after _Close has destroyed the containers, and Runs that panic
\* (nymph.go:38, server.go:229-234, 341-359).
CleanExit ==
    incidents = {} /\ nymph = "down" =>
        ~ bridge /\ ~ vxlan /\ proc = {} /\ \A r \in Rank : link[r] = "none"

\* A Run waits for whoever unpacks its image, and then uses a whole one: what
\* is remembered under a name is all that the archive holds, until _Close
\* removes it (server.go:119-150, image.go:136-187).
RememberedIsWhole ==
    closing \in {"no", "containers", "images"} =>
        \A i \in images : tree[i] = Contents(i) /\ Sound(i)

\* Whatever earlier nymphs and other Runs have left on the disk, an archive that
\* is sound never makes NewImage fail, and with it the nymph: only a call that
\* fails does, or the end of RootDir (server.go:41-61, 229-234).
SoundUnpacks == unpacking # NoImage /\ HasWorkingDir /\ Stuck => ~ Sound(unpacking)
=============================================================================
