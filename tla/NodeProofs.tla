----------------------------- MODULE NodeProofs -----------------------------
(***************************************************************************)
(* Theorems about Node and Images, for any ranks, archives and number of   *)
(* processes.                                                              *)
(***************************************************************************)
EXTENDS Node, TLAPS

\* Who serves what.
HandlerInv ==
    /\ nymph # "serving" => images = {} /\ unpacking = NoImage /\ \A r \in Rank : handler[r] = "idle"
    /\ nymph \in {"down", "rooted", "dialing"} => closing = "no"
    /\ unpacking \notin images
    /\ \A r \in Rank :
          /\ handler[r] \in {"start", "restore", "restored", "send", "dumped"} => r \in reg
          /\ handler[r] \in {"send", "dumped"} <=> mutex = r

\* Entry k of an archive has the directory and the file that it needs.
Founded(i, k) ==
    LET e == Archive[i][k] IN
    /\ e.kind # "other"
    /\ e.name = Base \/ \E j \in 1 .. k - 1 : Archive[i][j].kind = "dir" /\ Archive[i][j].name = e.in
    /\ e.kind = "link" => \E j \in 1 .. k - 1 : Archive[i][j].name = e.to

\* The entries before the next one are in place, and nothing else is.
Made(i) ==
    /\ at <= Len(Archive[i]) + 1
    /\ \A k \in 1 .. at - 1 : tree[i][Archive[i][k].name] = k /\ Founded(i, k)
    /\ \A p \in Path : tree[i][p] # 0 => tree[i][p] \in 1 .. at - 1 /\ Archive[i][tree[i][p]].name = p

TreeInv ==
    /\ nymph # "down" /\ HasWorkingDir =>
          /\ \A i \in Image : i \notin images /\ i # unpacking => tree[i] = NoTree[i]
          /\ unpacking # NoImage => Made(unpacking)
    /\ RememberedIsWhole

\* A pair lives as long as its process, and the processes as long as the bridge.
Calm == incidents \cap {"fault", "late"} = {}
LinkInv ==
    Calm =>
        /\ \A r \in Rank :
              /\ r \notin proc => link[r] = "none"
              /\ link[r] # "host"
              /\ handler[r] \in {"unpack", "create", "start", "restore", "dumped"} => r \notin proc
        /\ nymph \in {"down", "rooted"} /\ ~ bridge => proc = {}
        /\ nymph \notin {"down", "rooted"} =>
              /\ closing # "exit" => bridge
              /\ closing \in {"no", "containers"} =>
                    \A r \in proc : r \in reg /\ (link[r] = "up" \/ (handler[r] = "restored" /\ link[r] = "loose"))
              /\ closing \notin {"no", "containers"} => proc = {}

\* A nymph that closes leaves no links.
ExitInv == incidents = {} /\ (nymph \in {"down", "rooted"} \/ closing = "exit") => ~ bridge /\ ~ vxlan
-----------------------------------------------------------------------------
\* An empty RootDir.
LEMMA NoTreeType == NoTree \in [Image -> [Path -> Nat]]
BY DEF NoTree

Seen == {"fault", "kill", "early", "late", "panic"}

\* The process is gone.
LEMMA GoneType ==
    ASSUME TypeOK, Gone, tree' \in [Image -> [Path -> Nat]], dir' \subseteq Rank, UNCHANGED kernel,
           starts' \in Nat, incidents' \subseteq Seen
    PROVE  TypeOK'
BY DEF TypeOK, ImagesTypeOK, Gone, ForgetImages, kernel, Seen

LEMMA TypeStep == ASSUME TypeOK, HandlerInv, [Next]_vars PROVE TypeOK'
<1>. USE NoRankAssumption, ArchiveAssumption
         DEF Gone, ForgetImages, imageVars, memory, kernel
<1>1. CASE CreateRootDir
  <2>1. dir' \subseteq Rank /\ tree' \in [Image -> [Path -> Nat]]
    BY <1>1, NoTreeType DEF CreateRootDir, Purge
  <2>. QED
    BY <1>1, <2>1 DEF CreateRootDir, TypeOK, ImagesTypeOK
<1>2. CASE NewVeth
  BY <1>2 DEF NewVeth, TypeOK, ImagesTypeOK
<1>3. CASE NewVethFails
  <2>1. dir' \subseteq Rank /\ tree' \in [Image -> [Path -> Nat]]
    BY <1>3, NoTreeType DEF NewVethFails, Purge
  <2>2. incidents' \subseteq Seen
    BY <1>3 DEF NewVethFails, Incident, TypeOK, Seen
  <2>. QED
    BY <1>3, <2>1, <2>2, GoneType DEF NewVethFails, TypeOK
<1>4. CASE InstallCrashHandler
  BY <1>4 DEF InstallCrashHandler, TypeOK, ImagesTypeOK
<1>5. CASE Serve
  BY <1>5 DEF Serve, TypeOK, ImagesTypeOK
<1>6. CASE Signal
  <2>1. CASE nymph \in {"rooted", "dialing"}
    <3>1. incidents' \subseteq Seen
      BY <1>6, <2>1 DEF Signal, Incident, TypeOK, Seen
    <3>. QED
      BY <1>6, <2>1, <3>1, GoneType DEF Signal, TypeOK, ImagesTypeOK
  <2>2. CASE nymph \notin {"rooted", "dialing"}
    BY <1>6, <2>2 DEF Signal, TypeOK, ImagesTypeOK
  <2>. QED
    BY <2>1, <2>2
<1>7. CASE DestroyContainers
  BY <1>7 DEF DestroyContainers, Orphan, TypeOK, ImagesTypeOK
<1>8. CASE CloseImages
  BY <1>8 DEF CloseImages, RemoveImages, NoTree, TypeOK, ImagesTypeOK
<1>9. CASE RemoveRootDir
  <2>1. dir' \subseteq Rank /\ tree' \in [Image -> [Path -> Nat]]
    BY <1>9, NoTreeType DEF RemoveRootDir, Purge
  <2>. QED
    BY <1>9, <2>1 DEF RemoveRootDir, TypeOK, ImagesTypeOK
<1>10. CASE DestroyNetworks
  BY <1>10 DEF DestroyNetworks, Incident, Unbridged, TypeOK, ImagesTypeOK
<1>11. CASE Exit
  BY <1>11 DEF Exit, TypeOK, ImagesTypeOK
<1>12. CASE Kill
  BY <1>12 DEF Kill, Incident, TypeOK, ImagesTypeOK
<1>13. ASSUME NEW r \in Rank, UnpackEntry(r) PROVE TypeOK'
  <2>1. unpacking \in Image /\ at \in Nat \ {0} /\ at \in DOMAIN Archive[unpacking]
    BY <1>13 DEF UnpackEntry, Unpack, TypeOK, ImagesTypeOK
  <2>2. PICK f \in [Path -> Nat] : f = [tree[unpacking] EXCEPT ![Archive[unpacking][at].name] = at]
    BY <2>1 DEF TypeOK, ImagesTypeOK
  <2>3. tree' = [tree EXCEPT ![unpacking] = f] /\ at' = at + 1 /\ UNCHANGED <<images, unpacking>>
    BY <1>13, <2>2 DEF UnpackEntry, Unpack
  <2>4. ImagesTypeOK'
    BY <2>1, <2>3 DEF TypeOK, ImagesTypeOK
  <2>. QED
    BY <1>13, <2>4 DEF UnpackEntry, TypeOK
<1>14. ASSUME NEW r \in Rank, ImageReady(r) PROVE TypeOK'
  BY <1>14 DEF ImageReady, Remember, Goto, TypeOK, ImagesTypeOK
<1>15. ASSUME NEW r \in Rank, RunPanics(r) PROVE TypeOK'
  <2>1. incidents' \subseteq Seen
    BY <1>15 DEF RunPanics, Incident, TypeOK, Seen
  <2>. QED
    BY <1>15, <2>1, GoneType DEF RunPanics, TypeOK, ImagesTypeOK
<1>16. ASSUME NEW r \in Rank, GetOrCreate(r) PROVE TypeOK'
  BY <1>16 DEF GetOrCreate, Goto, TypeOK, ImagesTypeOK
<1>17. ASSUME NEW r \in Rank, CreateFails(r) PROVE TypeOK'
  BY <1>17 DEF CreateFails, Goto, Incident, TypeOK, ImagesTypeOK
<1>18. ASSUME NEW r \in Rank, Start(r) PROVE TypeOK'
  BY <1>18 DEF Start, Launched, Goto, TypeOK, ImagesTypeOK
<1>19. ASSUME NEW r \in Rank, StartUnnoticed(r) PROVE TypeOK'
  <2>1. link' \in [Rank -> {"none", "host", "loose", "up"}]
    BY <1>19 DEF StartUnnoticed, TypeOK
  <2>2. proc' \subseteq Rank /\ incidents' \subseteq Seen
    BY <1>19 DEF StartUnnoticed, Launched, Incident, TypeOK, Seen
  <2>3. handler' = [handler EXCEPT ![r] = "idle"]
        /\ UNCHANGED <<nymph, closing, reg, mutex, asked, image, imageVars, dir, bridge, vxlan, starts>>
    BY <1>19 DEF StartUnnoticed, Goto
  <2>. QED
    BY <2>1, <2>2, <2>3 DEF TypeOK, ImagesTypeOK, Seen
<1>20. ASSUME NEW r \in Rank, StartFails(r) PROVE TypeOK'
  BY <1>20 DEF StartFails, Goto, Incident, TypeOK, ImagesTypeOK
<1>21. ASSUME NEW r \in Rank, Restore(r) PROVE TypeOK'
  BY <1>21 DEF Restore, Launched, Goto, TypeOK, ImagesTypeOK
<1>22. ASSUME NEW r \in Rank, RestoreFails(r) PROVE TypeOK'
  BY <1>22 DEF RestoreFails, Goto, Incident, TypeOK, ImagesTypeOK
<1>23. ASSUME NEW r \in Rank, PostRestore(r) PROVE TypeOK'
  BY <1>23 DEF PostRestore, Goto, TypeOK, ImagesTypeOK
<1>24. ASSUME NEW r \in Rank, PostRestoreFails(r) PROVE TypeOK'
  BY <1>24 DEF PostRestoreFails, Goto, Incident, TypeOK, ImagesTypeOK
<1>25. ASSUME NEW r \in Rank, PostRestoreFatal(r) PROVE TypeOK'
  <2>1. incidents' \subseteq Seen
    BY <1>25 DEF PostRestoreFatal, Incident, TypeOK, Seen
  <2>. QED
    BY <1>25, <2>1, GoneType DEF PostRestoreFatal, TypeOK, ImagesTypeOK
<1>26. ASSUME NEW r \in Rank, Lock(r) PROVE TypeOK'
  BY <1>26 DEF Lock, Goto, TypeOK, ImagesTypeOK
<1>27. ASSUME NEW r \in Rank, Dump(r) PROVE TypeOK'
  BY <1>27 DEF Dump, Goto, Ended, Orphan, TypeOK, ImagesTypeOK
<1>28. ASSUME NEW r \in Rank, Delete(r) PROVE TypeOK'
  BY <1>28 DEF Delete, Goto, Poststop, TypeOK, ImagesTypeOK
<1>29. ASSUME NEW r \in Rank, SendFails(r) PROVE TypeOK'
  BY <1>29 DEF SendFails, Goto, TypeOK, ImagesTypeOK
<1>30. ASSUME NEW r \in Rank, ProcessEnds(r) PROVE TypeOK'
  BY <1>30 DEF ProcessEnds, Ended, Orphan, TypeOK, ImagesTypeOK
<1>31. ASSUME NEW r \in Rank, NEW i \in Image, GetImage(r, i) PROVE TypeOK'
  <2>1. ImagesTypeOK'
    BY <1>31 DEF GetImage, BeginImage, TypeOK, ImagesTypeOK
  <2>2. handler' = [handler EXCEPT ![r] = "create"] \/ handler' = [handler EXCEPT ![r] = "unpack"]
    BY <1>31 DEF GetImage, Goto
  <2>. QED
    BY <1>31, <2>1, <2>2 DEF GetImage, TypeOK
<1>32. ASSUME NEW r \in Rank, NEW i \in Image, Load(r, i) PROVE TypeOK'
  BY <1>32 DEF Load, Goto, TypeOK, ImagesTypeOK
<1>33. CASE UNCHANGED vars
  BY <1>33 DEF vars, TypeOK, ImagesTypeOK
<1>. QED
  BY <1>1, <1>2, <1>3, <1>4, <1>5, <1>6, <1>7, <1>8, <1>9, <1>10, <1>11, <1>12, <1>13, <1>14, <1>15, <1>16, <1>17, <1>18, <1>19, <1>20, <1>21, <1>22, <1>23, <1>24, <1>25, <1>26, <1>27, <1>28, <1>29, <1>30, <1>31, <1>32, <1>33 DEF Next

LEMMA HandlerStep == ASSUME TypeOK, HandlerInv, [Next]_vars PROVE HandlerInv'
<1>. USE NoRankAssumption, ArchiveAssumption
         DEF Gone, ForgetImages, imageVars, memory, kernel
<1>1. CASE CreateRootDir
  BY <1>1 DEF CreateRootDir, Purge, TypeOK, ImagesTypeOK, HandlerInv
<1>2. CASE NewVeth
  BY <1>2 DEF NewVeth, TypeOK, ImagesTypeOK, HandlerInv
<1>3. CASE NewVethFails
  BY <1>3 DEF NewVethFails, Incident, Purge, TypeOK, ImagesTypeOK, HandlerInv
<1>4. CASE InstallCrashHandler
  BY <1>4 DEF InstallCrashHandler, TypeOK, ImagesTypeOK, HandlerInv
<1>5. CASE Serve
  BY <1>5 DEF Serve, TypeOK, ImagesTypeOK, HandlerInv
<1>6. CASE Signal
  BY <1>6 DEF Signal, Incident, TypeOK, ImagesTypeOK, HandlerInv
<1>7. CASE DestroyContainers
  BY <1>7 DEF DestroyContainers, Orphan, TypeOK, ImagesTypeOK, HandlerInv
<1>8. CASE CloseImages
  BY <1>8 DEF CloseImages, RemoveImages, NoTree, TypeOK, ImagesTypeOK, HandlerInv
<1>9. CASE RemoveRootDir
  BY <1>9 DEF RemoveRootDir, Purge, TypeOK, ImagesTypeOK, HandlerInv
<1>10. CASE DestroyNetworks
  BY <1>10 DEF DestroyNetworks, Incident, Unbridged, TypeOK, ImagesTypeOK, HandlerInv
<1>11. CASE Exit
  BY <1>11 DEF Exit, TypeOK, ImagesTypeOK, HandlerInv
<1>12. CASE Kill
  BY <1>12 DEF Kill, Incident, TypeOK, ImagesTypeOK, HandlerInv
<1>13. ASSUME NEW r \in Rank, UnpackEntry(r) PROVE HandlerInv'
  BY <1>13 DEF UnpackEntry, Unpack, TypeOK, ImagesTypeOK, HandlerInv
<1>14. ASSUME NEW r \in Rank, ImageReady(r) PROVE HandlerInv'
  BY <1>14 DEF ImageReady, Remember, Goto, TypeOK, ImagesTypeOK, HandlerInv
<1>15. ASSUME NEW r \in Rank, RunPanics(r) PROVE HandlerInv'
  BY <1>15 DEF RunPanics, Incident, TypeOK, ImagesTypeOK, HandlerInv
<1>16. ASSUME NEW r \in Rank, GetOrCreate(r) PROVE HandlerInv'
  BY <1>16 DEF GetOrCreate, Goto, TypeOK, ImagesTypeOK, HandlerInv
<1>17. ASSUME NEW r \in Rank, CreateFails(r) PROVE HandlerInv'
  BY <1>17 DEF CreateFails, Goto, Incident, TypeOK, ImagesTypeOK, HandlerInv
<1>18. ASSUME NEW r \in Rank, Start(r) PROVE HandlerInv'
  BY <1>18 DEF Start, Launched, Goto, TypeOK, ImagesTypeOK, HandlerInv
<1>19. ASSUME NEW r \in Rank, StartUnnoticed(r) PROVE HandlerInv'
  BY <1>19 DEF StartUnnoticed, Launched, Goto, Incident, TypeOK, ImagesTypeOK, HandlerInv
<1>20. ASSUME NEW r \in Rank, StartFails(r) PROVE HandlerInv'
  BY <1>20 DEF StartFails, Goto, Incident, TypeOK, ImagesTypeOK, HandlerInv
<1>21. ASSUME NEW r \in Rank, Restore(r) PROVE HandlerInv'
  BY <1>21 DEF Restore, Launched, Goto, TypeOK, ImagesTypeOK, HandlerInv
<1>22. ASSUME NEW r \in Rank, RestoreFails(r) PROVE HandlerInv'
  BY <1>22 DEF RestoreFails, Goto, Incident, TypeOK, ImagesTypeOK, HandlerInv
<1>23. ASSUME NEW r \in Rank, PostRestore(r) PROVE HandlerInv'
  BY <1>23 DEF PostRestore, Goto, TypeOK, ImagesTypeOK, HandlerInv
<1>24. ASSUME NEW r \in Rank, PostRestoreFails(r) PROVE HandlerInv'
  BY <1>24 DEF PostRestoreFails, Goto, Incident, TypeOK, ImagesTypeOK, HandlerInv
<1>25. ASSUME NEW r \in Rank, PostRestoreFatal(r) PROVE HandlerInv'
  BY <1>25 DEF PostRestoreFatal, Incident, TypeOK, ImagesTypeOK, HandlerInv
<1>26. ASSUME NEW r \in Rank, Lock(r) PROVE HandlerInv'
  BY <1>26 DEF Lock, Goto, TypeOK, ImagesTypeOK, HandlerInv
<1>27. ASSUME NEW r \in Rank, Dump(r) PROVE HandlerInv'
  BY <1>27 DEF Dump, Goto, Ended, Orphan, TypeOK, ImagesTypeOK, HandlerInv
<1>28. ASSUME NEW r \in Rank, Delete(r) PROVE HandlerInv'
  BY <1>28 DEF Delete, Goto, Poststop, TypeOK, ImagesTypeOK, HandlerInv
<1>29. ASSUME NEW r \in Rank, SendFails(r) PROVE HandlerInv'
  BY <1>29 DEF SendFails, Goto, TypeOK, ImagesTypeOK, HandlerInv
<1>30. ASSUME NEW r \in Rank, ProcessEnds(r) PROVE HandlerInv'
  BY <1>30 DEF ProcessEnds, Ended, Orphan, TypeOK, ImagesTypeOK, HandlerInv
<1>31. ASSUME NEW r \in Rank, NEW i \in Image, GetImage(r, i) PROVE HandlerInv'
  BY <1>31 DEF GetImage, BeginImage, Goto, TypeOK, ImagesTypeOK, HandlerInv
<1>32. ASSUME NEW r \in Rank, NEW i \in Image, Load(r, i) PROVE HandlerInv'
  BY <1>32 DEF Load, Goto, TypeOK, ImagesTypeOK, HandlerInv
<1>33. CASE UNCHANGED vars
  BY <1>33 DEF vars, TypeOK, ImagesTypeOK, HandlerInv
<1>. QED
  BY <1>1, <1>2, <1>3, <1>4, <1>5, <1>6, <1>7, <1>8, <1>9, <1>10, <1>11, <1>12, <1>13, <1>14, <1>15, <1>16, <1>17, <1>18, <1>19, <1>20, <1>21, <1>22, <1>23, <1>24, <1>25, <1>26, <1>27, <1>28, <1>29, <1>30, <1>31, <1>32, <1>33 DEF Next

LEMMA LinkStep == ASSUME TypeOK, HandlerInv, LinkInv, [Next]_vars PROVE LinkInv'
<1>. USE DEF Gone, imageVars, memory, kernel
<1>1. CASE CreateRootDir
  BY <1>1 DEF CreateRootDir, Purge, TypeOK, HandlerInv, LinkInv, Calm
<1>2. CASE NewVeth
  BY <1>2 DEF NewVeth, TypeOK, HandlerInv, LinkInv, Calm
<1>3. CASE NewVethFails
  BY <1>3 DEF NewVethFails, Incident, Purge, TypeOK, HandlerInv, LinkInv, Calm
<1>4. CASE InstallCrashHandler
  BY <1>4 DEF InstallCrashHandler, TypeOK, HandlerInv, LinkInv, Calm
<1>5. CASE Serve
  BY <1>5 DEF Serve, TypeOK, HandlerInv, LinkInv, Calm
<1>6. CASE Signal
  BY <1>6 DEF Signal, Incident, TypeOK, HandlerInv, LinkInv, Calm
<1>7. CASE DestroyContainers
  BY <1>7 DEF DestroyContainers, Orphan, TypeOK, HandlerInv, LinkInv, Calm
<1>8. CASE CloseImages
  BY <1>8 DEF CloseImages, RemoveImages, NoTree, TypeOK, HandlerInv, LinkInv, Calm
<1>9. CASE RemoveRootDir
  BY <1>9 DEF RemoveRootDir, Purge, TypeOK, HandlerInv, LinkInv, Calm
<1>10. CASE DestroyNetworks
  BY <1>10 DEF DestroyNetworks, Incident, Unbridged, TypeOK, HandlerInv, LinkInv, Calm
<1>11. CASE Exit
  BY <1>11 DEF Exit, TypeOK, HandlerInv, LinkInv, Calm
<1>12. CASE Kill
  BY <1>12 DEF Kill, Incident, TypeOK, HandlerInv, LinkInv, Calm
<1>13. ASSUME NEW r \in Rank, UnpackEntry(r) PROVE LinkInv'
  BY <1>13 DEF UnpackEntry, Unpack, TypeOK, HandlerInv, LinkInv, Calm
<1>14. ASSUME NEW r \in Rank, ImageReady(r) PROVE LinkInv'
  BY <1>14 DEF ImageReady, Remember, Goto, TypeOK, HandlerInv, LinkInv, Calm
<1>15. ASSUME NEW r \in Rank, RunPanics(r) PROVE LinkInv'
  BY <1>15 DEF RunPanics, Incident, TypeOK, HandlerInv, LinkInv, Calm
<1>16. ASSUME NEW r \in Rank, GetOrCreate(r) PROVE LinkInv'
  BY <1>16 DEF GetOrCreate, Goto, TypeOK, HandlerInv, LinkInv, Calm
<1>17. ASSUME NEW r \in Rank, CreateFails(r) PROVE LinkInv'
  BY <1>17 DEF CreateFails, Goto, Incident, TypeOK, HandlerInv, LinkInv, Calm
<1>18. ASSUME NEW r \in Rank, Start(r) PROVE LinkInv'
  BY <1>18 DEF Start, Launched, Goto, TypeOK, HandlerInv, LinkInv, Calm
<1>19. ASSUME NEW r \in Rank, StartUnnoticed(r) PROVE LinkInv'
  <2>1. CASE link[r] # "none"
    <3>1. ~ Calm
      BY <1>19, <2>1 DEF StartUnnoticed, LinkInv
    <3>. QED
      BY <1>19, <2>1, <3>1 DEF StartUnnoticed, PairIsNew, Launched, LinkInv, Calm
  <2>2. CASE link[r] = "none"
    BY <1>19, <2>2 DEF StartUnnoticed, PairIsNew, Incident, LinkInv, Calm
  <2>. QED
    BY <2>1, <2>2
<1>20. ASSUME NEW r \in Rank, StartFails(r) PROVE LinkInv'
  BY <1>20 DEF StartFails, Goto, Incident, TypeOK, HandlerInv, LinkInv, Calm
<1>21. ASSUME NEW r \in Rank, Restore(r) PROVE LinkInv'
  BY <1>21 DEF Restore, Launched, Goto, TypeOK, HandlerInv, LinkInv, Calm
<1>22. ASSUME NEW r \in Rank, RestoreFails(r) PROVE LinkInv'
  BY <1>22 DEF RestoreFails, Goto, Incident, TypeOK, HandlerInv, LinkInv, Calm
<1>23. ASSUME NEW r \in Rank, PostRestore(r) PROVE LinkInv'
  BY <1>23 DEF PostRestore, Goto, TypeOK, HandlerInv, LinkInv, Calm
<1>24. ASSUME NEW r \in Rank, PostRestoreFails(r) PROVE LinkInv'
  BY <1>24 DEF PostRestoreFails, Goto, Incident, TypeOK, HandlerInv, LinkInv, Calm
<1>25. ASSUME NEW r \in Rank, PostRestoreFatal(r) PROVE LinkInv'
  BY <1>25 DEF PostRestoreFatal, Incident, TypeOK, HandlerInv, LinkInv, Calm
<1>26. ASSUME NEW r \in Rank, Lock(r) PROVE LinkInv'
  BY <1>26 DEF Lock, Goto, TypeOK, HandlerInv, LinkInv, Calm
<1>27. ASSUME NEW r \in Rank, Dump(r) PROVE LinkInv'
  BY <1>27 DEF Dump, Goto, Ended, Orphan, TypeOK, HandlerInv, LinkInv, Calm
<1>28. ASSUME NEW r \in Rank, Delete(r) PROVE LinkInv'
  BY <1>28 DEF Delete, Goto, Poststop, TypeOK, HandlerInv, LinkInv, Calm
<1>29. ASSUME NEW r \in Rank, SendFails(r) PROVE LinkInv'
  BY <1>29 DEF SendFails, Goto, TypeOK, HandlerInv, LinkInv, Calm
<1>30. ASSUME NEW r \in Rank, ProcessEnds(r) PROVE LinkInv'
  BY <1>30 DEF ProcessEnds, Ended, Orphan, TypeOK, HandlerInv, LinkInv, Calm
<1>31. ASSUME NEW r \in Rank, NEW i \in Image, GetImage(r, i) PROVE LinkInv'
  BY <1>31 DEF GetImage, BeginImage, Goto, TypeOK, HandlerInv, LinkInv, Calm
<1>32. ASSUME NEW r \in Rank, NEW i \in Image, Load(r, i) PROVE LinkInv'
  BY <1>32 DEF Load, Goto, TypeOK, HandlerInv, LinkInv, Calm
<1>33. CASE UNCHANGED vars
  BY <1>33 DEF vars, TypeOK, HandlerInv, LinkInv, Calm
<1>. QED
  BY <1>1, <1>2, <1>3, <1>4, <1>5, <1>6, <1>7, <1>8, <1>9, <1>10, <1>11, <1>12, <1>13, <1>14, <1>15, <1>16, <1>17, <1>18, <1>19, <1>20, <1>21, <1>22, <1>23, <1>24, <1>25, <1>26, <1>27, <1>28, <1>29, <1>30, <1>31, <1>32, <1>33 DEF Next

LEMMA ExitStep == ASSUME TypeOK, HandlerInv, LinkInv, ExitInv, [Next]_vars PROVE ExitInv'
<1>. USE DEF Gone, imageVars, memory, kernel
<1>1. CASE CreateRootDir
  BY <1>1 DEF CreateRootDir, Purge, HandlerInv, LinkInv, Calm, ExitInv
<1>2. CASE NewVeth
  BY <1>2 DEF NewVeth, HandlerInv, LinkInv, Calm, ExitInv
<1>3. CASE NewVethFails
  BY <1>3 DEF NewVethFails, Incident, Purge, HandlerInv, LinkInv, Calm, ExitInv
<1>4. CASE InstallCrashHandler
  BY <1>4 DEF InstallCrashHandler, HandlerInv, LinkInv, Calm, ExitInv
<1>5. CASE Serve
  BY <1>5 DEF Serve, HandlerInv, LinkInv, Calm, ExitInv
<1>6. CASE Signal
  BY <1>6 DEF Signal, Incident, HandlerInv, LinkInv, Calm, ExitInv
<1>7. CASE DestroyContainers
  BY <1>7 DEF DestroyContainers, Orphan, HandlerInv, LinkInv, Calm, ExitInv
<1>8. CASE CloseImages
  BY <1>8 DEF CloseImages, RemoveImages, NoTree, HandlerInv, LinkInv, Calm, ExitInv
<1>9. CASE RemoveRootDir
  BY <1>9 DEF RemoveRootDir, Purge, HandlerInv, LinkInv, Calm, ExitInv
<1>10. CASE DestroyNetworks
  BY <1>10 DEF DestroyNetworks, Incident, Unbridged, HandlerInv, LinkInv, Calm, ExitInv
<1>11. CASE Exit
  BY <1>11 DEF Exit, HandlerInv, LinkInv, Calm, ExitInv
<1>12. CASE Kill
  BY <1>12 DEF Kill, Incident, HandlerInv, LinkInv, Calm, ExitInv
<1>13. ASSUME NEW r \in Rank, UnpackEntry(r) PROVE ExitInv'
  BY <1>13 DEF UnpackEntry, Unpack, HandlerInv, LinkInv, Calm, ExitInv
<1>14. ASSUME NEW r \in Rank, ImageReady(r) PROVE ExitInv'
  BY <1>14 DEF ImageReady, Remember, Goto, HandlerInv, LinkInv, Calm, ExitInv
<1>15. ASSUME NEW r \in Rank, RunPanics(r) PROVE ExitInv'
  BY <1>15 DEF RunPanics, Incident, HandlerInv, LinkInv, Calm, ExitInv
<1>16. ASSUME NEW r \in Rank, GetOrCreate(r) PROVE ExitInv'
  BY <1>16 DEF GetOrCreate, Goto, HandlerInv, LinkInv, Calm, ExitInv
<1>17. ASSUME NEW r \in Rank, CreateFails(r) PROVE ExitInv'
  BY <1>17 DEF CreateFails, Goto, Incident, HandlerInv, LinkInv, Calm, ExitInv
<1>18. ASSUME NEW r \in Rank, Start(r) PROVE ExitInv'
  BY <1>18 DEF Start, Launched, Goto, HandlerInv, LinkInv, Calm, ExitInv
<1>19. ASSUME NEW r \in Rank, StartUnnoticed(r) PROVE ExitInv'
  BY <1>19 DEF StartUnnoticed, Launched, Goto, Incident, HandlerInv, LinkInv, Calm, ExitInv
<1>20. ASSUME NEW r \in Rank, StartFails(r) PROVE ExitInv'
  BY <1>20 DEF StartFails, Goto, Incident, HandlerInv, LinkInv, Calm, ExitInv
<1>21. ASSUME NEW r \in Rank, Restore(r) PROVE ExitInv'
  BY <1>21 DEF Restore, Launched, Goto, HandlerInv, LinkInv, Calm, ExitInv
<1>22. ASSUME NEW r \in Rank, RestoreFails(r) PROVE ExitInv'
  BY <1>22 DEF RestoreFails, Goto, Incident, HandlerInv, LinkInv, Calm, ExitInv
<1>23. ASSUME NEW r \in Rank, PostRestore(r) PROVE ExitInv'
  BY <1>23 DEF PostRestore, Goto, HandlerInv, LinkInv, Calm, ExitInv
<1>24. ASSUME NEW r \in Rank, PostRestoreFails(r) PROVE ExitInv'
  BY <1>24 DEF PostRestoreFails, Goto, Incident, HandlerInv, LinkInv, Calm, ExitInv
<1>25. ASSUME NEW r \in Rank, PostRestoreFatal(r) PROVE ExitInv'
  BY <1>25 DEF PostRestoreFatal, Incident, HandlerInv, LinkInv, Calm, ExitInv
<1>26. ASSUME NEW r \in Rank, Lock(r) PROVE ExitInv'
  BY <1>26 DEF Lock, Goto, HandlerInv, LinkInv, Calm, ExitInv
<1>27. ASSUME NEW r \in Rank, Dump(r) PROVE ExitInv'
  BY <1>27 DEF Dump, Goto, Ended, Orphan, HandlerInv, LinkInv, Calm, ExitInv
<1>28. ASSUME NEW r \in Rank, Delete(r) PROVE ExitInv'
  BY <1>28 DEF Delete, Goto, Poststop, HandlerInv, LinkInv, Calm, ExitInv
<1>29. ASSUME NEW r \in Rank, SendFails(r) PROVE ExitInv'
  BY <1>29 DEF SendFails, Goto, HandlerInv, LinkInv, Calm, ExitInv
<1>30. ASSUME NEW r \in Rank, ProcessEnds(r) PROVE ExitInv'
  BY <1>30 DEF ProcessEnds, Ended, Orphan, HandlerInv, LinkInv, Calm, ExitInv
<1>31. ASSUME NEW r \in Rank, NEW i \in Image, GetImage(r, i) PROVE ExitInv'
  BY <1>31 DEF GetImage, BeginImage, Goto, HandlerInv, LinkInv, Calm, ExitInv
<1>32. ASSUME NEW r \in Rank, NEW i \in Image, Load(r, i) PROVE ExitInv'
  BY <1>32 DEF Load, Goto, HandlerInv, LinkInv, Calm, ExitInv
<1>33. CASE UNCHANGED vars
  BY <1>33 DEF vars, HandlerInv, LinkInv, Calm, ExitInv
<1>. QED
  BY <1>1, <1>2, <1>3, <1>4, <1>5, <1>6, <1>7, <1>8, <1>9, <1>10, <1>11, <1>12, <1>13, <1>14, <1>15, <1>16, <1>17, <1>18, <1>19, <1>20, <1>21, <1>22, <1>23, <1>24, <1>25, <1>26, <1>27, <1>28, <1>29, <1>30, <1>31, <1>32, <1>33 DEF Next
-----------------------------------------------------------------------------
LEMMA TreeKept ==
    ASSUME TreeInv, UNCHANGED imageVars,
           nymph' # "down" /\ HasWorkingDir' => nymph # "down" /\ HasWorkingDir,
           closing' \in {"no", "containers", "images"} => closing \in {"no", "containers", "images"}
    PROVE  TreeInv'
BY DEF TreeInv, Made, RememberedIsWhole, imageVars

LEMMA TreeGone == ASSUME Gone PROVE TreeInv'
BY DEF TreeInv, RememberedIsWhole, Gone, ForgetImages

LEMMA TreePurged ==
    ASSUME tree' = NoTree, images' = {} /\ unpacking' = NoImage
    PROVE  TreeInv'
BY DEF TreeInv, RememberedIsWhole

\* An entry that fits has what it needs.
LEMMA FitsIs ==
    ASSUME NEW i \in Image, Made(i), NEW k \in DOMAIN Archive[i], k = at, Fits(i, k)
    PROVE  Founded(i, k)
<1>1. Archive[i] \in Seq(Entry) /\ Archive[i][k] \in Entry
  BY ArchiveAssumption
<1>2. /\ Archive[i][k].name \in Path /\ Archive[i][k].in \in Path /\ Archive[i][k].to \in Path
  BY <1>1 DEF Entry
<1>. QED
  BY <1>2 DEF Fits, Founded, Made

LEMMA UnpackTree ==
    ASSUME TypeOK, HandlerInv, TreeInv, nymph # "down", HasWorkingDir, Unpack, UNCHANGED <<nymph, closing>>
    PROVE  TreeInv'
<1>. DEFINE u == unpacking
<1>1. /\ u \in Image /\ u \notin images /\ at \in Nat \ {0} /\ at \in DOMAIN Archive[u]
      /\ tree \in [Image -> [Path -> Nat]] /\ Archive[u] \in Seq(Entry)
  BY ArchiveAssumption DEF Unpack, HandlerInv, TypeOK, ImagesTypeOK
<1>2. Made(u) /\ Founded(u, at)
  BY <1>1, FitsIs DEF Unpack, TreeInv
<1>3. at <= Len(Archive[u]) /\ \A k \in 1 .. at : k \in DOMAIN Archive[u] /\ Archive[u][k].name \in Path
  <2>1. DOMAIN Archive[u] = 1 .. Len(Archive[u])
    BY <1>1
  <2>2. \A k \in DOMAIN Archive[u] : Archive[u][k] \in Entry
    BY <1>1
  <2>3. \A k \in DOMAIN Archive[u] : Archive[u][k].name \in Path
    BY <2>2 DEF Entry
  <2>4. 1 .. at \subseteq DOMAIN Archive[u]
    BY <1>1, <2>1
  <2>. QED
    BY <1>1, <2>1, <2>3, <2>4
<1>4. /\ tree' = [tree EXCEPT ![u][Archive[u][at].name] = at] /\ at' = at + 1
      /\ UNCHANGED <<images, unpacking>>
  BY DEF Unpack
<1>5. \A p \in Path : tree'[u][p] = IF p = Archive[u][at].name THEN at ELSE tree[u][p]
  BY <1>1, <1>4
<1>6. \A i \in Image \ {u} : tree'[i] = tree[i]
  BY <1>1, <1>4
<1>7. Made(u)'
  <2>1. at' <= Len(Archive[u]) + 1
    BY <1>1, <1>3, <1>4
  <2>2. \A k \in 1 .. at : Founded(u, k)
    BY <1>1, <1>2 DEF Made
  <2>3. ASSUME NEW k \in 1 .. at PROVE tree'[u][Archive[u][k].name] = k
    <3>1. CASE k = at
      BY <1>1, <1>3, <1>5, <3>1
    <3>2. CASE k < at
      <4>1. Archive[u][k].name # Archive[u][at].name
        BY <1>1, <3>2, ArchiveAssumption
      <4>. QED
        BY <1>1, <1>2, <1>3, <1>5, <3>2, <4>1 DEF Made
    <3>. QED
      BY <1>1, <3>1, <3>2
  <2>4. ASSUME NEW p \in Path, tree'[u][p] # 0
        PROVE  tree'[u][p] \in 1 .. at /\ Archive[u][tree'[u][p]].name = p
    BY <1>1, <1>2, <1>5, <2>4 DEF Made
  <2>5. \A k : Founded(u, k) => Founded(u', k)
    BY <1>4 DEF Founded
  <2>6. 1 .. at' - 1 = 1 .. at
    BY <1>1, <1>4
  <2>. QED
    BY <1>4, <2>1, <2>2, <2>3, <2>4, <2>5, <2>6 DEF Made
<1>8. RememberedIsWhole'
  <2>1. \A i \in images : tree'[i] = tree[i]
    BY <1>1, <1>6 DEF TypeOK, ImagesTypeOK
  <2>. QED
    BY <1>4, <2>1 DEF TreeInv, RememberedIsWhole
<1>. QED
  BY <1>4, <1>6, <1>7, <1>8 DEF TreeInv, HasWorkingDir

\* An archive that has been unpacked is there as a whole.
LEMMA UnpackedIs ==
    ASSUME NEW i \in Image, Made(i), at \in Nat \ {0}, at \notin DOMAIN Archive[i], HasSpec(i),
           tree \in [Image -> [Path -> Nat]]
    PROVE  tree[i] = Contents(i) /\ Sound(i)
<1>1. Archive[i] \in Seq(Entry) /\ DOMAIN Archive[i] = 1 .. Len(Archive[i])
  BY ArchiveAssumption
<1>2. at = Len(Archive[i]) + 1
  BY <1>1 DEF Made
<1>3. 1 .. at - 1 = DOMAIN Archive[i]
  BY <1>1, <1>2
<1>4. ASSUME NEW p \in Path PROVE tree[i][p] = Contents(i)[p]
  <2>1. CASE \E k \in DOMAIN Archive[i] : Archive[i][k].name = p
    <3>1. PICK k \in DOMAIN Archive[i] : Archive[i][k].name = p
      BY <2>1
    <3>2. \A j \in DOMAIN Archive[i] : Archive[i][j].name = p => j = k
      BY <3>1, ArchiveAssumption
    <3>3. Contents(i)[p] = k
      BY <2>1, <3>1, <3>2 DEF Contents
    <3>. QED
      BY <1>3, <3>1, <3>3 DEF Made
  <2>2. CASE ~ \E k \in DOMAIN Archive[i] : Archive[i][k].name = p
    <3>1. Contents(i)[p] = 0
      BY <2>2 DEF Contents
    <3>. QED
      BY <1>3, <2>2, <3>1 DEF Made
  <2>. QED
    BY <2>1, <2>2
<1>5. tree[i] = Contents(i)
  <2>1. tree[i] \in [Path -> Nat] /\ DOMAIN Contents(i) = Path
    BY DEF Contents
  <2>2. Contents(i) = [p \in Path |-> Contents(i)[p]]
    BY DEF Contents
  <2>. QED
    BY <1>4, <2>1, <2>2
<1>6. \E k \in DOMAIN Archive[i] : Archive[i][k].kind = "file" /\ Archive[i][k].name = Config
  BY <1>3, ArchiveAssumption DEF HasSpec, Made
<1>. QED
  BY <1>3, <1>5, <1>6 DEF Made, Founded, Sound

LEMMA RememberTree ==
    ASSUME TypeOK, HandlerInv, TreeInv, nymph # "down", Remember, UNCHANGED <<nymph, closing>>
    PROVE  TreeInv'
<1>1. unpacking \in Image /\ at \in Nat \ {0} /\ tree \in [Image -> [Path -> Nat]]
  BY DEF Remember, TypeOK, ImagesTypeOK
<1>2. images' = images \cup {unpacking} /\ unpacking' = NoImage /\ UNCHANGED <<tree, at>>
  BY DEF Remember
<1>3. closing \in {"no", "containers", "images"} => tree[unpacking] = Contents(unpacking) /\ Sound(unpacking)
  BY <1>1, UnpackedIs DEF Remember, Unpacked, TreeInv, HasWorkingDir
<1>4. RememberedIsWhole'
  <2>1. \A i : (Contents(i) = Contents(i)') /\ (Sound(i) <=> Sound(i)')
    BY DEF Contents, Sound
  <2>. QED
    BY <1>2, <1>3 DEF TreeInv, RememberedIsWhole
<1>. QED
  BY <1>2, <1>4 DEF TreeInv, HasWorkingDir
LEMMA TreeStep == ASSUME TypeOK, HandlerInv, TreeInv, [Next]_vars PROVE TreeInv'
<1>. USE DEF imageVars, memory, kernel, HasWorkingDir
<1>1. ASSUME Gone PROVE TreeInv'
  BY <1>1, TreeGone
<1>2. CASE CreateRootDir \/ NewVethFails
  <2>1. CASE CreateRootDir
    BY <2>1, TreePurged DEF CreateRootDir, Purge, HandlerInv
  <2>. QED
    BY <1>1, <1>2, <2>1 DEF NewVethFails
<1>3. CASE NewVeth \/ InstallCrashHandler \/ Serve
  BY <1>3, TreeKept DEF NewVeth, InstallCrashHandler, Serve
<1>4. CASE Signal \/ Exit \/ Kill
  BY <1>1, <1>4, TreeKept DEF Signal, Exit, Kill
<1>5. CASE DestroyContainers \/ DestroyNetworks
  BY <1>5, TreeKept DEF DestroyContainers, DestroyNetworks
<1>6. CASE CloseImages
  <2>1. /\ UNCHANGED <<nymph, images, unpacking, at>> /\ closing = "images" /\ closing' = "root"
        /\ \A i \in Image : i \notin images => tree'[i] = tree[i]
        /\ unpacking = NoImage
    BY <1>6 DEF CloseImages, RemoveImages
  <2>. QED
    BY <2>1 DEF TreeInv, RememberedIsWhole
<1>7. CASE RemoveRootDir
  BY <1>7 DEF RemoveRootDir, TreeInv, RememberedIsWhole
<1>8. ASSUME NEW r \in Rank, UnpackEntry(r) PROVE TreeInv'
  <2>1. nymph # "down"
    BY <1>8 DEF UnpackEntry, HandlerInv
  <2>. QED
    BY <1>8, <2>1, UnpackTree DEF UnpackEntry
<1>9. ASSUME NEW r \in Rank, ImageReady(r) PROVE TreeInv'
  <2>1. nymph # "down"
    BY <1>9 DEF ImageReady, HandlerInv
  <2>. QED
    BY <1>9, <2>1, RememberTree DEF ImageReady
<1>10. ASSUME NEW r \in Rank, NEW i \in Image, GetImage(r, i) PROVE TreeInv'
  <2>1. CASE UNCHANGED imageVars
    BY <1>10, <2>1, TreeKept DEF GetImage
  <2>2. CASE BeginImage(i)
    <3>1. /\ unpacking' = i /\ at' = 1 /\ UNCHANGED <<images, tree, nymph, closing>> /\ i \notin images
          /\ unpacking = NoImage /\ NoImage \notin Image
      BY <1>10, <2>2, ArchiveAssumption DEF GetImage, BeginImage
    <3>2. ASSUME nymph # "down", HasWorkingDir PROVE Made(i)'
      <4>1. tree[i] = NoTree[i]
        BY <3>1, <3>2 DEF TreeInv
      <4>2. \A p \in Path : tree[i][p] = 0
        BY <4>1 DEF NoTree
      <4>3. Len(Archive[i]) \in Nat
        BY ArchiveAssumption
      <4>. QED
        BY <3>1, <4>2, <4>3 DEF Made
    <3>3. \A j \in Image : j \notin images' /\ j # unpacking' => j \notin images /\ j # unpacking
      BY <3>1
    <3>. QED
      BY <3>1, <3>2, <3>3 DEF TreeInv, RememberedIsWhole
  <2>. QED
    BY <1>10, <2>1, <2>2 DEF GetImage
<1>11. ASSUME NEW r \in Rank, RunPanics(r) \/ PostRestoreFatal(r) PROVE TreeInv'
  BY <1>1, <1>11 DEF RunPanics, PostRestoreFatal
<1>12. ASSUME NEW r \in Rank,
              \/ GetOrCreate(r) \/ CreateFails(r) \/ Start(r) \/ StartUnnoticed(r) \/ StartFails(r)
              \/ Restore(r) \/ RestoreFails(r) \/ PostRestore(r) \/ PostRestoreFails(r)
              \/ Lock(r) \/ Dump(r) \/ Delete(r) \/ SendFails(r) \/ ProcessEnds(r)
              \/ \E i \in Image : Load(r, i)
       PROVE  TreeInv'
  <2>1. UNCHANGED <<nymph, closing, imageVars>>
    BY <1>12
       DEF GetOrCreate, CreateFails, Start, StartUnnoticed, StartFails, Restore, RestoreFails, PostRestore,
           PostRestoreFails, Lock, Dump, Delete, SendFails, ProcessEnds, Load
  <2>. QED
    BY <2>1, TreeKept
<1>13. CASE UNCHANGED vars
  BY <1>13, TreeKept DEF vars
<1>. QED
  BY <1>2, <1>3, <1>4, <1>5, <1>6, <1>7, <1>8, <1>9, <1>10, <1>11, <1>12, <1>13 DEF Next
-----------------------------------------------------------------------------
Inv == TypeOK /\ HandlerInv /\ TreeInv /\ LinkInv /\ ExitInv

LEMMA Initially == Init => Inv
<1>. SUFFICES ASSUME Init PROVE Inv
  OBVIOUS
<1>. USE NoRankAssumption, ArchiveAssumption DEF Init, ImagesInit
<1>1. TypeOK
  <2>1. ImagesTypeOK
    BY NoTreeType DEF ImagesTypeOK
  <2>. QED
    BY <2>1 DEF TypeOK
<1>2. HandlerInv /\ LinkInv /\ ExitInv
  BY DEF HandlerInv, LinkInv, ExitInv
<1>3. TreeInv
  BY DEF TreeInv, RememberedIsWhole
<1>. QED
  BY <1>1, <1>2, <1>3 DEF Inv

LEMMA Invariance == Spec => []Inv
<1>1. Inv /\ [Next]_vars => Inv'
  BY TypeStep, HandlerStep, TreeStep, LinkStep, ExitStep DEF Inv
<1>. QED
  BY Initially, <1>1, PTL DEF Spec

\* Every variable keeps its type, and the mutex of the register is held for a
\* container that is in it (migrate.go:51-60).
THEOREM TypeCorrect == Spec => []TypeOK
BY Invariance, PTL DEF Inv

\* Whatever a Run finds in the map of images has been unpacked to the end
\* (server.go:119-150, image.go:203-238).
THEOREM ImagesWhole == Spec => []RememberedIsWhole
BY Invariance, PTL DEF Inv, TreeInv

\* An archive that is sound is unpacked, whatever is left of earlier nymphs and
\* of other Runs (server.go:41-61, 229-234).
THEOREM SoundArchives == Spec => []SoundUnpacks
<1>1. Inv => SoundUnpacks
  <2>. SUFFICES ASSUME Inv, unpacking # NoImage, HasWorkingDir, Stuck, Sound(unpacking) PROVE FALSE
    BY DEF SoundUnpacks
  <2>. DEFINE u == unpacking
  <2>1. /\ u \in Image /\ at \in Nat \ {0} /\ Made(u) /\ Archive[u] \in Seq(Entry)
        /\ tree \in [Image -> [Path -> Nat]]
    BY ArchiveAssumption DEF Inv, TypeOK, ImagesTypeOK, HandlerInv, TreeInv
  <2>2. DOMAIN Archive[u] = 1 .. Len(Archive[u]) /\ at <= Len(Archive[u]) + 1
    BY <2>1 DEF Made
  <2>3. CASE Unpacked
    <3>1. 1 .. at - 1 = DOMAIN Archive[u]
      BY <2>1, <2>2, <2>3 DEF Unpacked
    <3>2. PICK k \in DOMAIN Archive[u] : Archive[u][k].kind = "file" /\ Archive[u][k].name = Config
      BY DEF Sound
    <3>3. tree[u][Config] = k
      BY <2>1, <3>1, <3>2 DEF Made
    <3>. QED
      BY <2>1, <2>2, <2>3, <3>2, <3>3 DEF Stuck, HasSpec
  <2>4. CASE ~ Unpacked
    <3>1. at \in DOMAIN Archive[u] /\ ~ Fits(u, at)
      BY <2>4 DEF Unpacked, Stuck
    <3>2. Archive[u][at] \in Entry
      BY <2>1, <3>1
    <3>3. /\ Archive[u][at].kind # "other"
          /\ Archive[u][at].name = Base \/ \E j \in 1 .. at - 1 :
                Archive[u][j].kind = "dir" /\ Archive[u][j].name = Archive[u][at].in
          /\ Archive[u][at].kind = "link" => \E j \in 1 .. at - 1 : Archive[u][j].name = Archive[u][at].to
      BY <3>1 DEF Sound
    <3>4. tree[u][Archive[u][at].name] = 0
      <4>. SUFFICES ASSUME tree[u][Archive[u][at].name] # 0 PROVE FALSE
        OBVIOUS
      <4>1. PICK k \in 1 .. at - 1 : Archive[u][k].name = Archive[u][at].name
        BY <2>1, <3>2 DEF Made, Entry
      <4>2. k \in DOMAIN Archive[u] /\ k # at
        BY <2>1, <2>2, <3>1
      <4>. QED
        BY <2>1, <3>1, <4>1, <4>2, ArchiveAssumption
    <3>5. \A j \in 1 .. at - 1 : tree[u][Archive[u][j].name] = j /\ j # 0
      BY <2>1 DEF Made
    <3>6. Fits(u, at)
      BY <3>3, <3>4, <3>5 DEF Fits
    <3>. QED
      BY <3>1, <3>6
  <2>. QED
    BY <2>3, <2>4
<1>. QED
  BY <1>1, Invariance, PTL

\* If no call fails and no launch is late, a container that runs is on the
\* bridge (veth.go:271-345, 385-404).
THEOREM Connected == Spec => []RunningIsConnected
<1>1. Inv => RunningIsConnected
  BY DEF Inv, HandlerInv, LinkInv, Calm, RunningIsConnected
<1>. QED
  BY <1>1, Invariance, PTL

\* A nymph to which nothing happens leaves neither links nor processes
\* (server.go:341-359).
THEOREM Exits == Spec => []CleanExit
<1>1. Inv => CleanExit
  BY DEF Inv, LinkInv, Calm, ExitInv, CleanExit
<1>. QED
  BY <1>1, Invariance, PTL
=============================================================================
