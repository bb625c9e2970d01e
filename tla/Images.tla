------------------------------- MODULE Images -------------------------------
(***************************************************************************)
(* The container images of a nymph (pkg/container/image.go and getImage in *)
(* srv/nymph/server.go): an archive is unpacked, entry by entry, into a    *)
(* directory below RootDir, and the image is remembered under its name     *)
(* until the nymph ends.  The actions are parts of the actions of Node.    *)
(*                                                                         *)
(* Data: an image stands for its path and the name hashed from it; the     *)
(* names within an archive are members of a set; what a directory holds is *)
(* the number of the entry that made it.  A path where there is no archive *)
(* is an archive without entries: both end in an error.                    *)
(***************************************************************************)
EXTENDS Naturals, Sequences

CONSTANTS
    Image, NoImage,
    Archive,            \* the entries of each image's archive
    Path,               \* the names of files and directories in archives
    Base, Config, Rootfs \* "./", config.json, and the root that it names

Kinds == {"dir", "file", "symlink", "link", "other"}
Entry == [kind : Kinds, name : Path, in : Path, to : Path]

ASSUME ArchiveAssumption ==
    /\ NoImage \notin Image
    /\ {Base, Config, Rootfs} \subseteq Path
    /\ Archive \in [Image -> Seq(Entry)]
    /\ \A i \in Image : \A j, k \in DOMAIN Archive[i] :
          Archive[i][j].name = Archive[i][k].name => j = k

VARIABLES
    images,         \* Nymph.images
    tree,           \* per image and path: the entry that is unpacked there, or 0
    unpacking,      \* the image that NewImage unpacks, under imagesMutex
    at              \* its next entry

imageVars == <<images, tree, unpacking, at>>

NoTree == [i \in Image |-> [p \in Path |-> 0]]

ImagesInit ==
    /\ images = {}
    /\ tree = NoTree
    /\ unpacking = NoImage
    /\ at = 1

\* What is left in memory when the process is gone: nothing.
ForgetImages == images' = {} /\ unpacking' = NoImage /\ at' = 1

-----------------------------------------------------------------------------
\* getImage of an image that is not remembered: NewImage begins.
BeginImage(i) ==
    /\ i \notin images
    /\ unpacking' = i
    /\ at' = 1
    /\ UNCHANGED <<images, tree>>

\* Can entry k of image i be created?  Mkdir, Symlink and Link refuse a name
\* that exists, and a file is truncated; all need the directory they are in.
Fits(i, k) ==
    LET e == Archive[i][k] IN
    /\ e.kind # "other"
    /\ e.name # Base => tree[i][e.in] # 0 /\ Archive[i][tree[i][e.in]].kind = "dir"
    /\ e.kind # "file" => tree[i][e.name] = 0
    /\ e.kind = "link" => tree[i][e.to] # 0

\* unpackImage: the next entry.
Unpack ==
    /\ unpacking # NoImage
    /\ at \in DOMAIN Archive[unpacking]
    /\ Fits(unpacking, at)
    /\ tree' = [tree EXCEPT ![unpacking][Archive[unpacking][at].name] = at]
    /\ at' = at + 1
    /\ UNCHANGED <<images, unpacking>>

\* readSpec finds the configuration.
HasSpec(i) == tree[i][Config] # 0 /\ Archive[i][tree[i][Config]].kind = "file"

\* The archive is at its end.
Unpacked == at \notin DOMAIN Archive[unpacking]

\* Mutant: the image is remembered before it is read.
RememberUnread ==
    /\ unpacking # NoImage
    /\ HasSpec(unpacking)
    /\ images' = images \cup {unpacking}
    /\ unpacking' = NoImage
    /\ UNCHANGED <<tree, at>>

\* NewImage returns the image, and getImage remembers it.
Remember ==
    /\ unpacking # NoImage
    /\ Unpacked
    /\ HasSpec(unpacking)
    /\ images' = images \cup {unpacking}
    /\ unpacking' = NoImage
    /\ UNCHANGED <<tree, at>>

\* NewImage cannot go on.
Stuck ==
    /\ unpacking # NoImage
    /\ IF Unpacked THEN ~ HasSpec(unpacking) ELSE ~ Fits(unpacking, at)

\* The loop of _Close: Image.Close removes the files, the map stays.
RemoveImages == tree' = [i \in Image |-> IF i \in images THEN NoTree[i] ELSE tree[i]]

-----------------------------------------------------------------------------
ImagesTypeOK ==
    /\ images \subseteq Image
    /\ tree \in [Image -> [Path -> Nat]]
    /\ unpacking \in Image \cup {NoImage}
    /\ at \in Nat \ {0}

\* An archive that NewImage can make an image of, given an empty directory.
Sound(i) ==
    /\ \A k \in DOMAIN Archive[i] :
          LET e == Archive[i][k] IN
          /\ e.kind # "other"
          /\ e.name = Base \/ \E j \in 1 .. k - 1 :
                Archive[i][j].kind = "dir" /\ Archive[i][j].name = e.in
          /\ e.kind = "link" => \E j \in 1 .. k - 1 : Archive[i][j].name = e.to
    /\ \E k \in DOMAIN Archive[i] :
          Archive[i][k].kind = "file" /\ Archive[i][k].name = Config

\* What the archive of image i holds.
Contents(i) ==
    [p \in Path |-> IF \E k \in DOMAIN Archive[i] : Archive[i][k].name = p
                    THEN CHOOSE k \in DOMAIN Archive[i] : Archive[i][k].name = p
                    ELSE 0]
=============================================================================
