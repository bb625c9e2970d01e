SPECIFICATION Spec
CONSTANTS
    r1 = r1
    r2 = r2
    r300 = r300
    i1 = i1
    bad = bad
    base = base
    config = config
    rootfs = rootfs
    library = library
    Rank = {r1, r2, r300}
    NoRank = NoRank
    Addressable <- MCRank
    Image = {i1, bad}
    NoImage = NoImage
    Archive <- MCArchive
    Path <- MCPath
    Base = base
    Config = config
    Rootfs = rootfs
    MaxStarts = 2
SYMMETRY Symmetry
INVARIANTS TypeOK RunningIsConnected CleanExit RememberedIsWhole SoundUnpacks
CHECK_DEADLOCK FALSE
