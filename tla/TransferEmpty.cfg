SPECIFICATION Spec
CONSTANTS
    a = a
    b = b
    pre = pre
    final = final
    other = other
    NoFile = NoFile
    NoSession = NoSession
    NoImage = NoImage
    Session <- ThreeSessions
    donorOf <- donors
    imageOf <- images
    stateOf <- states
    filesOf <- files
    sizeOf <- sizesWithEmpty
    launches <- relaunch
    baseOf <- bases
    Name <- MCName
    Links <- MCLinks
    MaxFaults = 0
    TornWrites = FALSE
INVARIANT NothingUnfinished
CHECK_DEADLOCK FALSE
