SPECIFICATION Spec
CONSTANTS
    a = a
    b = b
    pre = pre
    final = final
    other = other
    NoFile = NoFile
    NoSession = NoSession
    NoImage = NoImage
    Session <- ThreeSessions
    donorOf <- donors
    imageOf <- images
    stateOf <- states
    filesOf <- files
    sizeOf <- sizes
    launches <- relaunch
    baseOf <- bases
    Name <- MCName
    Links <- MCLinks
    MaxFaults = 1
    TornWrites = FALSE
INVARIANT LaunchesOwnImage
CHECK_DEADLOCK FALSE
