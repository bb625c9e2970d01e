SPECIFICATION FairSpec
CONSTANTS
    h1 = h1
    h2 = h2
    h3 = h3
    r1 = r1
    r2 = r2
    A = A
    B = B
    C = C
    Alias = Alias
    Down = Down
    Host = {h1, h2}
    Name = {A, B}
    hostname <- MCHostname2
    nodeOf <- MCNode
    Rank = {r1, r2}
    i1 = i1
    Image = {i1}
    imageOf <- MCOneImage
    Types <- AllTypes
    LosesDonor = FALSE
    MaxJobs = 3
    MaxFaults = 0
    MaxWork = 1
    NoRank = NoRank
    NoName = NoName
    NoHost = NoHost
    NoCont = NoCont
    NoImage = NoImage
    Absent = Absent
    Partial = Partial
PROPERTIES NoFaultNoFailure ControlReturns
CHECK_DEADLOCK FALSE
