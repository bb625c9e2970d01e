SPECIFICATION Spec
CONSTANTS
    h1 = h1
    h2 = h2
    h3 = h3
    r1 = r1
    r2 = r2
    A = A
    B = B
    C = C
    Alias = Alias
    Down = Down
    Host = {h1, h2}
    Name = {A, B, Alias, Down}
    hostname <- MCHostname2
    nodeOf <- MCNode
    Rank = {r1, r2}
    i1 = i1
    Image = {i1}
    imageOf <- MCOneImage
    Types <- AllTypes
    LosesDonor = TRUE
    MaxJobs = 2
    MaxFaults = 1
    MaxWork = 1
    NoRank = NoRank
    NoName = NoName
    NoHost = NoHost
    NoCont = NoCont
    NoImage = NoImage
    Absent = Absent
    Partial = Partial
INVARIANTS TypeOK SendHoldsContainer
CHECK_DEADLOCK FALSE
