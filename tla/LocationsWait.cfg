SPECIFICATION FairSpec
CONSTANTS
    r1 = r1
    r2 = r2
    h1 = h1
    h2 = h2
    h3 = h3
    c1 = c1
    c2 = c2
    c3 = c3
    Rank = {r1}
    Host = {h1, h2}
    Command = {c1}
    NoRank = NoRank
    NoHost = NoHost
    Schedules = FALSE
    MaxRuns = 1
    MaxMigrations = 1
    MaxEnds = 0
PROPERTY NymphsServe
CHECK_DEADLOCK FALSE
