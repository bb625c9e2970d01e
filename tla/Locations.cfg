SPECIFICATION Spec
CONSTANTS
    r1 = r1
    r2 = r2
    h1 = h1
    h2 = h2
    h3 = h3
    c1 = c1
    c2 = c2
    c3 = c3
    Rank = {r1, r2}
    Host = {h1, h2}
    Command = {c1, c2}
    NoRank = NoRank
    NoHost = NoHost
    Schedules = TRUE
    MaxRuns = 3
    MaxMigrations = 2
    MaxEnds = 1
INVARIANTS TypeOK Findable SchedulerGoesOn
PROPERTY RunsOnce
SYMMETRY Symmetry
CHECK_DEADLOCK FALSE
