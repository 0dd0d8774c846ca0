\* Two hosts on Postgres with pools of two, overlapping ticks, failures and crashes.
CONSTANTS
    Rows = {r1, r2}
    Tables = {t1}
    Slugs = {s1}
    Times = {1}
    NoTime = NoTime
    NoRow = NoRow
    Hosts = {h1, h2}
    Ticks = {k1, k2}
    Conns = {c1, c2}
    Postgres = TRUE
    Failures = TRUE
    Crashes = TRUE
    LockErrors = FALSE
    SessionEnds = FALSE
    BatchLimit = 1
    MaxTime = 1
    MaxHolds = 2
    MaxVersions = 1
SPECIFICATION Spec
SYMMETRY Symmetry
INVARIANTS
    TypeOK
    OneLeader
CHECK_DEADLOCK FALSE
