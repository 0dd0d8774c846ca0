\* Two hosts on Postgres, either of which may stop for good, with failing
\* queries for the lock, sessions that end and failing publishes and releases.
CONSTANTS
    Rows = {r1}
    Tables = {t1}
    Slugs = {s1}
    Times = {1, 2}
    NoTime = NoTime
    NoRow = NoRow
    Hosts = {h1, h2}
    Ticks = {k1}
    Conns = {c1, c2}
    Postgres = TRUE
    Failures = TRUE
    Crashes = TRUE
    LockErrors = TRUE
    SessionEnds = TRUE
    BatchLimit = 1
    MaxTime = 2
    MaxHolds = 2
    MaxVersions = 1
SPECIFICATION FairSpec
PROPERTIES
    DueRowsLeave
CHECK_DEADLOCK FALSE
