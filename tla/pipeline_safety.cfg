\* Publishes, unpublishes and deletions, with failures and crashes:
\* the lock, the stamps, the bumps and the two slots.
CONSTANTS
    Rows = {r1}
    Tables = {t1}
    Slugs = {s1, s2}
    Times = {w1}
    NoTime = NoTime
    Ops = {o1, o2}
    NoRow = NoRow
    Home = Home
    NoFile = NoFile
    Kinds = {"site", "row", "status", "delete", "pluginDelete", "edit"}
    Failures = TRUE
    Crashes = TRUE
    MaxVersion = 2
    MaxGen = 2
SPECIFICATION Spec
SYMMETRY Symmetry
INVARIANTS
    TypeOK
    WindowsDisjoint
    StampIsNextVersion
    RouteChangesBumped
    BakesOffline
    WritesOnline
PROPERTIES
    LiveSiteSpec
CHECK_DEADLOCK FALSE
