\* Publishes and unpublishes that meet no error: what the slot serves once all is quiet.
CONSTANTS
    Rows = {r1, r2}
    Tables = {t1}
    Slugs = {s1, s2}
    Times = {w1}
    NoTime = NoTime
    Ops = {o1, o2, o3}
    NoRow = NoRow
    Home = Home
    NoFile = NoFile
    Kinds = {"site", "row", "status"}
    Failures = FALSE
    Crashes = FALSE
    MaxVersion = 4
    MaxGen = 4
SPECIFICATION Spec
SYMMETRY Symmetry
INVARIANTS
    RetractedNotServed
    ServedIsCurrent
CHECK_DEADLOCK FALSE
