\* Requests with failures, under fairness: every request is answered.
CONSTANTS
    Rows = {r1}
    Tables = {t1, t2}
    Slugs = {s1, s2}
    Times = {w1}
    NoTime = NoTime
    Ops = {o1, o2}
    NoRow = NoRow
    Home = Home
    NoFile = NoFile
    Kinds = {"site", "row", "status", "delete", "pluginDelete", "edit", "move", "schedule"}
    Failures = TRUE
    Crashes = FALSE
    MaxVersion = 2
    MaxGen = 1
SPECIFICATION FairSpec
PROPERTIES
    RequestsFinish
CHECK_DEADLOCK FALSE
