\* The tree of a page, a media asset, the tool bridge, a plugin schedule and
\* a plugin's worker, one at a time; the last three under fairness.
CONSTANTS
    Ids = {root, n1, n2, n3, n4}
    Root = root
    MaxSelection = 2
    Adapters = {disk, bucket}
    Builtin = disk
    Replaces = {r1}
    Migrations = {m1}
    Purges = {d1}
    First = First
    Crashes = TRUE
    Streams = {s1, s2}
    Calls = {c1, c2}
    Ticks = {t1}
    Clicks = {press}
    Lost = Lost
    Cap = 2
    MaxFailures = 2
    MaxLate = 1
    MaxCrashes = 1
    Operators = {o1}
    Recoveries = {v1}
    Rpcs = {q1}
    Workers = {w1, w2, w3, w4}
    Threshold = 2
    NoParent = NoParent
    NoObject = NoObject
    NoStream = NoStream
    NoClaim = NoClaim
    NoWorker = NoWorker
SPECIFICATION FairSpec
INVARIANTS
    TypeOK
    TreeSound
    BytesWhereNamed
    TeardownReachesAll
PROPERTIES
    CallsSettle
    NewestEditorCalled
    DueSchedulesRun
    NobodyWaitsForever
CHECK_DEADLOCK FALSE
