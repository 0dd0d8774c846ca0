\* Three pages in a cache of two, with publishes and retractions, under fairness.
CONSTANTS
    Writers = {w1}
    Requests = {r1, r2}
    Keys = {k1, k2, k3}
    MaxEntries = 2
    MaxChanges = 1
    None = None
SPECIFICATION FairSpec
INVARIANTS
    TypeOK
    DataIsFresh
    OneRenderPerKey
    CachedAreRecent
PROPERTIES
    RequestsAnswered
