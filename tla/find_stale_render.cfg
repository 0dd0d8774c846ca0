\* One page, one change.
CONSTANTS
    Writers = {w1}
    Requests = {r1}
    Keys = {k1}
    MaxEntries = 1
    MaxChanges = 1
    None = None
SPECIFICATION Spec
INVARIANTS
    ResolutionIsFresh
