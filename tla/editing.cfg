\* Two sessions and two saves at a time over two pages, with lost answers, remounts and reloads.
CONSTANTS
    Pages = {p1, p2}
    Slugs = {Home, s1}
    Home = Home
    Parked = Parked
    Sessions = {e1, e2}
    Saves = {v1, v2}
    None = None
    MaxEdits = 2
    MaxTurns = 1
SPECIFICATION Spec
SYMMETRY Symmetry
INVARIANTS
    TypeOK
    RosterSound
    ValidSavesCommit
    EditsAccounted
PROPERTIES
    OthersPagesKept
CHECK_DEADLOCK FALSE
