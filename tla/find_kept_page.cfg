\* One session: the editor is left and entered again, and a page is deleted.
CONSTANTS
    Pages = {p1, p2}
    Slugs = {Home, s1}
    Home = Home
    Parked = Parked
    Sessions = {e1}
    Saves = {v1}
    None = None
    MaxEdits = 1
    MaxTurns = 1
SPECIFICATION Spec
PROPERTIES
    DeletionsConveyed
CHECK_DEADLOCK FALSE
