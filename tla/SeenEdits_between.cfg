CONSTANTS
    Parts = {"discovery"}
    Paths = {p1}
    Contents = {a, b}
    Absent = Absent
    Jobs = {Mark, Guard, Settler}
    Mark = Mark
    Guard = Guard
    Settler = Settler
    Reader = Reader
    NoDigests = NoDigests
    MaxWrites = 2
    MaxClock = 1
    MaxRequests = 0
    MaxFailures = 0
    MaxNamed = 1
    MaxDisturbances = 1
    TreeChanges = 3
    TreeFailures = 1
    TreeLists = 1
    TreeDisturbances = 3
    None = None
SPECIFICATION PartsSpec
INVARIANT BoundToStart
SYMMETRY Symmetry
CHECK_DEADLOCK FALSE
