CONSTANTS
    Parts = {"discovery", "tree"}
    Paths = {p1, p2}
    Contents = {a}
    Absent = Absent
    Jobs = {Mark, Guard, Settler}
    Mark = Mark
    Guard = Guard
    Settler = Settler
    Reader = Reader
    NoDigests = NoDigests
    MaxWrites = 1
    MaxClock = 1
    MaxRequests = 1
    MaxFailures = 1
    MaxNamed = 1
    MaxDisturbances = 1
    TreeChanges = 3
    TreeFailures = 1
    TreeLists = 1
    TreeDisturbances = 3
    None = None
SPECIFICATION PartsSpec
INVARIANTS BindingIsSound HeldIsTrue
SYMMETRY Symmetry
CHECK_DEADLOCK FALSE
