CONSTANTS
    Paths = {p1}
    Contents = {a, b}
    Absent = Absent
    Jobs = {j1}
    Reader = Reader
    NoDigests = NoDigests
    MaxWrites = 1
    MaxClock = 1
    MaxRequests = 1
    MaxFailures = 1
    MaxNamed = 1
SPECIFICATION FairSpec
INVARIANTS VerdictSound ViewIsTrue
PROPERTIES VerdictComesInTime
CHECK_DEADLOCK FALSE
