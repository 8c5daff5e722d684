SPECIFICATION FairSpec
CONSTANTS
    a = a
    b = b
    w1 = w1
    w2 = w2
    Absent = Absent
    None = None
    Discovery = Discovery
    Paths = {a, b}
    Contents = {1, 2}
    Workspaces = {w1, w2}
    Waiters = {x}
    Named = a
    Graphs <- MCGraphs
    MaxDisturbances = 2
    x = x
CHECK_DEADLOCK FALSE
INVARIANTS BoundSeesEdit
PROPERTIES OutcomeIsTrue AnsweredByMoves
