CONSTANTS
    Parts = {"start", "store", "lease", "suspension", "claims"}
    Starts = {s1, s2}
    Left = Left
    None = None
    MaxAtOnce = 2
    Conns = {"c1", "c2"}
    Version <- MCVersion
    Worktrees = {"w1", "w2"}
    WorkspaceSet = {"p"}
    Defects = {"d1", "d2"}
    InitialFiles <- OldFiles
    MaxWrites = 2
    MaxReads = 2
    MaxCrashes = 1
    Wrappers = {1, 2, 3}
    LaneOf <- MCLaneOf
    Acquirers = {3}
    StaleAfter = 1
    OrphanLimit = 2
    MaxTime = 3
    Budgets <- MCBudgets
    Nothing = Nothing
    Lanes = {l1, l2}
    Paths = {"src", "docs", "docs/a"}
    Covered <- MCCovered
    Owned = {"docs"}
    MaxCalls = 4
    Nobody = Nobody
SPECIFICATION PartsSpec
INVARIANTS RunningIsFound AnswerIsSnapshot ClaimsAreOwn
PROPERTIES OneWriter NeverLost OneRunInTurn
CHECK_DEADLOCK FALSE
