CONSTANTS
    Parts = {"start"}
    Starts = {s1, s2, s3}
    Left = Left
    None = None
    MaxAtOnce = 3
    Conns = {"c1", "c2"}
    Version <- MCVersion
    Worktrees = {"w1", "w2"}
    WorkspaceSet = {"p"}
    Defects = {"d1", "d2"}
    InitialFiles <- OldFiles
    MaxWrites = 2
    MaxReads = 2
    MaxCrashes = 1
    Wrappers = {1, 2, 3}
    LaneOf <- MCLaneOf
    Acquirers = {3}
    StaleAfter = 1
    OrphanLimit = 2
    MaxTime = 3
    Budgets <- MCBudgets
    Nothing = Nothing
    Lanes = {l1, l2}
    Paths = {"src", "docs", "docs/a"}
    Covered <- MCCovered
    Owned = {"docs"}
    MaxCalls = 4
    Nobody = Nobody
SPECIFICATION PartsSpec
PROPERTY NoLiveSocketUnlinked
CHECK_DEADLOCK FALSE
