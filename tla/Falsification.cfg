SPECIFICATION FairSpec
CONSTANTS
    None = None
    d1 = d1
    d2 = d2
    w1 = w1
    i1 = i1
    Definitions = {d1, d2}
    Workspaces = {w1}
    Home <- MCHome
    Order <- MCOrder
    Installs = {i1}
    InstallOf <- MCInstallOf
    Editions = {0, 1}
    MaxEdits = 2
    MaxJobDefinitions = 2
INVARIANTS EvidenceSound WaitingIsTold
PROPERTIES ComesToRest
CHECK_DEADLOCK FALSE
