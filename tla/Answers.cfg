CONSTANTS
    Parts = {"none", "answers", "job", "journal", "hook"}
    e1 = e1
    e2 = e2
    f1 = f1
    f2 = f2
    Experiments <- MCExperiments
    FileOf <- MCFileOf
    Files = {f1, f2}
    StartChecks = {"ok", "no-module"}
    Troubles <- MCTroubles
    MaxFlakes = 1
    None = None
    Garbled = Garbled
    Unreadable = Unreadable
    Refused = Refused
    ModulesOf <- MCModulesOf
    Initial <- MCInitial
    Texts <- MCTexts
    NameOf <- MCNameOf
    MaxEdits = 2
    FirstDefinition <- Definition0
    DefinitionValues <- MCDefinitionValues
    OccursIn <- MCOccursIn
    LeadsOutside = {}
    Verdicts = {"detected", "survived"}
    ErrorNames = {"E"}
    Keys = {k1, k2}
    Standings = {passed, failed}
    Absent = absent
    Callers = {c1}
    MaxRecorded = 3
    MaxSequence = 4
    MaxLives = 2
    Agents <- HookAgents
    MainAgent = "main"
    StandingWriters <- HookStanding
    BatchesOf <- HookBatches
    Deleted <- HookDeleted
    MaxPaths = 2
    Age = 1
    MaxTime = 3
    MaxRuns = 3
    MaxAtOnce = 2
    MaxChanges = 1
SPECIFICATION PartsSpec
INVARIANTS StoredIsWritten StagesExactly SelectionSound ScanOmitsNothingUnsaid CurrentIsTrue VerifiedHolds JobVerdictsTrue NetChangeIsExact ExpiresAtBound EditsRemembered ChangesAreTold
CHECK_DEADLOCK FALSE
