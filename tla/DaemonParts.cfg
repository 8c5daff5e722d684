CONSTANTS
    Parts = {"executor", "builds", "served"}
    MaxJobs = 3
    MaxErrors = 2
    NoReply = NoReply
    NoBuild = NoBuild
    WaitsThrough = 2
    MaxRevision = 2
    MaxEvents = 1
    MaxDiscoveries = 2
    MaxFailures = 1
    MaxWatches = 1
    Clients = {c1, c2}
    Pipelining = {c1}
    MaxUnanswered = 2
    MaxLines <- MCMaxLines
    MayFail = {"builds", "executor", "inputs"}
    Unready = Unready
SPECIFICATION PartsSpec
INVARIANTS NothingOutlivesJob OutcomeIsOwn BuildsAreOwn AnswersMatch StoreClosesLast
PROPERTIES WaitsEnd
CHECK_DEADLOCK FALSE
