CONSTANTS
    p = p
    q = q
    a = a
    b = b
    l1 = l1
    c = c
    Paths = {p, q}
    Workspaces = {a, b}
    Discovery = Discovery
    Callers = {}
    NoDigests = NoDigests
    NoAttempt = NoAttempt
    NotInEffect = NotInEffect
    MaxCounted = 1
    HoldCount = 3
    Inside <- InsideOf
    JobWrites <- RunsOfAWrite
    Editable = {q}
    Lists = {l1}
    Reverts = FALSE
    MaxRevision = 1
    MaxTouches = 1
    MaxFailures = 1
    MaxReports = 0
SPECIFICATION Spec
INVARIANTS AtMostOnceMore NothingDueForgotten
PROPERTY KeptRunIsSound
