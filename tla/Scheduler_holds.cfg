CONSTANTS
    p = p
    q = q
    a = a
    b = b
    l1 = l1
    c = c
    Paths = {p}
    Workspaces = {a}
    Discovery = Discovery
    Callers = {c}
    NoDigests = NoDigests
    NoAttempt = NoAttempt
    NotInEffect = NotInEffect
    MaxCounted = 2
    HoldCount = 2
    Inside <- InsideOf
    JobWrites <- AllWrite
    Editable = {p}
    Lists = {l1}
    Reverts = FALSE
    MaxRevision = 3
    MaxTouches = 0
    MaxFailures = 0
    MaxReports = 1
SPECIFICATION FairSpec
INVARIANTS HeldPastNoEdit
PROPERTIES NoHoldOnReported HoldsEnd
