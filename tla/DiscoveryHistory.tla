-------------------------- MODULE DiscoveryHistory --------------------------
(***************************************************************************)
(* The last discovery begun, the retry and the once-more discovery owed,   *)
(* and the hold on a discovery that changes its own inputs.  Models        *)
(* packages/daemon/src/daemon/discovery-history.ts.                        *)
(*                                                                         *)
(* Time: a once-more discovery waits out the resolution of file times, and *)
(* a change that moves the revision meanwhile starts the wait again, so    *)
(* cooling says only whether that wait is not over.                        *)
(***************************************************************************)
EXTENDS RunHistory

CONSTANT
    NotInEffect     \* no discovery in effect

VARIABLES
    dAttempt,       \* #attempt: the last discovery begun
    dRetry,         \* #retry: whether the periodic reconciliation's retry is owed
    dDecided,       \* #decided: the count the latest plan decided
    dHeld,          \* #held: the paths the discovery is held by, {} while it is not held
    dLatest,        \* #latestHold: the paths the latest hold named, {} before any
    cooling         \* whether the once-more discovery's wait is not over

discoveryHistoryVars == <<dAttempt, dRetry, dDecided, dHeld, dLatest, cooling>>

\* unedited
Unedited(c) == ~Edited(c, Paths)

DiscoveryCount(inEffect, c) ==
    IF inEffect = NotInEffect THEN NoCount
    ELSE IF inEffect.current \/ ~inEffect.fingerprinted \/ dAttempt = NoAttempt THEN NoCount
    ELSE IF ~dAttempt.stored \/ ~Unedited(c) \/ c.byJobs = {} THEN NoCount
    ELSE FollowOn(dAttempt.startCount, c.byJobs)

\* #holdAt: held at the bound, or at a count of 1 that changed a path the latest hold named.
HoldAt(count) ==
    CASE count.count >= HoldCount -> count.shared
      [] count.count = 1 -> dLatest \cap count.shared
      [] OTHER -> {}

\* decide, at a plan that reads the discovery in effect and the discovery's record c.
DiscoveryDecision(inEffect, c) ==
    IF dHeld # {} /\ inEffect # NotInEffect /\ Unedited(c)
    THEN [count |-> dDecided, held |-> dHeld, latest |-> dLatest, retry |-> dRetry]
    ELSE LET count == DiscoveryCount(inEffect, c)
             held == HoldAt(count)
         IN  [count |-> count, held |-> held,
              latest |-> IF held = {} THEN dLatest ELSE held,
              retry |-> dRetry /\ held = {}]

\* armRetry: never for a held discovery.
ArmedRetry(held, listsFailed) ==
    held = {} /\ (listsFailed \/ (dAttempt # NoAttempt /\ ~dAttempt.stored))

\* due, at a plan that decided held and retry: "no", "wait" or "now".
DiscoveryDue(revision, inEffect, held, retry) ==
    LET notCurrent == inEffect = NotInEffect \/ ~inEffect.current
        owed == dAttempt # NoAttempt /\ dAttempt.onceMore
        wait == IF owed /\ cooling THEN "wait" ELSE "now"
    IN  CASE held # {} -> "no"
          [] held = {} /\ (dAttempt = NoAttempt \/ dAttempt.revision # revision) ->
                IF retry \/ notCurrent THEN wait ELSE "no"
          [] held = {} /\ dAttempt # NoAttempt /\ dAttempt.revision = revision ->
                IF owed /\ notCurrent THEN wait ELSE IF retry THEN "now" ELSE "no"

DiscoveryAttempt(revision, stored, onceMore, startCount) ==
    [revision |-> revision, stored |-> stored, onceMore |-> onceMore, startCount |-> startCount]

\* Whether began starts the once-more discovery.
IsOnceMore(revision) ==
    dAttempt # NoAttempt /\ dAttempt.onceMore /\ dAttempt.revision = revision

DiscoveryHistoryInit ==
    /\ dAttempt = NoAttempt /\ dRetry = FALSE /\ dDecided = NoCount
    /\ dHeld = {} /\ dLatest = {} /\ cooling = FALSE

DiscoveryAttemptType(Revisions) ==
    [revision : Revisions, stored : BOOLEAN, onceMore : BOOLEAN, startCount : CountType]

DiscoveryHistoryType(Revisions) ==
    /\ dAttempt \in DiscoveryAttemptType(Revisions) \cup {NoAttempt}
    /\ dRetry \in BOOLEAN /\ cooling \in BOOLEAN
    /\ dDecided \in CountType
    /\ dHeld \in SUBSET Paths /\ dLatest \in SUBSET Paths
=============================================================================
