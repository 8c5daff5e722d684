----------------------------- MODULE RunHistory -----------------------------
(***************************************************************************)
(* The last run begun of each workspace, the count of times in a row it    *)
(* became due only through the daemon's own jobs' changes to one input,    *)
(* and the hold at the count's bound.  Models                              *)
(* packages/daemon/src/daemon/run-history.ts.                              *)
(***************************************************************************)
EXTENDS ChangeRecord

CONSTANTS
    HoldCount,      \* SELF_CHANGE_HOLD_COUNT
    NoAttempt       \* a workspace no run of which has begun, or a discovery never begun

ASSUME HistoryAssumption == HoldCount \in Nat \ {0, 1}

VARIABLES
    attempts,       \* #attempts: the last run begun of each workspace
    decided,        \* #decided: the count the latest round decided
    heldRuns        \* #held: the paths a held workspace is held by, {} while it is not held

runHistoryVars == <<attempts, decided, heldRuns>>

NoCount == [count |-> 0, shared |-> {}]

\* followOn: one more than base when a path it shares changed this time too.
FollowOn(base, caused) ==
    IF base.count > 0 /\ base.shared \cap caused # {}
    THEN [count |-> base.count + 1, shared |-> base.shared \cap caused]
    ELSE [count |-> 1, shared |-> caused]

\* #edited: whether an edit reached the scope since the subject's last job began; no record reads as one.
Edited(c, scope) == ~c.began \/ c.everywhere \/ c.edits \cap scope # {}

StoredNothing(w) == attempts[w] # NoAttempt /\ attempts[w].nothingStored

RanAlready(w, revision, modules) ==
    /\ attempts[w] # NoAttempt
    /\ attempts[w].revision = revision /\ attempts[w].modules = modules
    /\ ~attempts[w].rerunOwed

\* Mutant of NextCount: an edit does not start the count again.
NextCountEdited(w, c, due) ==
    IF attempts[w] = NoAttempt \/ due.retryOnly \/ ~due.fingerprinted \/ ~attempts[w].qualifies
          \/ c.byJobs \cap due.scope = {}
    THEN NoCount
    ELSE FollowOn(attempts[w].startCount, c.byJobs \cap due.scope)

\* #nextCount of a workspace found due, whose record is c and whose inputs by the round's placement are due.scope.
NextCount(w, c, due) ==
    IF attempts[w] = NoAttempt \/ due.retryOnly \/ ~due.fingerprinted
    THEN NoCount
    ELSE IF ~attempts[w].qualifies \/ Edited(c, due.scope) \/ c.byJobs \cap due.scope = {}
         THEN NoCount
         ELSE FollowOn(attempts[w].startCount, c.byJobs \cap due.scope)

\* Mutant of Decision: a hold ends only when the count is decided again, which a held workspace's never is.
DecisionStays(w, c, due) ==
    IF heldRuns[w] # {}
    THEN [count |-> decided[w], held |-> heldRuns[w]]
    ELSE LET next == NextCount(w, c, due)
         IN  [count |-> next, held |-> IF next.count < HoldCount THEN {} ELSE next.shared]

\* decide: the count and the hold of a workspace found due, releasing its hold first when an edit reached its inputs.
Decision(w, c, due) ==
    IF heldRuns[w] # {} /\ ~Edited(c, due.scope)
    THEN [count |-> decided[w], held |-> heldRuns[w]]
    ELSE LET next == NextCount(w, c, due)
         IN  [count |-> next, held |-> IF next.count < HoldCount THEN {} ELSE next.shared]

\* uninterruptible: one more count would hold the workspace.
Uninterruptible(w) == decided'[w].count = HoldCount - 1

Attempt(revision, modules, startCount) ==
    [revision |-> revision, modules |-> modules, nothingStored |-> TRUE,
     rerunOwed |-> FALSE, startCount |-> startCount, qualifies |-> FALSE]

\* Whether began starts the run the workspace's last one is owed.
IsRerun(w, revision, modules) ==
    /\ attempts[w] # NoAttempt
    /\ attempts[w].rerunOwed
    /\ attempts[w].revision = revision /\ attempts[w].modules = modules

\* qualifies: interrupted, stored invalidated, or stored under its fingerprint.
Qualifies(report) ==
    report.interrupted \/ (report.stored /\ report.verdict \in {"kept", "changedInside", "moved"})

\* Mutant of OwedAgain: the once-more run stays owed after it ran.
OwedStays(job, report, revision) == report.revision = revision /\ (report.changed \/ job.isRerun)

\* #ended: a run whose inputs changed at a revision the change did not move runs once more.
OwedAgain(job, report, revision) ==
    report.changed /\ report.revision = revision /\ ~job.isRerun

\* Mutant of EndedAttempt: the run counts as tried at the revision it ended at.
EndedAttemptNow(job, report, revision) ==
    [revision |-> revision, modules |-> job.modules, nothingStored |-> ~report.stored,
     rerunOwed |-> OwedAgain(job, report, revision), startCount |-> job.startCount,
     qualifies |-> Qualifies(report)]

EndedAttempt(job, report, revision) ==
    [revision |-> report.revision, modules |-> job.modules, nothingStored |-> ~report.stored,
     rerunOwed |-> OwedAgain(job, report, revision), startCount |-> job.startCount,
     qualifies |-> Qualifies(report)]

RunHistoryInit ==
    /\ attempts = [w \in Workspaces |-> NoAttempt]
    /\ decided = [w \in Workspaces |-> NoCount]
    /\ heldRuns = [w \in Workspaces |-> {}]

CountType == [count : 0..HoldCount, shared : SUBSET Paths]

AttemptType(Revisions, Lists) ==
    [revision : Revisions, modules : Lists, nothingStored : BOOLEAN, rerunOwed : BOOLEAN,
     startCount : CountType, qualifies : BOOLEAN]

RunHistoryType(Revisions, Lists) ==
    /\ attempts \in [Workspaces -> AttemptType(Revisions, Lists) \cup {NoAttempt}]
    /\ decided \in [Workspaces -> CountType]
    /\ heldRuns \in [Workspaces -> SUBSET Paths]
=============================================================================
