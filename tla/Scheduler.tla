----------------------------- MODULE Scheduler ------------------------------
(***************************************************************************)
(* What the daemon discovers and runs, and when: plans once the inputs     *)
(* have settled, one job at a time, and each job's way from its plan to    *)
(* its record.  Models packages/daemon/src/daemon: scheduler.ts,           *)
(* due-workspaces.ts, the recorded round of workspace-schedule.ts, the     *)
(* judgment of run-judgment.ts and #discover, #run and #settleRun of       *)
(* lifecycle.ts.                                                           *)
(*                                                                         *)
(* The tracker and the dependency builds appear by what they promise: a    *)
(* change of a digest raises the revision and is recorded in the open      *)
(* window, and a build ends at a revision narrowed or widened.  A digest   *)
(* is the revision that wrote it.  Stops, falsification looks and the      *)
(* defensive refusal of an unconfirmed workspace are left out.             *)
(***************************************************************************)
EXTENDS DiscoveryHistory

CONSTANTS
    Inside,         \* the inputs of each workspace a narrowed build gives it
    JobWrites,      \* the inputs each subject's job may write
    Editable,       \* the inputs somebody else may write
    Lists,          \* the lists of test modules a discovery may give
    Reverts,        \* whether a write may bring an earlier content back
    MaxRevision,    \* bound: input revisions
    MaxTouches,     \* bound: writes that leave the content as it was
    MaxFailures,    \* bound: failed steps, jobs, stores, runs and builds, lost input sets and refreshed lists
    MaxReports      \* bound: reports of edited files

ASSUME SchedulerAssumption ==
    /\ Inside \in [Workspaces -> SUBSET Paths]
    /\ JobWrites \in [Subjects -> SUBSET Paths]
    /\ Editable \subseteq Paths /\ Reverts \in BOOLEAN
    /\ MaxRevision \in Nat /\ MaxTouches \in Nat
    /\ MaxFailures \in Nat /\ MaxReports \in Nat

VARIABLES
    digests,        \* the committed content of each input
    revision,       \* the input revision
    available,      \* whether the tracker can vouch for the inputs
    build,          \* the dependency build at this revision over the discovery in effect
    discards,       \* builds the wait under way has seen discarded in a row
    periodic,       \* whether inputs.periodicReconciliations() passed #periodicSeen
    latest,         \* the latest stored run of each workspace
    record,         \* the stored discovery
    phase,          \* what the scheduler does
    roundRevision,  \* #roundRevision
    retries,        \* #retryWorkspaces
    round,          \* WorkspaceSchedule.#round
    stirred,        \* whether inputs.changed() resolved since the wait under way began
    job,            \* the job under way
    counts,         \* how much of each bound is used
    begun,          \* history: jobs of each subject begun at this revision since a retry, all of one list of modules
    relisted,       \* history: whether a run's lists were stored since the latest plan
    sinceEdit,      \* history: runs of each workspace begun since a failure or a write by somebody else
    landed,         \* history: what changed between jobs since each subject's last job began
    told,           \* history: paths reported since the job under way was begun, or in a report open then
    vouchedEdit     \* history: paths whose latest change while a job ran a caller reported in time

envVars == <<digests, revision, available, build, discards, periodic>>
storeVars == <<latest, record>>
planVars == <<roundRevision, retries>>
historyVars == <<begun, relisted, sinceEdit, landed, told, vouchedEdit>>
vars == <<recordVars, runHistoryVars, discoveryHistoryVars, envVars, storeVars,
          phase, planVars, round, stirred, job, counts, historyVars>>

Revisions == 0..MaxRevision
NoWindow == [paths |-> {}, caused |-> FALSE, start |-> NoDigests, end |-> NoDigests]
NoJob == [subject |-> Discovery, planned |-> 0, modules |-> CHOOSE l \in Lists : TRUE,
          again |-> FALSE, startCount |-> NoCount, before |-> NoAttempt, retried |-> FALSE,
          uninterruptible |-> FALSE, window |-> NoWindow, print |-> NoDigests,
          placements |-> {}, newer |-> FALSE, interruptedBy |-> {}, outcome |-> "none"]

\* A revision no job of a subject has begun at.
NoneBegun == [jobs |-> 0, modules |-> NoJob.modules]

-----------------------------------------------------------------------------
(* What a view of the inputs gives, current-inputs.ts and due-workspaces.ts *)

ViewDigests == IF available THEN digests ELSE NoDigests

\* placementOf: how the view's build places a path; "none" while that build has not ended.
Placement == IF available /\ build # "building" THEN build ELSE "none"

Scope(w, placement) == IF placement = "narrowed" THEN Inside[w] ELSE Paths

\* narrowedFingerprint: no fingerprint while the build deciding the workspace's inputs runs.
Fingerprint(w) ==
    IF Placement = "none" THEN NoDigests
    ELSE [p \in Scope(w, build) |-> digests[p]]

\* DependencyBuilds.pending
BuildPending == record # NotInEffect /\ available /\ build = "building"

\* awaitBuild has returned: no build is pending, or a second was discarded in a row during the wait.
BuildAwaited == ~BuildPending \/ discards >= 2

InEffect ==
    IF record = NotInEffect THEN NotInEffect
    ELSE [current |-> available /\ record.print = digests, fingerprinted |-> available]

\* staleReason: the latest run is not bound to the current fingerprint.
Stale(w) ==
    \/ latest[w] = NotInEffect
    \/ latest[w] # NotInEffect /\ (latest[w].print = NoDigests \/ latest[w].print # Fingerprint(w))

\* retryReason
Failed(w) == latest[w] # NotInEffect /\ latest[w].failed

RetryOwed(w) == Failed(w) \/ (StoredNothing(w) /\ Stale(w))

-----------------------------------------------------------------------------
(* The plan, scheduler.ts #plan, as functions of the state it reads.       *)

Observed == Interval(changes, last, ViewDigests)

DiscoveryPlan == DiscoveryDecision(InEffect, Observed[Discovery])

Armed == periodic

PlanRetry ==
    IF Armed THEN ArmedRetry(DiscoveryPlan.held, record # NotInEffect /\ record.failed)
    ELSE DiscoveryPlan.retry

Eligible == IF record = NotInEffect THEN {} ELSE Workspaces

PlanRetries ==
    IF Armed THEN {w \in Eligible : heldRuns[w] = {} /\ RetryOwed(w)} ELSE retries

PlanDue == DiscoveryDue(revision, InEffect, DiscoveryPlan.held, PlanRetry)

\* The workspaces #due decides: not current, or failed while a retry is owed.
Considered == {w \in Eligible : Stale(w) \/ (w \in PlanRetries /\ Failed(w))}

\* roundPlacement: widened whenever the view's build has not ended.
DueFacts(w) ==
    [retryOnly |-> ~Stale(w), fingerprinted |-> Fingerprint(w) # NoDigests,
     scope |-> Scope(w, Placement)]

RunPlan == [w \in Considered |-> Decision(w, Observed[w], DueFacts(w))]

\* #due: considered, not held, and not tried at this revision and list but for a retry.
DueRuns ==
    {w \in Considered : /\ RunPlan[w].held = {}
                        /\ w \in PlanRetries \/ ~RanAlready(w, revision, record.modules)}

\* What every plan does, up to its choice of a step.
Planning ==
    /\ phase = "quiet" /\ BuildAwaited
    /\ changes' = Observed /\ last' = ViewDigests
    /\ dDecided' = DiscoveryPlan.count /\ dHeld' = DiscoveryPlan.held
    /\ dLatest' = DiscoveryPlan.latest
    /\ roundRevision' = revision
    /\ periodic' = FALSE /\ relisted' = FALSE
    /\ UNCHANGED <<digests, revision, available, build, discards, storeVars, unread, counts, cooling, begun, sinceEdit, landed, vouchedEdit>>

\* What a plan with no discovery due decides of the workspaces.
Deciding ==
    /\ PlanDue = "no"
    /\ decided' = [w \in Workspaces |-> IF w \in Considered THEN RunPlan[w].count ELSE decided[w]]
    /\ heldRuns' = [w \in Workspaces |-> IF w \in Considered THEN RunPlan[w].held ELSE heldRuns[w]]
    /\ round' = [state |-> "planned", revision |-> revision, due |-> DueRuns]

-----------------------------------------------------------------------------
(* The steps a plan takes, scheduler.ts #step.                             *)

Pending == [state |-> "pending", revision |-> 0, due |-> {}]

\* A once-more discovery waits out the resolution of file times, or for the next change of the inputs.
PlanWait ==
    /\ Planning
    /\ PlanDue = "wait"
    /\ dRetry' = PlanRetry /\ retries' = PlanRetries
    /\ phase' = "waiting" /\ stirred' = FALSE
    /\ round' = Pending
    /\ UNCHANGED <<holding, runHistoryVars, dAttempt, job, told>>

\* The discovery is begun at the count just decided for it, as having stored nothing until it reports.
PlanDiscover ==
    /\ Planning
    /\ PlanDue = "now"
    /\ dRetry' = FALSE /\ retries' = PlanRetries
    /\ dAttempt' = DiscoveryAttempt(revision, FALSE, FALSE, DiscoveryPlan.count)
    /\ JobBegan(Discovery)
    /\ job' = [NoJob EXCEPT !.planned = revision, !.again = IsOnceMore(revision),
                             !.startCount = DiscoveryPlan.count, !.before = dAttempt,
                             !.retried = PlanRetry]
    /\ phase' = "starting"
    /\ round' = Pending
    /\ told' = Reported
    /\ UNCHANGED <<runHistoryVars, stirred>>

\* A held workspace's retry is dropped.
LeftRetries == {w \in PlanRetries : w \in Considered => RunPlan[w].held = {}}

\* The first due workspace by orderQueue, any of them here, is begun.
PlanRun(w) ==
    /\ Planning
    /\ Deciding
    /\ w \in DueRuns
    /\ dRetry' = PlanRetry /\ retries' = LeftRetries \ {w}
    /\ attempts' = [attempts EXCEPT ![w] = Attempt(revision, record.modules, RunPlan[w].count)]
    /\ JobBegan(w)
    /\ job' = [NoJob EXCEPT !.subject = w, !.planned = revision, !.modules = record.modules,
                             !.again = IsRerun(w, revision, record.modules),
                             !.startCount = RunPlan[w].count, !.before = attempts[w],
                             !.retried = w \in LeftRetries,
                             !.uninterruptible = Uninterruptible(w)]
    /\ phase' = "starting"
    /\ told' = Reported
    /\ UNCHANGED <<dAttempt, stirred>>

\* Nothing is due: #idle waits for the revision to change or a periodic reconciliation to end.
PlanIdle ==
    /\ Planning
    /\ Deciding
    /\ DueRuns = {}
    /\ dRetry' = PlanRetry /\ retries' = LeftRetries
    /\ phase' = "idle"
    /\ UNCHANGED <<holding, attempts, dAttempt, job, stirred, told>>

\* A step that throws before it planned is tried again at the next change of the inputs.
PlanFails ==
    /\ phase = "quiet" /\ BuildAwaited
    /\ counts.failures < MaxFailures
    /\ counts' = [counts EXCEPT !.failures = @ + 1]
    /\ phase' = "failed" /\ stirred' = FALSE
    /\ round' = [Pending EXCEPT !.state = "held"]
    /\ UNCHANGED <<recordVars, runHistoryVars, discoveryHistoryVars, envVars, storeVars, planVars,
                   job, historyVars>>

\* #idle, #untilChangeOrStop and the retry after a failed step: the loop quiesces and plans again.
Wake ==
    /\ \/ phase = "idle" /\ (revision # roundRevision \/ periodic)
       \/ phase = "waiting" /\ (stirred \/ ~cooling)
       \/ phase = "failed" /\ stirred
    /\ phase' = "quiet"
    /\ discards' = 0
    /\ round' = IF round.state = "held" THEN Pending ELSE round
    /\ UNCHANGED <<recordVars, runHistoryVars, discoveryHistoryVars, digests, revision, available,
                   build, periodic, storeVars, planVars, stirred, job, counts, historyVars>>

CoolDown ==
    /\ cooling
    /\ cooling' = FALSE
    /\ UNCHANGED <<recordVars, runHistoryVars, dAttempt, dRetry, dDecided, dHeld, dLatest, envVars,
                   storeVars, phase, planVars, round, stirred, job, counts, historyVars>>

-----------------------------------------------------------------------------
(* A job from its plan to its record, lifecycle.ts #discover and #run.     *)

Runs == job.subject \in Workspaces

\* #beginsNothing: the revision moved since the job was planned, so the record is as it was and the retry kept.
JobNotBegun ==
    /\ phase = "starting" /\ revision # job.planned
    /\ JobOver(job.subject)
    /\ IF Runs
       THEN /\ attempts' = [attempts EXCEPT ![job.subject] = job.before]
            /\ retries' = IF job.retried THEN retries \cup {job.subject} ELSE retries
            /\ UNCHANGED <<dAttempt, dRetry>>
       ELSE /\ dAttempt' = job.before
            /\ dRetry' = (dRetry \/ job.retried)
            /\ UNCHANGED <<attempts, retries>>
    /\ phase' = "quiet" /\ discards' = 0
    /\ job' = NoJob
    /\ told' = {}
    /\ UNCHANGED <<changes, last, unread, decided, heldRuns, dDecided, dHeld, dLatest, cooling,
                   digests, revision, available, build, periodic, storeVars, roundRevision, round, stirred, counts, begun, relisted, sinceEdit, landed,
                   vouchedEdit>>

\* One more, counted no further than one past n.
UpTo(n, count) == IF count > n THEN count ELSE count + 1

\* The inputs have settled at the planned revision: the job's window opens with the view it starts from.
JobStarts ==
    /\ phase = "starting" /\ revision = job.planned
    /\ phase' = "running"
    /\ job' = [job EXCEPT !.window = [NoWindow EXCEPT !.start = ViewDigests],
                          !.print = IF Runs THEN Fingerprint(job.subject) ELSE ViewDigests,
                          !.placements = {Placement} \ {"none"}]
    /\ landed' = [landed EXCEPT ![job.subject] = {}]
    /\ begun' = [begun EXCEPT ![job.subject] =
            [jobs |-> IF job.retried \/ @.modules # job.modules THEN 1 ELSE UpTo(2, @.jobs),
             modules |-> job.modules]]
    /\ sinceEdit' = IF Runs THEN [sinceEdit EXCEPT ![job.subject] = UpTo(HoldCount, @)]
                    ELSE sinceEdit
    /\ UNCHANGED <<recordVars, runHistoryVars, discoveryHistoryVars, envVars, storeVars, planVars,
                   round, stirred, counts, relisted, told, vouchedEdit>>

\* RunWatch #interruptIfWorthless: a newer build has ended and a narrowed one places a changed path inside.
Interrupt ==
    LET inside == job.window.paths \cap Inside[job.subject]
    IN  /\ phase = "running" /\ Runs
        /\ ~job.uninterruptible /\ job.newer /\ job.interruptedBy = {}
        /\ job.print # NoDigests
        /\ "narrowed" \in job.placements /\ inside # {}
        /\ job' = [job EXCEPT !.interruptedBy = inside]
        /\ UNCHANGED <<recordVars, runHistoryVars, discoveryHistoryVars, envVars, storeVars, phase,
                       planVars, round, stirred, counts, historyVars>>

\* The executor returned, and endJob closed the window: with results, a failure to retry, nothing, or cut short by
\* the abort an interruption asked for.
JobReturns(outcome) ==
    /\ phase = "running"
    /\ outcome = "interrupted" => job.interruptedBy # {}
    /\ outcome \in {"failed", "nothing"} => counts.failures < MaxFailures
    /\ counts' = IF outcome \in {"failed", "nothing"}
                 THEN [counts EXCEPT !.failures = @ + 1] ELSE counts
    /\ phase' = "returned" /\ discards' = 0
    /\ job' = [job EXCEPT !.outcome = outcome, !.window.end = ViewDigests]
    /\ sinceEdit' = IF outcome \in {"failed", "nothing"}
                    THEN [w \in Workspaces |-> 0] ELSE sinceEdit
    /\ UNCHANGED <<recordVars, runHistoryVars, discoveryHistoryVars, digests, revision, available,
                   build, periodic, storeVars, planVars, round, stirred, begun, relisted, landed,
                   told, vouchedEdit>>

\* placeFor: a widened build held places every changed path inside, a narrowed one those among the workspace's inputs.
PlacedInside(w, paths, placements) ==
    IF "widened" \in placements THEN paths
    ELSE IF "narrowed" \in placements THEN paths \cap Inside[w] ELSE {}

\* Mutant of Judgment: a change inside is forgiven when the fingerprints at both ends agree.
JudgmentByEnds(w) ==
    CASE job.print = NoDigests -> "noStart"
      [] job.print # NoDigests /\ job.window.caused -> "causes"
      [] job.print # NoDigests /\ ~job.window.caused /\ Fingerprint(w) = NoDigests -> "endUnavailable"
      [] OTHER -> IF Fingerprint(w) # job.print THEN "moved" ELSE "kept"

\* judgeRun over the view now: the first reason that applies.
Judgment(w) ==
    LET inside == PlacedInside(w, job.window.paths, job.placements \cup {Placement})
    IN  IF job.print = NoDigests THEN "noStart"
        ELSE IF inside # {} THEN "changedInside"
        ELSE IF job.window.caused THEN "causes"
        ELSE IF Fingerprint(w) = NoDigests THEN "endUnavailable"
        ELSE IF Fingerprint(w) # job.print THEN "moved" ELSE "kept"

\* changedWhileRunning: a rerun could be bound to a fingerprint.
ChangedWhileRunning(w) ==
    \/ Judgment(w) = "moved"
    \/ Judgment(w) = "changedInside" /\ Fingerprint(w) # NoDigests

\* #settleRun's report, of a run stored or not.
RunReport(w, stored) ==
    LET interrupted == job.interruptedBy # {} /\ job.outcome \in {"interrupted", "nothing"}
    IN  [revision |-> job.planned, stored |-> stored, interrupted |-> interrupted,
         changed |-> interrupted \/ ChangedWhileRunning(w), verdict |-> Judgment(w)]

\* WorkspaceSchedule.runEnded: the run leaves the plan's due list unless it is owed once more.
RoundAfter(w, owed) ==
    IF round.state # "planned" THEN round
    ELSE [round EXCEPT !.due = IF owed THEN @ \cup {w} ELSE @ \ {w}]

\* The run is judged once its end revision's build has ended and stored, with the lists it collected or without, or
\* its store write fails; a run interrupted or with nothing to store waits for no build.
RunEnds(w, stored, refreshed) ==
    LET report == RunReport(w, stored)
        owed == OwedAgain([isRerun |-> job.again], report, revision)
        left == job.outcome \in {"ran", "failed"}
    IN  /\ phase = "returned" /\ job.subject = w
        /\ left => BuildAwaited
        /\ stored => left
        /\ left /\ ~stored => counts.failures < MaxFailures
        /\ refreshed => stored /\ counts.failures < MaxFailures
        /\ counts' = IF refreshed \/ (left /\ ~stored)
                     THEN [counts EXCEPT !.failures = @ + 1] ELSE counts
        /\ latest' = IF stored
                     THEN [latest EXCEPT ![w] =
                            [print |-> IF report.verdict = "kept" THEN job.print ELSE NoDigests,
                             failed |-> job.outcome = "failed"]]
                     ELSE latest
        /\ build' = IF refreshed THEN "building" ELSE build
        /\ relisted' = refreshed
        /\ JobEnded(job.window, w)
        /\ attempts' = [attempts EXCEPT ![w] =
                EndedAttempt([modules |-> job.modules, isRerun |-> job.again,
                              startCount |-> job.startCount], report, revision)]
        /\ round' = RoundAfter(w, owed)
        /\ sinceEdit' = IF left /\ ~stored THEN [x \in Workspaces |-> 0] ELSE sinceEdit
        /\ phase' = "quiet" /\ discards' = 0
        /\ job' = NoJob
        /\ told' = {}
        /\ UNCHANGED <<unread, decided, heldRuns, discoveryHistoryVars, digests, revision, available,
                       periodic, record, planVars, stirred, begun, landed, vouchedEdit>>

\* The discovery's verdict: judged from its window, and from the guard over what changed since the window closed.
DiscoveryClean ==
    /\ job.print # NoDigests /\ job.window.paths = {} /\ ~job.window.caused
    /\ job.window.end # NoDigests /\ available /\ digests = job.window.end

DiscoveryChanged ==
    /\ job.print # NoDigests
    /\ IF job.window.paths # {} \/ job.window.caused THEN job.window.end # NoDigests
       ELSE job.window.end # NoDigests /\ available /\ digests # job.window.end

\* The discovery is stored with the list of test modules it found, under its fingerprint only when nothing changed, and
\* the dependency builds begin over it; or it left nothing, or its store write failed.
DiscoveryEnds(stored, modules) ==
    LET left == job.outcome \in {"ran", "failed"}
        onceMore == /\ stored /\ DiscoveryChanged
                    /\ job.planned = revision /\ ~job.again
    IN  /\ phase = "returned" /\ ~Runs
        /\ stored => left
        /\ left /\ ~stored => counts.failures < MaxFailures
        /\ counts' = IF left /\ ~stored THEN [counts EXCEPT !.failures = @ + 1] ELSE counts
        /\ record' = IF stored
                     THEN [print |-> IF DiscoveryClean THEN digests ELSE NoDigests,
                           modules |-> modules, failed |-> job.outcome = "failed"]
                     ELSE record
        /\ build' = IF stored THEN "building" ELSE build
        /\ JobEnded(job.window, Discovery)
        /\ dAttempt' = DiscoveryAttempt(job.planned, stored, onceMore, job.startCount)
        /\ cooling' = (cooling \/ onceMore)
        /\ sinceEdit' = IF left /\ ~stored THEN [x \in Workspaces |-> 0] ELSE sinceEdit
        /\ phase' = "quiet" /\ discards' = 0
        /\ job' = NoJob
        /\ told' = {}
        /\ UNCHANGED <<unread, runHistoryVars, dRetry, dDecided, dHeld, dLatest, digests, revision,
                       available, periodic, latest, planVars, round, stirred, begun, relisted, landed,
                       vouchedEdit>>

\* The job throws once begun: it counts as having stored nothing, and the step is tried again at the next change.
JobThrows ==
    /\ phase \in {"running", "returned"}
    /\ counts.failures < MaxFailures
    /\ counts' = [counts EXCEPT !.failures = @ + 1]
    /\ JobThrew(job.subject)
    /\ phase' = "failed" /\ stirred' = FALSE
    /\ round' = [Pending EXCEPT !.state = "held"]
    /\ job' = NoJob
    /\ told' = {}
    /\ sinceEdit' = [w \in Workspaces |-> 0]
    /\ UNCHANGED <<unread, runHistoryVars, discoveryHistoryVars, envVars, storeVars, planVars,
                   begun, relisted, landed, vouchedEdit>>

-----------------------------------------------------------------------------
(* The inputs, the dependency builds and the callers around the scheduler. *)

JobUnderWay == phase \in {"starting", "running", "returned"}

\* What the tracker and the history make of a change of path p.
Recorded(p) ==
    /\ job' = IF phase = "running" THEN [job EXCEPT !.window.paths = @ \cup {p}] ELSE job
    /\ vouchedEdit' = IF phase # "running" THEN vouchedEdit
                      ELSE IF p \in told THEN vouchedEdit \cup {p} ELSE vouchedEdit \ {p}
    /\ stirred' = TRUE

\* A digest changes: the revision moves, and the build at the old one is overtaken.
Commit(p) ==
    /\ revision < MaxRevision
    /\ \E c \in IF Reverts THEN 0..(revision + 1) \ {digests[p]} ELSE {revision + 1} :
           digests' = [digests EXCEPT ![p] = c]
    /\ revision' = revision + 1
    /\ build' = "building"
    /\ discards' = IF BuildPending /\ phase = "returned" /\ discards < 2 THEN discards + 1
                   ELSE IF phase = "quiet" THEN 0 ELSE discards
    /\ begun' = [s \in Subjects |-> NoneBegun]
    /\ landed' = [s \in Subjects |-> IF phase = "running" THEN landed[s] ELSE landed[s] \cup {p}]
    /\ Recorded(p)
    /\ UNCHANGED <<recordVars, runHistoryVars, discoveryHistoryVars, available, periodic, storeVars,
                   phase, planVars, round, counts, relisted, told>>

\* The job writes one of its inputs.
JobWrite(p) ==
    /\ phase = "running" /\ p \in JobWrites[job.subject]
    /\ Commit(p)
    /\ UNCHANGED sinceEdit

\* Somebody else does.
Edit(p) ==
    /\ p \in Editable
    /\ Commit(p)
    /\ sinceEdit' = [w \in Workspaces |-> 0]

\* A write that leaves the content as it was marks the jobs running and moves no revision.
Touch(p) ==
    /\ counts.touches < MaxTouches
    /\ counts' = [counts EXCEPT !.touches = @ + 1]
    /\ discards' = IF BuildPending /\ phase \in {"quiet", "returned"} /\ discards < 2
                   THEN discards + 1 ELSE discards
    /\ Recorded(p)
    /\ sinceEdit' = [w \in Workspaces |-> 0]
    /\ UNCHANGED <<recordVars, runHistoryVars, discoveryHistoryVars, digests, revision, available,
                   build, periodic, storeVars, phase, planVars, round, begun, relisted, landed, told>>

\* The watcher turns unhealthy or the input set is lost, which a running job's window records as a cause.
Unvouch(caused) ==
    /\ available /\ counts.failures < MaxFailures
    /\ counts' = [counts EXCEPT !.failures = @ + 1]
    /\ available' = FALSE
    /\ job' = IF phase = "running" THEN [job EXCEPT !.window.caused = @ \/ caused] ELSE job
    /\ stirred' = TRUE
    /\ sinceEdit' = [w \in Workspaces |-> 0]
    /\ UNCHANGED <<recordVars, runHistoryVars, discoveryHistoryVars, digests, revision, build,
                   discards, periodic, storeVars, phase, planVars, round, begun, relisted, landed,
                   told, vouchedEdit>>

Vouch ==
    /\ ~available
    /\ available' = TRUE
    /\ stirred' = TRUE
    /\ UNCHANGED <<recordVars, runHistoryVars, discoveryHistoryVars, digests, revision, build,
                   discards, periodic, storeVars, phase, planVars, round, job, counts, historyVars>>

\* A build over the discovery in effect ends at this revision, narrowed, or widened when it failed; the watch of a run
\* under way holds how it places paths.
BuildEnds(kind) ==
    /\ BuildPending
    /\ kind = "widened" => counts.failures < MaxFailures
    /\ counts' = IF kind = "widened" THEN [counts EXCEPT !.failures = @ + 1] ELSE counts
    /\ build' = kind
    /\ discards' = 0
    /\ job' = IF phase \in {"running", "returned"} /\ Runs
              THEN [job EXCEPT !.placements = @ \cup {kind}, !.newer = TRUE] ELSE job
    /\ UNCHANGED <<recordVars, runHistoryVars, discoveryHistoryVars, digests, revision, available,
                   periodic, storeVars, phase, planVars, round, stirred, historyVars>>

PeriodicReconciliation ==
    /\ periodic' = TRUE
    /\ stirred' = TRUE
    /\ UNCHANGED <<recordVars, runHistoryVars, discoveryHistoryVars, digests, revision, available,
                   build, discards, storeVars, phase, planVars, round, job, counts, historyVars>>

\* A changes request names the files its caller edited, before it reads them.
Report(caller, keys) ==
    /\ counts.reports < MaxReports
    /\ counts' = [counts EXCEPT !.reports = @ + 1]
    /\ ReportEdits(caller, keys, IF JobUnderWay THEN {job.subject} ELSE {})
    /\ told' = IF JobUnderWay THEN told \cup keys ELSE told
    /\ vouchedEdit' = vouchedEdit \cup keys
    /\ UNCHANGED <<runHistoryVars, discoveryHistoryVars, envVars, storeVars, phase, planVars, round,
                   stirred, job, begun, relisted, sinceEdit, landed>>

ReportRead(caller) ==
    /\ ReadReport(caller)
    /\ UNCHANGED <<runHistoryVars, discoveryHistoryVars, envVars, storeVars, phase, planVars, round,
                   stirred, job, counts, historyVars>>

-----------------------------------------------------------------------------

Init ==
    /\ RecordInit /\ RunHistoryInit /\ DiscoveryHistoryInit
    /\ digests = [p \in Paths |-> 0] /\ revision = 0 /\ available = TRUE
    /\ build = "building" /\ discards = 0 /\ periodic = FALSE
    /\ latest = [w \in Workspaces |-> NotInEffect] /\ record = NotInEffect
    /\ phase = "quiet" /\ roundRevision = 0 /\ retries = {}
    /\ round = Pending /\ stirred = FALSE /\ job = NoJob
    /\ counts = [touches |-> 0, failures |-> 0, reports |-> 0]
    /\ begun = [s \in Subjects |-> NoneBegun] /\ relisted = FALSE
    /\ sinceEdit = [w \in Workspaces |-> 0]
    /\ landed = [s \in Subjects |-> {}] /\ told = {} /\ vouchedEdit = {}

Plan == PlanWait \/ PlanDiscover \/ PlanIdle \/ \E w \in Workspaces : PlanRun(w)

JobEnds ==
    \/ \E w \in Workspaces, stored, refreshed \in BOOLEAN : RunEnds(w, stored, refreshed)
    \/ \E stored \in BOOLEAN, modules \in Lists : DiscoveryEnds(stored, modules)

JobStep ==
    \/ JobNotBegun \/ JobStarts \/ JobEnds
    \/ \E outcome \in {"ran", "failed", "nothing", "interrupted"} : JobReturns(outcome)

Surroundings ==
    \/ \E p \in Paths : JobWrite(p) \/ Edit(p) \/ Touch(p)
    \/ \E caused \in BOOLEAN : Unvouch(caused)
    \/ Vouch
    \/ \E kind \in {"narrowed", "widened"} : BuildEnds(kind)
    \/ PeriodicReconciliation
    \/ \E caller \in Callers, keys \in SUBSET Paths \ {{}} : Report(caller, keys)
    \/ \E caller \in Callers : ReportRead(caller)

Next == Plan \/ PlanFails \/ Wake \/ CoolDown \/ JobStep \/ Interrupt \/ JobThrows \/ Surroundings

Spec == Init /\ [][Next]_vars

\* The event loop runs every step that is ready, an executor ends each job, a build ends, and the timers fire.
Fairness ==
    /\ WF_vars(Plan) /\ WF_vars(Wake) /\ WF_vars(CoolDown) /\ WF_vars(JobStep)
    /\ WF_vars(BuildEnds("narrowed")) /\ WF_vars(PeriodicReconciliation)

FairSpec == Spec /\ Fairness

-----------------------------------------------------------------------------

Contents == [Paths -> Revisions]
Prints == (UNION {[ps -> Revisions] : ps \in {Paths} \cup {Inside[w] : w \in Workspaces}})
              \cup {NoDigests}

RunType == [print : Prints, failed : BOOLEAN]
DiscoveryType == [print : Contents \cup {NoDigests}, modules : Lists, failed : BOOLEAN]

JobType ==
    [subject : Subjects, planned : Revisions, modules : Lists, again : BOOLEAN,
     startCount : CountType,
     before : AttemptType(Revisions, Lists) \cup DiscoveryAttemptType(Revisions) \cup {NoAttempt},
     retried : BOOLEAN, uninterruptible : BOOLEAN,
     window : [paths : SUBSET Paths, caused : BOOLEAN, start : Contents \cup {NoDigests},
               end : Contents \cup {NoDigests}],
     print : Prints, placements : SUBSET {"narrowed", "widened"}, newer : BOOLEAN,
     interruptedBy : SUBSET Paths,
     outcome : {"none", "ran", "failed", "nothing", "interrupted"}]

\* What stands for nothing stored or begun is none of what can be.
ASSUME DistinctAssumption ==
    /\ Lists # {}
    /\ NoAttempt \notin AttemptType(Revisions, Lists) \cup DiscoveryAttemptType(Revisions)
    /\ NotInEffect \notin RunType \cup DiscoveryType

\* Every variable holds the values its declaration names.
TypeOK ==
    /\ RecordType(Contents) /\ RunHistoryType(Revisions, Lists)
    /\ DiscoveryHistoryType(Revisions)
    /\ digests \in Contents /\ revision \in Revisions /\ available \in BOOLEAN
    /\ build \in {"building", "narrowed", "widened"} /\ discards \in 0..2
    /\ periodic \in BOOLEAN
    /\ latest \in [Workspaces -> RunType \cup {NotInEffect}]
    /\ record \in DiscoveryType \cup {NotInEffect}
    /\ phase \in {"quiet", "waiting", "idle", "failed", "starting", "running", "returned"}
    /\ roundRevision \in Revisions /\ retries \in SUBSET Workspaces
    /\ round \in [state : {"pending", "planned", "held"}, revision : Revisions,
                   due : SUBSET Workspaces]
    /\ stirred \in BOOLEAN /\ job \in JobType
    /\ counts \in [touches : 0..MaxTouches, failures : 0..MaxFailures, reports : 0..MaxReports]
    /\ begun \in [Subjects -> [jobs : 0..3, modules : Lists]] /\ relisted \in BOOLEAN
    /\ sinceEdit \in [Workspaces -> 0..(HoldCount + 1)]
    /\ landed \in [Subjects -> SUBSET Paths]
    /\ told \in SUBSET Paths /\ vouchedEdit \in SUBSET Paths

\* A workspace runs at most once, and once more, at one input revision and list of test modules, and a discovery at one
\* revision, the periodic retry counting as a first job: RunHistory.ranAlready and DiscoveryHistory.due with the
\* once-more job #ended owes.
AtMostOnceMore == \A s \in Subjects : begun[s].jobs <= 2

\* A run of the workspace really began at this revision and the list in effect.
Tried(w) == begun[w].jobs > 0 /\ begun[w].modules = record.modules

\* An idle scheduler, with no change of its revision and no reconciliation to wake for and the inputs vouched for, has
\* tried every workspace that is not current, or holds it; and the same of the discovery: nothing due is forgotten by
\* a plan, an abandoned job, an interruption or a failed write (#plan and #due).
IdleMeansDone ==
    (phase = "idle" /\ revision = roundRevision /\ ~periodic /\ available) =>
        /\ \A w \in Eligible : Stale(w) => heldRuns[w] # {} \/ Tried(w)
        /\ \/ record # NotInEffect /\ record.print = digests
           \/ dHeld # {} \/ begun[Discovery].jobs > 0

\* The round every answer reads, while it reads planned at the current revision.
RoundInEffect == round.state = "planned" /\ round.revision = revision

\* That round names each workspace that has a current fingerprint its latest run is not bound to: as due, or it is held,
\* under way or already tried at this revision, so that no wait settles while a run is owed; but for a round planned
\* before a run's lists replaced the discovery its builds narrow by (WorkspaceSchedule.planned, runEnded and #requeue
\* beside RunHistory.#ended).
RoundNamesDue ==
    RoundInEffect /\ ~relisted =>
        \A w \in Eligible : Stale(w) /\ Fingerprint(w) # NoDigests =>
            \/ w \in round.due
            \/ heldRuns[w] # {}
            \/ JobUnderWay /\ job.subject = w
            \/ RanAlready(w, revision, record.modules)

\* Nothing that is due is forgotten: not by an idle scheduler, nor in the round the answers read.
NothingDueForgotten == IdleMeansDone /\ RoundNamesDue

\* #notRunning: an answer tells of the workspace that no run comes until the next input change.
ToldNoRun(w) ==
    /\ RoundInEffect /\ w \in Eligible \ round.due
    /\ Stale(w) /\ Fingerprint(w) # NoDigests
    /\ heldRuns[w] = {} /\ ~RetryOwed(w)

\* A workspace told to have no run coming until the next input change begins none at this revision (workspace-schedule.ts
\* #notRunning; answer-text.ts IDLE_PHRASES).
NoRunUntilChange ==
    [][\A w \in Workspaces :
           phase = "quiet" /\ ToldNoRun(w) => ~(phase' = "starting" /\ job'.subject = w)]_vars

\* A scheduler that idles holds no stale workspace one of whose inputs changed while no job ran, since its last run
\* began: only the daemon's own changes hold one (RunHistory.decide over ChangeRecord's intervals).
HeldPastNoEdit ==
    (phase = "idle" /\ revision = roundRevision) =>
        \A w \in Eligible : Stale(w) /\ heldRuns[w] # {} => landed[w] \cap Inside[w] = {}

\* No hold begins on a path whose latest change a caller reported as its own edit, whether the report came before,
\* during or after the job that recorded the change (ChangeRecord.reportEdits, jobBegan and jobEnded).
NoHoldOnReported ==
    [][/\ \A w \in Workspaces :
             heldRuns'[w] # heldRuns[w] => heldRuns'[w] \cap vouchedEdit = {}
       /\ dHeld' # dHeld => dHeld' \cap vouchedEdit = {}]_vars

\* A run stored under a fingerprint started from the inputs that fingerprint names, and none of them was written while
\* it ran, not even to be put back (judgeRun and placeFor).
KeptRunIsSound ==
    [][\A w \in Workspaces :
           latest'[w] # latest[w] /\ latest'[w].print # NoDigests =>
               /\ job.window.paths \cap DOMAIN latest'[w].print = {}
               /\ \A p \in Inside[w] : latest'[w].print[p] = job.window.start[p]]_vars

\* As long as no caller reports an edit, a workspace whose jobs' changes are all of one input begins no more than HoldCount
\* runs since the last edit or failure: the loop ends by itself (NextCount, FollowOn and the hold). A report excuses
\* the next change of each path it names, so it lengthens the loop.
RunsBeforeHold == counts.reports = 0 => \A w \in Workspaces : sinceEdit[w] <= HoldCount

\* Whatever the jobs, the edits and the failures that end, the scheduler idles again and again (#step and #idle).
Settles == []<>(phase = "idle")

\* A hold ends once an edit reaches the workspace's inputs, if only through a caller's report that nothing wakes the
\* scheduler for, by the periodic reconciliation at the latest (RunHistory.decide).
HoldReleased ==
    \A w \in Workspaces :
        (heldRuns[w] # {} /\ Edited(changes[w], Inside[w])) ~> (heldRuns[w] = {} \/ ~Stale(w))
=============================================================================
