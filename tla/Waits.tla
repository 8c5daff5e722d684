------------------------------- MODULE Waits --------------------------------
(***************************************************************************)
(* The waits of callers that edited a file and want its results            *)
(* (daemon/waits.ts): each reads its file twice, binds to the first input  *)
(* revision after those reads that the tracker can vouch for, and is       *)
(* judged whenever the tracker, the builds, the schedule or the store      *)
(* moves, until it is superseded, settled or expired.                      *)
(*                                                                         *)
(* The sources appear by what they promise: the tracker reads a file at    *)
(* one moment of a walk or of its queue, a build ends at a revision with   *)
(* the inputs inside each workspace, the scheduler plans, runs and stores. *)
(* An event's read is one step with the event, so no view is unavailable   *)
(* for one unread.  A caller names one file, the same for all.  A stop     *)
(* reaches the waits as the end of the callers' connections, which forgets *)
(* them.  A run owed once more and one that proceeds without its build are *)
(* Scheduler's.                                                            *)
(***************************************************************************)
EXTENDS Naturals, FiniteSets

CONSTANTS
    Paths, Contents, Workspaces, Waiters,
    Named,          \* the file the callers name
    Graphs,         \* the inputs inside each workspace that a build can find
    Absent,         \* the digest of a file that is not held
    None,           \* no bound, no coverage, no build, nothing running
    Discovery,      \* the job that is no workspace's run
    MaxDisturbances \* bound: writes, reconciliations, failures and discoveries together

Snapshot == [Paths -> Contents \cup {Absent}]

Widened == [w \in Workspaces |-> Paths]

\* What a walk has read, and what a run had for inputs.
Partial(contents) == UNION {[q -> contents] : q \in SUBSET Paths}

Bounds == [revision : Nat, digests : Snapshot]
Coverages == [revision : Nat, discovery : Nat, inside : Graphs \cup {Widened}]
Builds == [revision : Nat, inside : Graphs \cup {Widened}]
Jobs == [job : Workspaces \cup {Discovery}, revision : Nat, stored : BOOLEAN]

ASSUME WaitsAssumption ==
    /\ Named \in Paths /\ Contents # {} /\ Absent \notin Contents
    /\ Graphs \subseteq [Workspaces -> SUBSET Paths]
    /\ Discovery \notin Workspaces
    /\ None \notin Partial(Contents \cup {Absent}) /\ None \notin Bounds /\ None \notin Coverages
    /\ None \notin Builds /\ None \notin Jobs
    /\ MaxDisturbances \in Nat

VARIABLES
    disk,           \* each file's content
    digests,        \* the committed inputs
    revision,       \* the input revision
    established,    \* whether the tracker holds an input set
    walked,         \* what a reconciliation has read so far, None while none runs
    queued,         \* whether a named read waits in the tracker's queue
    unreadNamed,    \* whether the latest named read could not read the file
    discovery,      \* the stored discovery, 0 for none
    build,          \* the latest build recorded over it
    buildsEnded,    \* whether the builds have ended for good
    phase,          \* what the scheduler does
    round,          \* WorkspaceSchedule.#round
    running,        \* the job in progress
    stirred,        \* whether inputs.changed() resolved since a step failed
    latest,         \* the fingerprint of each workspace's latest run, None without one
    tried,          \* jobs that ended at this revision
    wait,           \* the waits
    armed,          \* #armed: the sources whose next move is awaited
    watching,       \* #watch: "off", "waiting" for a move or "woken" by one
    disturbed,      \* how much of the bound is used
    since           \* history: the contents the named file had since each wait was asked

trackerVars == <<disk, digests, revision, established, walked, queued, unreadNamed>>
buildVars == <<discovery, build, buildsEnded>>
scheduleVars == <<phase, round, running, stirred, latest, tried>>
watchVars == <<armed, watching>>
vars == <<trackerVars, buildVars, scheduleVars, wait, watchVars, disturbed, since>>

Sources == {"inputs", "schedule", "store", "builds"}

\* A wait not asked yet; one answered holds nothing after its outcome.
NoWait == [state |-> "none", unread |-> FALSE, bound |-> None, boundCoverage |-> None, coverage |-> None,
           outcome |-> "none"]

Answered(outcome) == [NoWait EXCEPT !.state = "over", !.outcome = outcome]

\* One more of what only the bound limits.
Disturbs == disturbed < MaxDisturbances /\ disturbed' = disturbed + 1

Reconciling == walked # None
Unavailable == Reconciling \/ ~established

-----------------------------------------------------------------------------
(* What a judgment reads *)

\* A build is still to end at the current revision.
BuildPending ==
    /\ ~buildsEnded /\ ~Unavailable /\ discovery # 0
    /\ build # None => build.revision # revision

\* The inputs inside each workspace as the build ended at a revision places them; builds that ended for good widen.
InsideAt(r) ==
    IF buildsEnded THEN Widened
    ELSE IF build # None /\ build.revision = r THEN build.inside ELSE None

\* #coverageAt: the wait's latest coverage when it is of this revision and discovery.
CoverageAt(known, r) ==
    IF known # None /\ known.revision = r /\ known.discovery = discovery THEN known
    ELSE IF InsideAt(r) = None THEN None
    ELSE [revision |-> r, discovery |-> discovery, inside |-> InsideAt(r)]

Covering(coverage) == {w \in Workspaces : Named \in coverage.inside[w]}

InputsOf(coverage, w) == coverage.inside[w]

Differing(before) == {p \in Paths : before[p] # digests[p]}

\* changedSince: among every input while the covering set at the bound revision is unknown, and else among the inputs
\* of the workspaces covering the file at either revision, once the later one's build has ended.
ChangedSince(covered, bound, now) ==
    IF covered = None THEN Differing(bound.digests)
    ELSE IF now = None THEN {}
    ELSE Differing(bound.digests)
             \cap UNION {InputsOf(covered, w) \cup InputsOf(now, w) : w \in Covering(covered) \cup Covering(now)}

\* Mutant of RoundState: the plan of an older revision still decides.
RoundStateStale == round.state

\* WorkspaceSchedule.round: a plan made at an older revision decides nothing for this one.
RoundState == IF round.state = "planned" /\ round.revision # revision THEN "pending" ELSE round.state

Executing(w) == \/ running # None /\ running.job = w
                \/ RoundState = "planned" /\ w \in round.due

\* settles: no round is pending and every covering workspace is idle.
Settles(covering) == RoundState # "pending" /\ \A w \in covering : ~Executing(w)

FirstOf(a, b, c) == IF a # None THEN a ELSE IF b # None THEN b ELSE c

\* #judgeOne: a wait is bound in the turn the inputs are read.
BoundOf(wt) == IF wt.bound = None THEN [revision |-> revision, digests |-> digests] ELSE wt.bound

\* Its coverage at this revision, and at the one it is bound to.
CoverageNow(wt) == CoverageAt(wt.coverage, revision)

CoverageAtBound(wt) ==
    IF BoundOf(wt).revision = revision
    THEN IF CoverageNow(wt) # None THEN CoverageNow(wt) ELSE wt.boundCoverage
    ELSE IF wt.boundCoverage # None THEN wt.boundCoverage
    ELSE CoverageAt(wt.coverage, BoundOf(wt).revision)

Superseded(wt) ==
    BoundOf(wt).revision # revision /\ ChangedSince(CoverageAtBound(wt), BoundOf(wt), CoverageNow(wt)) # {}

CoverageSettles(wt) == CoverageNow(wt) # None /\ ~wt.unread /\ Settles(Covering(CoverageNow(wt)))

\* #judgeOne: superseded before settled, nothing of either before the first discovery.
Judged(wt) ==
    IF Unavailable THEN wt
    ELSE IF discovery = 0 THEN [wt EXCEPT !.bound = BoundOf(wt)]
    ELSE IF Superseded(wt) THEN Answered("superseded")
    ELSE IF CoverageSettles(wt) THEN Answered("settled")
    ELSE [wt EXCEPT !.bound = BoundOf(wt), !.boundCoverage = CoverageAtBound(wt),
                    !.coverage = FirstOf(CoverageNow(wt), wt.coverage, CoverageAtBound(wt))]

PendingIn(waits) == {w \in Waiters : waits[w].state \notin {"none", "over"}}

-----------------------------------------------------------------------------
(* The watch *)

\* A source moves: the watch is woken if it awaited that source.
Moved(sources) ==
    /\ armed' = armed \ sources
    /\ watching' = IF watching = "waiting" /\ armed \cap sources # {} THEN "woken" ELSE watching

NothingMoved == UNCHANGED watchVars

\* A task of its own (a timer, a read or a message that ends) runs only once the turn that woke the watch is through,
\* as promises resolve before the next task; what continues from a resolved promise may come before the watch.
OwnTask == watching # "woken"

\* Mutant of Armed: the schedule is asked only by the moves of the store.
ArmedWithoutSchedule == armed \cup {"inputs", "store"} \cup (IF BuildPending THEN {"builds"} ELSE {})

\* #nextMove: each source is asked once, the builds only while one is pending.
Armed == armed \cup {"inputs", "schedule", "store"} \cup (IF BuildPending THEN {"builds"} ELSE {})

\* The watch goes round: it judges every wait that has read, or fails them all when the reading throws, and awaits the
\* next move while any is pending.
Watch(fails) ==
    /\ watching = "woken"
    /\ IF fails THEN Disturbs ELSE UNCHANGED disturbed
    /\ wait' = [w \in Waiters |->
                   IF wait[w].state # "read" THEN wait[w]
                   ELSE IF fails THEN Answered("no answer")
                   ELSE Judged(wait[w])]
    /\ IF PendingIn(wait') = {}
       THEN watching' = "off" /\ UNCHANGED armed
       ELSE watching' = "waiting" /\ armed' = Armed
    /\ UNCHANGED <<trackerVars, buildVars, scheduleVars, since>>

-----------------------------------------------------------------------------
(* A wait's own steps *)

\* readNamed queues a read, but nothing while a reconciliation runs or without an input set.
QueuesNamed == queued' = (queued \/ ~Unavailable)

\* A wait is asked: it calls its first read and starts the watch.
Ask(w) ==
    /\ OwnTask /\ wait[w].state = "none"
    /\ wait' = [wait EXCEPT ![w].state = "reading"]
    /\ since' = [since EXCEPT ![w] = {disk[Named]}]
    /\ QueuesNamed
    /\ IF watching = "off" THEN watching' = "waiting" /\ armed' = Armed ELSE NothingMoved
    /\ UNCHANGED <<disk, digests, revision, established, walked, unreadNamed, buildVars, scheduleVars, disturbed>>

\* The first read has resolved, done or met by a reconciliation, and so has the wait for the inputs to settle: the
\* file is read again.
ReadAgain(w) ==
    /\ wait[w].state = "reading" /\ ~queued /\ ~Reconciling
    /\ wait' = [wait EXCEPT ![w].state = "reading again"]
    /\ QueuesNamed
    /\ UNCHANGED <<disk, digests, revision, established, walked, unreadNamed, buildVars, scheduleVars, armed, watching,
                   disturbed, since>>

\* Mutant of HasRead: the wait is judged after its first read.
HasReadOnce(w) ==
    /\ wait[w].state \in {"reading", "reading again"} /\ ~queued /\ ~Reconciling
    /\ wait' = [wait EXCEPT ![w] = Judged([@ EXCEPT !.state = "read", !.unread = unreadNamed])]
    /\ UNCHANGED <<trackerVars, buildVars, scheduleVars, armed, watching, disturbed, since>>

\* The second read has resolved and the inputs have settled again: the wait takes what it could not read and is judged.
HasRead(w) ==
    /\ wait[w].state = "reading again" /\ ~queued /\ ~Reconciling
    /\ wait' = [wait EXCEPT ![w] = Judged([@ EXCEPT !.state = "read", !.unread = unreadNamed])]
    /\ UNCHANGED <<trackerVars, buildVars, scheduleVars, armed, watching, disturbed, since>>

\* The limit's timer, or the end of the caller's connection.
Ends(w, outcome) ==
    /\ OwnTask /\ w \in PendingIn(wait)
    /\ wait' = [wait EXCEPT ![w] = Answered(outcome)]
    /\ UNCHANGED <<trackerVars, buildVars, scheduleVars, armed, watching, disturbed, since>>

Expire(w) == Ends(w, "unsettled")
Forget(w) == Ends(w, "no answer")

-----------------------------------------------------------------------------
(* The tracker *)

\* signalChange, which also stirs a scheduler waiting out a failed step.
InputsMoved == Moved({"inputs"}) /\ stirred' = TRUE

\* #commit: the revision is raised when a digest changed, and what ran at the one before decides nothing.
Commit(read) ==
    /\ digests' = read
    /\ IF read = digests THEN UNCHANGED <<revision, tried>> ELSE revision' = revision + 1 /\ tried' = {}

\* Somebody writes a file.
Write(p) ==
    /\ OwnTask /\ Disturbs
    /\ \E c \in Contents \ {disk[p]} : disk' = [disk EXCEPT ![p] = c]
    /\ since' = [w \in Waiters |-> IF w \in PendingIn(wait) THEN since[w] \cup {disk'[Named]} ELSE since[w]]
    /\ UNCHANGED <<digests, revision, established, walked, queued, unreadNamed, buildVars, scheduleVars, wait, watchVars>>

\* The event of a write is read; it also reads what a named read could not.
EventRead(p) ==
    /\ OwnTask /\ ~Unavailable /\ disk[p] # digests[p]
    /\ Commit([digests EXCEPT ![p] = disk[p]])
    /\ unreadNamed' = (unreadNamed /\ p # Named)
    /\ InputsMoved
    /\ UNCHANGED <<disk, established, walked, queued, buildVars, phase, round, running, latest, wait, disturbed, since>>

\* The queue reads the file named: its content, or nothing it can read, which drops it.
DrainNamed(readable) ==
    /\ OwnTask /\ queued /\ ~Unavailable
    /\ IF readable THEN UNCHANGED disturbed ELSE Disturbs
    /\ queued' = FALSE /\ unreadNamed' = ~readable
    /\ Commit([digests EXCEPT ![Named] = IF readable THEN disk[Named] ELSE Absent])
    /\ InputsMoved
    /\ UNCHANGED <<disk, established, walked, buildVars, phase, round, running, latest, wait, since>>

\* A reconciliation is requested, for an input set that is lost or while one is held.
ReconcileStarts(lost) ==
    /\ OwnTask /\ ~Reconciling /\ Disturbs
    /\ walked' = [p \in {} |-> Absent]
    /\ established' = (established /\ ~lost)
    /\ UNCHANGED <<disk, digests, revision, queued, unreadNamed, buildVars, scheduleVars, wait, watchVars, since>>

WalkReads(p) ==
    /\ OwnTask /\ Reconciling /\ p \notin DOMAIN walked
    /\ walked' = [q \in DOMAIN walked \cup {p} |-> IF q = p THEN disk[p] ELSE walked[q]]
    /\ UNCHANGED <<disk, digests, revision, established, queued, unreadNamed, buildVars, scheduleVars, wait, watchVars,
                   disturbed, since>>

\* The walk has read every file: the set is established, and what waits in the queue is read next.
ReconcileEnds ==
    /\ OwnTask /\ Reconciling /\ DOMAIN walked = Paths
    /\ walked' = None /\ established' = TRUE
    /\ Commit(walked)
    /\ InputsMoved
    /\ UNCHANGED <<disk, queued, unreadNamed, buildVars, phase, round, running, latest, wait, disturbed, since>>

-----------------------------------------------------------------------------
(* The builds *)

\* A build ends at the revision it began at: built, or failed or timed out, which widens.
BuildEnds(built) ==
    /\ BuildPending
    /\ IF built THEN UNCHANGED disturbed ELSE Disturbs
    /\ \E inside \in IF built THEN Graphs ELSE {Widened} : build' = [revision |-> revision, inside |-> inside]
    /\ Moved({"builds"})
    /\ UNCHANGED <<trackerVars, discovery, buildsEnded, scheduleVars, wait, since>>

\* The builds end by throwing.
BuildsThrow ==
    /\ ~buildsEnded /\ Disturbs
    /\ buildsEnded' = TRUE
    /\ Moved({"builds"})
    /\ UNCHANGED <<trackerVars, discovery, build, scheduleVars, wait, since>>

-----------------------------------------------------------------------------
(* The scheduler *)

\* The fingerprint of a workspace's inputs, none until the revision's build has ended.
Fingerprint(w) ==
    IF Unavailable \/ InsideAt(revision) = None THEN None ELSE [p \in InsideAt(revision)[w] |-> digests[p]]

\* The workspaces of the stored discovery without a run of these inputs, but those whose run ended at this revision.
DueNow == IF discovery = 0 THEN {}
          ELSE {w \in Workspaces : latest[w] = None \/ latest[w] # Fingerprint(w)} \ tried

\* Every plan waits for settled inputs and the build at their revision.
Plans == phase = "quiet" /\ ~Unavailable /\ ~BuildPending

\* Discovery is due, once at a revision: always without a stored one, and at times again.
PlanDiscovery ==
    /\ Plans /\ Discovery \notin tried
    /\ IF discovery = 0 THEN UNCHANGED disturbed ELSE Disturbs
    /\ phase' = "running" /\ running' = [job |-> Discovery, revision |-> revision, stored |-> FALSE]
    /\ round' = [state |-> "pending", revision |-> 0, due |-> {}]
    /\ Moved({"schedule"})
    /\ UNCHANGED <<trackerVars, buildVars, stirred, latest, tried, wait, since>>

\* The round decided each workspace, and the first one due runs.
PlanRun(w) ==
    /\ Plans /\ w \in DueNow
    /\ phase' = "running" /\ running' = [job |-> w, revision |-> revision, stored |-> FALSE]
    /\ round' = [state |-> "planned", revision |-> revision, due |-> DueNow]
    /\ Moved({"schedule"})
    /\ UNCHANGED <<trackerVars, buildVars, stirred, latest, tried, wait, disturbed, since>>

PlanIdle ==
    /\ Plans /\ DueNow = {} /\ (discovery = 0 => Discovery \in tried)
    /\ phase' = "idle"
    /\ round' = [state |-> "planned", revision |-> revision, due |-> {}]
    /\ Moved({"schedule"})
    /\ UNCHANGED <<trackerVars, buildVars, running, stirred, latest, tried, wait, disturbed, since>>

\* A step threw: the round is held until the inputs stir.
PlanFails ==
    /\ Plans /\ Disturbs
    /\ phase' = "failed" /\ stirred' = FALSE
    /\ round' = [state |-> "held", revision |-> 0, due |-> {}]
    /\ Moved({"schedule"})
    /\ UNCHANGED <<trackerVars, buildVars, running, latest, tried, wait, since>>

\* The scheduler quiesces again once the revision moved under an idle round, or the inputs stirred after a failed step.
Wakes ==
    /\ \/ phase = "idle" /\ round.revision # revision
       \/ phase = "failed" /\ stirred
    /\ phase' = "quiet"
    /\ IF round.state = "held"
       THEN round' = [state |-> "pending", revision |-> 0, due |-> {}] /\ Moved({"schedule"})
       ELSE UNCHANGED round /\ NothingMoved
    /\ UNCHANGED <<trackerVars, buildVars, running, stirred, latest, tried, wait, disturbed, since>>

\* The job stores its record, fingerprinted when no input moved while it ran, or lists that it stored nothing.
JobStores(keeps) ==
    /\ phase = "running" /\ ~running.stored /\ ~BuildPending
    /\ IF keeps THEN UNCHANGED disturbed ELSE Disturbs
    /\ running' = [running EXCEPT !.stored = TRUE]
    /\ IF running.job = Discovery
       THEN /\ IF keeps THEN discovery' = discovery + 1 /\ build' = None ELSE UNCHANGED <<discovery, build>>
            /\ UNCHANGED latest
       ELSE /\ latest' = IF keeps
                         THEN [latest EXCEPT ![running.job] = IF running.revision = revision
                                                              THEN Fingerprint(running.job) ELSE None]
                         ELSE latest
            /\ UNCHANGED <<discovery, build>>
    /\ Moved({"store"})
    /\ UNCHANGED <<trackerVars, buildsEnded, phase, round, stirred, tried, wait, since>>

\* The job has returned: its workspace leaves the due list, and the scheduler plans again.
JobOver ==
    /\ phase = "running" /\ running.stored
    /\ phase' = "quiet" /\ running' = None
    /\ round' = [round EXCEPT !.due = @ \ {running.job}]
    /\ tried' = IF running.revision = revision THEN tried \cup {running.job} ELSE tried
    /\ Moved({"schedule"})
    /\ UNCHANGED <<trackerVars, buildVars, stirred, latest, wait, disturbed, since>>

-----------------------------------------------------------------------------
(* The specification *)

\* The first reconciliation has ended; the store may keep a discovery of an earlier daemon.
Init ==
    /\ disk = [p \in Paths |-> CHOOSE c \in Contents : TRUE]
    /\ digests = disk
    /\ revision = 1 /\ established = TRUE /\ walked = None
    /\ queued = FALSE /\ unreadNamed = FALSE
    /\ discovery \in {0, 1} /\ build = None /\ buildsEnded = FALSE
    /\ phase = "quiet" /\ round = [state |-> "pending", revision |-> 0, due |-> {}]
    /\ running = None /\ stirred = FALSE
    /\ latest = [w \in Workspaces |-> None] /\ tried = {}
    /\ wait = [w \in Waiters |-> NoWait]
    /\ armed = {} /\ watching = "off"
    /\ disturbed = 0
    /\ since = [w \in Waiters |-> {}]

\* What the daemon does by itself.
Work ==
    \/ \E w \in Waiters : ReadAgain(w) \/ HasRead(w)
    \/ Watch(FALSE)
    \/ \E p \in Paths : EventRead(p) \/ WalkReads(p)
    \/ DrainNamed(TRUE) \/ ReconcileEnds
    \/ BuildEnds(TRUE)
    \/ PlanDiscovery \/ (\E w \in Workspaces : PlanRun(w)) \/ PlanIdle \/ Wakes
    \/ JobStores(TRUE) \/ JobOver

\* What callers, editors and failures do.
Disturbance ==
    \/ \E w \in Waiters : Ask(w) \/ Expire(w) \/ Forget(w)
    \/ \E p \in Paths : Write(p)
    \/ \E lost \in BOOLEAN : ReconcileStarts(lost)
    \/ Watch(TRUE) \/ DrainNamed(FALSE) \/ BuildEnds(FALSE) \/ BuildsThrow \/ PlanFails \/ JobStores(FALSE)

Next == Work \/ Disturbance

Spec == Init /\ [][Next]_vars

\* Each step the daemon takes by itself is taken in the end: its timers and promises resolve, its jobs are bounded.
FairSpec ==
    /\ Spec
    /\ WF_vars(Watch(FALSE)) /\ \A w \in Waiters : WF_vars(ReadAgain(w)) /\ WF_vars(HasRead(w))
    /\ WF_vars(DrainNamed(TRUE)) /\ \A p \in Paths : WF_vars(EventRead(p)) /\ WF_vars(WalkReads(p))
    /\ WF_vars(ReconcileEnds) /\ WF_vars(BuildEnds(TRUE))
    /\ WF_vars(discovery = 0 /\ PlanDiscovery) /\ WF_vars(\E w \in Workspaces : PlanRun(w)) /\ WF_vars(PlanIdle) /\ WF_vars(Wakes)
    /\ WF_vars(JobStores(TRUE)) /\ WF_vars(JobOver)

-----------------------------------------------------------------------------
(* Properties *)

Waiting == [state : {"none", "reading", "reading again", "read", "over"}, unread : BOOLEAN,
            bound : {None} \cup Bounds, boundCoverage : {None} \cup Coverages, coverage : {None} \cup Coverages,
            outcome : {"none", "superseded", "settled", "unsettled", "no answer"}]

TypeOK ==
    /\ disk \in [Paths -> Contents] /\ digests \in Snapshot /\ revision \in Nat /\ established \in BOOLEAN
    /\ walked \in {None} \cup Partial(Contents)
    /\ queued \in BOOLEAN /\ unreadNamed \in BOOLEAN
    /\ discovery \in Nat /\ build \in {None} \cup Builds /\ buildsEnded \in BOOLEAN
    /\ phase \in {"quiet", "running", "idle", "failed"}
    /\ round \in [state : {"pending", "planned", "held"}, revision : Nat, due : SUBSET Workspaces]
    /\ running \in {None} \cup Jobs /\ stirred \in BOOLEAN
    /\ latest \in [Workspaces -> {None} \cup Partial(Contents \cup {Absent})]
    /\ tried \subseteq Workspaces \cup {Discovery}
    /\ wait \in [Waiters -> Waiting]
    /\ armed \subseteq Sources /\ watching \in {"off", "waiting", "woken"}
    /\ disturbed \in Nat
    /\ since \in [Waiters -> SUBSET Contents]

\* A wait is bound to a revision that holds the named file as it was at some moment since the wait was asked, so a
\* caller that wrote the file before asking is never answered over what it held before; only a file that could not be
\* read is bound without its content.
BoundSeesEdit ==
    \A w \in Waiters : wait[w].bound # None /\ ~wait[w].unread => wait[w].bound.digests[Named] \in since[w]

\* Workspace v's latest run is of the current content of these inputs.
RunOf(v, inputs) == latest[v] # None /\ \A p \in inputs : p \in DOMAIN latest[v] /\ latest[v][p] = digests[p]

\* A wait is superseded only when an input differs from the bound revision's, and settled only over the coverage of
\* this revision's build, when no input of a covering workspace differs from the bound ones, and each covering
\* workspace holds a run of these very inputs or ended its run at this revision; a round held by a failed step, and
\* builds that ended for good, leave nothing coming.
OutcomeStep ==
    \A w \in Waiters :
        LET bound == IF wait[w].bound = None THEN digests ELSE wait[w].bound.digests
            now == CoverageAt(wait[w].coverage, revision)
        IN  /\ wait[w].outcome = "none" /\ wait'[w].outcome = "superseded" => Differing(bound) # {}
            /\ wait[w].outcome = "none" /\ wait'[w].outcome = "settled" =>
                   /\ now # None
                   /\ \A v \in Covering(now) :
                          /\ Differing(bound) \cap now.inside[v] = {}
                          /\ v \in tried \/ RunOf(v, now.inside[v]) \/ round.state = "held" \/ buildsEnded

OutcomeIsTrue == [][OutcomeStep]_vars

\* Over a stored discovery, a wait that could read its file is answered by the daemon's own moves, with nothing left to the limit's timer: the watch
\* never sleeps through the move that decides it.
AnsweredByMoves ==
    \A w \in Waiters : wait[w].state = "reading" ~> wait[w].state = "over" \/ wait[w].unread \/ discovery = 0
=============================================================================
