-------------------------- MODULE DependencyBuilds --------------------------
(***************************************************************************)
(* The dependency builds (daemon/dependency-builds.ts), the waits for them  *)
(* of a round or of a run's verdict, and the watch that holds how each      *)
(* build recorded while a run runs places a changed path (RunWatch of       *)
(* daemon/run-judgment.ts).                                                 *)
(*                                                                         *)
(* All of it shares one event loop.  What a promise's resolution makes      *)
(* ready runs before the next event is taken, so an event, a wait's settled *)
(* inputs included, comes only while nothing is ready.                      *)
(***************************************************************************)
EXTENDS Naturals, FiniteSets

CONSTANTS
    WaitsThrough,   \* DISCARDS_A_RUN_WAITS_THROUGH
    NoBuild,        \* no build has ended over the discovery in effect
    MaxRevision,    \* bound: input revisions
    MaxEvents,      \* bound: times the inputs become unavailable
    MaxDiscoveries, \* bound: discoveries that take effect
    MaxFailures,    \* bound: verdicts that are lost, builds that fail and rounds that throw
    MaxWatches      \* bound: runs watched

BuildsAssumption ==
    /\ WaitsThrough \in Nat \ {0}
    /\ MaxRevision \in Nat /\ MaxEvents \in Nat /\ MaxDiscoveries \in Nat /\ MaxFailures \in Nat /\ MaxWatches \in Nat
    /\ NoBuild \notin [id : Nat, discovery : Nat, revision : Nat, built : BOOLEAN, moves : Nat]

VARIABLES
    revision, available,    \* what the tracker answers of the inputs
    discovery,              \* #discovery: the number of the one in effect, 0 for none
    selectionInput, latest, \* #state
    stopped, ownStop,      \* #stopped, and whether that is the daemon's own stop
    rounds,                 \* where the rounds stand
    build,                  \* the build in progress and its job window
    builds,                 \* how many builds have begun or failed to
    discards,               \* #discards
    waits,                  \* #waits: who waits in ended()
    caller,                 \* a call of awaitBuild: where it stands and the discards it began at
    watch,                  \* the run's watch: what it waits for and the builds it has seen
    failuresMet, watches,      \* failuresMet met and runs watched so far
    events,                 \* times the inputs became unavailable
    moves,                  \* history: revisions and lost verdicts a build's window has seen
    recorded,               \* history: the builds recorded while the watch is open
    inARow                  \* history: builds discarded one after another while the caller waits

inputVars == <<revision, available, events>>
stateVars == <<discovery, selectionInput, latest>>
historyVars == <<moves, recorded, inARow>>
buildsVars == <<inputVars, stateVars, stopped, ownStop, rounds, build, builds, discards, waits, caller, watch,
          failuresMet, watches, historyVars>>

-----------------------------------------------------------------------------
(* What the builds answer *)

\* #endedAt, true also while there is nothing to build over.
EndedAt(r) ==
    \/ discovery = 0 \/ ~selectionInput
    \/ latest # NoBuild /\ latest.revision = r

\* pending(): a build is still to end at the current revision while the tracker can vouch for its inputs.
BuildPending == ~stopped /\ available /\ ~EndedAt(revision)

\* A continuation is ready, so no event is taken.
SomeReady == rounds.state = "top" \/ caller.state = "ready" \/ watch.state = "ready"

\* #resolveWaits.
ResolveWaits ==
    /\ waits' = {}
    /\ caller' = IF "caller" \in waits THEN [caller EXCEPT !.state = "settling"] ELSE caller
    /\ watch' = IF "watch" \in waits THEN [watch EXCEPT !.state = "ready"] ELSE watch

UnchangedWaits == UNCHANGED <<waits, caller, watch>>

\* The discards in a row an awaitBuild has waited through.
InARow ==
    LET waited == discards.total - caller.waitedFrom
    IN  IF waited < discards.consecutive THEN waited ELSE discards.consecutive

-----------------------------------------------------------------------------
(* The rounds *)

\* The rounds are about to begin another.
Top == [state |-> "top", discovery |-> 0, changes |-> FALSE]

\* No build is in progress.
Nothing == [id |-> 0, discovery |-> 0, revision |-> 0, timedOut |-> FALSE, outcome |-> "none"]

\* #record: the discards are set before any wait resolves.
Record(b, d, r, built, kept) ==
    /\ latest' = [id |-> b, discovery |-> d, revision |-> r, built |-> built, moves |-> moves]
    /\ discards' = kept
    /\ recorded' = IF watch.state = "closed" THEN recorded ELSE recorded \cup {b}
    /\ ResolveWaits

\* A round begins: it ends at a stop, waits for a discovery while there is nothing to build over, and else for the
\* inputs to settle.
RoundBegins ==
    /\ rounds.state = "top"
    /\ \/ /\ stopped
          /\ rounds' = [Top EXCEPT !.state = "ended"]
          /\ ResolveWaits
       \/ /\ ~stopped /\ (discovery = 0 \/ ~selectionInput)
          /\ rounds' = [state |-> "waiting", discovery |-> 0, changes |-> FALSE]
          /\ ResolveWaits
       \/ /\ ~stopped /\ discovery # 0 /\ selectionInput
          /\ rounds' = [Top EXCEPT !.state = "settling", !.discovery = discovery]
          /\ UnchangedWaits
    /\ UNCHANGED <<inputVars, stateVars, stopped, ownStop, build, builds, discards, failuresMet, watches, historyVars>>

\* The inputs have settled and the round begins no build: it begins again after a stop or under another discovery, and
\* waits for a change when the inputs are unavailable or a build has ended at their revision.
RoundSettled ==
    /\ rounds.state = "settling" /\ ~SomeReady
    /\ \/ /\ stopped \/ discovery # rounds.discovery
          /\ rounds' = Top
          /\ UnchangedWaits
       \/ /\ ~stopped /\ discovery = rounds.discovery
          /\ ~available \/ EndedAt(revision)
          /\ rounds' = [state |-> "waiting", discovery |-> 0, changes |-> TRUE]
          /\ ResolveWaits
    /\ UNCHANGED <<inputVars, stateVars, stopped, ownStop, build, builds, discards, failuresMet, watches, historyVars>>

\* The settled round may build.
Builds ==
    /\ rounds.state = "settling" /\ ~SomeReady
    /\ ~stopped /\ discovery = rounds.discovery
    /\ available /\ ~EndedAt(revision)

\* #build begins, with no await since the revision was read, and its job window with it.
BuildBegins ==
    /\ Builds
    /\ builds' = builds + 1
    /\ rounds' = [rounds EXCEPT !.state = "building"]
    /\ build' = [id |-> builds + 1, discovery |-> discovery, revision |-> revision, timedOut |-> FALSE,
                 outcome |-> "none"]
    /\ moves' = 0
    /\ UnchangedWaits
    /\ UNCHANGED <<inputVars, stateVars, stopped, ownStop, discards, failuresMet, watches, recorded, inARow>>

\* The root's real path, or the selection input, cannot be had: a failed build is recorded without one.
BuildCannotBegin ==
    /\ Builds /\ failuresMet < MaxFailures
    /\ failuresMet' = failuresMet + 1
    /\ builds' = builds + 1
    /\ rounds' = Top
    /\ Record(builds + 1, rounds.discovery, revision, FALSE, [discards EXCEPT !.consecutive = 0])
    /\ inARow' = 0
    /\ UNCHANGED <<inputVars, discovery, selectionInput, stopped, ownStop, build, watches, moves>>

\* #noSelectionInput, after which the next round waits for another discovery.
NoSelectionInput ==
    /\ Builds /\ failuresMet < MaxFailures
    /\ failuresMet' = failuresMet + 1
    /\ selectionInput' = FALSE /\ latest' = NoBuild
    /\ rounds' = Top
    /\ UnchangedWaits
    /\ UNCHANGED <<inputVars, discovery, stopped, ownStop, build, builds, discards, watches, historyVars>>

\* The bound's timer ends the build.
BuildTimesOut ==
    /\ rounds.state = "building" /\ build.outcome = "none" /\ ~build.timedOut /\ ~SomeReady
    /\ failuresMet < MaxFailures
    /\ failuresMet' = failuresMet + 1
    /\ build' = [build EXCEPT !.timedOut = TRUE]
    /\ UNCHANGED <<inputVars, stateVars, stopped, ownStop, rounds, builds, discards, waits, caller, watch, watches,
                   historyVars>>

\* The executor's answer, after which the job's verdict is waited for. A build ended by an abort may have replied first.
BuildReturns(outcome) ==
    /\ rounds.state = "building" /\ build.outcome = "none" /\ ~SomeReady
    /\ outcome = "failed" => build.timedOut \/ stopped \/ failuresMet < MaxFailures
    /\ failuresMet' = IF outcome = "failed" /\ ~build.timedOut /\ ~stopped THEN failuresMet + 1 ELSE failuresMet
    /\ build' = [build EXCEPT !.outcome = outcome]
    /\ UNCHANGED <<inputVars, stateVars, stopped, ownStop, rounds, builds, discards, waits, caller, watch, watches,
                   historyVars>>

\* How a judged build leaves the discards: one more in a row, or none in a row once one is recorded.
Discarded == [total |-> discards.total + 1, consecutive |-> discards.consecutive + 1]
Replaced == [discards EXCEPT !.total = @ + 1]
Kept == [discards EXCEPT !.consecutive = 0]

\* Mutant of BuildJudged: a build is recorded whichever discovery is in effect once it has ended.
BuildJudgedAnyway(fingerprinted) ==
    /\ rounds.state = "building" /\ build.outcome # "none" /\ ~SomeReady
    /\ fingerprinted /\ moves = 0
    /\ rounds' = Top
    /\ build' = Nothing /\ moves' = 0
    /\ Record(build.id, build.discovery, build.revision, build.outcome = "built", Kept)
    /\ inARow' = 0
    /\ UNCHANGED <<inputVars, discovery, selectionInput, stopped, ownStop, builds, failuresMet, watches>>

\* The build's verdict has come: it is dropped after a stop, recorded at its bound whatever moved, discarded when its
\* discovery was replaced or its inputs moved, and else recorded.
BuildJudged(fingerprinted) ==
    LET replaced == discovery # build.discovery
        timedOut == build.timedOut /\ build.outcome = "failed" /\ ~replaced
    IN  /\ rounds.state = "building" /\ build.outcome # "none" /\ ~SomeReady
        /\ fingerprinted => moves = 0
        /\ ~fingerprinted /\ moves = 0 => failuresMet < MaxFailures
        /\ failuresMet' = IF ~fingerprinted /\ moves = 0 THEN failuresMet + 1 ELSE failuresMet
        /\ rounds' = Top
        /\ build' = Nothing /\ moves' = 0
        /\ CASE stopped ->
                  /\ UnchangedWaits
                  /\ UNCHANGED <<latest, discards, recorded, inARow>>
             [] ~stopped /\ timedOut ->
                  /\ Record(build.id, build.discovery, build.revision, FALSE, IF fingerprinted THEN Kept ELSE Discarded)
                  /\ inARow' = IF fingerprinted THEN 0 ELSE inARow + 1
             [] ~stopped /\ ~timedOut /\ (replaced \/ ~fingerprinted) ->
                  /\ discards' = IF replaced THEN Replaced ELSE Discarded
                  /\ inARow' = IF replaced THEN inARow ELSE inARow + 1
                  /\ ResolveWaits
                  /\ UNCHANGED <<latest, recorded>>
             [] OTHER ->
                  /\ Record(build.id, build.discovery, build.revision, build.outcome = "built", Kept)
                  /\ inARow' = 0
        /\ UNCHANGED <<inputVars, discovery, selectionInput, stopped, ownStop, builds, watches>>

\* The rounds throw: the builds have ended for the rest of the daemon's life, and every wait is resolved.
RoundsThrow ==
    /\ rounds.state \in {"top", "settling"} /\ ~stopped
    /\ failuresMet < MaxFailures
    /\ failuresMet' = failuresMet + 1
    /\ rounds' = [Top EXCEPT !.state = "ended"]
    /\ stopped' = TRUE
    /\ ResolveWaits
    /\ UNCHANGED <<inputVars, stateVars, ownStop, build, builds, discards, watches, historyVars>>

-----------------------------------------------------------------------------
(* A new discovery, and the stop *)

\* The rounds wait no longer: wakeRounds, or a change of the inputs they wait for.
RoundsWoken == IF rounds.state = "waiting" THEN Top ELSE rounds

\* use: a new discovery takes effect, never while a run is watched.
Use ==
    /\ ~SomeReady /\ watch.state = "closed" /\ discovery < MaxDiscoveries
    /\ discovery' = discovery + 1
    /\ discards' = [discards EXCEPT !.consecutive = 0]
    /\ selectionInput' = TRUE /\ latest' = NoBuild
    /\ rounds' = RoundsWoken
    /\ inARow' = 0
    /\ UNCHANGED <<inputVars, stopped, ownStop, build, builds, waits, caller, watch, failuresMet, watches, moves, recorded>>

StopBuilds ==
    /\ ~SomeReady /\ ~ownStop
    /\ ownStop' = TRUE /\ stopped' = TRUE
    /\ rounds' = RoundsWoken
    /\ ResolveWaits
    /\ UNCHANGED <<inputVars, stateVars, build, builds, discards, failuresMet, watches, historyVars>>

-----------------------------------------------------------------------------
(* Waiting for a build *)

\* No run is watched.
Closed == [state |-> "closed", seen |-> {}]

\* awaitBuild's loop: it returns when no build is pending or enough were discarded, and else waits for one to end. A
\* caller that returns judges its run, and the run's watch is closed.
Loop(from) ==
    IF ~BuildPending \/ InARow >= WaitsThrough
    THEN /\ caller' = [state |-> "idle", waitedFrom |-> 0]
         /\ waits' = waits \ {"watch"}
         /\ watch' = Closed
    ELSE /\ caller' = [state |-> "waiting", waitedFrom |-> from]
         /\ waits' = waits \cup {"caller"}
         /\ UNCHANGED watch

\* A round, or a run that has returned, asks for the build at its revision.
AwaitBuild ==
    /\ ~SomeReady /\ caller.state = "idle"
    /\ caller' = [state |-> "ready", waitedFrom |-> discards.total]
    /\ inARow' = 0
    /\ UNCHANGED <<inputVars, stateVars, stopped, ownStop, rounds, build, builds, discards, waits, watch, failuresMet,
                   watches, moves, recorded>>

AwaitBuildLoops ==
    /\ caller.state = "ready"
    /\ Loop(caller.waitedFrom)
    /\ UNCHANGED <<inputVars, stateVars, stopped, ownStop, rounds, build, builds, discards, failuresMet, watches,
                   historyVars>>

\* A wait resolved, and the inputs have settled since.
AwaitBuildSettled ==
    /\ caller.state = "settling" /\ ~SomeReady
    /\ Loop(caller.waitedFrom)
    /\ UNCHANGED <<inputVars, stateVars, stopped, ownStop, rounds, build, builds, discards, failuresMet, watches,
                   historyVars>>

-----------------------------------------------------------------------------
(* A run's watch *)

WatchOpens ==
    /\ ~SomeReady /\ watch.state = "closed" /\ caller.state = "idle" /\ ~stopped /\ watches < MaxWatches
    /\ watches' = watches + 1
    /\ watch' = [state |-> "ready", seen |-> IF latest = NoBuild THEN {} ELSE {latest.id}]
    /\ recorded' = {}
    /\ UNCHANGED <<inputVars, stateVars, stopped, ownStop, rounds, build, builds, discards, waits, caller, failuresMet,
                   moves, inARow>>

\* #watch's loop: it captures the latest build, and waits for a pending build to end and else for the inputs to change.
\* Builds that ended by throwing give it nothing to capture, and it counts every path as inside.
Captured == watch.seen \cup (IF latest = NoBuild \/ stopped THEN {} ELSE {latest.id})

WatchLoops ==
    /\ watch.state = "ready"
    /\ watch' = [state |-> IF ownStop THEN "ended" ELSE IF BuildPending THEN "ended()" ELSE "changed()",
                 seen |-> Captured]
    /\ waits' = IF BuildPending THEN waits \cup {"watch"} ELSE waits
    /\ UNCHANGED <<inputVars, stateVars, stopped, ownStop, rounds, build, builds, discards, caller, failuresMet, watches,
                   historyVars>>

\* close, of a run that was interrupted or left nothing to judge.
WatchCloses ==
    /\ watch.state # "closed" /\ caller.state = "idle" /\ ~SomeReady
    /\ watch' = Closed
    /\ waits' = waits \ {"watch"}
    /\ UNCHANGED <<inputVars, stateVars, stopped, ownStop, rounds, build, builds, discards, caller, failuresMet, watches,
                   historyVars>>

-----------------------------------------------------------------------------
(* The inputs, as the tracker answers of them *)

\* Whoever waits for the inputs to change is woken.
Changed ==
    /\ rounds' = IF rounds.state = "waiting" /\ rounds.changes THEN RoundsWoken ELSE rounds
    /\ watch' = IF watch.state = "changed()" THEN [watch EXCEPT !.state = "ready"] ELSE watch

\* An event is queued, a reconciliation begins or the input set is lost: the inputs are unavailable, and nobody is told.
Unavailable(loses) ==
    /\ ~SomeReady /\ (available \/ loses) /\ events < MaxEvents
    /\ events' = events + 1
    /\ available' = FALSE
    /\ moves' = IF loses /\ rounds.state = "building" THEN moves + 1 ELSE moves
    /\ UNCHANGED <<revision, stateVars, stopped, ownStop, rounds, build, builds, discards, waits, caller, watch,
                   failuresMet, watches, recorded, inARow>>

\* An input's new digest is committed, the reads drain or a reconciliation ends.
Signals(moved, vouched) ==
    /\ ~SomeReady /\ ~available /\ (moved \/ vouched)
    /\ moved => revision < MaxRevision
    /\ revision' = IF moved THEN revision + 1 ELSE revision
    /\ available' = vouched
    /\ moves' = IF moved /\ rounds.state = "building" THEN moves + 1 ELSE moves
    /\ Changed
    /\ UNCHANGED <<events, stateVars, stopped, ownStop, build, builds, discards, waits, caller, failuresMet, watches,
                   recorded, inARow>>

-----------------------------------------------------------------------------
BuildsInit ==
    /\ revision = 0 /\ available = TRUE /\ events = 0
    /\ discovery \in {0, 1} /\ selectionInput = TRUE /\ latest = NoBuild
    /\ stopped = FALSE /\ ownStop = FALSE
    /\ rounds = Top
    /\ build = Nothing
    /\ builds = 0
    /\ discards = [total |-> 0, consecutive |-> 0]
    /\ waits = {}
    /\ caller = [state |-> "idle", waitedFrom |-> 0]
    /\ watch = Closed
    /\ failuresMet = 0 /\ watches = 0
    /\ moves = 0 /\ recorded = {} /\ inARow = 0

Rounds == RoundBegins \/ RoundSettled \/ BuildBegins \/ BuildCannotBegin \/ NoSelectionInput

Returns == \E outcome \in {"built", "failed"} : BuildReturns(outcome)

Judged == \E fingerprinted \in BOOLEAN : BuildJudged(fingerprinted)

BuildsNext ==
    \/ Rounds \/ BuildTimesOut \/ Returns \/ Judged \/ RoundsThrow
    \/ Use \/ StopBuilds
    \/ AwaitBuild \/ AwaitBuildLoops \/ AwaitBuildSettled
    \/ WatchOpens \/ WatchLoops \/ WatchCloses
    \/ \E loses \in BOOLEAN : Unavailable(loses)
    \/ \E moved, vouched \in BOOLEAN : Signals(moved, vouched)

BuildsSpec == BuildsInit /\ [][BuildsNext]_buildsVars

\* What is ready runs, a settled wait resolves, an executor answers by its bound and a verdict comes. Nothing says that
\* unavailable inputs are ever available again.
BuildsFairSpec ==
    /\ BuildsSpec
    /\ WF_buildsVars(Rounds) /\ WF_buildsVars(Returns) /\ WF_buildsVars(Judged)
    /\ WF_buildsVars(AwaitBuildLoops \/ AwaitBuildSettled) /\ WF_buildsVars(WatchLoops)

-----------------------------------------------------------------------------
MaxBuilds == MaxRevision + MaxDiscoveries + MaxFailures + 2

BuildsTypeOK ==
    /\ revision \in 0..MaxRevision /\ available \in BOOLEAN /\ events \in 0..MaxEvents
    /\ discovery \in 0..MaxDiscoveries /\ selectionInput \in BOOLEAN
    /\ latest \in [id : 1..MaxBuilds, revision : 0..MaxRevision, built : BOOLEAN, discovery : 1..MaxDiscoveries,
                   moves : Nat] \cup {NoBuild}
    /\ stopped \in BOOLEAN /\ ownStop \in BOOLEAN
    /\ rounds \in [state : {"top", "settling", "waiting", "building", "ended"}, discovery : 0..MaxDiscoveries,
                   changes : BOOLEAN]
    /\ build \in [id : 0..MaxBuilds, discovery : 0..MaxDiscoveries, revision : 0..MaxRevision, timedOut : BOOLEAN,
                  outcome : {"none", "built", "failed"}]
    /\ builds \in 0..MaxBuilds
    /\ discards \in [total : 0..MaxBuilds, consecutive : 0..MaxBuilds]
    /\ waits \subseteq {"caller", "watch"}
    /\ caller \in [state : {"idle", "ready", "settling", "waiting"}, waitedFrom : 0..discards.total]
    /\ watch \in [state : {"closed", "ready", "ended()", "changed()", "ended"}, seen : SUBSET (1..MaxBuilds)]

\* A build that narrows the inputs is over the discovery in effect, and no input moved from the revision it is recorded
\* at until its verdict, whatever came between its end, its verdict and a new discovery (#build and #record).
NarrowingIsOwn ==
    latest # NoBuild /\ latest.built => latest.discovery = discovery /\ latest.moves = 0

\* "Every recorded build wakes it before the next can be recorded, so it misses none": the builds recorded while a run
\* is watched have been seen by its watch, all but one recorded since, which is still the latest (run-judgment.ts:319).
\* Without a selection input, or once the builds have ended, the watch counts every path inside instead.
WatchMissesNone ==
    watch.state # "closed" /\ selectionInput /\ ~stopped =>
        \A b \in recorded \ watch.seen : latest # NoBuild /\ latest.id = b

\* A build narrows only for the discovery and the inputs it was made over, and a run's watch misses none recorded.
BuildsAreOwn == NarrowingIsOwn /\ WatchMissesNone

\* A wait gives up a build still pending only after WaitsThrough builds in a row were discarded while it waited.
GivesUpAfterDiscards ==
    [][(caller.state # "idle" /\ caller'.state = "idle" /\ BuildPending) => inARow >= WaitsThrough]_buildsVars

\* A wait for a build ends, whatever is discarded, replaced, lost or stopped meanwhile (awaitBuild and #resolveWaits).
AwaitBuildEnds == caller.state # "idle" ~> caller.state = "idle"
=============================================================================
