# RT Test: specifications, model checks and proofs

RT Test is a local daemon beside a Vitest project. It tracks the project's input files, discovers its tests, runs each
workspace whose latest run is not bound to the current inputs, and answers queries about what is known, how fresh it is
and what changed. This directory holds TLA+ modules of the parts where the order of events, a failure or a bound decides
whether an answer is right, the TLC configurations that check them on small instances, and TLAPS proofs for all
instances. `PROJECT.json` names for every definition the source lines it stands for, and for every property the mutant
of the code that breaks it.

Paths below are relative to `packages/daemon/src` of the repository unless they begin with `packages/` or `scripts/`.

## 1. The system

### Components, state and operations

| Component | State it keeps | Operations that change it | What is hard |
| --- | --- | --- | --- |
| Input tracker (`inputs/input-tracker.ts`, `input-state.ts`, `queued-reads.ts`, `input-jobs.ts`, `watcher-health.ts`, `current-inputs.ts`) | held read and digest of every input, revision, queued reads, reconciliation under way, ledger of accepted events, windows of running jobs | an event, a read of a batch, a reconciliation's passes, a named read, a job's begin and end, a stop | events arrive late, twice or never; a walk races the reads; file times are coarse; a verdict must wait for the right reads and no others |
| Input filter and watches (`inputs/input-filter.ts`, `input-watcher.ts`, `input-inventory.ts`, `listed-files.ts`, `git-files.ts`, `selection/git-ignored.ts`) | the ignored paths as git gave them, one watch a directory, the ways to listed files, the rule files watched | a walk directory by directory that enters nested repositories, an event, a read of a path or directory, a new list of files | the tree, the rules and the repositories change between a directory's watch, its listing, git's answers and the reads |
| Discovery binding (`daemon/lifecycle.ts` `#discover`, `daemon/job-endings.ts`) | two windows, the guard around the protected inputs, the fingerprint stored | begin, return, settle, guard, store | what is committed between the two windows |
| Change record, run history, discovery history (`daemon/change-record.ts`, `run-history.ts`, `discovery-history.ts`) | what changed since each subject's last job began, by whose hand; attempts, counts, holds, retries owed | a job begins, ends or throws; a caller reports edits; a plan decides | telling the daemon's own writes from edits when both land in one window |
| Scheduler (`daemon/scheduler.ts`, `due-workspaces.ts`, `workspace-schedule.ts`, `run-judgment.ts`, `lifecycle.ts`) | round revision, retries, the round answers read, the job under way, the stored runs and discovery | plan, wait, start, interrupt, judge, store, idle, wake | the revision moves at every await between plan and record; some write fails; a workspace changes its own inputs |
| Executor (`daemon/executor.ts`, `executor-main.ts`, `process-tree.ts`) | the child process, the job's promise, the abort's flags and timer | job, contain, send, abort, bound, reply, exit, tree end, stop | events of an old process during the next job; aborts before the job is sent; code that ignores an abort |
| Dependency builds (`daemon/dependency-builds.ts`, `RunWatch` of `run-judgment.ts`) | latest build, discards, waits, the rounds' position | a round, a build's end and verdict, use of a discovery, stop, wait, watch | a build outlived by its discovery or revision; waits that nobody resolves; a watch that misses one build |
| Changes and journal (`daemon/changes.ts`, `change-journal.ts`, `query/changes-answer.ts`) | standings by key, recorded changes, dropped sequence | record, answer, drop at the bound | cursors of other lives, at the bound, over changes that went and came back |
| Agent hook (`packages/cli/src/hook-memory.ts`, `commands/hook.ts`) | a memory file for each writer of a session: the edited files, the cursor, when an answer was last had, the loss told | a batch of edits, a prompt, a turn's end, an answer, the age of a file | runs of several agents over the same directory, ended anywhere |
| Waits (`daemon/waits.ts`) | pending waits, their bound revision and coverage | wait, read, judge, expire, forget | superseded before settled; wake-ups from four sources |
| Falsification and canary gate (`daemon/falsification.ts`, `falsification-plan.ts`, `canary-gate.ts`) | looks, marks per revision, readings by install | look, job, time bound, change, store | three reasons to end a job race |
| Falsification job (`falsify/falsify-workspace.ts`, `stale-transform-guard.ts`, `mutation-transform.ts`, `verdict.ts`) | the runs' records, the module cache and transforms under way, the active mutation | baseline, a mutated run, its confirmation, the restored baseline, abort | transforms that outlive their run; flakes; damage on disk |
| Daemon start, endpoint, client (`daemon/daemon-main.ts`, `endpoint.ts`, `endpoint-proof.ts`, `runtime-directory.ts`, `client.ts` of the package) | lock files, socket file, key, store lock | start, take over, probe, listen, accept, abandon, stop | racing starts over what killed daemons left |
| Served connections and stop sequence (`daemon/server.ts`, `stop-sequence.ts`) | turns in order, the bound on unanswered lines; the halts and closings done | line, answer, stop, end | answers out of order, a stop with answers pending, a halt that throws |
| Store (`store/`) | SQLite rows, schema version, kept evidence | open, create, migrate, write, read | openers of several versions, evidence kept past a write, a write that dies half way |
| Stored answers (`query/`, `daemon/carried-lists.ts`, `vitest/test-lists.ts`) and defects (`defects/`) | discoveries with lists, runs, definitions, evidence | discover, run, edit, falsify | lists and results matched across fingerprints; evidence of a definition that changed since |
| Selection (`selection/`) | none: computed from manifests, sources and configs | | what cannot be read or named must widen, never narrow |
| Run lease, lane claims, staging (`scripts/lib/orchestration`) | the lease and its queue; records of claims and grants | take, beat, release; claim, undo, grant | processes judged from files, killed and suspended anywhere |

The remaining components (parsers, composition and wording of answers, Windows tools, the probes placed in source text,
logging) and the reason each is left out are in `PROJECT.json`.

### How they interact

The tracker owns the revision. A job (a discovery, a run, a dependency build) opens a window in the tracker when it
begins and asks for a verdict when it ends; only a window judged *fingerprinted* lets its result be stored under the
inputs' digests. The scheduler waits for the tracker to settle and for the build at the revision to end, decides through
the histories what is due, and has the executor run one job at a time in a process of its own; when nothing is due it
lets falsification look for a definition to test. What a run is stored under depends on how each build recorded while it
ran places a changed path, which `RunWatch` collects from the builds. A stored run or discovery moves the waits and is
recorded by the changes journal; queries read the view and the store at one moment. A caller that reports its edits
tells the change record which changes not to count as the daemon's; the agent hook is such a caller, and keeps the
journal's cursor in its memory files.

Everything in the daemon shares one event loop: the steps of two components interleave at awaits, never inside a
synchronous stretch. Each action of a module is such a stretch. Executors, the file system, its watcher, callers, other
daemons, hook runs and killed processes run beside it and are actions of their own.

## 2. The modules and the code

| Module | Models | State and actions |
| --- | --- | --- |
| `InputTracker` | the tracker | `Deliver`, `ReadPath`, `ReadFails`, `ReadNamed`, `EndBatch` are the drain of the queue; `Request`, `StartPass`, `WalkRead`, `Settle`, `WalkFails`, `EndReconciliation` a reconciliation; `BeginJob`, `EndJob`, `CloseJob` a window, `ReadNamedCall` a caller's read; `Write`, `Tick`, `LoseEvent`, `WatchFailed` the disk and the watcher. Files only: a digest is the content, time counts in steps of the file times' resolution; `past` remembers what the pass under way read past. |
| `DiscoveryBinding` | `#discover` over the tracker | extends `InputTracker` with the discovery's stages: the wait for the inputs to settle (`Settling`) and the check of the planned revision, its window, the wait again, the guard's window and the store |
| `WatchedTree` | the filter, the walk, the watches and the reads they cause | a file system of directories, files and nested repositories whose rules change; an event waits with the watch that saw it. A walk is `ListRepository`, `AskListed` and `Check` for the git commands, `WalkDirectory` for a directory's watch and then its listing, `HashFile` for each read; a reconciliation is `StartPass`, such a walk, `Follow`, `WatchAllListed`, `ReadListed`, `Settle`; a queued read is `TakeBatch`, `Check`, `ReadQueued`, for a new directory such a walk and `KeepWalked` |
| `ChangeRecord`, `RunHistory`, `DiscoveryHistory` | the three records | operators giving the records' next state, each module extending the one before |
| `Scheduler` | the scheduler's loop, a job's way from plan to record, the round answers read | composes the three records; the tracker and the builds appear by what they promise: a committed change raises the revision and is recorded in the open window, a build ends narrowed or widened |
| `Executor` | one executor and its processes | one action per await of `job()`, per event of a process, per abort, plus the processes' own behaviour |
| `DependencyBuilds` | the rounds of builds, `awaitBuild` and the run's watch | one action per continuation; `SomeReady` says a continuation is due, before which no event is taken |
| `Waits` | the pending waits, with the tracker, the builds and the scheduler as far as a judgment reads them | a wait's two reads, its judgments by the watch, its limit and its caller leaving; `OwnTask` says which steps are tasks of their own and so run after the watch's turn |
| `ChangeJournal` | the journal and its cursors | `Record`, `Answer`, `AnswerUndetermined`, `Restart` |
| `HookMemory` | the session's memory files and the runs over them | a run reads every file, remembers and saves its own, prunes, asks, retries and ends or is ended at its deadline |
| `FalsificationPlan`, `Falsification` | the plan's marks and waits; the looks, their jobs, the canary gate | a look from its window to what its job's end stores and marks; the bound, a change and the reply may each end the job |
| `FalsifyJob`, `Judgement` | the job inside the executor and the verdict | runs, transforms that begin and end on their own, the guard before a run, the abort; `Judge` is `verdict.ts` |
| `DaemonStart`, `StoreWriter` | the start protocol; what it promises of the store | one file-system call a step; `StoreWriter` is the abstract specification `DaemonStart` implements |
| `ServedConnections` | the connections of the endpoint with their clients; the halts, waits and closings of a stop | a line written, a query answered, a timeout, an end, the stop that answers what is pending |
| `Store`, `StoreRecords` | openers, writers and readers of one SQLite file; the columns a record becomes and its rebuild | a write in its three steps, a read in two, SQLite by its guarantees; `StoreRecords` is operators only |
| `NoValue` | what stands for an absent value | the one constant `None` that modules checked together share |
| `StoredAnswers`, `DefectStandings` | what discoveries and runs store and how an answer rates it; definitions, evidence and their standings | `DefectStandings` extends `StoredAnswers`; an answer is an operator of the state |
| `DependencyGraph`, `SelectTests` | the edges and widenings of a repository; the tests a change selects | operators only |
| `RunLease`, `LaneClaims`, `LaneStaging` | the machine's lease; claims and grants; the staging plan | record by record, with wrappers killed and suspended anywhere. A step of `RunLease` that goes by a time taken before it (`Times`) may go by one from before a suspension, and `Record`, `WriteRecord` are the two ends of a rewriting amid which others read no record (`ReadLease`); `LaneStaging` is operators only |
| `MC*` | instances for TLC | constants, and for four of them the sum of several machines (below) |
| `InputTrackerProofs`, `SchedulerProofs`, `FalsificationProofs`, `StoreProofs` | theorems about the module each is named for (section 4) | |
| `JobProofs`, `CallersProofs`, `AnswersProofs`, `LanesProofs` | theorems about `Executor`, `DependencyBuilds` and `FalsifyJob`; `ServedConnections` and `Waits`; `ChangeJournal`, `HookMemory`, `StoredAnswers` and `DefectStandings`; `RunLease`, `LaneClaims` and `DaemonStart` | |

`MCSeenEdits`, `MCDaemonParts`, `MCAnswers` and `MCOneOwner` each put together machines that share no state but answer
one question. A variable `part`, chosen at first, says whose behaviour it is; the others stay at their
initial state, so TLC explores the sum of the machines, not their product. Components that do share state are composed
in the modules themselves: `DiscoveryBinding` over `InputTracker`, `Scheduler` over the three records, `Waits` over the
tracker, the builds and the scheduler as it reads them, `Falsification` over its plan, `DefectStandings` over
`StoredAnswers`.

`SomeReady` in `DependencyBuilds` rests on the order of promise jobs: once a build is recorded, the watch's
continuation is two promise jobs away from the resolution and a caller's is three or more, and a new event, such as the
next build's reply, is taken only when none is left. This is why the watch sees a build before the next can be
recorded.

Variables marked *history* in a module are read by no guard; they remember what a property compares with.

Definitions named "Mutant of X" stand before X and are used by no specification. Each is a plausible bug that the
property named in `PROJECT.json` rejects.

## 3. What the runs check

| Run | Question | Bounds |
| --- | --- | --- |
| `input_tracker` | `VerdictSound`: a job judged fingerprinted ran over no write the daemon was told of before the job asked. `ViewIsTrue`: a vouched view gives what is on disk. `VerdictComesInTime`: every job that asks gets its verdict, and is refused for unread paths only when an event came after it asked. | one file, one write, one time step, one reconciliation request, one named read, one failure |
| `seen_edits` | `BindingIsSound`: a discovery's two windows and the wait between them let no other change into the fingerprint. `HeldIsTrue`: once all is quiet the inputs held are the files git does not ignore, with their content, whatever changed between any two steps of a walk or a batch. | the tracker over two files, each absent or with one content: one write, one time step, one named read, one failure or request; a directory with a file, in which a nested repository may come that ignores its file at first; the directory ignored as a whole or not, by file after a change; three disturbances, each a change of the tree or the rules, one at most a failure and one a new list |
| `scheduler_rounds` | `AtMostOnceMore`, `NothingDueForgotten`, `KeptRunIsSound`: no run is repeated without end, forgotten or wrongly kept, and the round answers read names what is due | two workspaces sharing an input, one writing it, one edit, one touch, one failure of any kind (`NothingDueForgotten` is proved for any number of each) |
| `scheduler_holds` | `HeldPastNoEdit`: a hold rests on no edit. `NoHoldOnReported`: on no reported file. `HoldsEnd`: no more than `HoldCount` runs begin since the last edit, the scheduler idles again and again, and a hold an edit or a report reached is released. | one workspace and the discovery, each changing the one input, three revisions, one report |
| `falsification` | `EvidenceSound`: stored evidence is of the inputs its fingerprint names. `WaitingIsTold`: no definition is left in silence. `ComesToRest`: the looks do not go on for ever. | two definitions in one workspace, two edits of any kind, one install |
| `answers` | What an answer, a cursor, a verdict and the hook say. `StoredIsWritten`, `StagesExactly`, `SelectionSound`, `ScanOmitsNothingUnsaid`: the algorithms against reference definitions. `CurrentIsTrue`, `VerifiedHolds`: what an answer rates current or verified is true of the worktree. `JobVerdictsTrue`: a falsification job's verdicts are true of the tests. `NetChangeIsExact`, `ExpiresAtBound`: a cursor lists exactly what differs from the moment it names and expires exactly at the bound. `EditsRemembered`, `ChangesAreTold`: the hook loses no edit, keeps silent only about a loss already told and passes no untold change. | records of up to two modules and tests; three hunks of a four-line file; four workspaces, one thing leading from each to the next; three configs; two levels of directories; a module, two definitions and two edits; two experiments, one flake; two keys, two standings or absent, four recorded moments, two lives, bound of three changes (proved for any number of each); three runs of two agents and the prompts, two at once, three ticks, one change |
| `one_owner` | `OneWriter`: `DaemonStart` implements `StoreWriter`. `RunningIsFound`: a running daemon can be found and proven. `AnswerIsSnapshot`, `NeverLost`: the store. `OneRunInTurn`: the lease. `ClaimsAreOwn`: the claims. | two starts after a killed daemon; two connections of two versions to a new file, an old store or a file that is none, two writes, two reads and one crash; two runs of two lanes and a hold by hand for the second's lane, a lease stale after one tick and an orphan after two, with one kill and one release over three ticks, or one suspension over two; two lanes, three paths, four calls |
| `waits` | `BoundSeesEdit`, `OutcomeIsTrue`, `AnsweredByMoves`: a wait binds to content no older than its question, answers what is true when it answers, and does not need its limit | one wait, two files, two workspaces, any two of a write, a reconciliation, a rediscovery and a failure |
| `daemon_parts` | `NothingOutlivesJob`, `OutcomeIsOwn`: the executor. `BuildsAreOwn`: a build narrows only for its own discovery and inputs, and the watch misses none. `AnswersMatch`: each answer is taken for its own line, and a stop leaves none pending. `StoreClosesLast`. `WaitsEnd`: an aborted job, a wait for a build and a stop each end, none turned away early. | three jobs, two errors; two revisions, two discoveries, one loss of availability, one failure, one watched run; two clients, one of which pipelines past the bound, three halts that may fail |
| `daemon_start_raced` | violation, see findings | three starts |
| `discovery_edited_between` | violation, see findings | two writes, one named read |
| `told_no_run` | violation, see findings | two workspaces, one new list of test modules, two failed builds |

Why the bounds are enough. In the tracker a path's reads do not depend on another path's, so one file shows every race
of its events, reads and walks; a discovery takes two, so that it can meet a batch of named reads half done; the held
read and one write already share a stamp or do not, and `VerdictSound` is proved for any number of each. In the
scheduler two workspaces are what it takes for one to be due through another's input, and `HoldCount` of 2 with one
revision more reaches the hold and the step after it. Two executors' processes beside each other need two jobs, and a
reply two jobs late three. Two discards in a row are the builds' own constant (`DISCARDS_A_RUN_WAITS_THROUGH`). The
journal's bound of three is met by one moment that changes both keys after another, so that a whole sequence goes at
the bound and past it. Two disturbances of a wait are what it takes for a walk to read past an edit, for a failure to
meet a change and for a rediscovery to replace the coverage of a revision that then moves. Two starts race over what a
dead one left, and the theorems about the start take any number that come one after another; two versions are what it
takes to migrate a store under another's connection, and two reads one before and one after, since reads touch nothing
that two connections share; two agents to write beside each other's memory, two experiments for one to meet the other's
mutation, and four workspaces for a dependency through a workspace that is itself unlisted or unreadable. An edit and
the edit back, or two edits with a discovery between, are what a carried list can be wrong by. In the watched tree one
disturbance makes, moves or ignores what a walk or a batch is reading, a second falls between the watch, the listing
and the read of what the first did, and a third is the failure, or the new list, that meets them; a directory that may
be replaced with a file in it and a repository below it is what each of the filter's questions can be about.

Deadlock is not checked where the bounds end the behaviour; both scheduler runs check it.

### Fairness

- Tracker: a queued read, a pass and the close of a waited-out job end, since each is an await on the file system or on
  a promise already resolved. Nothing makes an event arrive or a caller ask.
- Scheduler: the loop's own steps, the timers (`CoolDown`, the periodic reconciliation) and the executor's answer, which
  the executor's bound guarantees. A build eventually ends narrowed, which stands for any end.
- Executor: the daemon's steps, the timer of the bound, and the system's: a killed process dies and its exit is
  reported. A process that was not killed may run for ever and may ignore every abort.
- Waits: the daemon's own reads, walks, builds, plans and jobs go on; nothing makes a caller ask, leave or run into its
  limit. Over a stored discovery that is enough for an answer, unless the file could not be read.
- Builds: ready continuations run, an executor answers by its bound, a verdict comes (the tracker's
  `VerdictComesInTime`). Nothing makes unavailable inputs available again. That the inputs stop flapping is the bound
  `MaxEvents`; an input set that is lost and found for ever would keep `awaitBuild` waiting for ever.
- Falsification: the tracker counts what it was told, the daemon's awaits resolve, and a job ends, by its time bound if
  not before. Edits and the stop are never forced.
- Served connections and the stop: a stop begun goes on, the work it waits for ends (a job by the executor's bound), a
  socket that was ended closes within the grace, and the endpoint closes. No client is made to write or read.

The store, the start, the lease, the claims, the hook and the journal have safety properties only: each waits for other
processes that may simply not go on.

## 4. What is proved

For every value of the constants that the named assumptions allow, by TLAPS. The bounds on counters may be any natural
numbers, so the theorems cover what the runs' bounds cut off. In each module the argument is an inductive invariant: the
property itself speaks of the moment an answer, a verdict or a row is given, and says nothing of the steps before it.

- `InputTrackerProofs`: `TypeCorrect`, `VerdictKept`, `VerdictIsSound`, `ViewsAreTrue`, `RefusalsAreTimely`,
  `BindingsAreSound`.
  - `VerdictInv`: for each running job that may still be judged fingerprinted, every write not in its window left a
    stamp no earlier than the read held (`BindInv`), so the next read cannot pass it over as unmoved, and every such
    write the daemon was told of has a read or a pass on the way. The other conjuncts bound the times of the held reads
    (`ReadsInv`), tie the batch to what is in flight (`QueueInv`) and the history to the windows (`WindowsInv`). A pass
    that walks replaces the held read of a path it finds unmoved, so each path it has read is one it read unmoved and
    none has written since (`past`), or a write since has left a stamp no earlier than its read, or the path's event or
    another pass is on the way (`PastInv`). The verdict is given only once nothing is on the way, which leaves the
    exception the statement names: writes a walk read past within that resolution. A write after the walk's read is no
    such write, whenever its event comes.
  - `TruthInv`: the read held of every file is what the disk holds, or what will replace it is on the way, or the
    tracker knows that it may not be (`HeldInv`). A pass replaces every read at once, so what it has read so far is true
    too, or an event since has queued a read, or the watch failed under it (`WalkInv`). A batch taken without an input
    set reads nothing, which loses no event only because a pass is then still to come (`SetInv`); the digests a view
    keeps are those of the reads held until a read changes one (`ProjectInv`).
  - `LedgerInv` and `TimelyInv`: the ledger counts past the batch being read as soon as anything is queued behind it, so
    a wait placed, or moved on by a reconciliation, outlives every event's read accepted before it. Together with
    `FirstPassInv` only a later event leaves a released job with reads to wait for.
  - `BindingIsSound`, of the discovery over the tracker: a window that may still be fingerprinted and has recorded no
    path opened on the digests held now (`StartInv`). That needs the wait before each window: a named read counts as
    pending in no view, so a window opened between two named reads of one batch would open on digests older than the
    reads held, and a wait's end leaves no read uncommitted (`CommittedInv`). Between the two windows nothing can be
    committed while no file is named, since then every read queued or in flight makes the views unavailable
    (`UnnamedInv`), so a fingerprinted verdict leaves nothing to wait for (`CaughtUpInv`) and the guard opens in the
    same turn (`GapInv`). With a named read it fails: section 5.
- `SchedulerProofs`: `SchedulerTypeCorrect`, `RunsAtMostOnceMore`, `KeptRunsAreSound`, `NoReportedHolds`,
  `NothingForgotten`, `HoldsPassNoEdit`. The types include that no job begins at the count that holds its subject
  (`StartInv`). How often a job was begun at the revision is bounded only through what its subject's attempt still
  owes, and that only through what the job that will end it was begun as (`OnceInv`). A run is kept soundly since the
  judgment by the builds its watch holds covers every path of its workspace (`BoundInv`), and a hold rests on no
  reported file since a path is put to the jobs' account only from a window, less what was reported to the job or is in
  a report still open (`ReportedInv`). `DueInv`, for `NothingForgotten`: a round is planned at a revision the inputs
  had and a job is under way only in its round (`RoundInv`); each workspace is due in the round, held, under way,
  tried, or current by the build the round was planned by (`NamesInv`); an attempt at this revision is of a job that
  began (`BegunInv`); and a round that idles was planned with nothing due and its discovery done (`IdleInv`).
  `HoldInv`, for `HoldsPassNoEdit`: what changed of a subject's inputs between jobs is among its edits, or lies behind
  the reading the next one is compared with (`ReadingsInv`, `LandedInv`); the latest run's fingerprint differs from the
  inputs by it too (`PrintsInv`), so a plan that idles holds no workspace past it (`IdleHeldInv`). The theorem assumes
  `~Reverts`: of a content put back before it is read, no comparison of digests can tell that it was ever another.
- `JobProofs`, of the executor: `ExecutorTypeCorrect`, `NoProcessOutlives`, `JobOutcomeIsOwn`. The invariant says whose
  events are taken (`ChildInv`), that every earlier job's process has exited and its tree is gone (`ProcessInv`), which
  purpose an abort before the send left (`AbortInv`) and from whom a reply came (`ReplyInv`).
- `JobProofs`, of the falsification job: `JobVerdictsAreTrue`. Transforms that still run apply no other mutation than
  that of the file mutated last, which the next run's freshening takes out (`AloneInv`). A record that says detected of
  a test the mutation lets pass rests on damage or on the one flake, and once confirmed on damage, which the restored
  baseline shows (`RecordsInv`, `RestoredInv`). Every experiment has its record when the job ends (`PlaceInv`), and a
  job cut short has no restored baseline and its reply says so (`RepliedInv`).
- `JobProofs`, of the builds: `BuildsNarrowTheirOwn`, `WaitsThroughDiscards`. The build under way is of this revision
  or an earlier one and no build recorded is newer than it (`RevisionInv`); what the watch has not seen is the latest
  build, since while it waits for the inputs to change no build is pending (`WatchInv`); and the discards a caller
  counts are no more than were discarded in a row while it waited (`DiscardsInv`).
- `FalsificationProofs`: `EvidenceIsSound`, `NoneWaitsInSilence`. While the revision is the one a job was planned at,
  all its runs read lies between the fingerprint read before it was sent and the contents of now (`JobInv`), so an
  unmoved revision at the end closes the gap. No mark and no wait is of a revision still to come (`MarksInv`), what is
  held at the revision is told, waits with its workspace or has evidence (`ToldInv`), and a look that took nothing has
  told every definition left (`ClosingInv`).
- `AnswersProofs`, of the journal: `JournalTypeCorrect`, `NetChangeExact`, `CursorsExpireAtBound`. Of every cursor that
  has not expired, the first change held of a key after it carries the key's standing at the cursor, and a key with no
  such change stands as it did (`SeenInv`); changes held are newer than the dropped sequence (`HeldInv`), and a cursor
  of this life names a moment this life recorded (`CursorInv`). Recording keeps this since the first change after a
  cursor, once pushed, never changes, and dropping keeps it since it only takes sequences every unexpired cursor is at
  or past. That it takes no more than it must is `CountInv`: until a cursor expires, the changes counted since it are
  the ones held after it.
- `AnswersProofs`, of the hook: `EditsStayRemembered`, `ChangesAreEverTold`, by `HookInv`. Nothing is dated past the
  clock (`ClockInv`); the file of an agent never left past its age holds exactly the agent's edits, and its cursor
  passes no change the agent was not told of (`FileInv`). A run past its own file has read it as it stands,
  with what it could not save put before it, and the latest answer recorded before the run began is still in a file it
  has to read or in what it read, so that a run keeps silent about a loss only after it was told (`RunsInv`).
- `AnswersProofs`, of what answers rate: `CurrentAnswersAreTrue`, `VerifiedIsTrue`.
  - `AnswersInv`: a discovery that read a text lists what the text declares (`ListsInv`), and a run of a text records
    what its tests do, each under a name its results tell apart (`StoredRunsInv`). A list carried from an earlier
    discovery is sound since a discovery and a run of one content list the same tests of a module, unless the run did
    not report its list or the discovery could not be stored with it (`TakenInv`).
  - `EvidenceInv`: stored evidence names the test, the mutation, the names, the source and the inputs it was judged on
    (`EvidenceTrue`), so equal digests say that nothing it was judged on has moved. The counts of an answer are of a
    finite index (`IndexFinite`), which is what makes "all verified" a statement about each.
- `CallersProofs`, of the connections: `ServedTypeCorrect`, `EachItsOwnAnswer`, `StoreClosesAfterItsUsers`,
  `StopsAreAcknowledged`. A connection's turns are, in order, the lines its client wrote and has no answer to
  (`ConnectionsInv`), a stop has emptied them and aborted every query (`StoppedInv`), and each stage of the stop begins
  with the waits before it over (`StageInv`).
- `CallersProofs`, of the waits: `WaitsSeeEdits`, `OutcomesAreTrue`, by `WaitsInv`. From its question on, the file a
  wait named holds content no older than the question; so does the walk under way once the second read is asked for,
  and so do the digests once that read is over, or something is queued or the watch woken that will see to it, until
  the wait is bound (`SightInv`). In a round planned at this revision every workspace is due, tried, under way or has a
  run of these inputs by the build the round was planned by (`RoundInv`, `PhaseInv`), and the coverage a wait keeps is
  what the build ended at its revision and discovery placed (`JudgedInv`).
- `StoreProofs`: `NothingIsLost`, `AnswersAreSnapshots`. A write under way has the lock and works on the store as it
  stands, with at most the earlier record taken out (`WriteInv`); rows are told apart by their numbers (`NumberInv`);
  every row has the shape of the file's version or was written by a program left open on a new file that an older
  version had created as it opened it (`SchemaInv`, `behind`); and what a connection keeps under a data version is what
  a read at that version finds (`KeptOf`), the step that needs the version read before the rows. Both are of any number
  of connections and versions, and of any that create a new file at once: what a program left behind wrote keeps its own
  shape in the older schema, and the statements name those rows.
- `LanesProofs`, of the lease: `OneRunAtATime`. Every run that goes on is spoken for by the lease or excused
  (`SpokenInv`), and a lease that speaks for a run is not stale, so none may take it. A wrapper goes by a time it took
  before it was suspended, so it may judge with, take with or stamp a time long past, but never one to come (`TimeOk`):
  a lease stamped so speaks for less, and one that no longer speaks for a run excuses it in that step (`Unspoken`). What
  was judged before the lock stays true under it when the same record is still there, since time only goes on and
  nothing ended comes back (`JudgedInv`). A record read while another rewrites it counts as none, and is judged anew
  under the lock, where one wrapper at a time rewrites, of its own lease or of the hold it joins (`RewritingInv`). A
  wrapper the lease names has let a hold through or runs (`OwnerInv`). Who keeps its heartbeat is never pruned
  (`HeartInv`), and who was judged the head of the queue stays it, of all that were there before it (`HeadInv`).
  Interleavings that take four wrappers, as of a suspended taker, its successor, a torn reader and a rewriter, are
  beyond the run and covered by the theorem.
- `LanesProofs`, of the daemon's start: `StoreHasOneWriter`, the refinement of `StoreWriter`, `RunningAreFound` and
  `SocketsLeftAlone`. A lock names the process past it, or one other process has moved it aside, found that it was not
  the stale one and left its place empty to put it back (`LockInv`); the same is true of the key of a daemon that
  listens (`KeyInv`). Of three processes two are then needed to take a lock that is held, so while two run at most one
  is past each lock (`OneHolds`): the start lock lets one process at a time unlink and bind the socket (`ServerInv`),
  and the store lock one open the store. The theorems are of any number of starts under two hypotheses, `MaxAtOnce \leq
  2` and `NoneEndsWithFileAside`, that no process is killed between moving a file aside and putting it back. Section 5
  shows what each excludes.
- `LanesProofs`, of the claims: `LanesHoldTheirOwn`. What a call under way has created, has still to undo or to remove
  is told apart from what the lane was told it holds (`HeldBy`), and the paths a grant has still to create meet no other
  lane's (`GrantInv`).

The assumptions are those the modules state of their constants: `ConstantsAssumption`, `DiscoveryAssumption`,
`SchedulerAssumption`, `DistinctAssumption` (what stands for nothing stored or begun is no record), `BoundsAssumption`
(the executor), `BuildsAssumption`, `PlanAssumption`, `JournalAssumption`, `HookAssumption`, `AnswersAssumption`,
`DefectAssumption`, `ServedAssumption`, `WaitsAssumption`, `StoreAssumption`, `StartAssumption`, `LeaseAssumption`,
`ClaimsAssumption` and `JobAssumption` (at most one flake, and troubles a verdict can see), each evaluated by TLC for
the constants of the runs. The hypotheses beside these are `~Reverts` of `HoldsPassNoEdit` and the two of the daemon's
start, named above with their theorems.

Only model-checked:

- every liveness property, since fairness and ENABLED are outside the prover's reach: `VerdictComes`, `HoldsEnd`,
  `ComesToRest`, `AnsweredByMoves` and what `WaitsEnd` says beside the two conjuncts proved;
- the algorithms of `DependencyGraph`, `SelectTests`, `LaneStaging` and `StoreRecords` (`StoredIsWritten`,
  `StagesExactly`, `SelectionSound`, `ScanOmitsNothingUnsaid`) and the walk of `WatchedTree` (`HeldIsTrue`), which are
  recursive or computed over data;
- the bound on the runs of a loop in `HoldsEnd` (`RunsBeforeHold`), which holds only of a workspace whose jobs' changes
  are all of one input, as the constants of `scheduler_holds` have it.

## 5. Findings

Three runs show that code and comment or document disagree; each quotes the line in `PROJECT.json`.

- `NoLiveSocketUnlinked` (`daemon/runtime-directory.ts:109`): a start that read a stale holder moves aside whatever the
  lock file is by then; with a third start two hold the lock, and the later one deletes the earlier one's live socket.
  For the same reason `OneWriter` and `RunningIsFound` fail once three starts run at once: two then open the store. They
  fail of two at a time too when a start is killed between moving the other's lock aside and putting it back, which a
  third start then finds free. The theorems of section 4 say that nothing else breaks them.
- `BoundToStart` (`daemon/job-endings.ts:39`): a named read that commits an edit between the discovery's window and the
  guard's binds the discovery to content it never collected.
- `NoRunUntilChange` (`daemon/workspace-schedule.ts:376`): a run that replaces the stored lists begins the builds anew
  while the round stays planned. When that build ends another way than the one the plan used, an answer says of a stale
  workspace that no run comes until an input changes, and the next plan runs it at the same revision.

Others were met while modelling. They are stated as formulas no run checks, or shape an exception a property names:

- `WriteReadPastIsJudged` of `InputTracker`: a walk that reads a file after a write and before the write's event
  replaces the held read when both writes fall in one step of the file times; the event's read then marks no job, though
  `inputs/input-state.ts:262` says such a write is judged against a read before it. `VerdictSound` names the exception.
- `OpenIsMigrated` of `Store`: a header read before the write lock shows a new file that an older RT Test creates before
  the lock is had; the store is then served unmigrated (`store/open-store.ts:94` and `:105`). It is false under the
  constants of `one_owner`, whose files include a new one; `AnswerIsSnapshot` names those programs (`behind`).
- `PositionsVouched` of `StoredAnswers`: a list carried from before an edit stays when the next run records its module
  as ran with an error of its own; a result told apart only by its position then reads current
  (`query/summary.ts:68`, `:162`). Seen with three edits. `CurrentIsTrue` names the exception (`ListTaken`).
- `IgnoredIsExcluded` of `WatchedTree`: a nested repository that comes into a directory git named as ignored without
  confirming it, or that appeared after the listing, is asked about by the empty path, which git refuses
  (`inputs/input-filter.ts:168`); the filter gives the repository up until the next walk, and files it ignores are held
  meanwhile, though git runs. Seen with two changes, no failure and no new list. `HeldIsTrue` names the exception.
- An event that comes while a walk is replacing the filter, on a path the old filter excludes, is dropped
  (`inputs/input-inventory.ts:77`); a directory replaced while the input set is lost is not walked again by its own
  event (`inputs/queued-reads.ts:366`); rules of a nested repository changed before its rule files are watched are not
  seen, nor is a rule file's event that is undelivered when new watches replace the old (`inputs/git-files.ts:50`,
  `inputs/input-watcher.ts:137`). In each the next periodic reconciliation repairs it; `HeldIsTrue` leaves them out by
  the history variables `dropped`, `letGo` and `unseen`.
- `breakAbandonedLock` (`scripts/lib/orchestration/lease.mjs:64`) removes the lock directory a step after it read its
  age: of two wrappers that find a dead process's lock the second can remove the first's fresh one, and a wrapper
  suspended inside a section for longer than `LOCK_BROKEN_AFTER_MS` loses its lock while it goes on. `RunLease` takes
  the lock around each section as exclusive, so its properties hold as long as no lock is broken.
- `recordChild` rewrites the lease's record in place (`lease.mjs:314`), and `leaseStatus` reads it without the lock
  (`lease.mjs:358`): a status read in between says NORUN of a run that goes on, beside a lease it tells of as
  unreadable. `NorunIsTrue` excepts it. A wrapper suspended since it took its time takes a lease already lapsed
  (`lease.mjs:277`, `lease-cli.mjs:158`), and a second run can then begin beside its own; `OneRun` excuses such a run
  from that step on.
- A hook's file found expired is deleted after its writer may have saved afresh (`packages/cli/src/hook-memory.ts:299`);
  `EditsRemembered` is stated of agents whose file was never left past the age.

## 6. What is left out

Of the modelled parts:

- Tracker: directories, listed files and protection (the first two are in `WatchedTree`); declared non-inputs.
- Scheduler: the jobs' names a changed path is listed with; stops; the refusal of an unconfirmed workspace. The look at
  falsification is `Falsification`, with the scheduler as what plans it.
- `WatchedTree`: declared non-inputs, paths excluded by name, watches that fail, the recursive watch of Windows, tracked
  files under an ignored directory, listed files that cannot be read. The end of a watched directory is reported once,
  where the system may report it by its own watch and its parent's; a walk past its bounds of depth or entries is one
  that meets an entry it cannot read.
- `RunLease`: a broken lock (above), a reading whose file time and content are of two holders, process ids used twice.
- Changes: when the changes are recorded is any determined moment, so that the loop that records at build ends and input
  changes leaves none out is not shown.
- `StoredAnswers`: one workspace at a time, modules whose latest run had an error of its own and lists whose refresh
  could not be written. A definition judged while a stale discovery lists its test once reads verified until
  rediscovery.
- Selection: overrides of a root manifest that cannot be read and the manifests of unlisted workspaces are outside the
  property. A specifier, a spec or a config comes as the form its text is read as: `extends-lookup.ts`,
  `source-imports.ts`, `jsonc.ts` and `package-specs.ts` are not modelled.
- `DaemonStart`: Linux. Whether a directory is another user's, and the keyed hash of the proof, are data.
- The text and wording of every reason and answer.

Not modelled at all: `PROJECT.json` lists each component with its reason. Parsing and rewriting of program text (the
mutation's place, the probes, source scan, configs), the composition and formatting of answers, the command line beside
the hook, system tools on Windows, logging, and what Vitest itself does inside the executor's process.

## 7. Plan

1. `Changes`: the recording loop over `builds.pending()`, input changes and stores; no determined moment that a later
   answer could need stays unrecorded. Composes with `ChangeJournal`.
2. Protection and declared non-inputs as further actions of `WatchedTree`, and the tracker as the scheduler sees it as
   an abstract specification `InputTracker` implements.
3. The definition files' reading, and the lists an answer composes beside the states it counts.
