---------------------------- MODULE InputTracker ----------------------------
(***************************************************************************)
(* The daemon's tracking of a project's input files: events queue paths    *)
(* for a read, reconciliations walk every input, and a job is judged from  *)
(* the window of changes recorded while it ran.  Models                    *)
(* packages/daemon/src/inputs: input-tracker.ts, input-jobs.ts,            *)
(* input-state.ts, queued-reads.ts, watcher-health.ts and the availability *)
(* of a view in current-inputs.ts.                                         *)
(*                                                                         *)
(* An input is a file: directories, ignore rules, declared non-inputs and  *)
(* the listed files held apart are left out.  A digest is the content      *)
(* itself.  Time counts in steps of MODIFIED_TIME_RESOLUTION_MS: a write   *)
(* stamps its file with the current step, so two writes within one step    *)
(* leave one stamp, and a read is late enough after the last write to rule *)
(* out another when its step is a later one.                               *)
(***************************************************************************)
EXTENDS Integers, FiniteSets

CONSTANTS
    Paths,          \* the files under the consumer root
    Contents,       \* what a file may hold
    Absent,         \* what the disk holds at a path with no file
    Jobs,           \* discoveries, runs and builds that read the inputs
    Reader,         \* the query whose readNamed waits beside the jobs' ends
    NoDigests,      \* the digests of a view that cannot vouch for them
    MaxWrites,      \* bound: writes
    MaxClock,       \* bound: steps of the clock
    MaxRequests,    \* bound: reconciliations asked for by git, a timer or a watch
    MaxFailures,    \* bound: reads and walks that fail
    MaxNamed        \* bound: readNamed calls

ASSUME ConstantsAssumption ==
    /\ IsFiniteSet(Paths)
    /\ Absent \notin Contents
    /\ Reader \notin Jobs
    /\ MaxWrites \in Nat /\ MaxClock \in Nat /\ MaxRequests \in Nat
    /\ MaxFailures \in Nat /\ MaxNamed \in Nat

VARIABLES
    disk,           \* each path's content and write stamp
    clock,          \* the current step of file times
    events,         \* paths whose watch event is not delivered yet
    held,           \* InputState.#inputs: the read held for each path, or NoRead
    established,    \* InputState.#established
    everEstablished,\* InputState.#everEstablished
    changed,        \* InputState.#changed: a digest changed since the last commit
    revision,       \* InputState.#revision
    project,        \* InputState.#project: the digests computed for this revision
    queue,          \* QueuedReads.#queue: the kind of read each path waits for
    batch,          \* the reads of the batch being drained that have not ended
    draining,       \* whether #processing is a drain
    vouched,        \* whether the batch was taken with an input set established
    through,        \* the ledger count the batch reads up to
    unreadNamed,    \* QueuedReads.#unreadNamed: paths whose named read could not read them
    inFlight,       \* #inFlight: the batch's reads that count as pending
    phase,          \* "idle", or a reconciliation "ready" between passes or "walking"
    requested,      \* #reconcileRequested
    walked,         \* the paths this pass has read
    inventory,      \* what this pass read at each of them
    lastReconciled, \* whether #lastReconciledAt is set
    lost,           \* whether #establishFailure is set
    unhealthy,      \* WatcherHealth.#failure
    watchFailed,    \* whether a watch failed since this pass began
    accepted,       \* EventLedger.#accepted
    readThrough,    \* EventLedger.#readThrough
    waits,          \* EventLedger.#waiters: the wait of each job's end and of readNamed
    windows,        \* JobWindows.#open, and each job's mark and verdict
    stopped,        \* #stopped
    counts,         \* how much of each bound is used
    written,        \* history: paths written since each running job began
    seen,           \* history: those whose event was accepted before the job's end
    late,           \* history: whether an event came after each job asked for its verdict
    past,           \* history: paths this pass read unmoved, with no write since it read them
    blind,          \* history: written paths whose last write a settled walk read past with their event unread
    unreported      \* history: paths whose event was lost unreported since their last read

diskVars == <<disk, clock, events>>
stateVars == <<held, established, everEstablished, changed, revision, project>>
queueVars == <<queue, batch, draining, vouched, through, inFlight,
              unreadNamed>>
passVars == <<phase, requested, walked, inventory, past, lastReconciled, lost,
              unhealthy, watchFailed>>
ledgerVars == <<accepted, readThrough, waits>>
historyVars == <<written, seen, blind, late, unreported>>
vars == <<diskVars, stateVars, queueVars, passVars, ledgerVars, windows,
          stopped, counts, historyVars>>

-----------------------------------------------------------------------------
(* Reads, input-inventory.ts and input-state.ts.                           *)

NoRead == [content |-> Absent, stamp |-> 0, readAt |-> 0]
Reads == [content : Contents \cup {Absent}, stamp : 0..MaxClock, readAt : 0..MaxClock]

\* What a read of p finds now: readAt is taken before the stat, so a write the read missed lands after it.
ReadEntry(p) ==
    IF disk[p].content = Absent THEN NoRead
    ELSE [content |-> disk[p].content, stamp |-> disk[p].stamp, readAt |-> clock]

Holds(reads, p) == reads[p].content # Absent

Unmoved(before, next) ==
    before.content = next.content /\ before.stamp = next.stamp

\* Mutant of Rested: trusts a stamp of the step the held read was taken in.
RestedWithoutTime(before, next) == Unmoved(before, next)

\* restedSince: next sees what before left, read late enough that a write since would have moved the stamp.
Rested(before, next) ==
    Unmoved(before, next) /\ before.readAt > before.stamp

\* keptReads: a walk's read replaces the held one unless the content is the same and a write may have been read past.
KeptRead(before, read, unread) ==
    IF before.content # Absent /\ before.content = read.content
       /\ (unread \/ ~Unmoved(before, read))
    THEN before ELSE read

ChangedPaths(before, after) ==
    {p \in Paths : before[p].content # after[p].content}

RestampedPaths(before, after) ==
    {p \in Paths : /\ Holds(before, p)
                   /\ before[p].content = after[p].content
                   /\ ~Unmoved(before[p], after[p])}

Digests(reads) == [p \in Paths |-> reads[p].content]

-----------------------------------------------------------------------------
(* Views, current-inputs.ts: why no fingerprint can be computed now.       *)

Queued(q) == {p \in Paths : q[p] # "none"}
Pending(q) == {p \in Paths : q[p] = "change"}
NothingQueued == [p \in Paths |-> "none"]

Reconciling == phase # "idle"

Incomplete == stopped \/ ~lastReconciled \/ Reconciling \/ lost

\* Mutant of Unavailable: forgets the reads taken off the queue.
UnavailableForgetsBatch == Incomplete \/ unhealthy \/ Pending(queue) # {}

Unavailable == Incomplete \/ unhealthy \/ Pending(queue) # {} \/ inFlight # {}

\* InputState.project: computed once and kept until the next commit that raises the revision, or establish.
ProjectDigests == IF project = NoDigests THEN Digests(held) ELSE project
ViewDigests == IF Unavailable THEN NoDigests ELSE ProjectDigests

\* Every view goes through project(), which keeps what it computed.
TakeView == project' = IF Unavailable THEN project ELSE ProjectDigests

-----------------------------------------------------------------------------
(* EventLedger and JobWindows, input-jobs.ts.                              *)

Waiters == Jobs \cup {Reader}

\* Mutant of CanEnd: an off-by-one that waits for a read past the last.
CanEndPastLast(w, upTo, reconciling, read) ==
    \/ w = Reader /\ reconciling
    \/ ~reconciling /\ read > upTo

\* #canEnd: readNamed's wait ends while a reconciliation runs; every other wait is held until none does.
CanEnd(w, upTo, reconciling, read) ==
    \/ w = Reader /\ reconciling
    \/ ~reconciling /\ read >= upTo

Released == [state |-> "released", upTo |-> 0]

Notified(ws, reconciling, read) ==
    [w \in Waiters |->
        IF ws[w].state = "waiting" /\ CanEnd(w, ws[w].upTo, reconciling, read)
        THEN Released ELSE ws[w]]

\* acceptHeld: what a reconciliation left to read is part of it for every wait already placed.
RaisedWaits(ws, count, total) ==
    IF count = 0 THEN ws
    ELSE [w \in Waiters |->
            IF ws[w].state = "waiting" THEN [ws[w] EXCEPT !.upTo = total] ELSE ws[w]]

\* #wait: a wait that can end at once is never placed.
PlacedWait(w) ==
    IF stopped \/ CanEnd(w, accepted', phase' # "idle", readThrough')
    THEN Released ELSE [state |-> "waiting", upTo |-> accepted']

Running(j) == windows[j].state \in {"running", "ending"}

RecordedPaths(ws, ps) ==
    [j \in Jobs |-> IF Running(j) THEN [ws[j] EXCEPT !.paths = @ \cup ps] ELSE ws[j]]

RecordedCause(ws) ==
    [j \in Jobs |-> IF Running(j) THEN [ws[j] EXCEPT !.caused = TRUE] ELSE ws[j]]

\* Mutant of Verdict: judges by lost input sets alone.
VerdictOfCauses(w, unavailable) ==
    CASE w.unsettled -> "unsettled"
      [] ~w.unsettled /\ w.caused -> "changed"
      [] ~w.unsettled /\ ~w.caused -> IF unavailable THEN "unavailable" ELSE "fingerprinted"

\* close: the verdict's reasons in the order the code tries them.
Verdict(w, unavailable) ==
    CASE w.unsettled -> "unsettled"
      [] ~w.unsettled /\ (w.caused \/ w.paths # {}) -> "changed"
      [] ~w.unsettled /\ ~w.caused /\ w.paths = {} ->
            IF unavailable THEN "unavailable" ELSE "fingerprinted"

NoWindow == [state |-> "none", paths |-> {}, caused |-> FALSE, unsettled |-> FALSE,
             start |-> NoDigests, end |-> NoDigests, verdict |-> "none"]

-----------------------------------------------------------------------------
(* The queue, input-tracker.ts #processQueue and #drainQueue.              *)

\* Takes every waiting path as the next batch, unless one is being read, a reconciliation runs or the tracker stopped.
ProcessQueue(q, total, busy) ==
    IF Queued(q) = {} \/ busy \/ phase' # "idle" \/ stopped
    THEN /\ queue' = q
         /\ UNCHANGED <<batch, vouched, through, inFlight, unreadNamed>>
         /\ draining' = busy
    ELSE /\ queue' = NothingQueued
         /\ batch' = q
         /\ vouched' = established'
         /\ through' = total
         /\ inFlight' = Pending(q)
         /\ draining' = TRUE
         /\ UNCHANGED unreadNamed

\* enqueue and accept for an event on p, in place of a named read.
Enqueued(q, ps) == [p \in Paths |-> IF p \in ps THEN "change" ELSE q[p]]

\* #requestReconciliation: asks for a pass, starting the reconciliation when none runs.
RequestReconciliation ==
    /\ requested' = TRUE
    /\ phase' = IF Reconciling THEN phase ELSE "ready"
    /\ waits' = Notified(waits, TRUE, readThrough)

\* #inputSetLost: nothing is vouched for until a pass reads every input, asked for unless one is running.
InputSetLost ==
    /\ established' = FALSE
    /\ lost' = TRUE
    /\ IF Reconciling THEN UNCHANGED <<requested, phase, waits>>
       ELSE RequestReconciliation

\* commit: raises the revision once when a digest changed, and drops the digests computed for the old one.
Commit(isChanged) ==
    /\ changed' = FALSE
    /\ revision' = IF isChanged THEN revision + 1 ELSE revision

-----------------------------------------------------------------------------
(* Turns of the event loop.                                                *)

\* The batch is read, or lost the input set, which skips its named reads.
BatchRead ==
    \/ Queued(batch) = {}
    \/ vouched /\ ~established /\ Pending(batch) = {}

\* Promise continuations run in the turn that settled them, before the next callback: a batch read is committed, a
\* pass begun or ended, and a released job judged, with no event, query or other read in between.
TurnOpen ==
    \/ draining /\ (BatchRead \/ ~vouched)
    \/ phase = "ready" /\ ~draining
    \/ \E j \in Jobs : windows[j].state = "ending" /\ waits[j].state = "released"

-----------------------------------------------------------------------------
Init ==
    /\ disk \in [Paths -> [content : Contents \cup {Absent}, stamp : {0}]]
    /\ clock = 0 /\ events = {}
    /\ held = [p \in Paths |-> NoRead]
    /\ established = FALSE /\ everEstablished = FALSE /\ changed = FALSE
    /\ revision = 0 /\ project = NoDigests
    /\ queue = NothingQueued /\ batch = NothingQueued
    /\ draining = FALSE /\ vouched = FALSE /\ through = 0 /\ inFlight = {}
    /\ unreadNamed = {} /\ unreported = {}
    /\ phase = "ready" /\ requested = TRUE
    /\ walked = {} /\ inventory = [p \in Paths |-> NoRead] /\ past = {}
    /\ lastReconciled = FALSE /\ lost = FALSE
    /\ unhealthy = FALSE /\ watchFailed = FALSE
    /\ accepted = 0 /\ readThrough = 0
    /\ waits = [w \in Waiters |-> [state |-> "none", upTo |-> 0]]
    /\ windows = [j \in Jobs |-> NoWindow]
    /\ stopped = FALSE
    /\ counts = [writes |-> 0, requests |-> 0, failures |-> 0, named |-> 0]
    /\ written = [j \in Jobs |-> {}] /\ seen = [j \in Jobs |-> {}]
    /\ blind = [j \in Jobs |-> {}] /\ late = [j \in Jobs |-> FALSE]

-----------------------------------------------------------------------------
(* The disk and the operating system's watches.                            *)

\* The writes in job j's window that a walk read past: settled, or by this pass so far with no event's read queued.
ReadPast(j) == blind[j] \cup {p \in written[j] \cap past : queue[p] # "change"}

\* Someone writes p, whole, with any content, the one it held included, or removes it.
Write(p, c) ==
    /\ ~TurnOpen
    /\ counts.writes < MaxWrites /\ ~stopped
    /\ c # Absent \/ disk[p].content # Absent
    /\ counts' = [counts EXCEPT !.writes = @ + 1]
    /\ disk' = [disk EXCEPT ![p] = [content |-> c, stamp |-> clock]]
    /\ events' = events \cup {p}
    /\ written' = [j \in Jobs |-> IF windows[j].state = "running"
                                  THEN written[j] \cup {p} ELSE written[j]]
    /\ seen' = [j \in Jobs |-> seen[j] \ (ReadPast(j) \cap {p})]
    /\ blind' = [j \in Jobs |-> blind[j] \ {p}]
    /\ past' = past \ {p}
    /\ UNCHANGED <<clock, stateVars, queueVars, phase, requested, walked, inventory,
                   lastReconciled, lost, unhealthy, watchFailed, ledgerVars, windows,
                   stopped, late, unreported>>

Tick ==
    /\ ~TurnOpen
    /\ clock < MaxClock /\ ~stopped
    /\ clock' = clock + 1
    /\ UNCHANGED <<disk, events, stateVars, queueVars, passVars, ledgerVars,
                   windows, stopped, counts, historyVars>>

\* Linux drops an inotify queue overflow unreported.
LoseEvent(p) ==
    /\ ~TurnOpen
    /\ p \in events /\ ~stopped
    /\ events' = events \ {p}
    /\ unreported' = unreported \cup {p}
    /\ UNCHANGED <<disk, clock, stateVars, queueVars, passVars, ledgerVars,
                   windows, stopped, counts, written, seen, blind, late>>

-----------------------------------------------------------------------------
(* Events and requests, input-tracker.ts.                                  *)

\* The jobs that have not asked for their verdict learn of ps in time.
SeenBy(ps) ==
    [j \in Jobs |-> IF windows[j].state = "running"
                    THEN seen[j] \cup (ps \cap written[j]) ELSE seen[j]]

\* #changed and #queuePath: an event on p queues a read of it.
Deliver(p) ==
    /\ ~TurnOpen
    /\ p \in events /\ ~stopped
    /\ events' = events \ {p}
    /\ accepted' = accepted + 1
    /\ UNCHANGED <<phase, established>>
    /\ ProcessQueue(Enqueued(queue, {p}), accepted', draining)
    /\ seen' = SeenBy({p})
    /\ late' = [j \in Jobs |-> late[j] \/ windows[j].state = "ending"]
    /\ UNCHANGED <<disk, clock, held, everEstablished, changed, revision, project,
                   requested, walked, inventory, past, lastReconciled, lost, unhealthy,
                   watchFailed, readThrough, waits, windows, stopped, counts,
                   written, blind, unreported>>

\* A git move, an ignore rule, rt-test.json or the periodic timer asks for a reconciliation.
Request ==
    /\ ~TurnOpen
    /\ counts.requests < MaxRequests /\ ~stopped
    /\ counts' = [counts EXCEPT !.requests = @ + 1]
    /\ RequestReconciliation
    /\ UNCHANGED <<diskVars, stateVars, queueVars, walked, inventory, past,
                   lastReconciled, lost, unhealthy, watchFailed, accepted,
                   readThrough, windows, stopped, historyVars>>

\* #watchFailed: the watcher reports that it lost events, here all it had not delivered.
WatchFailed ==
    /\ ~TurnOpen
    /\ counts.requests < MaxRequests /\ ~stopped
    /\ counts' = [counts EXCEPT !.requests = @ + 1]
    /\ events' = {}
    /\ seen' = SeenBy(events)
    /\ unhealthy' = TRUE /\ watchFailed' = TRUE
    /\ RequestReconciliation
    /\ UNCHANGED <<disk, clock, stateVars, queueVars, walked, inventory, past,
                   lastReconciled, lost, accepted, readThrough, windows,
                   stopped, written, blind, late, unreported>>

-----------------------------------------------------------------------------
(* Reading a batch, queued-reads.ts.                                       *)

\* A batch taken with no input set established reads nothing: each path marks the jobs as a cause.
ReadNothing ==
    /\ draining /\ ~vouched /\ Queued(batch) # {}
    /\ batch' = NothingQueued
    /\ windows' = RecordedCause(windows)
    /\ UNCHANGED <<diskVars, stateVars, queue, draining, vouched, through, inFlight,
                   unreadNamed, passVars, ledgerVars, stopped, counts, written, seen, blind, late, unreported>>

ReadDone(p) == batch' = [batch EXCEPT ![p] = "none"]

\* #readPath: an event's read holds what it finds, marking the jobs unless it rules out any write since the last read.
ReadPath(p) ==
    LET read == ReadEntry(p)
        before == held[p]
    IN  /\ ~TurnOpen
        /\ draining /\ vouched /\ batch[p] = "change"
        /\ ReadDone(p)
        /\ held' = [held EXCEPT ![p] = read]
        /\ changed' = (changed \/ before.content # read.content)
        /\ windows' = IF before.content # Absent /\ Rested(before, read)
                      THEN windows ELSE RecordedPaths(windows, {p})
        /\ unreadNamed' = unreadNamed \ {p}
        /\ unreported' = unreported \ {p}
        /\ UNCHANGED <<diskVars, established, everEstablished, revision, project,
                       queue, draining, vouched, through, inFlight, passVars,
                       ledgerVars, stopped, counts, written, seen, blind, late>>

\* #readPath of an entry that cannot be read loses the input set.
ReadFails(p) ==
    /\ ~TurnOpen
    /\ draining /\ vouched /\ batch[p] = "change"
    /\ counts.failures < MaxFailures
    /\ counts' = [counts EXCEPT !.failures = @ + 1]
    /\ ReadDone(p)
    /\ unreadNamed' = unreadNamed \ {p}
    /\ InputSetLost
    /\ windows' = RecordedCause(windows)
    /\ UNCHANGED <<diskVars, held, everEstablished, changed, revision, project,
                   queue, draining, vouched, through, inFlight, walked, inventory, past,
                   lastReconciled, unhealthy, watchFailed, accepted, readThrough,
                   stopped, written, seen, blind, late, unreported>>

\* #readNamed: after the batch's event reads, changes only what it finds changed and keeps every other held read.
ReadNamed(p) ==
    \E unreadable \in BOOLEAN :
        LET read == IF unreadable THEN NoRead ELSE ReadEntry(p) IN
        /\ ~TurnOpen
        /\ draining /\ vouched /\ established
        /\ batch[p] = "named" /\ Pending(batch) = {}
        /\ unreadable => counts.failures < MaxFailures /\ disk[p].content # Absent
        /\ counts' = IF unreadable THEN [counts EXCEPT !.failures = @ + 1] ELSE counts
        /\ unreadNamed' = IF unreadable THEN unreadNamed \cup {p} ELSE unreadNamed \ {p}
        /\ ReadDone(p)
        /\ IF read.content = held[p].content
           THEN UNCHANGED <<held, changed, windows>>
           ELSE /\ held' = [held EXCEPT ![p] = read]
                /\ changed' = TRUE
                /\ windows' = RecordedPaths(windows, {p})
        /\ unreported' = unreported \ {p}
        /\ UNCHANGED <<diskVars, established, everEstablished, revision, project,
                       queue, draining, vouched, through, inFlight, passVars,
                       ledgerVars, stopped, written, seen, blind, late>>

\* Once the batch is read, or its named reads are skipped because it lost the input set, or a stop aborted it:
\* commits, tells the ledger, and takes the next batch.
EndBatch ==
    /\ draining
    /\ BatchRead \/ stopped
    /\ Commit(changed)
    /\ project' = IF changed THEN NoDigests ELSE project
    /\ readThrough' = IF through > readThrough THEN through ELSE readThrough
    /\ waits' = Notified(waits, Reconciling, readThrough')
    /\ UNCHANGED <<phase, established>>
    /\ IF Queued(queue) = {} \/ Reconciling \/ stopped
       THEN /\ batch' = NothingQueued /\ inFlight' = {} /\ draining' = FALSE
            /\ vouched' = FALSE /\ through' = 0
            /\ UNCHANGED <<queue, unreadNamed>>
       ELSE ProcessQueue(queue, accepted, FALSE)
    /\ UNCHANGED <<diskVars, held, everEstablished, requested, walked, inventory, past,
                   lastReconciled, lost, unhealthy, watchFailed, accepted, windows,
                   stopped, counts, historyVars>>

-----------------------------------------------------------------------------
(* Reconciliation, input-tracker.ts #reconcileWhileRequested.              *)

\* A pass begins once no batch is being read: the walk starts with no watch failure counted.
StartPass ==
    /\ phase = "ready" /\ requested /\ ~draining /\ ~stopped
    /\ requested' = FALSE
    /\ phase' = "walking"
    /\ watchFailed' = FALSE
    /\ UNCHANGED <<diskVars, stateVars, queueVars, walked, inventory, past, lastReconciled, lost, unhealthy,
                   ledgerVars, windows, stopped, counts, historyVars>>

\* The walk reads its paths one by one, while writes and events go on.
WalkRead(p) ==
    /\ ~TurnOpen
    /\ phase = "walking" /\ p \notin walked
    /\ walked' = walked \cup {p}
    /\ inventory' = [inventory EXCEPT ![p] = ReadEntry(p)]
    /\ past' = IF Unmoved(held[p], ReadEntry(p)) THEN past \cup {p} ELSE past
    /\ unreported' = unreported \ {p}
    /\ UNCHANGED <<diskVars, stateVars, queueVars, phase, requested, lastReconciled,
                   lost, unhealthy, watchFailed, ledgerVars, windows, stopped,
                   counts, written, seen, blind, late>>

PassOver == walked' = {} /\ inventory' = [p \in Paths |-> NoRead] /\ past' = {}

\* #health.settle: only a pass that read every input with no watch failing makes the watcher healthy again.
SettledHealth(ok) == watchFailed \/ (unhealthy /\ ~ok)

\* #settleReconciliation of a whole inventory: holds it, marks the jobs with what changed, and queues
\* a read of each path it found restamped, which every wait placed then waits for too.
Settle ==
    LET unread == Queued(queue)
        changes == IF everEstablished THEN ChangedPaths(held, inventory) ELSE {}
        restamped == RestampedPaths(held, inventory)
    IN  /\ ~TurnOpen
        /\ phase = "walking" /\ walked = Paths /\ ~stopped
        /\ held' = [p \in Paths |-> KeptRead(held[p], inventory[p], p \in unread)]
        /\ established' = TRUE /\ everEstablished' = TRUE
        /\ Commit(changed \/ changes # {})
        /\ project' = NoDigests
        /\ windows' = RecordedPaths(windows, changes)
        /\ queue' = Enqueued(queue, restamped)
        /\ accepted' = accepted + Cardinality(restamped)
        /\ waits' = RaisedWaits(waits, Cardinality(restamped), accepted')
        /\ blind' = [j \in Jobs |-> ReadPast(j)]
        /\ lost' = FALSE
        /\ unhealthy' = SettledHealth(TRUE)
        /\ lastReconciled' = TRUE
        /\ phase' = "ready"
        /\ PassOver
        /\ UNCHANGED <<diskVars, batch, draining, vouched, through, inFlight,
                       unreadNamed, requested, watchFailed, readThrough, stopped, counts,
                       written, seen, late, unreported>>

\* #settleReconciliation of an inventory that could not be taken whole.
WalkFails ==
    /\ ~TurnOpen
    /\ phase = "walking" /\ ~stopped /\ counts.failures < MaxFailures
    /\ counts' = [counts EXCEPT !.failures = @ + 1]
    /\ established' = FALSE /\ lost' = TRUE
    /\ windows' = RecordedCause(windows)
    /\ unhealthy' = SettledHealth(FALSE)
    /\ lastReconciled' = TRUE
    /\ phase' = "ready"
    /\ PassOver
    /\ UNCHANGED <<diskVars, held, everEstablished, changed, revision, project,
                   queueVars, requested, watchFailed, ledgerVars,
                   stopped, historyVars>>

\* The last pass asked for has ended: the paths queued meanwhile are read and the waits are told.
EndReconciliation ==
    /\ phase = "ready" /\ ~draining
    /\ ~requested \/ stopped
    /\ phase' = "idle"
    /\ UNCHANGED established
    /\ ProcessQueue(queue, accepted, FALSE)
    /\ waits' = IF stopped THEN waits ELSE Notified(waits, FALSE, readThrough)
    /\ UNCHANGED <<diskVars, held, everEstablished, changed, revision, project,
                   requested, walked, inventory, past, lastReconciled, lost, unhealthy,
                   watchFailed, accepted, readThrough, windows, stopped, counts,
                   historyVars>>

-----------------------------------------------------------------------------
(* What callers ask.                                                       *)

\* current(): any query or round reads the inputs now.
Query ==
    /\ ~TurnOpen
    /\ TakeView
    /\ UNCHANGED <<diskVars, held, established, everEstablished, changed, revision,
                   queueVars, passVars, ledgerVars, windows, stopped, counts,
                   written, seen, blind, late, unreported>>

BeginJob(j) ==
    /\ ~TurnOpen
    /\ windows[j].state = "none"
    /\ TakeView
    /\ windows' = [windows EXCEPT ![j] = [NoWindow EXCEPT
                        !.state = "running", !.unsettled = Unavailable,
                        !.start = ViewDigests]]
    /\ UNCHANGED <<diskVars, held, established, everEstablished, changed, revision,
                   queueVars, passVars, ledgerVars, stopped, counts, written, seen,
                   blind, late, unreported>>

\* endJob waits for the inputs to settle.
EndJob(j) ==
    /\ ~TurnOpen
    /\ windows[j].state = "running"
    /\ windows' = [windows EXCEPT ![j].state = "ending"]
    /\ UNCHANGED <<accepted, readThrough, phase>>
    /\ waits' = [waits EXCEPT ![j] = PlacedWait(j)]
    /\ UNCHANGED <<diskVars, stateVars, queueVars, requested, walked, inventory, past,
                   lastReconciled, lost, unhealthy, watchFailed, stopped, counts,
                   historyVars>>

\* endJob's wait has ended: the job is judged from its window and the view now.
CloseJob(j) ==
    /\ windows[j].state = "ending" /\ waits[j].state = "released"
    /\ TakeView
    /\ windows' = [windows EXCEPT ![j].state = "closed",
                                  ![j].end = ViewDigests,
                                  ![j].verdict = Verdict(windows[j], Unavailable)]
    /\ UNCHANGED <<diskVars, held, established, everEstablished, changed, revision,
                   queueVars, passVars, ledgerVars, stopped, counts, written, seen,
                   blind, late, unreported>>

\* readNamed: queues a named read of each path not already queued, and waits for it or for a reconciliation.
\* A path no input is held at and no entry lies at names nothing.
ReadNamedCall(ps) ==
    LET named == {p \in ps : Holds(held, p) \/ disk[p].content # Absent}
        added == {p \in named : queue[p] = "none"}
        reads == ~Reconciling /\ established
    IN  /\ ~TurnOpen
        /\ counts.named < MaxNamed /\ waits[Reader].state # "waiting" /\ ~stopped
        /\ counts' = [counts EXCEPT !.named = @ + 1]
        /\ UNCHANGED <<phase, established, readThrough>>
        /\ accepted' = IF reads THEN accepted + Cardinality(added) ELSE accepted
        /\ ProcessQueue(IF reads THEN [p \in Paths |-> IF p \in added THEN "named" ELSE queue[p]]
                        ELSE queue, accepted', draining)
        /\ waits' = [waits EXCEPT ![Reader] = PlacedWait(Reader)]
        /\ UNCHANGED <<diskVars, held, everEstablished, changed, revision, project,
                       requested, walked, inventory, past, lastReconciled, lost, unhealthy,
                       watchFailed, windows, stopped, historyVars>>

\* stop: every wait is released, and what was being read is aborted.
Stop ==
    /\ ~TurnOpen
    /\ ~stopped
    /\ stopped' = TRUE
    /\ waits' = [w \in Waiters |-> IF waits[w].state = "waiting"
                                   THEN Released ELSE waits[w]]
    /\ phase' = IF Reconciling THEN "ready" ELSE phase
    /\ PassOver
    /\ UNCHANGED <<diskVars, stateVars, queueVars, requested,
                   lastReconciled, lost, unhealthy, watchFailed, accepted,
                   readThrough, windows, counts, historyVars>>

Next ==
    \/ \E p \in Paths : \E c \in Contents \cup {Absent} : Write(p, c)
    \/ Tick
    \/ \E p \in Paths : LoseEvent(p)
    \/ \E p \in Paths : Deliver(p)
    \/ Request
    \/ WatchFailed
    \/ ReadNothing
    \/ \E p \in Paths : ReadPath(p)
    \/ \E p \in Paths : ReadFails(p)
    \/ \E p \in Paths : ReadNamed(p)
    \/ EndBatch
    \/ StartPass
    \/ \E p \in Paths : WalkRead(p)
    \/ Settle
    \/ WalkFails
    \/ EndReconciliation
    \/ Query
    \/ \E j \in Jobs : BeginJob(j)
    \/ \E j \in Jobs : EndJob(j)
    \/ \E j \in Jobs : CloseJob(j)
    \/ \E ps \in SUBSET Paths : ReadNamedCall(ps)
    \/ Stop

\* The event loop gives every read, pass and continuation its turn; nobody is obliged to write, ask or stop.
Fairness ==
    /\ \A p \in Paths : /\ WF_vars(ReadPath(p)) /\ WF_vars(ReadNamed(p)) /\ WF_vars(WalkRead(p))
    /\ WF_vars(ReadNothing) /\ WF_vars(EndBatch)
    /\ WF_vars(StartPass) /\ WF_vars(Settle) /\ WF_vars(EndReconciliation)
    /\ \A j \in Jobs : WF_vars(CloseJob(j))

Spec == Init /\ [][Next]_vars
FairSpec == Spec /\ Fairness

-----------------------------------------------------------------------------
(* Properties.                                                             *)

WindowType ==
    [state : {"none", "running", "ending", "closed"}, paths : SUBSET Paths,
     caused : BOOLEAN, unsettled : BOOLEAN,
     start : [Paths -> Contents \cup {Absent}] \cup {NoDigests},
     end : [Paths -> Contents \cup {Absent}] \cup {NoDigests},
     verdict : {"none", "unsettled", "changed", "unavailable", "fingerprinted"}]

DiskType ==
    /\ disk \in [Paths -> [content : Contents \cup {Absent}, stamp : 0..MaxClock]]
    /\ clock \in 0..MaxClock
    /\ events \subseteq Paths

StateType ==
    /\ held \in [Paths -> Reads]
    /\ established \in BOOLEAN /\ everEstablished \in BOOLEAN /\ changed \in BOOLEAN
    /\ revision \in Nat
    /\ project \in [Paths -> Contents \cup {Absent}] \cup {NoDigests}

QueueType ==
    /\ queue \in [Paths -> {"none", "change", "named"}]
    /\ batch \in [Paths -> {"none", "change", "named"}]
    /\ draining \in BOOLEAN /\ vouched \in BOOLEAN /\ through \in Nat
    /\ inFlight \subseteq Paths /\ unreadNamed \subseteq Paths

PassType ==
    /\ phase \in {"idle", "ready", "walking"}
    /\ walked \subseteq Paths /\ past \subseteq walked /\ inventory \in [Paths -> Reads]
    /\ requested \in BOOLEAN /\ lastReconciled \in BOOLEAN /\ lost \in BOOLEAN
    /\ unhealthy \in BOOLEAN /\ watchFailed \in BOOLEAN

WaitsType == [Waiters -> [state : {"none", "waiting", "released"}, upTo : Nat]]

LedgerType == accepted \in Nat /\ readThrough \in Nat /\ waits \in WaitsType

JobsType ==
    /\ windows \in [Jobs -> WindowType]
    /\ stopped \in BOOLEAN
    /\ counts \in [writes : Nat, requests : Nat, failures : Nat, named : Nat]

HistoryType ==
    /\ written \in [Jobs -> SUBSET Paths] /\ seen \in [Jobs -> SUBSET Paths]
    /\ blind \in [Jobs -> SUBSET Paths] /\ late \in [Jobs -> BOOLEAN]
    /\ unreported \subseteq Paths

\* The tracker's variables keep their types.
TypeOK ==
    /\ DiskType /\ StateType /\ QueueType /\ PassType
    /\ LedgerType /\ JobsType /\ HistoryType

\* A running job that may still be judged fingerprinted.
MayBind(j) == Running(j) /\ ~windows[j].unsettled /\ ~windows[j].caused

\* The paths of ps that job j's window has not recorded and no walk read past.
Unrecorded(j, ps) == ps \ (windows[j].paths \cup blind[j])

\* Reads are not from the future, and a path with no file has no read.
ReadsInv ==
    \A p \in Paths : /\ held[p].readAt <= clock /\ inventory[p].readAt <= clock
                     /\ held[p].content = Absent => held[p] = NoRead
                     /\ inventory[p].content = Absent => inventory[p] = NoRead

\* The batch's event reads are in flight, and a batch is read only by a drain.
QueueInv ==
    \A p \in Paths : /\ batch[p] = "change" => p \in inFlight
                     /\ ~draining => batch[p] = "none"

\* A pass asked for is part of a reconciliation, and one that lost nothing established the input set.
PassInv ==
    /\ requested => Reconciling \/ stopped
    /\ lastReconciled /\ ~lost => everEstablished

\* The history follows the windows.
WindowsInv ==
    \A j \in Jobs : /\ windows[j].state = "none" => written[j] = {}
                    /\ seen[j] \subseteq written[j]
                    /\ windows[j].verdict # "none" => windows[j].state = "closed"

\* A read of p for an event, or a pass, is queued or under way, or the tracker stopped.
OnTheWay(p) ==
    queue[p] = "change" \/ batch[p] = "change" \/ requested \/ phase = "walking" \/ stopped

\* While a pass walks no batch is read, and what a job has not recorded of a path it read is read past, has a read or a
\* pass to come, or is what the pass will find moved: a write since the pass read it left a stamp no earlier than that.
PastInv ==
    IF phase = "walking"
    THEN /\ ~draining
         /\ \A p \in walked :
               IF p \in past THEN Unmoved(held[p], inventory[p])
               ELSE /\ Unmoved(held[p], inventory[p]) => inventory[p].readAt <= disk[p].stamp
                    /\ \A j \in Jobs : MayBind(j) /\ p \in Unrecorded(j, seen[j]) =>
                          queue[p] = "change" \/ requested \/ stopped \/ ~Unmoved(held[p], inventory[p])
    ELSE walked = {}

\* A write not recorded yet left a stamp no earlier than the read held, so a read of it will not pass for rested; and
\* each one the tracker was told of has a read or a pass on the way.
BindInv ==
    \A j \in Jobs : MayBind(j) =>
        /\ everEstablished
        /\ \A p \in Unrecorded(j, written[j]) : held[p].readAt <= disk[p].stamp
        /\ \A p \in Unrecorded(j, seen[j]) : OnTheWay(p)

\* What makes a verdict sound before it is given: a running job that may still be judged fingerprinted has recorded
\* every write in its window, or has a read or a pass on the way that will record it.
VerdictInv == ReadsInv /\ QueueInv /\ PassInv /\ WindowsInv /\ PastInv /\ BindInv

\* A job judged fingerprinted ran over no write the daemon could have learnt of: no file was written after the job
\* began whose event was accepted, or reported lost, before the job asked for its verdict. Excepted are the writes a
\* walk read past within the file times' resolution: it read the file after the last of them and before their event
\* was read, and found it with the content and the times of the read held.
VerdictSound ==
    \A j \in Jobs : windows[j].verdict = "fingerprinted" => seen[j] \subseteq blind[j]

\* The same with no exception, as keptReads' comment has it: "a write the walk read past is judged against a read
\* before it".
WriteReadPastIsJudged ==
    \A j \in Jobs : windows[j].verdict = "fingerprinted" => seen[j] = {}

\* A view vouched for gives what the disk holds for every file with no event on the way, none lost unreported since
\* its last read, and no failed named read, once the reads behind it are committed.
ViewIsTrue ==
    ~Unavailable /\ ~changed =>
        \A p \in Paths \ (events \cup unreported \cup unreadNamed) :
            ProjectDigests[p] = disk[p].content

\* The read held for p is what the disk holds, or what replaces it is on the way, or the tracker knows it may not be.
Known(p) ==
    held[p].content = disk[p].content \/ OnTheWay(p) \/ ~lastReconciled \/ lost \/ unhealthy

\* Every read held is known to be true or not, but where the watch or a named read left nothing to know it by.
HeldInv == \A p \in Paths \ (events \cup unreported \cup unreadNamed) : Known(p)

\* What a pass has read is what the disk holds, or an event since has queued a read, or the watch failed under it.
WalkInv ==
    IF phase = "walking"
    THEN \A p \in walked \ (events \cup unreported) :
            inventory[p].content = disk[p].content \/ queue[p] = "change" \/ watchFailed
    ELSE walked = {}

\* No input set is established only before the first pass or after a loss; a batch taken without one reads nothing
\* before a pass establishes it, and no batch is read while a pass walks.
SetInv ==
    /\ established \/ lost \/ ~lastReconciled
    /\ draining /\ ~vouched => ~established
    /\ phase = "walking" => ~draining

\* The digests kept for a revision are those of the reads held, until a read changes one.
ProjectInv == project # NoDigests /\ ~changed => project = Digests(held)

\* What makes a view true before it is taken.
TruthInv == HeldInv /\ WalkInv /\ SetInv /\ ProjectInv

\* A job is refused for reads not yet done only when an event came after it asked for its verdict: it waits for the
\* reads a reconciliation it waited out queued, and for every event accepted before it asked.
RefusedOnlyWhenLate ==
    [][\A j \in Jobs :
        windows'[j].verdict = "unavailable" /\ windows[j].verdict # "unavailable"
            => stopped \/ lost \/ unhealthy \/ late[j]]_vars

\* The ledger counts past the batch being read as soon as anything waits behind it, and past every read done.
LedgerInv ==
    /\ readThrough <= accepted /\ (draining => through <= accepted /\ through > readThrough)
    /\ Queued(queue) # {} => accepted > readThrough /\ (draining => accepted > through)
    /\ inFlight # {} => draining

\* A first pass is asked for or walking until one has ended.
FirstPassInv ==
    lastReconciled \/ stopped \/ phase = "walking" \/ (phase = "ready" /\ requested)

\* What makes a refusal timely: with no event since it asked, a job waits past every event's read queued or in flight,
\* and is released only with none left and no reconciliation running.
TimelyInv ==
    \A j \in Jobs : windows[j].state = "ending" /\ ~late[j] /\ ~stopped =>
        \/ /\ waits[j].state = "released"
           /\ phase = "idle" /\ Pending(queue) = {} /\ inFlight = {}
        \/ /\ waits[j].state = "waiting"
           /\ Pending(queue) # {} => waits[j].upTo > readThrough /\ (draining => waits[j].upTo > through)
           /\ inFlight # {} => waits[j].upTo > readThrough

\* A job that asks for its verdict gets it, however reads, reconciliations and stops interleave.
VerdictComes ==
    \A j \in Jobs : (windows[j].state = "ending") ~> (windows[j].state = "closed")

\* Both: a job that asks is answered, and is refused for reads not done only when an event came late.
VerdictComesInTime == VerdictComes /\ RefusedOnlyWhenLate

=============================================================================
