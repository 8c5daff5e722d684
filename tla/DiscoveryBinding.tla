-------------------------- MODULE DiscoveryBinding --------------------------
(***************************************************************************)
(* A discovery over the tracker's inputs, from its beginning to the        *)
(* fingerprint it is stored under.  Models the part of the inputs in       *)
(* packages/daemon/src/daemon/lifecycle.ts #discover and                   *)
(* job-endings.ts protectDiscovered: two windows, the discovery's own and  *)
(* the guard around protectInputs, a wait for the inputs to settle before  *)
(* each of them, and the fingerprint composed once the guard has closed.   *)
(*                                                                         *)
(* The discovery lists no file the inputs leave out, so protectInputs      *)
(* changes no input of its own.                                            *)
(***************************************************************************)
EXTENDS InputTracker

CONSTANTS
    Mark,       \* the discovery's own window
    Guard,      \* the window open while the discovery's files are protected
    Settler     \* the waits for the inputs to settle, which open no window

ASSUME DiscoveryAssumption ==
    Jobs = {Mark, Guard, Settler} /\ Cardinality(Jobs) = 3

VARIABLES
    stage,      \* "planned", "opening", "collecting", "ended", "settling", "guarding", "stored" or "unstored"
    planned     \* plannedRevision: the revision the discovery was planned at

discoveryVars == <<vars, stage, planned>>

\* inputs.settled has resolved.
HasSettled == waits[Settler].state = "released"

\* The continuation of #discover that runs in the turn its wait or its window's end was settled in.
DiscoveryTurn ==
    \/ stage = "ended"
    \/ stage \in {"opening", "settling"} /\ HasSettled

DiscoveryInit == Init /\ stage = "planned" /\ planned = 0

\* inputs.settled: a wait for the events accepted by now.
Settling ==
    /\ UNCHANGED <<accepted, readThrough, phase>>
    /\ waits' = [waits EXCEPT ![Settler] = PlacedWait(Settler)]
    /\ UNCHANGED <<diskVars, stateVars, queueVars, requested, walked, inventory, past,
                   lastReconciled, lost, unhealthy, watchFailed, windows, stopped,
                   counts, historyVars>>

\* #discover's first await, at the revision the plan was taken at.
SettleBeforeDiscovery ==
    /\ stage = "planned" /\ ~TurnOpen /\ ~stopped
    /\ Settling
    /\ planned' = revision
    /\ stage' = "opening"

\* The inputs have settled at the planned revision: the window opens.
DiscoveryBegins ==
    /\ stage = "opening" /\ HasSettled
    /\ ~stopped /\ revision = planned
    /\ BeginJob(Mark)
    /\ stage' = "collecting"
    /\ UNCHANGED planned

\* #beginsNothing: a stop came, or the revision moved and the discovery is planned again.
BeginsNothing ==
    /\ stage = "opening" /\ HasSettled
    /\ stopped \/ revision # planned
    /\ Query
    /\ stage' = IF stopped THEN "unstored" ELSE "planned"
    /\ UNCHANGED planned

\* The executor has returned: endJob waits for the events accepted by now.
DiscoveryReturns ==
    /\ stage = "collecting"
    /\ EndJob(Mark)
    /\ UNCHANGED <<stage, planned>>

DiscoveryJudged ==
    /\ stage = "collecting"
    /\ CloseJob(Mark)
    /\ stage' = "ended"
    /\ UNCHANGED planned

\* protectDiscovered's first await: inputs.settled.
SettleBeforeGuard ==
    /\ stage = "ended" /\ ~TurnOpen
    /\ Settling
    /\ stage' = "settling"
    /\ UNCHANGED planned

\* The inputs have settled: the guard opens, unless a stop came.
GuardBegins ==
    /\ stage = "settling" /\ HasSettled /\ ~stopped
    /\ BeginJob(Guard)
    /\ stage' = "guarding"
    /\ UNCHANGED planned

\* A stop during the wait: nothing is stored.
DiscoveryStopped ==
    /\ stage = "settling" /\ HasSettled /\ stopped
    /\ stage' = "unstored"
    /\ UNCHANGED <<vars, planned>>

\* protectInputs has returned.
GuardReturns ==
    /\ stage = "guarding"
    /\ EndJob(Guard)
    /\ UNCHANGED <<stage, planned>>

\* The guard is judged and, in the same turn, the discovery stored, unless a stop came.
DiscoveryStored ==
    /\ stage = "guarding"
    /\ CloseJob(Guard)
    /\ stage' = IF stopped THEN "unstored" ELSE "stored"
    /\ UNCHANGED planned

\* Everything else the tracker does, never within a turn of the discovery's.
TrackerStep ==
    /\ ~DiscoveryTurn \/ TurnOpen
    /\ \/ \E p \in Paths : \E c \in Contents \cup {Absent} : Write(p, c)
       \/ Tick \/ Request \/ WatchFailed \/ ReadNothing \/ EndBatch \/ StartPass
       \/ Settle \/ WalkFails \/ EndReconciliation \/ Query \/ Stop
       \/ \E p \in Paths : \/ LoseEvent(p) \/ Deliver(p) \/ ReadPath(p) \/ ReadFails(p)
                           \/ ReadNamed(p) \/ WalkRead(p)
       \/ \E ps \in SUBSET Paths : ReadNamedCall(ps)
    /\ UNCHANGED <<stage, planned>>

DiscoveryNext ==
    \/ SettleBeforeDiscovery \/ DiscoveryBegins \/ BeginsNothing
    \/ DiscoveryReturns \/ DiscoveryJudged
    \/ SettleBeforeGuard \/ GuardBegins \/ DiscoveryStopped
    \/ GuardReturns \/ DiscoveryStored
    \/ TrackerStep

DiscoverySpec == DiscoveryInit /\ [][DiscoveryNext]_discoveryVars

-----------------------------------------------------------------------------

\* The digests #discover binds the stored discovery to: those of the view once the guard closed, when both windows
\* were judged fingerprinted.
Bound ==
    IF stage = "stored" /\ windows[Mark].verdict = "fingerprinted" /\ windows[Guard].verdict = "fingerprinted"
    THEN windows[Guard].end ELSE NoDigests

\* A stored discovery is bound to the inputs it started from, as the architecture's account of the fingerprint has it.
BoundToStart == Bound = NoDigests \/ Bound = windows[Mark].start

\* The same of every discovery stored before a named read was asked for, over writes, lost events, failed reads and
\* reconciliations: protectDiscovered's two windows and the wait between them let no other change through.
BoundWithoutNamed == counts.named = 0 => BoundToStart

\* A window judged fingerprinted closes on the digests it opened on, whatever named reads, failures and reconciliations
\* the tracker met in between.
JudgedUnchanged ==
    \A j \in {Mark, Guard} : windows[j].verdict = "fingerprinted" => windows[j].start = windows[j].end

\* A discovery is judged by windows that close on the inputs they opened on, and is stored under the inputs it started
\* from when no file was named meanwhile, over views that give what the disk holds (ViewIsTrue in InputTracker).
BindingIsSound == JudgedUnchanged /\ BoundWithoutNamed /\ ViewIsTrue

\* A read that found a change is committed before its drain ends, so none is uncommitted in a turn that a wait's end
\* opens: the wait was placed with nothing being read, or ended with a batch or a reconciliation.
CommittedInv ==
    /\ changed => draining
    /\ DiscoveryTurn /\ stage # "ended" /\ ~stopped => ~changed
    /\ \A j \in {Mark, Guard} :
          windows[j].state = "ending" /\ waits[j].state = "released" /\ ~stopped => ~changed

\* While nothing is recorded in a window opened on available inputs, the digests are those it opened on.
StartInv ==
    \A j \in {Mark, Guard} :
        MayBind(j) /\ windows[j].paths = {} => windows[j].start = Digests(held)

\* With nothing queued, everything accepted is read, or will be once the drain ends.
CaughtUpInv ==
    Queued(queue) = {} => IF draining THEN through >= accepted ELSE readThrough >= accepted

\* With no file named, a drain has reads in flight, which every view counts as pending.
UnnamedInv ==
    counts.named = 0 =>
        /\ \A p \in Paths : queue[p] # "named" /\ batch[p] # "named"
        /\ draining => inFlight # {}

\* The stages follow the windows.
StageInv ==
    /\ windows[Settler] = NoWindow
    /\ stage \in {"planned", "opening"} => windows[Mark] = NoWindow
    /\ stage \in {"planned", "opening", "collecting", "ended", "settling"} => windows[Guard] = NoWindow
    /\ stage \in {"ended", "settling", "guarding", "stored"} => windows[Mark].state = "closed"

\* With no file named, a discovery judged fingerprinted leaves nothing to read, so protectDiscovered's wait ends in the
\* turn it is placed in and the guard opens on the digests the discovery's window closed on.
GapInv ==
    counts.named = 0 /\ windows[Mark].verdict = "fingerprinted" =>
        /\ stage \in {"ended", "settling"} =>
              /\ ~Unavailable /\ ~draining /\ Queued(queue) = {}
              /\ ViewDigests = windows[Mark].end
        /\ stage = "settling" => HasSettled
        /\ stage \in {"guarding", "stored"} => windows[Guard].start = windows[Mark].end

\* What the tracker itself keeps, whatever the discovery does.
TrackerInv == TypeOK /\ VerdictInv /\ TruthInv /\ LedgerInv

\* What makes a binding sound, with what the tracker keeps.
DiscoveryInv == CommittedInv /\ StartInv /\ CaughtUpInv /\ UnnamedInv /\ StageInv /\ GapInv
=============================================================================
