------------------------------ MODULE RunLease ------------------------------
(***************************************************************************)
(* The machine's run lease (scripts/lib/orchestration/lease.mjs and        *)
(* lease-cli.mjs): wrappers queue for one lease file, the head of the      *)
(* queue takes it when it is free or its holder stale, starts its run,     *)
(* records the run's pid in the lease and gives the lease back when the    *)
(* run ends. A wrapper may be killed or suspended anywhere; its run lives  *)
(* on. A lane may hold the lease by hand (acquire) and run under its hold. *)
(*                                                                         *)
(* A section under the lock is one step, but for the rewriting of the      *)
(* record in place, which readers without the lock see torn. Judging the   *)
(* queue and the holder, joining the queue and stamping a heartbeat are    *)
(* steps of their own, outside it, and each goes by the time it took       *)
(* before, from which it may have been suspended since. Left out: a        *)
(* wrapper suspended inside a section for longer than LOCK_BROKEN_AFTER_MS *)
(* (no time passes and none is suspended during a rewriting), a reading    *)
(* whose file time and content are of two holders, and process ids used    *)
(* twice: an id another process holds makes a lease count as held for      *)
(* longer, until its start time is asked for.                              *)
(***************************************************************************)
EXTENDS Integers, FiniteSets

CONSTANTS
    Wrappers,       \* the wrappers, by their pid (a set of naturals: pids order entries of one time)
    LaneOf,         \* the lane and thread of each
    Acquirers,      \* those that hold the lease by hand and start no run
    StaleAfter,     \* STALE_AFTER_MS, in ticks
    OrphanLimit,    \* ORPHANED_RUN_LIMIT_MS
    MaxTime,        \* bound: the ticks of the clock
    Budgets,        \* bound: the wrappers killed and suspended and the lanes released by hand, one such record per behaviour
    Nothing         \* what a lease, a recorded run and a judgment is where there is none

\* A recorded run is the holder's own child, or the wrapper that joined its hold.
Children == [kind : {"run", "wrapper"}, of : Wrappers]

Leases == [pid : Wrappers, beat : Nat, child : Children \cup {Nothing}, hold : BOOLEAN]

LeaseAssumption ==
    /\ Wrappers \subseteq Nat /\ Acquirers \subseteq Wrappers
    /\ StaleAfter \in Nat /\ OrphanLimit \in Nat /\ StaleAfter < OrphanLimit
    /\ Nothing \notin Nat \cup Children \cup Leases

VARIABLES
    now,
    lease,      \* lease.json, or Nothing
    queue,      \* the queue's entries
    wrapper,    \* each wrapper: where it is, the earliest its step may go by if not by now, what it judged or joined
    run,        \* each wrapper's run: "none", "live", "ended"
    paused,     \* the wrappers that take no step now
    budget,     \* kills, suspensions and releases left
    lapsed,     \* ghost: waiters whose entry once had no beat within StaleAfter
    excused     \* ghost: wrappers whose run the lease no longer speaks for

leaseVars == <<now, lease, queue, wrapper, run, paused, budget, lapsed, excused>>

AtStart == [phase |-> "idle", at |-> Nothing, position |-> Nothing, judged |-> Nothing, stale |-> FALSE, hold |-> Nothing]

LeaseInit ==
    /\ now = 0 /\ lease = Nothing /\ queue = {}
    /\ wrapper = [p \in Wrappers |-> AtStart]
    /\ run = [p \in Wrappers |-> "none"]
    /\ paused = {} /\ lapsed = {} /\ excused = {}
    /\ budget \in Budgets

---------------------------------------------------------------------------
\* Judging a record.

Phase(p) == wrapper[p].phase
Gone == {"done", "killed"}
IsRunning(p) == Phase(p) \notin Gone

RunIs(kind, p) == [kind |-> kind, of |-> p]
RecordedAlive(child) == IF child.kind = "run" THEN run[child.of] = "live" ELSE IsRunning(child.of)

\* At the time t a judge took; whether a process runs is asked as it judges.
OwnerRuns(r, t) == t - r.beat <= StaleAfter /\ IsRunning(r.pid)
RecordedRunRuns(r, t) == r.child # Nothing /\ t - r.beat <= OrphanLimit /\ RecordedAlive(r.child)

IsStale(r, t) == ~OwnerRuns(r, t) /\ ~RecordedRunRuns(r, t)

\* The order of the entries' names: the time of joining, then the pid.
Before(e, f) == e.at < f.at \/ (e.at = f.at /\ e.pid < f.pid)

\* An entry named and stamped by the time t; since, a history field, is when it was there.
EntryOf(p, t) == [pid |-> p, at |-> t, beat |-> t, child |-> Nothing, since |-> now]
LiveQueue(t) == {e \in queue : ~IsStale(e, t)}

\* findIndex over the live entries; Nothing when the wrapper's own is not among them.
Position(p, t) == IF \E e \in LiveQueue(t) : e.pid = p
                  THEN Cardinality({e \in LiveQueue(t) : \E own \in LiveQueue(t) : own.pid = p /\ Before(e, own)})
                  ELSE Nothing

\* writeFileSync cuts the record off before it writes it anew: a reader without the lock finds one it cannot parse, which
\* names no pid and so is stale. Under the lock none is found so.
Rewriting == {"rewriting own", "rewriting hold"}
LockFree == \A p \in Wrappers : Phase(p) \notin Rewriting

\* readRecord, without the lock; one it cannot parse is no record to judge.
ReadLease == IF LockFree THEN lease ELSE Nothing

\* leaseStatus: what holds the lease, whether only its recorded run does, and whether it found a record it cannot parse.
LeaseStatus ==
    LET owned == ReadLease # Nothing /\ OwnerRuns(ReadLease, now)
        stale == ReadLease # Nothing /\ ~owned /\ ~RecordedRunRuns(ReadLease, now)
    IN  [holder |-> IF stale THEN Nothing ELSE ReadLease, orphaned |-> ReadLease # Nothing /\ ~owned /\ ~stale,
         unreadable |-> ~LockFree, queue |-> LiveQueue(now)]

---------------------------------------------------------------------------
\* Waiting.

Awake(p) == p \notin paused
Moves(p, phase) == wrapper' = [wrapper EXCEPT ![p] = [AtStart EXCEPT !.phase = phase]]

\* What a wrapper does by a time it takes first it does by now, or by an earlier one when it was suspended in between.
Timed == {"queueing", "queueing again", "beating entry", "waiting", "joining", "recording", "beating run", "beating hold"}
Times(p) == IF wrapper[p].at = Nothing THEN {now} ELSE wrapper[p].at..now

\* Who lives on in the record l at time t without being told of: a run the lease names no more, having named its holder
\* alone past StaleAfter or the run itself past OrphanLimit.
Unspoken(l, t) ==
    IF l = Nothing THEN {}
    ELSE IF l.child = Nothing THEN {p \in {l.pid} : t - l.beat > StaleAfter /\ ~l.hold}
    ELSE {p \in {l.child.of} : t - l.beat > OrphanLimit}

NamedRun(l) == IF l = Nothing \/ l.child = Nothing THEN {} ELSE {l.child.of}

\* ownHold, under the lock: a live hold by hand of the same lane and thread lets the run through.
OwnHold(p) == IF lease # Nothing /\ p \notin Acquirers /\ lease.hold /\ LaneOf[lease.pid] = LaneOf[p] /\ ~IsStale(lease, now)
              THEN lease.pid ELSE Nothing

\* run and acquire: look for the lane's own hold, and queue when there is none.
Begin(p) ==
    /\ Phase(p) = "idle" /\ Awake(p) /\ LockFree
    /\ IF OwnHold(p) = Nothing THEN Moves(p, "queueing")
       ELSE wrapper' = [wrapper EXCEPT ![p].phase = "joining", ![p].hold = OwnHold(p)]
    /\ UNCHANGED <<now, lease, queue, run, paused, budget, lapsed, excused>>

\* joinQueue. One that joins again, a lapse having cost it its place, stamps its new entry once more.
JoinQueue(p) ==
    /\ Phase(p) \in {"queueing", "queueing again"} /\ Awake(p)
    /\ \E t \in Times(p) :
          /\ queue' = {e \in queue : e.pid # p} \cup {EntryOf(p, t)}
          /\ lapsed' = IF now - t > StaleAfter THEN lapsed \cup {p} ELSE lapsed
    /\ Moves(p, IF Phase(p) = "queueing" THEN "waiting" ELSE "beating entry")
    /\ UNCHANGED <<now, lease, run, paused, budget, excused>>

\* waitTurn's beat between two polls, of its entry while that is there.
BeatEntry(p) ==
    /\ Phase(p) = "beating entry" /\ Awake(p)
    /\ \E t \in Times(p) :
          /\ queue' = {IF e.pid = p THEN [e EXCEPT !.beat = t] ELSE e : e \in queue}
          /\ lapsed' = IF now - t > StaleAfter THEN lapsed \cup {p} ELSE lapsed
    /\ Moves(p, "waiting")
    /\ UNCHANGED <<now, lease, run, paused, budget, excused>>

\* joinOwnHold, which begins to rewrite the hold's record, or the queue when the hold is gone.
JoinHold(p) ==
    /\ Phase(p) = "joining" /\ Awake(p) /\ LockFree
    /\ IF lease # Nothing /\ lease.pid = wrapper[p].hold
       THEN wrapper' = [wrapper EXCEPT ![p].phase = "rewriting hold"]
       ELSE Moves(p, "queueing")
    /\ UNCHANGED <<now, lease, queue, run, paused, budget, lapsed, excused>>

\* takeTurn up to the lock, by the time t: stale entries are pruned, the place in the queue and the holder judged.
Judge(p) ==
    /\ Phase(p) = "waiting" /\ Awake(p)
    /\ \E t \in Times(p) :
          /\ queue' = LiveQueue(t)
          /\ wrapper' = [wrapper EXCEPT ![p] = [AtStart EXCEPT !.phase = "judged", !.at = t, !.position = Position(p, t),
                            !.judged = ReadLease, !.stale = ReadLease # Nothing /\ IsStale(ReadLease, t)]]
    /\ UNCHANGED <<now, lease, run, paused, budget, lapsed, excused>>

SameRecord(a, b) == a # Nothing /\ b # Nothing /\ a.beat = b.beat /\ a.pid = b.pid /\ a.child = b.child

\* Mutant of HolderStale: the judgement from before the lock stands for whatever the lease holds now.
HolderStaleUnread(p) == wrapper[p].stale \/ wrapper[p].judged = Nothing

\* Under the lock the holder is read again, and judged again when it is another.
HolderStale(p) == IF SameRecord(lease, wrapper[p].judged) THEN wrapper[p].stale
                  ELSE lease # Nothing /\ IsStale(lease, wrapper[p].at)

MayTake(p) == wrapper[p].position = 0 /\ (lease = Nothing \/ HolderStale(p))

\* takeTurn under the lock: the lease taken is stamped with the time the turn was judged by, however long ago.
TakeTurn(p) ==
    /\ Phase(p) = "judged" /\ Awake(p) /\ LockFree
    /\ IF MayTake(p)
       THEN /\ lease' = [pid |-> p, beat |-> wrapper[p].at, child |-> Nothing, hold |-> p \in Acquirers]
            /\ queue' = {e \in queue : e.pid # p}
            /\ Moves(p, IF p \in Acquirers THEN "holding" ELSE "starting")
            /\ excused' = excused \cup Unspoken(lease', now)
       ELSE /\ Moves(p, IF wrapper[p].position = Nothing THEN "queueing again" ELSE "beating entry")
            /\ UNCHANGED <<lease, queue, excused>>
    /\ UNCHANGED <<now, run, paused, budget, lapsed>>

---------------------------------------------------------------------------
\* Holding.

\* runChild: the run starts, or does not.
Start(p) ==
    /\ Phase(p) \in {"starting", "starting under hold"} /\ Awake(p)
    /\ \/ run' = [run EXCEPT ![p] = "live"] /\ Moves(p, IF Phase(p) = "starting" THEN "recording" ELSE "under hold")
       \/ run' = [run EXCEPT ![p] = "ended"] /\ Moves(p, IF Phase(p) = "starting" THEN "running" ELSE "under hold")
    /\ UNCHANGED <<now, lease, queue, paused, budget, lapsed, excused>>

\* recordRun begins to rewrite the record while this wrapper still holds the lease; a failure to is told, and the run
\* goes on.
Record(p) ==
    /\ Phase(p) = "recording" /\ Awake(p) /\ LockFree
    /\ \/ lease # Nothing /\ lease.pid = p /\ wrapper' = [wrapper EXCEPT ![p].phase = "rewriting own"]
       \/ Moves(p, "running")
    /\ UNCHANGED <<now, lease, queue, run, paused, budget, lapsed, excused>>

\* recordChild's write, still under the lock: the run's pid and, by a second record, its start time, or the wrapper that
\* joined the hold. A later run of the lane takes the record's place of an earlier one, which the lease then no longer
\* speaks for.
WriteRecord(p) ==
    LET child == RunIs(IF Phase(p) = "rewriting own" THEN "run" ELSE "wrapper", p)
    IN  /\ Phase(p) \in Rewriting
        /\ \E t \in Times(p) :
              /\ lease' = [lease EXCEPT !.child = child, !.beat = t]
              /\ excused' = excused \cup (NamedRun(lease) \ {p}) \cup Unspoken(lease', now)
        /\ \/ Phase(p) = "rewriting own" /\ Moves(p, "running")
           \/ Phase(p) = "rewriting own" /\ lease.child # child /\ Moves(p, "recording")
           \/ Phase(p) = "rewriting hold" /\ Moves(p, "starting under hold")
        /\ UNCHANGED <<now, queue, run, paused, budget, lapsed>>

\* keepAlive, the check under the lock: a lost lease is told once, and ends an acquire.
KeepAlive(p) ==
    /\ Phase(p) \in {"running", "holding"} /\ Awake(p) /\ LockFree
    /\ IF lease # Nothing /\ lease.pid = p
       THEN lease.beat < now /\ Moves(p, IF Phase(p) = "running" THEN "beating run" ELSE "beating hold")
       ELSE Phase(p) = "holding" /\ Moves(p, "done")
    /\ UNCHANGED <<now, lease, queue, run, paused, budget, lapsed, excused>>

\* beat: the file's time, whosever it is by now; nothing once it is gone.
Beat(p) ==
    /\ Phase(p) \in {"beating run", "beating hold"} /\ Awake(p)
    /\ \E t \in Times(p) :
          /\ lease' = IF lease = Nothing THEN Nothing ELSE [lease EXCEPT !.beat = t]
          /\ excused' = excused \cup Unspoken(lease', now)
    /\ Moves(p, IF Phase(p) = "beating run" THEN "running" ELSE "holding")
    /\ UNCHANGED <<now, queue, run, paused, budget, lapsed>>

\* releaseOwn: a reclaimed lease belongs to its new holder.
ReleaseOwn(p) == lease' = IF lease # Nothing /\ lease.pid = p THEN Nothing ELSE lease

\* runLeased and run after the run's end.
Finish(p) ==
    /\ Phase(p) \in {"running", "under hold"} /\ Awake(p) /\ run[p] = "ended"
    /\ IF Phase(p) = "running" THEN LockFree /\ ReleaseOwn(p) ELSE UNCHANGED lease
    /\ Moves(p, "done")
    /\ UNCHANGED <<now, queue, run, paused, budget, lapsed, excused>>

\* release --lane, by hand: the runs under the lease are its caller's to answer for.
ReleaseLane(lane) ==
    /\ budget.releases > 0 /\ LockFree /\ lease # Nothing /\ LaneOf[lease.pid] = lane
    /\ lease' = Nothing
    /\ excused' = excused \cup {lease.pid} \cup NamedRun(lease)
    /\ budget' = [budget EXCEPT !.releases = @ - 1]
    /\ UNCHANGED <<now, queue, wrapper, run, paused, lapsed>>

---------------------------------------------------------------------------
\* What happens to the processes.

RunEnds(p) ==
    /\ run[p] = "live"
    /\ run' = [run EXCEPT ![p] = "ended"]
    /\ UNCHANGED <<now, lease, queue, wrapper, paused, budget, lapsed, excused>>

\* A wrapper killed before the lease names its run leaves a run on its own, and one that joined a hold is what the lease
\* names. A record whose rewriting is cut short names none: all that read it take the lease for free.
Kill(p) ==
    /\ budget.kills > 0 /\ IsRunning(p) /\ Phase(p) # "idle"
    /\ budget' = [budget EXCEPT !.kills = @ - 1]
    /\ Moves(p, "killed")
    /\ lease' = IF Phase(p) \in Rewriting THEN Nothing ELSE lease
    /\ excused' = excused \cup {q \in {p} : run[q] = "live" /\ (lease' = Nothing \/ lease'.child # RunIs("run", q))}
                          \cup (IF Phase(p) \in Rewriting THEN NamedRun(lease) ELSE {})
    /\ UNCHANGED <<now, queue, run, paused, lapsed>>

Suspend(p) ==
    /\ budget.suspensions > 0 /\ IsRunning(p) /\ Phase(p) \notin {"idle"} \cup Rewriting /\ Awake(p)
    /\ budget' = [budget EXCEPT !.suspensions = @ - 1]
    /\ paused' = paused \cup {p}
    /\ wrapper' = IF Phase(p) \in Timed /\ wrapper[p].at = Nothing THEN [wrapper EXCEPT ![p].at = now] ELSE wrapper
    /\ UNCHANGED <<now, lease, queue, run, lapsed, excused>>

Resume(p) ==
    /\ p \in paused
    /\ paused' = paused \ {p}
    /\ UNCHANGED <<now, lease, queue, wrapper, run, budget, lapsed, excused>>

\* The beat of each file, by its owner.
BeatOf(p) == IF lease # Nothing /\ lease.pid = p THEN {lease.beat} ELSE {e.beat : e \in {f \in queue : f.pid = p}}

\* Time passes only when every wrapper that runs and is not suspended has beaten within it, the heartbeat being a sixth of
\* StaleAfter, and has its entry. A wrapper whose lease lapses before it names the run, and a run
\* that outlives the orphans' limit, are on their own.
Tick ==
    /\ now < MaxTime /\ LockFree
    /\ \A p \in Wrappers : IsRunning(p) /\ Awake(p) =>
          /\ Phase(p) \in {"idle", "under hold"} \/ BeatOf(p) \subseteq {now}
          /\ Phase(p) \notin {"queueing", "queueing again", "joining"}
    /\ now' = now + 1
    /\ lapsed' = lapsed \cup {p \in Wrappers : \E b \in BeatOf(p) : now' - b > StaleAfter}
    /\ excused' = excused \cup Unspoken(lease, now')
    /\ UNCHANGED <<lease, queue, wrapper, run, paused, budget>>

LeaseNext ==
    \/ \E p \in Wrappers : \/ Begin(p) \/ JoinQueue(p) \/ BeatEntry(p) \/ JoinHold(p) \/ Judge(p) \/ TakeTurn(p)
                           \/ Start(p) \/ Record(p) \/ WriteRecord(p) \/ KeepAlive(p) \/ Beat(p) \/ Finish(p)
                           \/ RunEnds(p) \/ Kill(p) \/ Suspend(p) \/ Resume(p)
    \/ \E lane \in {LaneOf[p] : p \in Wrappers} : ReleaseLane(lane)
    \/ Tick

LeaseSpec == LeaseInit /\ [][LeaseNext]_leaseVars

---------------------------------------------------------------------------
SameHold(p, q) == LaneOf[p] = LaneOf[q]

\* Two runs of different lanes load the machine together only when the lease could not speak for one of them: it was
\* killed, or its lease lapsed, before the lease named the run; its wrapper, suspended since it took its time, took the
\* lease already lapsed; another's late heartbeat stamped it so; the run outlived the orphans' limit; its record was cut
\* short by a kill or replaced by a later run of the hold; or the lane was released by hand (takeTurn, recordRun,
\* keepAlive, releaseOwn).
OneRun ==
    \A p, q \in Wrappers : p # q /\ run[p] = "live" /\ run[q] = "live" => p \in excused \/ q \in excused \/ SameHold(p, q)

\* The lease goes to none while the queue holds the entry of another who came first by name and was there first: who is
\* suspended as it joins may come late with an earlier name (takeTurn's place in the queue is read before the lock).
TakenInTurn ==
    \A p \in Wrappers : lease' # lease /\ lease' # Nothing /\ lease'.pid = p /\ Phase(p) = "judged" =>
        \A e, own \in queue : own.pid = p => ~(e.at < own.at /\ e.since < own.since)

InTurn == [][TakenInTurn]_leaseVars

\* Who waits and always kept its heartbeat has its place in the queue, whoever prunes it (takeTurn's pruning).
PlaceKept ==
    \A p \in Wrappers : Phase(p) \in {"waiting", "judged", "beating entry"} /\ p \notin lapsed => \E e \in queue : e.pid = p

\* A status of NORUN, beside which no unreadable lease is told of, is said only when no run under a lease goes on that the
\* lease could speak for; one read amid a rewriting is said of any (leaseStatus).
NorunIsTrue ==
    LeaseStatus.holder = Nothing /\ ~LeaseStatus.unreadable => \A p \in Wrappers : run[p] = "live" => p \in excused

\* Runs overlap only where the lease could not speak for one, NORUN is said truly of a record read whole, and the lease is
\* taken in turn by those who keep their places.
OneRunInTurn == [](OneRun /\ NorunIsTrue /\ PlaceKept) /\ InTurn
=============================================================================
