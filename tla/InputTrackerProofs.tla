------------------------- MODULE InputTrackerProofs -------------------------
(***************************************************************************)
(* Proofs about InputTracker: its types, that a job judged fingerprinted   *)
(* ran over no write the tracker was told of, that views are true and      *)
(* refusals timely; and about DiscoveryBinding, that a discovery is bound  *)
(* to the inputs it started from.                                          *)
(***************************************************************************)
EXTENDS DiscoveryBinding, FiniteSetTheorems, TLAPS

-----------------------------------------------------------------------------
(* What the operators of the model return.                                 *)

\* A read of the disk, and the read of a path with no file, are reads.
LEMMA ReadsType ==
    ASSUME DiskType
    PROVE  /\ NoRead \in Reads
           /\ \A p \in Paths : ReadEntry(p) \in Reads
  BY ConstantsAssumption DEF DiskType, NoRead, Reads, ReadEntry

\* The digests a view gives cover every path, or there are none.
LEMMA DigestsType ==
    ASSUME StateType
    PROVE  /\ ProjectDigests \in [Paths -> Contents \cup {Absent}] \cup {NoDigests}
           /\ ViewDigests \in [Paths -> Contents \cup {Absent}] \cup {NoDigests}
  BY DEF StateType, ProjectDigests, ViewDigests, Digests, Reads

\* The ledger counts the paths a reconciliation or a named read queued.
LEMMA CountType ==
    ASSUME NEW S \in SUBSET Paths
    PROVE  Cardinality(S) \in Nat
  BY ConstantsAssumption, FS_Subset, FS_CardinalityType

\* Recording paths or a cause keeps a window's shape.
LEMMA WindowKept ==
    ASSUME NEW w \in WindowType, NEW ps \in SUBSET Paths
    PROVE  /\ [w EXCEPT !.paths = @ \cup ps] \in WindowType
           /\ [w EXCEPT !.caused = TRUE] \in WindowType
  <1>1. [w EXCEPT !.paths = @ \cup ps] \in WindowType
    BY DEF WindowType
  <1>2. [w EXCEPT !.caused = TRUE] \in WindowType
    BY DEF WindowType
  <1> QED
    BY <1>1, <1>2

\* What is recorded for some jobs keeps every job's window in shape.
LEMMA WindowsKept ==
    ASSUME JobsType, NEW ps \in SUBSET Paths
    PROVE  /\ RecordedPaths(windows, ps) \in [Jobs -> WindowType]
           /\ RecordedCause(windows) \in [Jobs -> WindowType]
  <1>1. \A j \in Jobs : windows[j] \in WindowType
    BY DEF JobsType
  <1>2. RecordedPaths(windows, ps) \in [Jobs -> WindowType]
    BY <1>1, WindowKept DEF RecordedPaths
  <1>3. RecordedCause(windows) \in [Jobs -> WindowType]
    BY <1>1, WindowKept DEF RecordedCause
  <1> QED
    BY <1>2, <1>3

\* Releasing the waits whose reads are done leaves waits of the same shape.
LEMMA NotifiedType ==
    ASSUME NEW ws \in WaitsType, NEW r \in BOOLEAN, NEW n \in Nat
    PROVE  Notified(ws, r, n) \in WaitsType
  BY DEF WaitsType, Notified, Released

\* Moving the waits on to the reads a reconciliation queued keeps their shape.
LEMMA RaisedType ==
    ASSUME NEW ws \in WaitsType, NEW n \in Nat, NEW c \in Nat
    PROVE  RaisedWaits(ws, c, n) \in WaitsType
  <1>1. ASSUME NEW w \in [state : {"none", "waiting", "released"}, upTo : Nat]
        PROVE  [w EXCEPT !.upTo = n] \in [state : {"none", "waiting", "released"}, upTo : Nat]
    OBVIOUS
  <1>2. \A w \in Waiters : ws[w] \in [state : {"none", "waiting", "released"}, upTo : Nat]
    BY DEF WaitsType
  <1> QED
    BY <1>1, <1>2 DEF WaitsType, RaisedWaits

\* A wait is placed with the shape of a wait.
LEMMA PlacedType ==
    ASSUME NEW w \in Waiters, accepted' \in Nat
    PROVE  PlacedWait(w) \in [state : {"none", "waiting", "released"}, upTo : Nat]
  BY DEF PlacedWait, Released

\* Taking the next batch keeps the queue's types.
LEMMA ProcessQueueType ==
    ASSUME QueueType, NEW q \in [Paths -> {"none", "change", "named"}], NEW n \in Nat, NEW b \in BOOLEAN,
           established' \in BOOLEAN, ProcessQueue(q, n, b)
    PROVE  QueueType'
  BY DEF QueueType, ProcessQueue, NothingQueued, Pending

\* Asking for a reconciliation keeps the types of the pass and of the waits.
LEMMA RequestType ==
    ASSUME PassType, LedgerType, RequestReconciliation
    PROVE  /\ requested' \in BOOLEAN /\ phase' \in {"idle", "ready", "walking"}
           /\ waits' \in WaitsType
  BY NotifiedType DEF PassType, LedgerType, RequestReconciliation

-----------------------------------------------------------------------------
\* The tracker starts within its types.
LEMMA InitType == Init => TypeOK
  <1> SUFFICES ASSUME Init PROVE TypeOK
    OBVIOUS
  <1>1. DiskType
    BY ConstantsAssumption DEF Init, DiskType
  <1>2. NoRead \in Reads
    BY <1>1, ReadsType
  <1>3. StateType /\ PassType
    BY <1>2 DEF Init, StateType, PassType
  <1>4. QueueType /\ LedgerType
    BY DEF Init, QueueType, NothingQueued, LedgerType, WaitsType
  <1>5. NoWindow \in WindowType
    BY DEF NoWindow, WindowType
  <1>6. JobsType
    BY <1>5 DEF Init, JobsType
  <1>7. HistoryType
    BY DEF Init, HistoryType
  <1> QED
    BY <1>1, <1>3, <1>4, <1>6, <1>7 DEF TypeOK

\* Each variable group keeps its types when the step leaves it alone.
LEMMA UnchangedTypes ==
    /\ DiskType /\ UNCHANGED diskVars => DiskType'
    /\ StateType /\ UNCHANGED stateVars => StateType'
    /\ QueueType /\ UNCHANGED queueVars => QueueType'
    /\ PassType /\ UNCHANGED passVars => PassType'
    /\ LedgerType /\ UNCHANGED ledgerVars => LedgerType'
    /\ JobsType /\ UNCHANGED <<windows, stopped, counts>> => JobsType'
    /\ HistoryType /\ UNCHANGED historyVars => HistoryType'
  BY DEF DiskType, diskVars, StateType, stateVars, QueueType, queueVars, PassType, passVars,
         LedgerType, ledgerVars, JobsType, HistoryType, historyVars

\* The bounds' counters.
LEMMA CountsType ==
    ASSUME JobsType
    PROVE  /\ [counts EXCEPT !.writes = @ + 1] \in [writes : Nat, requests : Nat, failures : Nat, named : Nat]
           /\ [counts EXCEPT !.requests = @ + 1] \in [writes : Nat, requests : Nat, failures : Nat, named : Nat]
           /\ [counts EXCEPT !.failures = @ + 1] \in [writes : Nat, requests : Nat, failures : Nat, named : Nat]
           /\ [counts EXCEPT !.named = @ + 1] \in [writes : Nat, requests : Nat, failures : Nat, named : Nat]
  BY DEF JobsType

\* Every step of the tracker keeps its types.
LEMMA NextType == TypeOK /\ [Next]_vars => TypeOK'
  <1> SUFFICES ASSUME TypeOK, [Next]_vars PROVE TypeOK'
    OBVIOUS
  <1> USE UnchangedTypes
  <1>0. DiskType /\ StateType /\ QueueType /\ PassType /\ LedgerType /\ JobsType /\ HistoryType
    BY DEF TypeOK
  <1>1. ASSUME NEW p \in Paths, NEW c \in Contents \cup {Absent}, Write(p, c) PROVE TypeOK'
    <2>1. StateType' /\ QueueType' /\ LedgerType'
      BY <1>0, <1>1 DEF Write
    <2>5. PassType'
      BY <1>0, <1>1 DEF Write, PassType
    <2>2. DiskType'
      BY <1>0, <1>1 DEF Write, DiskType
    <2>3. JobsType'
      BY <1>0, <1>1, CountsType DEF Write, JobsType
    <2>4. HistoryType'
      BY <1>0, <1>1 DEF Write, HistoryType
    <2> QED
      BY <2>1, <2>2, <2>3, <2>4, <2>5 DEF TypeOK
  <1>2. CASE Tick
    <2>1. StateType' /\ QueueType' /\ PassType' /\ LedgerType' /\ JobsType' /\ HistoryType'
      BY <1>0, <1>2 DEF Tick
    <2>2. DiskType'
      BY <1>0, <1>2, ConstantsAssumption DEF Tick, DiskType
    <2> QED
      BY <2>1, <2>2 DEF TypeOK
  <1>3. ASSUME NEW p \in Paths, LoseEvent(p) PROVE TypeOK'
    <2>1. StateType' /\ QueueType' /\ PassType' /\ LedgerType' /\ JobsType'
      BY <1>0, <1>3 DEF LoseEvent
    <2>2. DiskType' /\ HistoryType'
      BY <1>0, <1>3 DEF LoseEvent, DiskType, HistoryType
    <2> QED
      BY <2>1, <2>2 DEF TypeOK
  <1>4. ASSUME NEW p \in Paths, Deliver(p) PROVE TypeOK'
    <2>1. PassType' /\ JobsType' /\ StateType'
      BY <1>0, <1>4 DEF Deliver, passVars, stateVars
    <2>2. DiskType' /\ LedgerType'
      BY <1>0, <1>4 DEF Deliver, DiskType, LedgerType
    <2>3. Enqueued(queue, {p}) \in [Paths -> {"none", "change", "named"}]
      BY <1>0 DEF QueueType, Enqueued
    <2>4. /\ accepted' \in Nat /\ draining \in BOOLEAN /\ established' \in BOOLEAN
          /\ ProcessQueue(Enqueued(queue, {p}), accepted', draining)
      BY <1>0, <1>4, <2>1, <2>2 DEF Deliver, LedgerType, QueueType, StateType
    <2>5. QueueType'
      BY <1>0, <2>3, <2>4, ProcessQueueType
    <2>6. HistoryType'
      BY <1>0, <1>4 DEF Deliver, HistoryType, SeenBy
    <2> QED
      BY <2>1, <2>2, <2>5, <2>6 DEF TypeOK
  <1>5. CASE Request
    <2>1. DiskType' /\ StateType' /\ QueueType' /\ HistoryType'
      BY <1>0, <1>5 DEF Request
    <2>2. PassType' /\ LedgerType'
      BY <1>0, <1>5, RequestType DEF Request, PassType, LedgerType
    <2>3. JobsType'
      BY <1>0, <1>5, CountsType DEF Request, JobsType
    <2> QED
      BY <2>1, <2>2, <2>3 DEF TypeOK
  <1>6. CASE WatchFailed
    <2>1. StateType' /\ QueueType'
      BY <1>0, <1>6 DEF WatchFailed
    <2>2. PassType' /\ LedgerType'
      BY <1>0, <1>6, RequestType DEF WatchFailed, PassType, LedgerType
    <2>3. JobsType'
      BY <1>0, <1>6, CountsType DEF WatchFailed, JobsType
    <2>4. DiskType' /\ HistoryType'
      BY <1>0, <1>6 DEF WatchFailed, DiskType, HistoryType, SeenBy
    <2> QED
      BY <2>1, <2>2, <2>3, <2>4 DEF TypeOK
  <1>7. CASE ReadNothing
    <2>1. DiskType' /\ StateType' /\ PassType' /\ LedgerType' /\ HistoryType'
      BY <1>0, <1>7 DEF ReadNothing, historyVars
    <2>2. QueueType'
      BY <1>0, <1>7 DEF ReadNothing, QueueType, NothingQueued
    <2>3. JobsType'
      BY <1>0, <1>7, WindowsKept DEF ReadNothing, JobsType
    <2> QED
      BY <2>1, <2>2, <2>3 DEF TypeOK
  <1>8. ASSUME NEW p \in Paths, ReadPath(p) PROVE TypeOK'
    <2>1. DiskType' /\ PassType' /\ LedgerType'
      BY <1>0, <1>8 DEF ReadPath
    <2>2. StateType'
      BY <1>0, <1>8, ReadsType DEF ReadPath, StateType
    <2>3. QueueType' /\ HistoryType'
      BY <1>0, <1>8 DEF ReadPath, ReadDone, QueueType, HistoryType
    <2>4. RecordedPaths(windows, {p}) \in [Jobs -> WindowType]
      BY <1>0, WindowsKept
    <2>5. JobsType'
      BY <1>0, <1>8, <2>4 DEF ReadPath, JobsType
    <2> QED
      BY <2>1, <2>2, <2>3, <2>5 DEF TypeOK
  <1>9. ASSUME NEW p \in Paths, ReadFails(p) PROVE TypeOK'
    <2>1. DiskType' /\ HistoryType'
      BY <1>0, <1>9 DEF ReadFails, historyVars
    <2>2. StateType'
      BY <1>0, <1>9 DEF ReadFails, InputSetLost, StateType
    <2>3. PassType' /\ LedgerType'
      BY <1>0, <1>9, RequestType DEF ReadFails, InputSetLost, PassType, LedgerType
    <2>4. QueueType'
      BY <1>0, <1>9 DEF ReadFails, ReadDone, QueueType
    <2>5. RecordedCause(windows) \in [Jobs -> WindowType]
      BY <1>0, WindowsKept
    <2>6. JobsType'
      BY <1>0, <1>9, <2>5, CountsType DEF ReadFails, JobsType
    <2> QED
      BY <2>1, <2>2, <2>3, <2>4, <2>6 DEF TypeOK
  <1>10. ASSUME NEW p \in Paths, ReadNamed(p) PROVE TypeOK'
    <2>1. DiskType' /\ PassType' /\ LedgerType'
      BY <1>0, <1>10 DEF ReadNamed
    <2>2. QueueType' /\ HistoryType'
      BY <1>0, <1>10 DEF ReadNamed, ReadDone, QueueType, HistoryType
    <2>3. /\ UNCHANGED <<established, everEstablished, revision, project>>
          /\ changed' \in {changed, TRUE}
          /\ held' \in {held, [held EXCEPT ![p] = NoRead], [held EXCEPT ![p] = ReadEntry(p)]}
      BY <1>10 DEF ReadNamed
    <2>4. StateType'
      BY <1>0, <2>3, ReadsType DEF StateType
    <2>5. RecordedPaths(windows, {p}) \in [Jobs -> WindowType]
      BY <1>0, WindowsKept
    <2>6. windows' \in {windows, RecordedPaths(windows, {p})} /\ stopped' = stopped
      BY <1>10 DEF ReadNamed
    <2>7. counts' \in {counts, [counts EXCEPT !.failures = @ + 1]}
      BY <1>10 DEF ReadNamed
    <2>8. JobsType'
      BY <1>0, <2>5, <2>6, <2>7, CountsType DEF JobsType
    <2> QED
      BY <2>1, <2>2, <2>4, <2>8 DEF TypeOK
  <1>11. CASE EndBatch
    <2>1. DiskType' /\ PassType' /\ JobsType' /\ HistoryType'
      BY <1>0, <1>11 DEF EndBatch, passVars
    <2>2. StateType'
      <3>1. /\ UNCHANGED <<held, established, everEstablished>>
            /\ changed' = FALSE /\ revision' \in {revision, revision + 1} /\ project' \in {NoDigests, project}
        BY <1>11, Zenon DEF EndBatch, Commit
      <3>2. revision' \in Nat
        BY <1>0, <3>1 DEF StateType
      <3> QED
        BY <1>0, <3>1, <3>2, Zenon DEF StateType
    <2>3. readThrough' \in Nat
      BY <1>0, <1>11 DEF EndBatch, LedgerType, QueueType
    <2>4. LedgerType'
      BY <1>0, <1>11, <2>3, NotifiedType DEF EndBatch, Reconciling, LedgerType
    <2>5. QueueType'
      <3>1. CASE Queued(queue) = {} \/ Reconciling \/ stopped
        <4>1. /\ batch' = NothingQueued /\ inFlight' = {} /\ draining' = FALSE
              /\ vouched' = FALSE /\ through' = 0 /\ UNCHANGED <<queue, unreadNamed>>
          BY <1>11, <3>1 DEF EndBatch
        <4> QED
          BY <1>0, <4>1 DEF QueueType, NothingQueued
      <3>2. CASE ~(Queued(queue) = {} \/ Reconciling \/ stopped)
        <4>1. ProcessQueue(queue, accepted, FALSE)
          BY <1>11, <3>2 DEF EndBatch
        <4>2. queue \in [Paths -> {"none", "change", "named"}] /\ accepted \in Nat /\ established' \in BOOLEAN
          BY <1>0, <2>2 DEF QueueType, LedgerType, StateType
        <4> QED
          BY <1>0, <4>1, <4>2, ProcessQueueType
      <3> QED
        BY <3>1, <3>2
    <2> QED
      BY <2>1, <2>2, <2>4, <2>5 DEF TypeOK
  <1>12. CASE StartPass
    <2>1. DiskType' /\ StateType' /\ QueueType' /\ LedgerType' /\ JobsType' /\ HistoryType'
      BY <1>0, <1>12 DEF StartPass
    <2>2. PassType'
      BY <1>0, <1>12 DEF StartPass, PassType
    <2> QED
      BY <2>1, <2>2 DEF TypeOK
  <1>13. ASSUME NEW p \in Paths, WalkRead(p) PROVE TypeOK'
    <2>1. DiskType' /\ StateType' /\ QueueType' /\ LedgerType' /\ JobsType'
      BY <1>0, <1>13 DEF WalkRead
    <2>2. PassType' /\ HistoryType'
      BY <1>0, <1>13, ReadsType DEF WalkRead, PassType, HistoryType
    <2> QED
      BY <2>1, <2>2 DEF TypeOK
  <1>14. CASE Settle
    <2> DEFINE restamped == RestampedPaths(held, inventory)
               changes == IF everEstablished THEN ChangedPaths(held, inventory) ELSE {}
    <2>1. DiskType'
      BY <1>0, <1>14 DEF Settle
    <2>2. restamped \in SUBSET Paths /\ changes \in SUBSET Paths
      BY DEF RestampedPaths, ChangedPaths
    <2>3. Cardinality(restamped) \in Nat
      BY <2>2, CountType
    <2>4. StateType'
      <3>1. /\ held' = [p \in Paths |-> KeptRead(held[p], inventory[p], p \in Queued(queue))]
            /\ established' = TRUE /\ everEstablished' = TRUE /\ changed' = FALSE
            /\ revision' \in {revision, revision + 1} /\ project' = NoDigests
        BY <1>14, Zenon DEF Settle, Commit
      <3>2. held' \in [Paths -> Reads]
        BY <1>0, <3>1 DEF KeptRead, StateType, PassType
      <3>3. revision' \in Nat
        BY <1>0, <3>1 DEF StateType
      <3> QED
        BY <1>0, <3>1, <3>2, <3>3, Zenon DEF StateType
    <2>5. QueueType'
      BY <1>0, <1>14 DEF Settle, Enqueued, QueueType
    <2>6. PassType'
      BY <1>0, <1>14, ReadsType DEF Settle, SettledHealth, PassOver, PassType
    <2>7. accepted' \in Nat
      BY <1>0, <1>14, <2>3 DEF Settle, LedgerType
    <2>8. LedgerType'
      BY <1>0, <1>14, <2>3, <2>7, RaisedType DEF Settle, LedgerType
    <2>9. RecordedPaths(windows, changes) \in [Jobs -> WindowType]
      BY <1>0, <2>2, WindowsKept
    <2>10. JobsType'
      BY <1>0, <1>14, <2>9 DEF Settle, JobsType
    <2>11. HistoryType'
      BY <1>0, <1>14 DEF Settle, HistoryType, ReadPast
    <2> QED
      BY <2>1, <2>4, <2>5, <2>6, <2>8, <2>10, <2>11 DEF TypeOK
  <1>15. CASE WalkFails
    <2>1. DiskType' /\ QueueType' /\ LedgerType' /\ HistoryType'
      BY <1>0, <1>15 DEF WalkFails
    <2>2. StateType' /\ PassType'
      BY <1>0, <1>15, ReadsType DEF WalkFails, SettledHealth, PassOver, StateType, PassType
    <2>3. JobsType'
      BY <1>0, <1>15, WindowsKept, CountsType DEF WalkFails, JobsType
    <2> QED
      BY <2>1, <2>2, <2>3 DEF TypeOK
  <1>16. CASE EndReconciliation
    <2>1. DiskType' /\ StateType' /\ JobsType' /\ HistoryType'
      BY <1>0, <1>16 DEF EndReconciliation, stateVars
    <2>2. PassType'
      BY <1>0, <1>16 DEF EndReconciliation, PassType
    <2>3. LedgerType'
      BY <1>0, <1>16, NotifiedType DEF EndReconciliation, LedgerType
    <2>4. /\ queue \in [Paths -> {"none", "change", "named"}] /\ accepted \in Nat /\ established' \in BOOLEAN
          /\ ProcessQueue(queue, accepted, FALSE)
      BY <1>0, <1>16, <2>1 DEF EndReconciliation, QueueType, LedgerType, StateType
    <2>5. QueueType'
      BY <1>0, <2>4, ProcessQueueType
    <2> QED
      BY <2>1, <2>2, <2>3, <2>5 DEF TypeOK
  <1>17. CASE Query
    <2>1. DiskType' /\ QueueType' /\ PassType' /\ LedgerType' /\ JobsType' /\ HistoryType'
      BY <1>0, <1>17 DEF Query, historyVars
    <2>2. StateType'
      BY <1>0, <1>17, DigestsType DEF Query, TakeView, StateType
    <2> QED
      BY <2>1, <2>2 DEF TypeOK
  <1>18. ASSUME NEW j \in Jobs, BeginJob(j) PROVE TypeOK'
    <2>1. DiskType' /\ QueueType' /\ PassType' /\ LedgerType' /\ HistoryType'
      BY <1>0, <1>18 DEF BeginJob, historyVars
    <2>2. StateType'
      BY <1>0, <1>18, DigestsType DEF BeginJob, TakeView, StateType
    <2>3. Unavailable \in BOOLEAN
      BY DEF Unavailable
    <2>4. [NoWindow EXCEPT !.state = "running", !.unsettled = Unavailable, !.start = ViewDigests] \in WindowType
      BY <1>0, <2>3, DigestsType DEF NoWindow, WindowType
    <2>5. JobsType'
      BY <1>0, <1>18, <2>4 DEF BeginJob, JobsType
    <2> QED
      BY <2>1, <2>2, <2>5 DEF TypeOK
  <1>19. ASSUME NEW j \in Jobs, EndJob(j) PROVE TypeOK'
    <2>1. DiskType' /\ StateType' /\ QueueType' /\ PassType' /\ HistoryType'
      BY <1>0, <1>19 DEF EndJob, passVars
    <2>2. j \in Waiters /\ accepted' \in Nat
      BY <1>0, <1>19 DEF EndJob, LedgerType, Waiters
    <2>3. LedgerType'
      BY <1>0, <1>19, <2>2, PlacedType DEF EndJob, LedgerType, WaitsType
    <2>4. [windows EXCEPT ![j].state = "ending"] \in [Jobs -> WindowType]
      BY <1>0 DEF JobsType, WindowType
    <2>5. JobsType'
      BY <1>0, <1>19, <2>4 DEF EndJob, JobsType
    <2> QED
      BY <2>1, <2>3, <2>5 DEF TypeOK
  <1>20. ASSUME NEW j \in Jobs, CloseJob(j) PROVE TypeOK'
    <2>1. DiskType' /\ QueueType' /\ PassType' /\ LedgerType' /\ HistoryType'
      BY <1>0, <1>20 DEF CloseJob, historyVars
    <2>2. StateType'
      BY <1>0, <1>20, DigestsType DEF CloseJob, TakeView, StateType
    <2>3. Verdict(windows[j], Unavailable) \in {"unsettled", "changed", "unavailable", "fingerprinted"}
      BY DEF Verdict
    <2>4. windows[j] \in WindowType
      BY <1>0 DEF JobsType
    <2>5. [windows[j] EXCEPT !.state = "closed", !.end = ViewDigests,
                             !.verdict = Verdict(windows[j], Unavailable)] \in WindowType
      BY <1>0, <2>3, <2>4, DigestsType DEF WindowType
    <2>6. JobsType'
      BY <1>0, <1>20, <2>5 DEF CloseJob, JobsType
    <2> QED
      BY <2>1, <2>2, <2>6 DEF TypeOK
  <1>21. ASSUME NEW ps \in SUBSET Paths, ReadNamedCall(ps) PROVE TypeOK'
    <2> DEFINE added == {p \in {p \in ps : Holds(held, p) \/ disk[p].content # Absent} : queue[p] = "none"}
               q == IF ~Reconciling /\ established
                    THEN [p \in Paths |-> IF p \in added THEN "named" ELSE queue[p]] ELSE queue
    <2>1. DiskType' /\ StateType' /\ PassType' /\ HistoryType'
      BY <1>0, <1>21 DEF ReadNamedCall, passVars, stateVars
    <2>2. Cardinality(added) \in Nat
      BY CountType
    <2>3. accepted' \in Nat
      BY <1>0, <1>21, <2>2 DEF ReadNamedCall, LedgerType
    <2>4. Reader \in Waiters
      BY DEF Waiters
    <2>5. LedgerType'
      BY <1>0, <1>21, <2>3, <2>4, PlacedType DEF ReadNamedCall, LedgerType, WaitsType
    <2>6. JobsType'
      BY <1>0, <1>21, CountsType DEF ReadNamedCall, JobsType
    <2>7. /\ q \in [Paths -> {"none", "change", "named"}]
          /\ draining \in BOOLEAN /\ established' \in BOOLEAN
      BY <1>0, <2>1 DEF QueueType, StateType
    <2>8. ProcessQueue(q, accepted', draining)
      BY <1>21 DEF ReadNamedCall
    <2>9. QueueType'
      BY <1>0, <2>3, <2>7, <2>8, ProcessQueueType
    <2> QED
      BY <2>1, <2>5, <2>6, <2>9 DEF TypeOK
  <1>22. CASE Stop
    <2>1. DiskType' /\ StateType' /\ QueueType' /\ HistoryType'
      BY <1>0, <1>22 DEF Stop
    <2>2. PassType'
      BY <1>0, <1>22, ReadsType DEF Stop, PassOver, PassType
    <2>3. LedgerType' /\ JobsType'
      BY <1>0, <1>22 DEF Stop, Released, LedgerType, WaitsType, JobsType
    <2> QED
      BY <2>1, <2>2, <2>3 DEF TypeOK
  <1>23. CASE UNCHANGED vars
    BY <1>0, <1>23 DEF vars, TypeOK
  <1> QED
    BY <1>1, <1>2, <1>3, <1>4, <1>5, <1>6, <1>7, <1>8, <1>9, <1>10, <1>11, <1>12, <1>13, <1>14,
       <1>15, <1>16, <1>17, <1>18, <1>19, <1>20, <1>21, <1>22, <1>23 DEF Next

\* The tracker's variables keep their types, for any project, jobs and bounds.
THEOREM TypeCorrect == Spec => []TypeOK
  BY InitType, NextType, PTL DEF Spec

-----------------------------------------------------------------------------
(* A fingerprinted verdict is sound: VerdictInv is kept by every step.      *)

\* Reads stay out of the future: each one is taken at the clock of its step.
LEMMA ReadsStep == TypeOK /\ ReadsInv /\ [Next]_vars => ReadsInv'
  <1> SUFFICES ASSUME TypeOK, ReadsInv, [Next]_vars PROVE ReadsInv'
    OBVIOUS
  <1>0. /\ clock \in 0..MaxClock /\ held \in [Paths -> Reads] /\ inventory \in [Paths -> Reads]
        /\ \A p \in Paths : /\ ReadEntry(p).readAt <= clock
                            /\ ReadEntry(p).content = Absent => ReadEntry(p) = NoRead
        /\ NoRead.readAt <= clock
    BY DEF TypeOK, DiskType, StateType, PassType, ReadEntry, NoRead
  <1>1. ASSUME UNCHANGED <<held, inventory, clock>> PROVE ReadsInv'
    BY <1>1 DEF ReadsInv
  <1>2. CASE Tick
    <2>1. clock' = clock + 1 /\ UNCHANGED <<held, inventory>>
      BY <1>2 DEF Tick, stateVars, passVars
    <2>2. \A p \in Paths : held[p].readAt \in 0..MaxClock /\ inventory[p].readAt \in 0..MaxClock
      BY <1>0 DEF Reads
    <2> QED
      BY <1>0, <2>1, <2>2, ConstantsAssumption DEF ReadsInv
  <1>3. ASSUME NEW p \in Paths, ReadPath(p) PROVE ReadsInv'
    <2>1. held' = [held EXCEPT ![p] = ReadEntry(p)] /\ UNCHANGED <<inventory, clock>>
      BY <1>3 DEF ReadPath, diskVars, passVars
    <2> QED
      BY <1>0, <2>1 DEF ReadsInv
  <1>4. ASSUME NEW p \in Paths, ReadNamed(p) PROVE ReadsInv'
    <2>1. /\ held' \in {held, [held EXCEPT ![p] = NoRead], [held EXCEPT ![p] = ReadEntry(p)]}
          /\ UNCHANGED <<inventory, clock>>
      BY <1>4 DEF ReadNamed, diskVars, passVars
    <2> QED
      BY <1>0, <2>1 DEF ReadsInv
  <1>5. ASSUME NEW p \in Paths, WalkRead(p) PROVE ReadsInv'
    <2>1. inventory' = [inventory EXCEPT ![p] = ReadEntry(p)] /\ UNCHANGED <<held, clock>>
      BY <1>5 DEF WalkRead, diskVars, stateVars
    <2> QED
      BY <1>0, <2>1 DEF ReadsInv
  <1>6. CASE Settle
    <2>1. /\ held' = [p \in Paths |-> KeptRead(held[p], inventory[p], p \in Queued(queue))]
          /\ inventory' = [p \in Paths |-> NoRead] /\ clock' = clock
      BY <1>6 DEF Settle, PassOver, diskVars
    <2>2. \A p \in Paths : KeptRead(held[p], inventory[p], p \in Queued(queue)) \in {held[p], inventory[p]}
      BY DEF KeptRead
    <2> QED
      BY <1>0, <2>1, <2>2 DEF ReadsInv
  <1>7. CASE WalkFails \/ Stop
    <2>1. inventory' = [p \in Paths |-> NoRead] /\ UNCHANGED <<held, clock>>
      BY <1>7 DEF WalkFails, Stop, PassOver, diskVars, stateVars
    <2> QED
      BY <1>0, <2>1 DEF ReadsInv
  <1>8. CASE \/ \E p \in Paths : \E c \in Contents \cup {Absent} : Write(p, c)
             \/ \E p \in Paths : LoseEvent(p) \/ Deliver(p) \/ ReadFails(p)
             \/ Request \/ WatchFailed \/ ReadNothing \/ EndBatch \/ StartPass \/ EndReconciliation \/ Query
             \/ \E j \in Jobs : BeginJob(j) \/ EndJob(j) \/ CloseJob(j)
             \/ \E ps \in SUBSET Paths : ReadNamedCall(ps)
             \/ UNCHANGED vars
    <2>1. UNCHANGED <<held, inventory, clock>>
      BY <1>8 DEF Write, LoseEvent, Deliver, ReadFails, Request, WatchFailed, ReadNothing, EndBatch, StartPass,
                  EndReconciliation, Query, BeginJob, EndJob, CloseJob, ReadNamedCall, vars, diskVars, stateVars, passVars
    <2> QED
      BY <1>1, <2>1
  <1> QED
    BY <1>2, <1>3, <1>4, <1>5, <1>6, <1>7, <1>8 DEF Next

\* Taking the next batch loses no event's read.
LEMMA ProcessQueueKeeps ==
    ASSUME QueueType, QueueInv, NEW q \in [Paths -> {"none", "change", "named"}], NEW n, ProcessQueue(q, n, draining)
    PROVE  /\ QueueInv'
           /\ \A p \in Paths : q[p] = "change" \/ batch[p] = "change" => queue'[p] = "change" \/ batch'[p] = "change"
  <1>1. CASE Queued(q) = {} \/ draining \/ phase' # "idle" \/ stopped
    BY <1>1 DEF ProcessQueue, QueueType, QueueInv
  <1>2. CASE ~(Queued(q) = {} \/ draining \/ phase' # "idle" \/ stopped)
    BY <1>2 DEF ProcessQueue, QueueType, QueueInv, Pending
  <1> QED
    BY <1>1, <1>2

\* A batch is taken by a drain, and its event reads stay in flight until it ends.
LEMMA QueueStep == TypeOK /\ QueueInv /\ [Next]_vars => QueueInv'
  <1> SUFFICES ASSUME TypeOK, QueueInv, [Next]_vars PROVE QueueInv'
    OBVIOUS
  <1>0. QueueType /\ LedgerType
    BY DEF TypeOK
  <1>1. ASSUME UNCHANGED <<batch, inFlight, draining>> PROVE QueueInv'
    BY <1>1 DEF QueueInv
  <1>2. ASSUME NEW p \in Paths, Deliver(p) PROVE QueueInv'
    <2>1. Enqueued(queue, {p}) \in [Paths -> {"none", "change", "named"}]
      BY <1>0 DEF QueueType, Enqueued
    <2>2. ProcessQueue(Enqueued(queue, {p}), accepted', draining)
      BY <1>2 DEF Deliver
    <2> QED
      BY <1>0, <2>1, <2>2, ProcessQueueKeeps
  <1>3. ASSUME NEW ps \in SUBSET Paths, ReadNamedCall(ps) PROVE QueueInv'
    <2> DEFINE added == {p \in {p \in ps : Holds(held, p) \/ disk[p].content # Absent} : queue[p] = "none"}
               q == IF ~Reconciling /\ established
                    THEN [p \in Paths |-> IF p \in added THEN "named" ELSE queue[p]] ELSE queue
    <2>1. q \in [Paths -> {"none", "change", "named"}]
      BY <1>0 DEF QueueType
    <2>2. ProcessQueue(q, accepted', draining)
      BY <1>3 DEF ReadNamedCall
    <2> QED
      BY <1>0, <2>1, <2>2, ProcessQueueKeeps
  <1>4. CASE EndReconciliation
    <2>1. ProcessQueue(queue, accepted, draining)
      <3>1. ProcessQueue(queue, accepted, FALSE) /\ draining = FALSE
        BY <1>0, <1>4 DEF EndReconciliation, QueueType
      <3> QED
        BY <3>1
    <2>2. queue \in [Paths -> {"none", "change", "named"}]
      BY <1>0 DEF QueueType
    <2> QED
      BY <1>0, <2>1, <2>2, ProcessQueueKeeps
  <1>5. CASE EndBatch
    <2>1. CASE Queued(queue) = {} \/ Reconciling \/ stopped
      <3>1. batch' = NothingQueued
        BY <1>5, <2>1 DEF EndBatch
      <3> QED
        BY <3>1 DEF QueueInv, NothingQueued
    <2>2. CASE ~(Queued(queue) = {} \/ Reconciling \/ stopped)
      <3>1. batch' = queue /\ inFlight' = Pending(queue) /\ draining' = TRUE
        BY <1>5, <2>2 DEF EndBatch, ProcessQueue, Reconciling
      <3> QED
        BY <3>1 DEF QueueInv, Pending
    <2> QED
      BY <2>1, <2>2
  <1>6. ASSUME NEW p \in Paths, ReadPath(p) \/ ReadFails(p) \/ ReadNamed(p) PROVE QueueInv'
    <2>1. batch' = [batch EXCEPT ![p] = "none"] /\ UNCHANGED <<inFlight, draining>>
      BY <1>6 DEF ReadPath, ReadFails, ReadNamed, ReadDone
    <2> QED
      BY <1>0, <2>1 DEF QueueType, QueueInv
  <1>7. CASE ReadNothing
    <2>1. batch' = NothingQueued
      BY <1>7 DEF ReadNothing
    <2> QED
      BY <2>1 DEF QueueInv, NothingQueued
  <1>8. CASE \/ \E p \in Paths : \E c \in Contents \cup {Absent} : Write(p, c)
             \/ \E p \in Paths : LoseEvent(p) \/ WalkRead(p)
             \/ Tick \/ Request \/ WatchFailed \/ StartPass \/ Settle \/ WalkFails \/ Query \/ Stop
             \/ \E j \in Jobs : BeginJob(j) \/ EndJob(j) \/ CloseJob(j)
             \/ UNCHANGED vars
    <2>1. UNCHANGED <<batch, inFlight, draining>>
      BY <1>8 DEF Write, LoseEvent, WalkRead, Tick, Request, WatchFailed, StartPass, Settle, WalkFails, Query, Stop,
                  BeginJob, EndJob, CloseJob, vars, queueVars
    <2> QED
      BY <1>1, <2>1
  <1> QED
    BY <1>2, <1>3, <1>4, <1>5, <1>6, <1>7, <1>8 DEF Next

\* A pass is asked for only within a reconciliation, and only a whole pass clears the loss of the input set.
LEMMA PassStep == TypeOK /\ PassInv /\ [Next]_vars => PassInv'
  <1> SUFFICES ASSUME TypeOK, PassInv, [Next]_vars PROVE PassInv'
    OBVIOUS
  <1>1. ASSUME UNCHANGED <<requested, phase, stopped, lastReconciled, lost, everEstablished>> PROVE PassInv'
    BY <1>1 DEF PassInv, Reconciling
  <1>2. CASE Request \/ WatchFailed
    <2>1. phase' # "idle" /\ UNCHANGED <<lastReconciled, lost, everEstablished>>
      BY <1>2 DEF Request, WatchFailed, RequestReconciliation, Reconciling, stateVars
    <2> QED
      BY <2>1 DEF PassInv, Reconciling
  <1>3. ASSUME NEW p \in Paths, ReadFails(p) PROVE PassInv'
    BY <1>3 DEF ReadFails, InputSetLost, RequestReconciliation, PassInv, Reconciling
  <1>4. CASE StartPass
    BY <1>4 DEF StartPass, PassInv, stateVars
  <1>5. CASE Settle
    BY <1>5 DEF Settle, PassInv, Reconciling
  <1>6. CASE WalkFails
    BY <1>6 DEF WalkFails, PassInv, Reconciling
  <1>7. CASE EndReconciliation
    BY <1>7 DEF EndReconciliation, PassInv
  <1>8. CASE Stop
    BY <1>8 DEF Stop, PassInv, stateVars
  <1>9. CASE \/ \E p \in Paths : \E c \in Contents \cup {Absent} : Write(p, c)
             \/ \E p \in Paths : LoseEvent(p) \/ Deliver(p) \/ ReadPath(p) \/ ReadNamed(p) \/ WalkRead(p)
             \/ Tick \/ ReadNothing \/ EndBatch \/ Query
             \/ \E j \in Jobs : BeginJob(j) \/ EndJob(j) \/ CloseJob(j)
             \/ \E ps \in SUBSET Paths : ReadNamedCall(ps)
             \/ UNCHANGED vars
    <2>1. UNCHANGED <<requested, phase, stopped, lastReconciled, lost, everEstablished>>
      BY <1>9 DEF Write, LoseEvent, Deliver, ReadPath, ReadNamed, WalkRead, Tick, ReadNothing, EndBatch, Query,
                  BeginJob, EndJob, CloseJob, ReadNamedCall, vars, stateVars, passVars
    <2> QED
      BY <1>1, <2>1
  <1> QED
    BY <1>2, <1>3, <1>4, <1>5, <1>6, <1>7, <1>8, <1>9 DEF Next

\* What recording does to each job's window, and what it leaves alone.
LEMMA Recorded ==
    ASSUME JobsType, NEW ps \in SUBSET Paths, NEW j \in Jobs,
           NEW w, w = RecordedPaths(windows, ps)[j]
    PROVE  /\ w.state = windows[j].state /\ w.verdict = windows[j].verdict
           /\ w.caused = windows[j].caused /\ w.unsettled = windows[j].unsettled
           /\ Running(j) => w.paths = windows[j].paths \cup ps
           /\ ~Running(j) => w = windows[j]
  <1>1. windows[j] \in WindowType
    BY DEF JobsType
  <1>2. w = IF Running(j) THEN [windows[j] EXCEPT !.paths = @ \cup ps] ELSE windows[j]
    BY DEF RecordedPaths
  <1> HIDE DEF Running
  <1> QED
    BY <1>1, <1>2 DEF WindowType

\* Recording a cause touches a job's causes alone.
LEMMA Caused ==
    ASSUME JobsType, NEW j \in Jobs, NEW w, w = RecordedCause(windows)[j]
    PROVE  /\ w.state = windows[j].state /\ w.verdict = windows[j].verdict
           /\ Running(j) => w.caused = TRUE
           /\ ~Running(j) => w = windows[j]
  <1>1. windows[j] \in WindowType
    BY DEF JobsType
  <1>2. w = IF Running(j) THEN [windows[j] EXCEPT !.caused = TRUE] ELSE windows[j]
    BY DEF RecordedCause
  <1> HIDE DEF Running
  <1> QED
    BY <1>1, <1>2 DEF WindowType

\* Every step keeps each job's window but for what it records, begins, ends or closes.
LEMMA WindowSteps ==
    ASSUME TypeOK, [Next]_vars, NEW j \in Jobs
    PROVE  \/ windows'[j] = windows[j]
           \/ \E ps \in SUBSET Paths : windows'[j] = RecordedPaths(windows, ps)[j]
           \/ windows'[j] = RecordedCause(windows)[j]
           \/ BeginJob(j) \/ EndJob(j) \/ CloseJob(j)
  <1>0. JobsType
    BY DEF TypeOK
  <1>1. ASSUME NEW i \in Jobs, BeginJob(i) \/ EndJob(i) \/ CloseJob(i), i # j PROVE windows'[j] = windows[j]
    BY <1>0, <1>1 DEF BeginJob, EndJob, CloseJob, JobsType
  <1>2. CASE \/ \E p \in Paths : \E c \in Contents \cup {Absent} : Write(p, c)
             \/ \E p \in Paths : LoseEvent(p) \/ Deliver(p) \/ WalkRead(p)
             \/ Tick \/ Request \/ WatchFailed \/ EndBatch \/ StartPass \/ EndReconciliation \/ Query \/ Stop
             \/ \E ps \in SUBSET Paths : ReadNamedCall(ps)
             \/ UNCHANGED vars
    BY <1>2 DEF Write, LoseEvent, Deliver, WalkRead, Tick, Request, WatchFailed, EndBatch, StartPass,
                EndReconciliation, Query, Stop, ReadNamedCall, vars
  <1>3. CASE ReadNothing \/ WalkFails \/ \E p \in Paths : ReadFails(p)
    BY <1>3 DEF ReadNothing, WalkFails, ReadFails
  <1>4. ASSUME NEW p \in Paths, ReadPath(p) \/ ReadNamed(p)
        PROVE  windows' = windows \/ \E ps \in SUBSET Paths : windows' = RecordedPaths(windows, ps)
    <2>1. windows' = windows \/ windows' = RecordedPaths(windows, {p})
      BY <1>4 DEF ReadPath, ReadNamed
    <2> QED
      BY <2>1
  <1>5. CASE Settle
    <2>1. windows' = RecordedPaths(windows, IF everEstablished THEN ChangedPaths(held, inventory) ELSE {})
      BY <1>5 DEF Settle
    <2>2. (IF everEstablished THEN ChangedPaths(held, inventory) ELSE {}) \in SUBSET Paths
      BY DEF ChangedPaths
    <2> QED
      BY <2>1, <2>2
  <1> QED
    BY <1>1, <1>2, <1>3, <1>4, <1>5 DEF Next

\* The history of writes is kept for running jobs only.
LEMMA HistorySteps ==
    ASSUME TypeOK, [Next]_vars, NEW j \in Jobs
    PROVE  /\ windows[j].state # "running" => written'[j] = written[j] /\ seen'[j] \subseteq seen[j]
           /\ written[j] \subseteq written'[j]
           /\ seen[j] \subseteq written[j] => seen'[j] \subseteq written'[j]
  <1>0. HistoryType
    BY DEF TypeOK
  <1>1. ASSUME NEW p \in Paths, NEW c \in Contents \cup {Absent}, Write(p, c)
        PROVE  /\ written'[j] = IF windows[j].state = "running" THEN written[j] \cup {p} ELSE written[j]
               /\ seen'[j] = seen[j] \ (ReadPast(j) \cap {p})
    BY <1>1 DEF Write
  <1>2. ASSUME \/ \E p \in Paths : Deliver(p)
               \/ WatchFailed
        PROVE  /\ written'[j] = written[j]
               /\ \E ps \in SUBSET Paths :
                    seen'[j] = IF windows[j].state = "running" THEN seen[j] \cup (ps \cap written[j]) ELSE seen[j]
    <2>1. written' = written /\ \E ps \in SUBSET Paths : seen' = SeenBy(ps)
      <3>1. ASSUME NEW p \in Paths, Deliver(p) PROVE written' = written /\ seen' = SeenBy({p})
        BY <3>1 DEF Deliver
      <3>2. ASSUME WatchFailed PROVE written' = written /\ seen' = SeenBy(events)
        BY <3>2 DEF WatchFailed
      <3>3. events \in SUBSET Paths
        BY DEF TypeOK, DiskType
      <3> QED
        BY <1>2, <3>1, <3>2, <3>3
    <2> QED
      BY <2>1 DEF SeenBy
  <1>3. CASE \/ \E p \in Paths : \/ LoseEvent(p) \/ ReadPath(p) \/ ReadFails(p) \/ ReadNamed(p) \/ WalkRead(p)
             \/ Tick \/ Request \/ ReadNothing \/ EndBatch \/ StartPass \/ Settle \/ WalkFails
             \/ EndReconciliation \/ Query \/ Stop
             \/ \E i \in Jobs : BeginJob(i) \/ EndJob(i) \/ CloseJob(i)
             \/ \E ps \in SUBSET Paths : ReadNamedCall(ps)
             \/ UNCHANGED vars
    <2>1. written' = written /\ seen' = seen
      BY <1>3 DEF LoseEvent, ReadPath, ReadFails, ReadNamed, WalkRead, Tick, Request, ReadNothing, EndBatch,
                  StartPass, Settle, WalkFails, EndReconciliation, Query, Stop, BeginJob, EndJob, CloseJob,
                  ReadNamedCall, vars, historyVars
    <2> QED
      BY <2>1
  <1>4. CASE \E p \in Paths : \E c \in Contents \cup {Absent} : Write(p, c)
    BY <1>1, <1>4
  <1>5. CASE WatchFailed \/ \E p \in Paths : Deliver(p)
    BY <1>2, <1>5
  <1> QED
    BY <1>3, <1>4, <1>5 DEF Next

\* The history follows the windows through every step.
LEMMA WindowsStep == TypeOK /\ WindowsInv /\ [Next]_vars => WindowsInv'
  <1> SUFFICES ASSUME TypeOK, WindowsInv, [Next]_vars, NEW j \in Jobs
               PROVE  /\ windows'[j].state = "none" => written'[j] = {}
                      /\ seen'[j] \subseteq written'[j]
                      /\ windows'[j].verdict # "none" => windows'[j].state = "closed"
    BY DEF WindowsInv
  <1>0. /\ JobsType /\ windows[j] \in WindowType
        /\ windows[j].state = "none" => written[j] = {}
        /\ seen[j] \subseteq written[j]
        /\ windows[j].verdict # "none" => windows[j].state = "closed"
    BY DEF TypeOK, JobsType, WindowsInv
  <1>1. seen'[j] \subseteq written'[j] /\ (windows[j].state = "none" => written'[j] = {})
    BY <1>0, HistorySteps
  <1>2. CASE BeginJob(j)
    <2>1. windows'[j].state = "running" /\ windows'[j].verdict = "none"
      BY <1>0, <1>2 DEF BeginJob, JobsType, NoWindow
    <2> QED
      BY <1>1, <2>1
  <1>3. CASE EndJob(j)
    <2>1. windows[j].state = "running" /\ windows'[j].state = "ending" /\ windows'[j].verdict = windows[j].verdict
      BY <1>0, <1>3 DEF EndJob, JobsType, WindowType
    <2> QED
      BY <1>0, <1>1, <2>1
  <1>4. CASE CloseJob(j)
    <2>1. windows'[j].state = "closed"
      BY <1>0, <1>4 DEF CloseJob, JobsType, WindowType
    <2> QED
      BY <1>1, <2>1
  <1>5. CASE ~(BeginJob(j) \/ EndJob(j) \/ CloseJob(j))
    <2>1. windows'[j].state = windows[j].state /\ windows'[j].verdict = windows[j].verdict
      <3>1. ASSUME NEW ps \in SUBSET Paths, windows'[j] = RecordedPaths(windows, ps)[j]
            PROVE  windows'[j].state = windows[j].state /\ windows'[j].verdict = windows[j].verdict
        BY <1>0, <3>1, Recorded
      <3>2. ASSUME windows'[j] = RecordedCause(windows)[j]
            PROVE  windows'[j].state = windows[j].state /\ windows'[j].verdict = windows[j].verdict
        BY <1>0, <3>2, Caused
      <3> QED
        BY <1>5, <3>1, <3>2, WindowSteps
    <2> QED
      BY <1>0, <1>1, <2>1
  <1> QED
    BY <1>2, <1>3, <1>4, <1>5

\* A job that may bind after a step other than its beginning might have before it, and has lost nothing recorded.
LEMMA BindBefore ==
    ASSUME TypeOK, [Next]_vars, NEW j \in Jobs, MayBind(j)', ~BeginJob(j)
    PROVE  MayBind(j) /\ windows[j].paths \subseteq windows'[j].paths
  <1>0. JobsType /\ windows[j] \in WindowType
    BY DEF TypeOK, JobsType
  <1>1. CASE windows'[j] = windows[j]
    BY <1>1 DEF MayBind, Running
  <1>2. ASSUME NEW ps \in SUBSET Paths, windows'[j] = RecordedPaths(windows, ps)[j]
        PROVE  MayBind(j) /\ windows[j].paths \subseteq windows'[j].paths
    <2>1. /\ windows'[j].state = windows[j].state /\ windows'[j].caused = windows[j].caused
          /\ windows'[j].unsettled = windows[j].unsettled
          /\ Running(j) => windows'[j].paths = windows[j].paths \cup ps
      BY <1>0, <1>2, Recorded
    <2> QED
      BY <2>1 DEF MayBind, Running
  <1>3. CASE windows'[j] = RecordedCause(windows)[j]
    <2>1. windows'[j].state = windows[j].state /\ (Running(j) => windows'[j].caused = TRUE)
      BY <1>0, <1>3, Caused
    <2> QED
      BY <2>1 DEF MayBind, Running
  <1>4. CASE EndJob(j)
    <2>1. /\ windows[j].state = "running" /\ windows'[j].caused = windows[j].caused
          /\ windows'[j].unsettled = windows[j].unsettled /\ windows'[j].paths = windows[j].paths
      BY <1>0, <1>4 DEF EndJob, JobsType, WindowType
    <2> QED
      BY <2>1 DEF MayBind, Running
  <1>5. CASE CloseJob(j)
    <2>1. windows'[j].state = "closed"
      BY <1>0, <1>5 DEF CloseJob, JobsType, WindowType
    <2> QED
      BY <2>1 DEF MayBind, Running
  <1> QED
    BY <1>1, <1>2, <1>3, <1>4, <1>5, WindowSteps

\* A step of a pass that reads nothing and is told of nothing leaves what it has read as it was.
LEMMA PastKept ==
    ASSUME TypeOK, VerdictInv, [Next]_vars, phase = "walking", phase' = "walking",
           UNCHANGED <<disk, held, inventory, walked, past, queue, draining, seen, blind>>,
           requested => requested', stopped => stopped'
    PROVE  PastInv'
  <1>0. JobsType /\ PastInv /\ WindowsInv
    BY DEF TypeOK, VerdictInv
  <1>1. ASSUME NEW p \in Paths, NEW j \in Jobs, MayBind(j)', p \in Unrecorded(j, seen[j])'
        PROVE  MayBind(j) /\ p \in Unrecorded(j, seen[j])
    <2>1. CASE BeginJob(j)
      <3>1. windows[j].state = "none"
        BY <2>1 DEF BeginJob
      <3>2. seen'[j] = {}
        BY <1>0, <3>1 DEF WindowsInv
      <3> QED
        BY <1>1, <3>2 DEF Unrecorded
    <2>2. CASE ~BeginJob(j)
      BY <1>1, <2>2, BindBefore DEF Unrecorded
    <2> QED
      BY <2>1, <2>2
  <1>2. walked \subseteq Paths
    BY DEF TypeOK, PassType
  <1> QED
    BY <1>0, <1>1, <1>2 DEF PastInv

\* What a pass reads past stays apart from what a write, an event or a lost watch leaves to be read.
LEMMA PastStep == TypeOK /\ VerdictInv /\ [Next]_vars => PastInv'
  <1> SUFFICES ASSUME TypeOK, VerdictInv, [Next]_vars PROVE PastInv'
    OBVIOUS
  <1>0. /\ DiskType /\ StateType /\ QueueType /\ PassType /\ JobsType /\ HistoryType
        /\ ReadsInv /\ WindowsInv /\ PastInv
    BY DEF TypeOK, VerdictInv
  <1>1. ASSUME UNCHANGED walked, phase # "walking", phase' # "walking" PROVE PastInv'
    BY <1>0, <1>1 DEF PastInv
  <1>2. ASSUME NEW p \in Paths, NEW c \in Contents \cup {Absent}, Write(p, c) PROVE PastInv'
    <2>1. /\ disk' = [disk EXCEPT ![p] = [content |-> c, stamp |-> clock]]
          /\ UNCHANGED <<held, inventory, walked, windows, queue, draining, requested, phase, stopped>>
          /\ past' = past \ {p}
      BY <1>2 DEF Write, stateVars, queueVars
    <2>2. CASE phase # "walking"
      BY <1>1, <2>1, <2>2
    <2>3. CASE phase = "walking"
      <3>1. ASSUME NEW i \in Jobs, NEW q \in Paths, MayBind(i)', q \in Unrecorded(i, seen[i])'
            PROVE  /\ MayBind(i) /\ q \in Unrecorded(i, seen[i])
                   /\ q = p /\ q \in past => queue[q] = "change"
        <4>1. seen'[i] = seen[i] \ (ReadPast(i) \cap {p}) /\ blind'[i] = blind[i] \ {p}
          BY <1>2 DEF Write
        <4>2. q \in seen[i] /\ seen[i] \subseteq written[i] /\ (q = p => q \notin ReadPast(i)) /\ q \notin windows[i].paths
          BY <1>0, <2>1, <3>1, <4>1 DEF Unrecorded, WindowsInv
        <4>3. q \notin blind[i]
          BY <3>1, <4>1, <4>2 DEF Unrecorded, ReadPast
        <4> QED
          BY <2>1, <3>1, <4>2, <4>3 DEF Unrecorded, ReadPast, MayBind, Running
      <3>2. ASSUME NEW q \in walked, q # p
            PROVE  disk'[q] = disk[q] /\ (q \in past' <=> q \in past) /\ q \in Paths
        BY <1>0, <2>1, <3>2 DEF DiskType, PassType
      <3>3. p \notin past' /\ inventory[p].readAt <= disk'[p].stamp
        BY <1>0, <2>1 DEF DiskType, ReadsInv
      <3>4. ~draining'
        BY <1>0, <2>1, <2>3 DEF PastInv
      <3>5. ASSUME NEW q \in walked
            PROVE  IF q \in past' THEN Unmoved(held[q], inventory[q])
                   ELSE /\ Unmoved(held[q], inventory[q]) => inventory[q].readAt <= disk'[q].stamp
                        /\ \A i \in Jobs : MayBind(i)' /\ q \in Unrecorded(i, seen[i])' =>
                              queue[q] = "change" \/ requested \/ stopped \/ ~Unmoved(held[q], inventory[q])
        <4>1. CASE q = p
          BY <1>0, <2>3, <3>1, <3>3, <3>5, <4>1 DEF PastInv
        <4>2. CASE q # p
          BY <1>0, <2>3, <3>1, <3>2, <3>5, <4>2 DEF PastInv
        <4> QED
          BY <4>1, <4>2
      <3> QED
        BY <2>1, <2>3, <3>4, <3>5 DEF PastInv
    <2> QED
      BY <2>2, <2>3
  <1>3. ASSUME NEW p \in Paths, Deliver(p) PROVE PastInv'
    <2>1. /\ UNCHANGED <<disk, held, inventory, walked, past, windows, blind, requested, phase, stopped>>
          /\ ProcessQueue(Enqueued(queue, {p}), accepted', draining)
          /\ seen' = SeenBy({p})
      BY <1>3 DEF Deliver
    <2>2. CASE phase # "walking"
      BY <1>1, <2>1, <2>2
    <2>3. CASE phase = "walking"
      <3>1. queue' = Enqueued(queue, {p}) /\ draining' = draining
        BY <2>1, <2>3 DEF ProcessQueue
      <3>2. ASSUME NEW i \in Jobs, NEW q \in Paths, MayBind(i)', q \in Unrecorded(i, seen[i])', q # p
            PROVE  MayBind(i) /\ q \in Unrecorded(i, seen[i])
        <4>1. seen'[i] \subseteq seen[i] \cup {p}
          BY <2>1 DEF SeenBy
        <4> QED
          BY <2>1, <3>2, <4>1 DEF Unrecorded, MayBind, Running
      <3>3. \A q \in Paths : queue'[q] = IF q = p THEN "change" ELSE queue[q]
        BY <3>1 DEF Enqueued
      <3>4. walked \subseteq Paths
        BY <1>0 DEF PassType
      <3> QED
        BY <1>0, <2>1, <2>3, <3>1, <3>2, <3>3, <3>4 DEF PastInv
    <2> QED
      BY <2>2, <2>3
  <1>4. CASE WatchFailed
    <2>1. /\ UNCHANGED <<disk, held, inventory, walked, past, queue, draining>> /\ requested' = TRUE
          /\ phase' = IF Reconciling THEN phase ELSE "ready"
      BY <1>4 DEF WatchFailed, RequestReconciliation, stateVars, queueVars
    <2>2. CASE phase # "walking"
      BY <1>1, <2>1, <2>2
    <2>3. CASE phase = "walking"
      BY <1>0, <2>1, <2>3 DEF PastInv, Reconciling
    <2> QED
      BY <2>2, <2>3
  <1>5. ASSUME NEW p \in Paths, WalkRead(p) PROVE PastInv'
    <2>1. /\ UNCHANGED <<disk, held, queue, draining, windows, seen, blind, requested, phase, stopped>>
          /\ phase = "walking" /\ p \notin walked /\ walked' = walked \cup {p}
          /\ inventory' = [inventory EXCEPT ![p] = ReadEntry(p)]
          /\ past' = IF Unmoved(held[p], ReadEntry(p)) THEN past \cup {p} ELSE past
      BY <1>5 DEF WalkRead, diskVars, stateVars, queueVars
    <2>2. walked \subseteq Paths /\ past \subseteq walked /\ inventory'[p] = ReadEntry(p)
      BY <1>0, <2>1 DEF PassType
    <2>3. \A q \in walked : q # p /\ inventory'[q] = inventory[q] /\ (q \in past' <=> q \in past)
      BY <1>0, <2>1, <2>2 DEF PassType
    <2>4. p \in past' <=> Unmoved(held'[p], inventory'[p])
      BY <2>1, <2>2
    <2>5. \A i \in Jobs : (MayBind(i)' <=> MayBind(i)) /\ Unrecorded(i, seen[i])' = Unrecorded(i, seen[i])
      BY <2>1 DEF MayBind, Running, Unrecorded
    <2>6. ASSUME NEW q \in walked'
          PROVE  IF q \in past' THEN Unmoved(held'[q], inventory'[q])
                 ELSE /\ Unmoved(held'[q], inventory'[q]) => inventory'[q].readAt <= disk'[q].stamp
                      /\ \A i \in Jobs : MayBind(i)' /\ q \in Unrecorded(i, seen[i])' =>
                            queue'[q] = "change" \/ requested' \/ stopped' \/ ~Unmoved(held'[q], inventory'[q])
      <3>1. CASE q = p
        BY <2>4, <3>1
      <3>2. CASE q \in walked
        BY <1>0, <2>1, <2>3, <2>5, <3>2 DEF PastInv
      <3> QED
        BY <2>1, <2>6, <3>1, <3>2
    <2> QED
      BY <1>0, <2>1, <2>6 DEF PastInv
  <1>6. CASE StartPass
    <2>1. walked' = walked /\ phase # "walking" /\ phase' = "walking" /\ ~draining'
      BY <1>6 DEF StartPass, queueVars
    <2> QED
      BY <1>0, <2>1 DEF PastInv
  <1>7. CASE Settle \/ WalkFails \/ Stop
    <2>1. walked' = {}
      BY <1>7 DEF Settle, WalkFails, Stop, PassOver
    <2>2. phase' # "walking"
      BY <1>7 DEF Settle, WalkFails, Stop, Reconciling
    <2> QED
      BY <2>1, <2>2 DEF PastInv
  <1>8. CASE \/ \E p \in Paths : LoseEvent(p)
             \/ Tick \/ Request \/ Query
             \/ \E j \in Jobs : BeginJob(j) \/ EndJob(j) \/ CloseJob(j)
             \/ UNCHANGED vars
    <2>1. UNCHANGED <<disk, held, inventory, walked, past, queue, draining, seen, blind>>
      BY <1>8 DEF LoseEvent, Tick, Request, Query, BeginJob, EndJob, CloseJob, vars, diskVars, stateVars, queueVars,
                  passVars, historyVars
    <2>5. requested' = requested \/ requested' = TRUE
      BY <1>8 DEF LoseEvent, Tick, Request, RequestReconciliation, Query, BeginJob, EndJob, CloseJob, vars, passVars
    <2>6. stopped' = stopped
      BY <1>8 DEF LoseEvent, Tick, Request, Query, BeginJob, EndJob, CloseJob, vars
    <2>2. phase' = phase \/ (phase = "idle" /\ phase' = "ready")
      BY <1>8 DEF LoseEvent, Tick, Request, RequestReconciliation, Reconciling, Query, BeginJob, EndJob, CloseJob, vars,
                  passVars
    <2>3. CASE phase # "walking"
      BY <1>1, <2>1, <2>2, <2>3
    <2>4. CASE phase = "walking"
      BY <2>1, <2>2, <2>4, <2>5, <2>6, PastKept
    <2> QED
      BY <2>3, <2>4
  <1>9. CASE \/ ReadNothing \/ EndBatch \/ EndReconciliation
             \/ \E p \in Paths : ReadPath(p) \/ ReadFails(p) \/ ReadNamed(p)
    <2>1. walked' = walked /\ (draining \/ phase = "ready")
      BY <1>9 DEF ReadNothing, EndBatch, EndReconciliation, ReadPath, ReadFails, ReadNamed, passVars
    <2>2. phase # "walking"
      BY <1>0, <2>1 DEF PastInv
    <2>3. phase' \in {phase, "ready", "idle"}
      BY <1>9 DEF ReadNothing, EndBatch, EndReconciliation, ReadPath, ReadFails, InputSetLost, RequestReconciliation,
                  ReadNamed, passVars
    <2> QED
      BY <1>1, <2>1, <2>2, <2>3
  <1>10. ASSUME NEW ps \in SUBSET Paths, ReadNamedCall(ps) PROVE PastInv'
    <2>1. /\ UNCHANGED <<disk, held, inventory, walked, past, seen, blind, requested, phase, stopped>>
      BY <1>10 DEF ReadNamedCall, diskVars, historyVars
    <2>2. CASE phase # "walking"
      BY <1>1, <2>1, <2>2
    <2>3. CASE phase = "walking"
      <3>1. ProcessQueue(queue, accepted', draining)
        BY <1>10, <2>3 DEF ReadNamedCall, Reconciling
      <3>2. UNCHANGED <<queue, draining>>
        BY <2>1, <2>3, <3>1 DEF ProcessQueue
      <3> QED
        BY <2>1, <2>3, <3>2, PastKept
    <2> QED
      BY <2>2, <2>3
  <1> QED
    BY <1>2, <1>3, <1>4, <1>5, <1>6, <1>7, <1>8, <1>9, <1>10 DEF Next

\* A step that leaves the disk, the reads held and the writes seen alone keeps the bindings sound when every read and
\* pass on the way stays on the way.
LEMMA BindKept ==
    ASSUME TypeOK, BindInv, [Next]_vars, NEW j \in Jobs, MayBind(j)', ~BeginJob(j),
           UNCHANGED <<disk, held, everEstablished, written, seen, blind>>,
           \A p \in Paths : OnTheWay(p) => OnTheWay(p)'
    PROVE  /\ everEstablished'
           /\ \A p \in Unrecorded(j, written[j])' : held'[p].readAt <= disk'[p].stamp
           /\ \A p \in Unrecorded(j, seen[j])' : OnTheWay(p)'
  <1>1. MayBind(j) /\ windows[j].paths \subseteq windows'[j].paths
    BY BindBefore
  <1>2. Unrecorded(j, written[j])' \subseteq Unrecorded(j, written[j])
    BY <1>1 DEF Unrecorded
  <1>3. Unrecorded(j, seen[j])' \subseteq Unrecorded(j, seen[j])
    BY <1>1 DEF Unrecorded
  <1>4. seen[j] \subseteq Paths
    BY DEF TypeOK, HistoryType
  <1>5. Unrecorded(j, seen[j]) \subseteq Paths
    BY <1>4 DEF Unrecorded
  <1> QED
    BY <1>1, <1>2, <1>3, <1>5 DEF BindInv

\* No step other than a job's beginning leaves it, if it may bind, with a write nothing will record.
LEMMA BindRunning ==
    ASSUME TypeOK, VerdictInv, [Next]_vars, NEW j \in Jobs, MayBind(j)', ~BeginJob(j)
    PROVE  /\ everEstablished'
           /\ \A p \in Unrecorded(j, written[j])' : held'[p].readAt <= disk'[p].stamp
           /\ \A p \in Unrecorded(j, seen[j])' : OnTheWay(p)'
  <1> DEFINE Goal == /\ everEstablished'
                     /\ \A p \in Unrecorded(j, written[j])' : held'[p].readAt <= disk'[p].stamp
                     /\ \A p \in Unrecorded(j, seen[j])' : OnTheWay(p)'
  <1>0. /\ DiskType /\ StateType /\ QueueType /\ PassType /\ JobsType /\ HistoryType
        /\ ReadsInv /\ QueueInv /\ PassInv /\ WindowsInv /\ PastInv /\ BindInv
    BY DEF TypeOK, VerdictInv
  <1>1. /\ MayBind(j) /\ Running(j) /\ windows[j].paths \subseteq windows'[j].paths
        /\ written[j] \subseteq Paths /\ seen[j] \subseteq written[j]
    BY <1>0, BindBefore DEF MayBind, HistoryType, WindowsInv
  <1>2. /\ everEstablished
        /\ \A p \in Unrecorded(j, written[j]) : held[p].readAt <= disk[p].stamp
        /\ \A p \in Unrecorded(j, seen[j]) : OnTheWay(p)
    BY <1>0, <1>1 DEF BindInv
  <1>3. ASSUME NEW p \in Paths, NEW c \in Contents \cup {Absent}, Write(p, c) PROVE Goal
    <2>1. /\ disk' = [disk EXCEPT ![p] = [content |-> c, stamp |-> clock]]
          /\ UNCHANGED <<held, everEstablished, windows, queue, batch, requested, phase, stopped>>
          /\ written'[j] \subseteq written[j] \cup {p}
          /\ seen'[j] = seen[j] \ (ReadPast(j) \cap {p}) /\ blind'[j] = blind[j] \ {p}
      BY <1>3 DEF Write, stateVars, queueVars
    <2>2. held[p].readAt <= disk'[p].stamp
      BY <1>0, <1>3, <2>1 DEF ReadsInv, DiskType
    <2>3. \A q \in Paths \ {p} : disk'[q] = disk[q]
      BY <1>0, <2>1 DEF DiskType
    <2>4. Unrecorded(j, written[j])' \subseteq Unrecorded(j, written[j]) \cup {p}
      BY <2>1 DEF Unrecorded
    <2>5. Unrecorded(j, seen[j])' \subseteq Unrecorded(j, seen[j])
      BY <2>1 DEF Unrecorded, ReadPast
    <2>6. \A q \in Unrecorded(j, written[j])' : held'[q].readAt <= disk'[q].stamp
      <3> TAKE q \in Unrecorded(j, written[j])'
      <3>1. CASE q = p
        BY <2>1, <2>2, <3>1
      <3>2. CASE q # p
        <4>1. q \in Unrecorded(j, written[j]) /\ q \in Paths
          BY <1>1, <2>4, <3>2 DEF Unrecorded
        <4> QED
          BY <1>2, <2>1, <2>3, <3>2, <4>1
      <3> QED
        BY <3>1, <3>2
    <2>7. \A q \in Unrecorded(j, seen[j])' : OnTheWay(q)'
      BY <1>2, <2>1, <2>5 DEF OnTheWay
    <2> QED
      BY <1>2, <2>1, <2>6, <2>7
  <1>4. ASSUME NEW p \in Paths, Deliver(p) PROVE Goal
    <2> DEFINE q == Enqueued(queue, {p})
    <2>1. /\ UNCHANGED <<disk, held, everEstablished, windows, written, blind, requested, phase, stopped>>
          /\ ProcessQueue(q, accepted', draining)
          /\ seen'[j] \subseteq seen[j] \cup {p}
      BY <1>4 DEF Deliver, SeenBy
    <2>2. q \in [Paths -> {"none", "change", "named"}] /\ q[p] = "change"
          /\ \A r \in Paths : queue[r] = "change" => q[r] = "change"
      BY <1>0 DEF QueueType, Enqueued
    <2>3. \A r \in Paths : q[r] = "change" \/ batch[r] = "change" => queue'[r] = "change" \/ batch'[r] = "change"
      BY <1>0, <2>1, <2>2, ProcessQueueKeeps
    <2>4. Unrecorded(j, written[j])' = Unrecorded(j, written[j])
      BY <2>1 DEF Unrecorded
    <2>5. Unrecorded(j, seen[j])' \subseteq Unrecorded(j, seen[j]) \cup {p}
      BY <2>1 DEF Unrecorded
    <2>6. OnTheWay(p)' /\ \A r \in Paths : OnTheWay(r) => OnTheWay(r)'
      BY <2>1, <2>2, <2>3 DEF OnTheWay
    <2>7. Unrecorded(j, seen[j]) \subseteq Paths
      BY <1>1 DEF Unrecorded
    <2> QED
      BY <1>2, <2>1, <2>4, <2>5, <2>6, <2>7
  <1>5. CASE WatchFailed
    <2>1. /\ UNCHANGED <<disk, held, everEstablished, windows, written, blind>> /\ requested' = TRUE
      BY <1>5 DEF WatchFailed, RequestReconciliation, stateVars
    <2>2. Unrecorded(j, written[j])' = Unrecorded(j, written[j])
      BY <2>1 DEF Unrecorded
    <2> QED
      BY <1>2, <2>1, <2>2 DEF OnTheWay
  <1>6. CASE ReadNothing \/ WalkFails \/ \E p \in Paths : ReadFails(p)
    <2>1. windows'[j] = RecordedCause(windows)[j]
      BY <1>6 DEF ReadNothing, WalkFails, ReadFails
    <2>2. windows'[j].caused = TRUE
      BY <1>0, <1>1, <2>1, Caused
    <2> QED
      BY <2>2 DEF MayBind
  <1>7. ASSUME NEW p \in Paths, ReadPath(p) PROVE Goal
    <2>1. /\ UNCHANGED <<disk, everEstablished, written, seen, blind, queue, requested, phase, stopped>>
          /\ batch' = [batch EXCEPT ![p] = "none"]
          /\ held' = [held EXCEPT ![p] = ReadEntry(p)]
      BY <1>7 DEF ReadPath, ReadDone, diskVars, passVars
    <2>2. p \notin Unrecorded(j, written[j])'
      <3>1. CASE p \in Unrecorded(j, written[j])
        <4>1. held[p].readAt <= disk[p].stamp
          BY <1>2, <3>1
        <4>2. ~(held[p].content # Absent /\ Rested(held[p], ReadEntry(p)))
          BY <1>0, <4>1 DEF Rested, Unmoved, ReadEntry, NoRead, DiskType, StateType, Reads
        <4>3. windows' = RecordedPaths(windows, {p})
          BY <1>7, <4>2 DEF ReadPath
        <4>4. windows'[j].paths = windows[j].paths \cup {p}
          BY <1>0, <1>1, <4>3, Recorded
        <4> QED
          BY <4>4 DEF Unrecorded
      <3>2. CASE p \notin Unrecorded(j, written[j])
        BY <1>1, <2>1, <3>2 DEF Unrecorded
      <3> QED
        BY <3>1, <3>2
    <2>3. /\ Unrecorded(j, written[j])' \subseteq Unrecorded(j, written[j]) \ {p}
          /\ Unrecorded(j, seen[j])' \subseteq Unrecorded(j, seen[j]) \ {p}
      BY <1>1, <2>1, <2>2 DEF Unrecorded
    <2>4. Unrecorded(j, seen[j]) \subseteq Paths /\ Unrecorded(j, written[j]) \subseteq Paths
      BY <1>1 DEF Unrecorded
    <2>5. \A r \in Paths \ {p} : held'[r] = held[r] /\ (OnTheWay(r) => OnTheWay(r)')
      BY <1>0, <2>1 DEF StateType, QueueType, OnTheWay
    <2> QED
      BY <1>2, <2>1, <2>3, <2>4, <2>5
  <1>8. ASSUME NEW p \in Paths, ReadNamed(p) PROVE Goal
    <2>1. /\ UNCHANGED <<disk, everEstablished, written, seen, blind, queue, requested, phase, stopped>>
          /\ batch[p] = "named" /\ batch' = [batch EXCEPT ![p] = "none"]
          /\ \/ held' = held
             \/ /\ windows' = RecordedPaths(windows, {p})
                /\ held' \in {[held EXCEPT ![p] = NoRead], [held EXCEPT ![p] = ReadEntry(p)]}
      BY <1>8 DEF ReadNamed, ReadDone, diskVars, passVars
    <2>2. \A r \in Paths : OnTheWay(r) => OnTheWay(r)'
      BY <1>0, <2>1 DEF QueueType, OnTheWay
    <2>3. CASE held' = held
      BY <1>0, <2>1, <2>2, <2>3, BindKept
    <2>4. CASE /\ windows' = RecordedPaths(windows, {p})
               /\ held' \in {[held EXCEPT ![p] = NoRead], [held EXCEPT ![p] = ReadEntry(p)]}
      <3>1. windows'[j].paths = windows[j].paths \cup {p}
        BY <1>0, <1>1, <2>4, Recorded
      <3>2. /\ Unrecorded(j, written[j])' \subseteq Unrecorded(j, written[j]) \ {p}
            /\ Unrecorded(j, seen[j])' \subseteq Unrecorded(j, seen[j])
        BY <1>1, <2>1, <3>1 DEF Unrecorded
      <3>3. Unrecorded(j, seen[j]) \subseteq Paths /\ Unrecorded(j, written[j]) \subseteq Paths
        BY <1>1 DEF Unrecorded
      <3>4. \A r \in Paths \ {p} : held'[r] = held[r]
        BY <1>0, <2>4 DEF StateType
      <3> QED
        BY <1>2, <2>1, <2>2, <3>2, <3>3, <3>4
    <2> QED
      BY <2>1, <2>3, <2>4
  <1>9. CASE Settle
    <2> DEFINE changes == ChangedPaths(held, inventory)
    <2>1. /\ UNCHANGED <<disk, written, seen, batch, requested, stopped>> /\ ~stopped
          /\ held' = [p \in Paths |-> KeptRead(held[p], inventory[p], p \in Queued(queue))]
          /\ queue' = Enqueued(queue, RestampedPaths(held, inventory))
          /\ blind'[j] = ReadPast(j)
          /\ everEstablished' = TRUE
          /\ phase = "walking" /\ walked = Paths
      BY <1>9 DEF Settle, diskVars
    <2>2. windows' = RecordedPaths(windows, changes)
      BY <1>2, <1>9 DEF Settle
    <2>3. windows'[j].paths = windows[j].paths \cup changes
      BY <1>0, <1>1, <2>2, Recorded DEF ChangedPaths
    <2>4. ASSUME NEW p \in Unrecorded(j, written[j])'
          PROVE  /\ held'[p].readAt <= disk'[p].stamp
                 /\ p \in Unrecorded(j, seen[j])' => OnTheWay(p)'
      <3>1. /\ p \in Unrecorded(j, written[j]) /\ p \in Paths /\ p \notin changes
            /\ p \notin past \/ queue[p] = "change"
        BY <1>1, <2>1, <2>3 DEF Unrecorded, ReadPast
      <3>2. held[p].content = inventory[p].content
        BY <3>1 DEF ChangedPaths
      <3>3. held[p].readAt <= disk[p].stamp /\ disk[p].stamp \in 0..MaxClock
        BY <1>0, <1>2, <3>1 DEF DiskType
      <3>4. held[p].content = Absent => held[p] = NoRead /\ inventory[p] = NoRead
        BY <1>0, <3>1, <3>2 DEF ReadsInv
      <3>5. CASE queue[p] = "change"
        <4>1. p \in Queued(queue)
          BY <3>1, <3>5 DEF Queued
        <4>2. held'[p] = held[p]
          BY <2>1, <3>1, <3>2, <3>4, <4>1 DEF KeptRead
        <4>3. queue'[p] = "change"
          BY <2>1, <3>1, <3>5 DEF Enqueued
        <4> QED
          BY <2>1, <3>3, <4>2, <4>3 DEF OnTheWay
      <3>6. CASE queue[p] # "change" /\ Unmoved(held[p], inventory[p])
        <4>1. inventory[p].readAt <= disk[p].stamp
          BY <1>0, <2>1, <3>1, <3>6 DEF PastInv
        <4>2. held'[p] \in {held[p], inventory[p]}
          BY <2>1, <3>1 DEF KeptRead
        <4>3. p \in Unrecorded(j, seen[j])' => requested
          <5>1. p \in Unrecorded(j, seen[j])' => p \in Unrecorded(j, seen[j])
            BY <2>1, <3>1 DEF Unrecorded
          <5> QED
            BY <1>0, <1>1, <2>1, <3>1, <3>6, <5>1 DEF PastInv
        <4> QED
          BY <2>1, <3>3, <4>1, <4>2, <4>3 DEF OnTheWay
      <3>7. CASE ~Unmoved(held[p], inventory[p])
        <4>1. p \in RestampedPaths(held, inventory)
          BY <3>1, <3>2, <3>4, <3>7 DEF RestampedPaths, Holds, Unmoved
        <4>2. held'[p] = held[p]
          BY <2>1, <3>1, <3>2, <3>4, <3>7 DEF KeptRead
        <4>3. queue'[p] = "change"
          BY <2>1, <3>1, <4>1 DEF Enqueued
        <4> QED
          BY <2>1, <3>3, <4>2, <4>3 DEF OnTheWay
      <3> QED
        BY <3>5, <3>6, <3>7
    <2>5. Unrecorded(j, seen[j])' \subseteq Unrecorded(j, written[j])'
      BY <1>1, <2>1 DEF Unrecorded
    <2> QED
      BY <2>1, <2>4, <2>5
  <1>10. CASE EndBatch
    <2>1. UNCHANGED <<disk, held, everEstablished, written, seen, blind, requested, phase, stopped>>
      BY <1>10 DEF EndBatch, diskVars, historyVars
    <2>2. \A r \in Paths : batch[r] # "change" \/ stopped
      BY <1>10 DEF EndBatch, BatchRead, Queued, Pending
    <2>3. \A r \in Paths : queue[r] = "change" => queue'[r] = "change" \/ batch'[r] = "change"
      <3>1. CASE Queued(queue) = {} \/ Reconciling \/ stopped
        BY <1>10, <3>1 DEF EndBatch
      <3>2. CASE ~(Queued(queue) = {} \/ Reconciling \/ stopped)
        BY <1>10, <3>2 DEF EndBatch, ProcessQueue, Reconciling
      <3> QED
        BY <3>1, <3>2
    <2>4. \A r \in Paths : OnTheWay(r) => OnTheWay(r)'
      BY <2>1, <2>2, <2>3 DEF OnTheWay
    <2> QED
      BY <1>0, <2>1, <2>4, BindKept
  <1>11. CASE EndReconciliation
    <2>1. /\ UNCHANGED <<disk, held, everEstablished, written, seen, blind, requested, stopped>>
          /\ ProcessQueue(queue, accepted, FALSE) /\ draining = FALSE
          /\ phase # "walking" /\ (~requested \/ stopped)
      BY <1>0, <1>11 DEF EndReconciliation, QueueType, diskVars, historyVars
    <2>2. ProcessQueue(queue, accepted, draining)
      BY <2>1
    <2>3. \A r \in Paths : queue[r] = "change" \/ batch[r] = "change" => queue'[r] = "change" \/ batch'[r] = "change"
      BY <1>0, <2>2, ProcessQueueKeeps DEF QueueType
    <2>4. \A r \in Paths : OnTheWay(r) => OnTheWay(r)'
      BY <2>1, <2>3 DEF OnTheWay
    <2> QED
      BY <1>0, <2>1, <2>4, BindKept
  <1>12. ASSUME NEW ps \in SUBSET Paths, ReadNamedCall(ps) PROVE Goal
    <2> DEFINE added == {p \in {p \in ps : Holds(held, p) \/ disk[p].content # Absent} : queue[p] = "none"}
               q == IF ~Reconciling /\ established
                    THEN [p \in Paths |-> IF p \in added THEN "named" ELSE queue[p]] ELSE queue
    <2>1. /\ UNCHANGED <<disk, held, everEstablished, written, seen, blind, requested, phase, stopped>>
          /\ ProcessQueue(q, accepted', draining)
      BY <1>12 DEF ReadNamedCall, diskVars, historyVars
    <2>2. /\ q \in [Paths -> {"none", "change", "named"}]
          /\ \A r \in Paths : queue[r] = "change" => q[r] = "change"
      BY <1>0 DEF QueueType
    <2> HIDE DEF q
    <2>3. \A r \in Paths : q[r] = "change" \/ batch[r] = "change" => queue'[r] = "change" \/ batch'[r] = "change"
      BY <1>0, <2>1, <2>2, ProcessQueueKeeps
    <2>4. \A r \in Paths : OnTheWay(r) => OnTheWay(r)'
      BY <2>1, <2>2, <2>3 DEF OnTheWay
    <2> QED
      BY <1>0, <2>1, <2>4, BindKept
  <1>13. CASE \/ \E p \in Paths : LoseEvent(p) \/ WalkRead(p)
              \/ Tick \/ Request \/ StartPass \/ Query \/ Stop
              \/ \E i \in Jobs : BeginJob(i) \/ EndJob(i) \/ CloseJob(i)
              \/ UNCHANGED vars
    <2>1. UNCHANGED <<disk, held, everEstablished, written, seen, blind, queue, batch>>
      BY <1>13 DEF LoseEvent, WalkRead, Tick, Request, StartPass, Query, Stop, BeginJob, EndJob, CloseJob,
                   vars, diskVars, stateVars, queueVars, historyVars
    <2>2. requested \/ phase = "walking" \/ stopped => requested' \/ phase' = "walking" \/ stopped'
      BY <1>13 DEF LoseEvent, WalkRead, Tick, Request, RequestReconciliation, StartPass, Query, Stop,
                   BeginJob, EndJob, CloseJob, vars, passVars
    <2>3. \A r \in Paths : OnTheWay(r) => OnTheWay(r)'
      BY <2>1, <2>2 DEF OnTheWay
    <2> QED
      BY <1>0, <2>1, <2>3, BindKept
  <1> QED
    BY <1>3, <1>4, <1>5, <1>6, <1>7, <1>8, <1>9, <1>10, <1>11, <1>12, <1>13 DEF Next

\* A job begins with nothing written, over an input set a whole pass established; every later step is BindRunning's.
LEMMA BindStep == TypeOK /\ VerdictInv /\ [Next]_vars => BindInv'
  <1> SUFFICES ASSUME TypeOK, VerdictInv, [Next]_vars, NEW j \in Jobs, MayBind(j)'
               PROVE  /\ everEstablished'
                      /\ \A p \in Unrecorded(j, written[j])' : held'[p].readAt <= disk'[p].stamp
                      /\ \A p \in Unrecorded(j, seen[j])' : OnTheWay(p)'
    BY DEF BindInv
  <1>0. JobsType /\ PassInv /\ WindowsInv
    BY DEF TypeOK, VerdictInv
  <1>1. CASE BeginJob(j)
    <2>1. windows[j].state = "none" /\ windows'[j].unsettled = Unavailable
      BY <1>0, <1>1 DEF BeginJob, JobsType, NoWindow
    <2>2. ~Unavailable
      BY <2>1 DEF MayBind
    <2>3. everEstablished'
      BY <1>0, <1>1, <2>2 DEF BeginJob, Unavailable, Incomplete, PassInv
    <2>4. written'[j] = {} /\ seen'[j] = {}
      BY <1>0, <1>1, <2>1 DEF BeginJob, WindowsInv
    <2> QED
      BY <2>3, <2>4 DEF Unrecorded
  <1>2. CASE ~BeginJob(j)
    BY <1>2, BindRunning
  <1> QED
    BY <1>1, <1>2

\* A job is judged fingerprinted only with nothing queued, in flight or reconciling, so nothing it saw is unrecorded;
\* once closed, its record grows only by writes that leave it.
LEMMA VerdictStep == TypeOK /\ VerdictInv /\ VerdictSound /\ [Next]_vars => VerdictSound'
  <1> SUFFICES ASSUME TypeOK, VerdictInv, VerdictSound, [Next]_vars, NEW j \in Jobs,
                      windows'[j].verdict = "fingerprinted"
               PROVE  seen'[j] \subseteq blind'[j]
    BY DEF VerdictSound
  <1>0. /\ JobsType /\ HistoryType /\ windows[j] \in WindowType
        /\ QueueInv /\ PassInv /\ WindowsInv /\ BindInv
    BY DEF TypeOK, JobsType, VerdictInv
  <1>1. CASE CloseJob(j)
    <2>1. /\ windows'[j].verdict = Verdict(windows[j], Unavailable)
          /\ UNCHANGED <<seen, blind>> /\ windows[j].state = "ending"
      BY <1>0, <1>1 DEF CloseJob, JobsType, WindowType
    <2>2. ~windows[j].unsettled /\ ~windows[j].caused /\ windows[j].paths = {} /\ ~Unavailable
      BY <1>0, <2>1 DEF Verdict, WindowType
    <2>3. MayBind(j)
      BY <2>1, <2>2 DEF MayBind, Running
    <2>4. \A p \in Unrecorded(j, seen[j]) : OnTheWay(p)
      BY <1>0, <2>3 DEF BindInv
    <2>5. \A p \in Paths : ~OnTheWay(p)
      BY <1>0, <2>2 DEF OnTheWay, Unavailable, Incomplete, Reconciling, Pending, PassInv, QueueInv
    <2>6. seen[j] \subseteq Paths
      BY <1>0 DEF HistoryType
    <2> QED
      BY <2>1, <2>2, <2>4, <2>5, <2>6 DEF Unrecorded
  <1>2. CASE ~CloseJob(j)
    <2>1. windows[j].verdict = "fingerprinted"
      <3>1. ASSUME NEW ps \in SUBSET Paths, windows'[j] = RecordedPaths(windows, ps)[j]
            PROVE  windows'[j].verdict = windows[j].verdict
        BY <1>0, <3>1, Recorded
      <3>2. ASSUME windows'[j] = RecordedCause(windows)[j] PROVE windows'[j].verdict = windows[j].verdict
        BY <1>0, <3>2, Caused
      <3>3. ASSUME BeginJob(j) PROVE windows'[j].verdict = "none"
        BY <1>0, <3>3 DEF BeginJob, JobsType, NoWindow
      <3>4. ASSUME EndJob(j) PROVE windows'[j].verdict = windows[j].verdict
        BY <1>0, <3>4 DEF EndJob, JobsType, WindowType
      <3> QED
        BY <1>2, <3>1, <3>2, <3>3, <3>4, WindowSteps
    <2>2. seen[j] \subseteq blind[j] /\ windows[j].state = "closed"
      BY <1>0, <2>1 DEF VerdictSound, WindowsInv
    <2>3. ASSUME NEW p \in Paths, NEW c \in Contents \cup {Absent}, Write(p, c) PROVE seen'[j] \subseteq blind'[j]
      <3>1. seen'[j] = seen[j] \ (ReadPast(j) \cap {p}) /\ blind'[j] = blind[j] \ {p}
        BY <2>3 DEF Write
      <3> QED
        BY <2>2, <3>1 DEF ReadPast
    <2>4. seen'[j] \subseteq seen[j]
      BY <2>2, HistorySteps
    <2>5. CASE Settle
      <3>1. blind[j] \subseteq blind'[j]
        BY <2>5 DEF Settle, ReadPast
      <3> QED
        BY <2>2, <2>4, <3>1
    <2>6. CASE \/ \E p \in Paths : \/ LoseEvent(p) \/ Deliver(p) \/ ReadPath(p) \/ ReadFails(p) \/ ReadNamed(p)
                                   \/ WalkRead(p)
               \/ Tick \/ Request \/ WatchFailed \/ ReadNothing \/ EndBatch \/ StartPass \/ WalkFails
               \/ EndReconciliation \/ Query \/ Stop
               \/ \E i \in Jobs : BeginJob(i) \/ EndJob(i) \/ CloseJob(i)
               \/ \E ps \in SUBSET Paths : ReadNamedCall(ps)
               \/ UNCHANGED vars
      <3>1. blind' = blind
        BY <2>6 DEF LoseEvent, Deliver, ReadPath, ReadFails, ReadNamed, WalkRead, Tick, Request, WatchFailed,
                    ReadNothing, EndBatch, StartPass, WalkFails, EndReconciliation, Query, Stop, BeginJob, EndJob,
                    CloseJob, ReadNamedCall, vars, historyVars
      <3> QED
        BY <2>2, <2>4, <3>1
    <2> QED
      BY <2>3, <2>5, <2>6 DEF Next
  <1> QED
    BY <1>1, <1>2

\* Before any job runs the verdict's invariant holds of nothing.
LEMMA InitVerdict == Init => VerdictInv /\ VerdictSound
  <1> SUFFICES ASSUME Init PROVE VerdictInv /\ VerdictSound
    OBVIOUS
  <1>1. ReadsInv
    BY DEF Init, ReadsInv, NoRead
  <1>2. QueueInv /\ PassInv
    BY DEF Init, QueueInv, NothingQueued, PassInv, Reconciling
  <1>5. PastInv
    BY DEF Init, PastInv
  <1>3. \A j \in Jobs : windows[j].state = "none" /\ windows[j].verdict = "none" /\ written[j] = {} /\ seen[j] = {}
    BY DEF Init, NoWindow
  <1>4. WindowsInv /\ BindInv /\ VerdictSound
    BY <1>3 DEF WindowsInv, BindInv, MayBind, Running, VerdictSound
  <1> QED
    BY <1>1, <1>2, <1>4, <1>5 DEF VerdictInv

\* What makes a verdict sound before it is given holds throughout: no job that may still be judged fingerprinted has
\* a write the tracker was told of that nothing has recorded or will read.
THEOREM VerdictKept == Spec => []VerdictInv
  <1>1. TypeOK /\ VerdictInv /\ [Next]_vars => VerdictInv'
    <2> SUFFICES ASSUME TypeOK, VerdictInv, [Next]_vars PROVE VerdictInv'
      OBVIOUS
    <2> QED
      BY ReadsStep, QueueStep, PassStep, WindowsStep, PastStep, BindStep DEF VerdictInv
  <1> QED
    BY <1>1, InitVerdict, TypeCorrect, PTL DEF Spec

\* endJob never judges a job fingerprinted over a write whose event was accepted, or reported lost, between the job's
\* beginning and its asking for a verdict, but for the writes a walk read past within the file times' resolution.
THEOREM VerdictIsSound == Spec => []VerdictSound
  BY InitVerdict, VerdictStep, TypeCorrect, VerdictKept, PTL DEF Spec

-----------------------------------------------------------------------------
(* A view vouched for is true: TruthInv is kept by every step.              *)

\* A read of the disk finds what the disk holds.
LEMMA ReadFinds == \A p \in Paths : ReadEntry(p).content = disk[p].content
  BY DEF ReadEntry, NoRead

\* An input set is lost, or not yet established, only with a mark of it, and a batch taken without one stays so.
LEMMA SetStep == TypeOK /\ SetInv /\ [Next]_vars => SetInv'
  <1> SUFFICES ASSUME TypeOK, SetInv, [Next]_vars PROVE SetInv'
    OBVIOUS
  <1>0. QueueType /\ PassType /\ StateType
    BY DEF TypeOK
  <1>1. ASSUME UNCHANGED <<established, lost, lastReconciled>>, NEW q, NEW n, NEW b \in {draining, FALSE},
               ProcessQueue(q, n, b), phase' \in {"idle", phase}
        PROVE  SetInv'
    <2>1. CASE Queued(q) = {} \/ b \/ phase' # "idle" \/ stopped
      <3>1. draining' = b /\ vouched' = vouched
        BY <1>1, <2>1 DEF ProcessQueue
      <3>2. /\ established' = established /\ lost' = lost /\ lastReconciled' = lastReconciled
            /\ phase' = "idle" \/ phase' = phase
            /\ draining' = draining \/ draining' = FALSE
        BY <1>1, <3>1
      <3> QED
        <4>1. established' \/ lost' \/ ~lastReconciled'
          BY <3>2, Zenon DEF SetInv
        <4>2. draining' /\ ~vouched' => ~established'
          BY <3>1, <3>2, Zenon DEF SetInv
        <4>3. phase' = "walking" => ~draining'
          BY <3>2, Zenon DEF SetInv
        <4> QED
          BY <4>1, <4>2, <4>3 DEF SetInv
    <2>2. CASE ~(Queued(q) = {} \/ b \/ phase' # "idle" \/ stopped)
      BY <1>0, <1>1, <2>2 DEF ProcessQueue, SetInv, StateType
    <2> QED
      BY <2>1, <2>2
  <1>2. ASSUME NEW p \in Paths, Deliver(p) PROVE SetInv'
    <2>1. /\ UNCHANGED <<established, lost, lastReconciled, phase>>
          /\ ProcessQueue(Enqueued(queue, {p}), accepted', draining)
      BY <1>2 DEF Deliver
    <2> QED
      BY <1>1, <2>1
  <1>3. ASSUME NEW ps \in SUBSET Paths, ReadNamedCall(ps) PROVE SetInv'
    <2> DEFINE added == {p \in {p \in ps : Holds(held, p) \/ disk[p].content # Absent} : queue[p] = "none"}
               q == IF ~Reconciling /\ established
                    THEN [p \in Paths |-> IF p \in added THEN "named" ELSE queue[p]] ELSE queue
    <2>1. /\ UNCHANGED <<established, lost, lastReconciled, phase>>
          /\ ProcessQueue(q, accepted', draining)
      BY <1>3 DEF ReadNamedCall
    <2> HIDE DEF q
    <2> QED
      BY <1>1, <2>1
  <1>4. CASE EndReconciliation
    <2>1. /\ UNCHANGED <<established, lost, lastReconciled>>
          /\ ProcessQueue(queue, accepted, FALSE) /\ phase' = "idle"
      BY <1>4 DEF EndReconciliation
    <2> QED
      BY <1>1, <2>1
  <1>5. CASE EndBatch
    <2>1. UNCHANGED <<established, lost, lastReconciled, phase>>
      BY <1>5 DEF EndBatch
    <2>2. CASE Queued(queue) = {} \/ Reconciling \/ stopped
      <3>1. draining' = FALSE
        BY <1>5, <2>2 DEF EndBatch
      <3>2. established' = established /\ lost' = lost /\ lastReconciled' = lastReconciled
        BY <2>1
      <3> QED
        BY <3>1, <3>2, Zenon DEF SetInv
    <2>3. CASE ~(Queued(queue) = {} \/ Reconciling \/ stopped)
      <3>1. ProcessQueue(queue, accepted, FALSE)
        BY <1>5, <2>3 DEF EndBatch
      <3> QED
        BY <1>1, <2>1, <3>1
    <2> QED
      BY <2>2, <2>3
  <1>6. ASSUME NEW p \in Paths, ReadFails(p) PROVE SetInv'
    <2>1. established' = FALSE /\ lost' = TRUE /\ UNCHANGED draining /\ (phase' = "walking" => phase = "walking")
      BY <1>6 DEF ReadFails, InputSetLost, RequestReconciliation
    <2> QED
      BY <2>1 DEF SetInv
  <1>7. CASE Settle \/ WalkFails
    <2>1. /\ phase = "walking" /\ phase' = "ready" /\ UNCHANGED draining
          /\ \/ established' = TRUE
             \/ established' = FALSE /\ lost' = TRUE
      BY <1>7 DEF Settle, WalkFails, queueVars
    <2> QED
      BY <1>0, <2>1 DEF SetInv
  <1>8. CASE StartPass
    BY <1>8 DEF StartPass, SetInv, stateVars, queueVars
  <1>9. CASE \/ \E p \in Paths : \E c \in Contents \cup {Absent} : Write(p, c)
             \/ \E p \in Paths : LoseEvent(p) \/ ReadPath(p) \/ ReadNamed(p) \/ WalkRead(p)
             \/ Tick \/ Request \/ WatchFailed \/ ReadNothing \/ Query \/ Stop
             \/ \E j \in Jobs : BeginJob(j) \/ EndJob(j) \/ CloseJob(j)
             \/ UNCHANGED vars
    <2>1. /\ UNCHANGED <<established, lost, lastReconciled, draining, vouched>>
          /\ phase' = "walking" => phase = "walking"
      BY <1>9 DEF Write, LoseEvent, ReadPath, ReadNamed, WalkRead, Tick, Request, RequestReconciliation, WatchFailed,
                  ReadNothing, Query, Stop, BeginJob, EndJob, CloseJob, vars, stateVars, queueVars, passVars
    <2> QED
      BY <2>1 DEF SetInv
  <1> QED
    BY <1>2, <1>3, <1>4, <1>5, <1>6, <1>7, <1>8, <1>9 DEF Next

\* What a pass has read stays what the disk holds, or an event marks where it does not.
LEMMA WalkStep == TypeOK /\ SetInv /\ WalkInv /\ [Next]_vars => WalkInv'
  <1> SUFFICES ASSUME TypeOK, SetInv, WalkInv, [Next]_vars PROVE WalkInv'
    OBVIOUS
  <1>0. DiskType /\ QueueType /\ PassType
    BY DEF TypeOK
  <1>2. ASSUME NEW q \in [Paths -> {"none", "change", "named"}], NEW n, NEW b, ProcessQueue(q, n, b),
               phase' = "walking"
        PROVE  queue' = q
    BY <1>2 DEF ProcessQueue
  <1>3. ASSUME NEW p \in Paths, NEW c \in Contents \cup {Absent}, Write(p, c) PROVE WalkInv'
    <2>1. /\ UNCHANGED <<walked, inventory, watchFailed, phase, queue, unreported>>
          /\ events' = events \cup {p} /\ \A r \in Paths \ {p} : disk'[r] = disk[r]
      BY <1>0, <1>3 DEF Write, passVars, queueVars, DiskType
    <2> QED
      BY <1>0, <2>1 DEF WalkInv, PassType
  <1>4. ASSUME NEW p \in Paths, Deliver(p) PROVE WalkInv'
    <2>1. /\ UNCHANGED <<walked, inventory, watchFailed, phase, disk, unreported>>
          /\ events' = events \ {p}
          /\ ProcessQueue(Enqueued(queue, {p}), accepted', draining)
      BY <1>4 DEF Deliver
    <2>2. Enqueued(queue, {p}) \in [Paths -> {"none", "change", "named"}]
      BY <1>0 DEF Enqueued, QueueType
    <2>3. phase = "walking" => queue' = Enqueued(queue, {p})
      BY <1>2, <2>1, <2>2
    <2> QED
      BY <1>0, <2>1, <2>3 DEF WalkInv, Enqueued, PassType
  <1>5. ASSUME NEW ps \in SUBSET Paths, ReadNamedCall(ps) PROVE WalkInv'
    <2>1. /\ UNCHANGED <<walked, inventory, watchFailed, phase, disk, events, unreported>>
          /\ phase = "walking" => ProcessQueue(queue, accepted', draining)
      BY <1>5 DEF ReadNamedCall, diskVars, historyVars, Reconciling
    <2>2. phase = "walking" => queue' = queue
      BY <1>0, <1>2, <2>1 DEF QueueType
    <2> QED
      BY <2>1, <2>2 DEF WalkInv
  <1>6. CASE EndBatch
    <2>1. UNCHANGED <<walked, phase>> /\ draining
      BY <1>6 DEF EndBatch
    <2> QED
      BY <2>1 DEF WalkInv, SetInv
  <1>7. ASSUME NEW p \in Paths, WalkRead(p) PROVE WalkInv'
    <2>1. /\ UNCHANGED <<disk, events, phase, queue, watchFailed>>
          /\ walked' = walked \cup {p} /\ unreported' = unreported \ {p}
          /\ inventory' = [inventory EXCEPT ![p] = ReadEntry(p)] /\ phase = "walking"
      BY <1>7 DEF WalkRead, diskVars, queueVars
    <2>2. inventory'[p].content = disk[p].content
      BY <1>0, <2>1, ReadFinds DEF PassType
    <2>3. \A r \in Paths \ {p} : inventory'[r] = inventory[r]
      BY <1>0, <2>1 DEF PassType
    <2> QED
      BY <1>0, <2>1, <2>2, <2>3 DEF WalkInv, PassType
  <1>8. CASE StartPass
    <2>1. phase = "ready" /\ walked' = walked
      BY <1>8 DEF StartPass
    <2> QED
      BY <2>1 DEF WalkInv
  <1>9. CASE Settle \/ WalkFails \/ Stop
    <2>1. walked' = {}
      BY <1>9 DEF Settle, WalkFails, Stop, PassOver
    <2> QED
      BY <2>1 DEF WalkInv
  <1>10. ASSUME NEW p \in Paths, LoseEvent(p) PROVE WalkInv'
    <2>1. /\ UNCHANGED <<walked, inventory, watchFailed, phase, disk, queue>>
          /\ (events \cup unreported)' = events \cup unreported
      BY <1>10 DEF LoseEvent, passVars, queueVars
    <2> QED
      BY <2>1 DEF WalkInv
  <1>11. CASE WatchFailed
    <2>1. /\ watchFailed' = TRUE /\ walked' = walked /\ (phase' = "walking" <=> phase = "walking")
      BY <1>0, <1>11 DEF WatchFailed, RequestReconciliation, Reconciling, PassType
    <2> QED
      BY <2>1 DEF WalkInv
  <1>12. ASSUME NEW p \in Paths, ReadPath(p) \/ ReadFails(p) \/ ReadNamed(p) PROVE WalkInv'
    <2>1. walked' = walked /\ draining /\ (phase' = "walking" => phase = "walking")
      BY <1>12 DEF ReadPath, ReadFails, ReadNamed, InputSetLost, RequestReconciliation, passVars
    <2> QED
      BY <2>1 DEF WalkInv, SetInv
  <1>13. CASE EndReconciliation
    <2>1. phase = "ready" /\ phase' = "idle" /\ walked' = walked
      BY <1>13 DEF EndReconciliation
    <2> QED
      BY <2>1 DEF WalkInv
  <1>14. CASE \/ Tick \/ Request \/ ReadNothing \/ Query
              \/ \E j \in Jobs : BeginJob(j) \/ EndJob(j) \/ CloseJob(j)
              \/ UNCHANGED vars
    <2>1. /\ UNCHANGED <<walked, inventory, watchFailed, disk, events, unreported, queue>>
          /\ phase' = "walking" <=> phase = "walking"
      BY <1>0, <1>14 DEF Tick, Request, RequestReconciliation, Reconciling, PassType, ReadNothing, Query, BeginJob,
                         EndJob, CloseJob, vars, diskVars, queueVars, passVars, historyVars
    <2> QED
      BY <2>1 DEF WalkInv
  <1> QED
    BY <1>3, <1>4, <1>5, <1>6, <1>7, <1>8, <1>9, <1>10, <1>11, <1>12, <1>13, <1>14 DEF Next

\* The digests kept stay those of the reads held: a read that changes one says so, and a commit drops them.
LEMMA ProjectStep == TypeOK /\ ProjectInv /\ [Next]_vars => ProjectInv'
  <1> SUFFICES ASSUME TypeOK, ProjectInv, [Next]_vars PROVE ProjectInv'
    OBVIOUS
  <1>0. StateType
    BY DEF TypeOK
  <1>1. ASSUME NEW p \in Paths, NEW read \in Reads, held' = [held EXCEPT ![p] = read],
               held[p].content = read.content, UNCHANGED <<changed, project>>
        PROVE  ProjectInv'
    <2>1. \A r \in Paths : held'[r].content = held[r].content
      BY <1>0, <1>1 DEF StateType
    <2>2. Digests(held)' = Digests(held)
      BY <2>1 DEF Digests
    <2> QED
      BY <1>1, <2>2 DEF ProjectInv
  <1>2. ASSUME NEW p \in Paths, ReadPath(p) PROVE ProjectInv'
    <2>1. /\ held' = [held EXCEPT ![p] = ReadEntry(p)] /\ project' = project
          /\ changed' = (changed \/ held[p].content # ReadEntry(p).content)
      BY <1>2 DEF ReadPath
    <2>2. CASE changed \/ held[p].content # ReadEntry(p).content
      BY <2>1, <2>2 DEF ProjectInv
    <2>3. CASE ~(changed \/ held[p].content # ReadEntry(p).content)
      <3>1. changed' = FALSE /\ changed = FALSE
        BY <1>0, <2>1, <2>3 DEF StateType
      <3>2. ReadEntry(p) \in Reads
        BY ReadsType DEF TypeOK
      <3> QED
        BY <1>1, <2>1, <2>3, <3>1, <3>2
    <2> QED
      BY <2>2, <2>3
  <1>3. ASSUME NEW p \in Paths, ReadNamed(p) PROVE ProjectInv'
    <2>1. \/ UNCHANGED <<held, changed, project>>
          \/ changed' = TRUE
      BY <1>3 DEF ReadNamed
    <2> QED
      BY <2>1 DEF ProjectInv, Digests
  <1>4. CASE Settle
    BY <1>4 DEF Settle, ProjectInv
  <1>5. CASE EndBatch
    <2>1. held' = held /\ project' = IF changed THEN NoDigests ELSE project
      BY <1>5 DEF EndBatch
    <2> QED
      BY <2>1 DEF ProjectInv, Digests
  <1>6. CASE Query \/ \E j \in Jobs : BeginJob(j) \/ CloseJob(j)
    <2>1. UNCHANGED <<held, changed>> /\ TakeView
      BY <1>6 DEF Query, BeginJob, CloseJob
    <2>2. project' \in {project, Digests(held)} /\ (project # NoDigests => project' = project)
      BY <2>1 DEF TakeView, ProjectDigests
    <2> QED
      BY <2>1, <2>2 DEF ProjectInv, Digests
  <1>7. CASE \/ \E p \in Paths : \E c \in Contents \cup {Absent} : Write(p, c)
             \/ \E p \in Paths : LoseEvent(p) \/ Deliver(p) \/ ReadFails(p) \/ WalkRead(p)
             \/ Tick \/ Request \/ WatchFailed \/ ReadNothing \/ StartPass \/ WalkFails \/ EndReconciliation \/ Stop
             \/ \E j \in Jobs : EndJob(j)
             \/ \E ps \in SUBSET Paths : ReadNamedCall(ps)
             \/ UNCHANGED vars
    <2>1. UNCHANGED <<held, changed, project>>
      BY <1>7 DEF Write, LoseEvent, Deliver, ReadFails, WalkRead, Tick, Request, WatchFailed, ReadNothing, StartPass,
                  WalkFails, EndReconciliation, Stop, EndJob, ReadNamedCall, vars, stateVars
    <2> QED
      BY <2>1 DEF ProjectInv, Digests
  <1> QED
    BY <1>2, <1>3, <1>4, <1>5, <1>6, <1>7 DEF Next

\* Every read held is known to be true or not after every step: a write leaves an event, an event a read on the way,
\* a read what the disk holds, and each step that loses something marks it.
LEMMA HeldStep == TypeOK /\ QueueInv /\ TruthInv /\ [Next]_vars => HeldInv'
  <1> SUFFICES ASSUME TypeOK, QueueInv, TruthInv, [Next]_vars, NEW p \in Paths,
                      p \notin (events \cup unreported \cup unreadNamed)'
               PROVE  Known(p)'
    BY DEF HeldInv
  <1>0. DiskType /\ StateType /\ QueueType /\ PassType /\ HeldInv /\ WalkInv /\ SetInv
    BY DEF TypeOK, TruthInv
  <1>1. ASSUME p \notin events \cup unreported \cup unreadNamed,
               UNCHANGED <<held, lastReconciled, lost, unhealthy>>, disk'[p] = disk[p],
               OnTheWay(p) => OnTheWay(p)'
        PROVE  Known(p)'
    BY <1>0, <1>1 DEF HeldInv, Known
  <1>2. ASSUME NEW r \in Paths, NEW c \in Contents \cup {Absent}, Write(r, c) PROVE Known(p)'
    <2>1. /\ UNCHANGED <<held, lastReconciled, lost, unhealthy, unreported, unreadNamed, queue, batch, requested, phase,
                         stopped>>
          /\ events' = events \cup {r} /\ \A t \in Paths \ {r} : disk'[t] = disk[t]
      BY <1>0, <1>2 DEF Write, stateVars, queueVars, passVars, DiskType
    <2> QED
      BY <1>1, <2>1 DEF OnTheWay
  <1>3. ASSUME NEW r \in Paths, Deliver(r) PROVE Known(p)'
    <2>1. /\ UNCHANGED <<held, lastReconciled, lost, unhealthy, unreported, disk, requested, phase, stopped>>
          /\ events' = events \ {r}
          /\ ProcessQueue(Enqueued(queue, {r}), accepted', draining)
      BY <1>3 DEF Deliver
    <2>2. /\ Enqueued(queue, {r}) \in [Paths -> {"none", "change", "named"}]
          /\ queue[p] = "change" \/ p = r => Enqueued(queue, {r})[p] = "change"
      BY <1>0 DEF Enqueued, QueueType
    <2>3. queue[p] = "change" \/ p = r \/ batch[p] = "change" => queue'[p] = "change" \/ batch'[p] = "change"
      BY <1>0, <2>1, <2>2, ProcessQueueKeeps
    <2>4. unreadNamed' = unreadNamed
      BY <2>1 DEF ProcessQueue
    <2>5. CASE p = r
      BY <2>3, <2>5 DEF Known, OnTheWay
    <2>6. CASE p # r
      <3>1. p \notin events \cup unreported \cup unreadNamed
        BY <2>1, <2>4, <2>6
      <3>2. OnTheWay(p) => OnTheWay(p)'
        BY <2>1, <2>3 DEF OnTheWay
      <3> QED
        BY <1>1, <2>1, <3>1, <3>2
    <2> QED
      BY <2>5, <2>6
  <1>4. ASSUME NEW ps \in SUBSET Paths, ReadNamedCall(ps) PROVE Known(p)'
    <2> DEFINE added == {r \in {r \in ps : Holds(held, r) \/ disk[r].content # Absent} : queue[r] = "none"}
               q == IF ~Reconciling /\ established
                    THEN [r \in Paths |-> IF r \in added THEN "named" ELSE queue[r]] ELSE queue
    <2>1. /\ UNCHANGED <<disk, events, unreported, held, lastReconciled, lost, unhealthy, requested, phase, stopped>>
          /\ ProcessQueue(q, accepted', draining)
      BY <1>4 DEF ReadNamedCall, diskVars, historyVars
    <2>2. q \in [Paths -> {"none", "change", "named"}] /\ (queue[p] = "change" => q[p] = "change")
      BY <1>0 DEF QueueType
    <2> HIDE DEF q
    <2>3. queue[p] = "change" \/ batch[p] = "change" => queue'[p] = "change" \/ batch'[p] = "change"
      BY <1>0, <2>1, <2>2, ProcessQueueKeeps
    <2>4. unreadNamed' = unreadNamed
      BY <2>1 DEF ProcessQueue
    <2>5. OnTheWay(p) => OnTheWay(p)'
      BY <2>1, <2>3 DEF OnTheWay
    <2> QED
      BY <1>1, <2>1, <2>4, <2>5
  <1>5. CASE EndReconciliation
    <2>1. /\ UNCHANGED <<disk, events, unreported, held, lastReconciled, lost, unhealthy, requested, stopped>>
          /\ ProcessQueue(queue, accepted, FALSE) /\ draining = FALSE /\ phase # "walking"
      BY <1>0, <1>5 DEF EndReconciliation, QueueType, diskVars, historyVars
    <2>2. ProcessQueue(queue, accepted, draining)
      BY <2>1
    <2>3. queue[p] = "change" \/ batch[p] = "change" => queue'[p] = "change" \/ batch'[p] = "change"
      BY <1>0, <2>2, ProcessQueueKeeps DEF QueueType
    <2>4. unreadNamed' = unreadNamed
      BY <2>1 DEF ProcessQueue
    <2>5. OnTheWay(p) => OnTheWay(p)'
      BY <2>1, <2>3 DEF OnTheWay
    <2> QED
      BY <1>1, <2>1, <2>4, <2>5
  <1>6. CASE EndBatch
    <2>1. UNCHANGED <<disk, events, unreported, held, lastReconciled, lost, unhealthy, requested, phase, stopped>>
      BY <1>6 DEF EndBatch, diskVars, historyVars
    <2>2. batch[p] # "change" \/ stopped
      BY <1>6 DEF EndBatch, BatchRead, Queued, Pending
    <2>3. (queue[p] = "change" => queue'[p] = "change" \/ batch'[p] = "change") /\ unreadNamed' = unreadNamed
      <3>1. CASE Queued(queue) = {} \/ Reconciling \/ stopped
        BY <1>6, <3>1 DEF EndBatch
      <3>2. CASE ~(Queued(queue) = {} \/ Reconciling \/ stopped)
        BY <1>6, <3>2 DEF EndBatch, ProcessQueue, Reconciling
      <3> QED
        BY <3>1, <3>2
    <2>4. OnTheWay(p) => OnTheWay(p)'
      BY <2>1, <2>2, <2>3 DEF OnTheWay
    <2> QED
      BY <1>1, <2>1, <2>3, <2>4
  <1>7. ASSUME NEW r \in Paths, ReadPath(r) PROVE Known(p)'
    <2>1. /\ UNCHANGED <<disk, events, queue, requested, phase, stopped, lastReconciled, lost, unhealthy>>
          /\ held' = [held EXCEPT ![r] = ReadEntry(r)] /\ batch' = [batch EXCEPT ![r] = "none"]
          /\ unreported' = unreported \ {r} /\ unreadNamed' = unreadNamed \ {r}
      BY <1>7 DEF ReadPath, ReadDone, diskVars, passVars
    <2>2. CASE p = r
      <3>1. held'[p].content = disk'[p].content
        BY <1>0, <2>1, <2>2, ReadFinds DEF StateType
      <3> QED
        BY <3>1 DEF Known
    <2>3. CASE p # r
      <3>1. held'[p] = held[p] /\ batch'[p] = batch[p] /\ p \notin events \cup unreported \cup unreadNamed
        BY <1>0, <2>1, <2>3 DEF StateType, QueueType
      <3>2. Known(p)
        BY <1>0, <3>1 DEF HeldInv
      <3> QED
        BY <2>1, <3>1, <3>2 DEF Known, OnTheWay
    <2> QED
      BY <2>2, <2>3
  <1>8. ASSUME NEW r \in Paths, ReadNamed(r) PROVE Known(p)'
    <2>1. /\ UNCHANGED <<disk, events, queue, requested, phase, stopped, lastReconciled, lost, unhealthy>>
          /\ batch[r] = "named" /\ batch' = [batch EXCEPT ![r] = "none"]
          /\ unreported' = unreported \ {r}
          /\ \/ unreadNamed' = unreadNamed \cup {r} /\ held' \in {held, [held EXCEPT ![r] = NoRead]}
             \/ /\ unreadNamed' = unreadNamed \ {r}
                /\ \/ ReadEntry(r).content = held[r].content /\ held' = held
                   \/ held' = [held EXCEPT ![r] = ReadEntry(r)]
      BY <1>8 DEF ReadNamed, ReadDone, diskVars, passVars
    <2>2. CASE p = r
      <3>1. \/ ReadEntry(r).content = held[r].content /\ held' = held
            \/ held' = [held EXCEPT ![r] = ReadEntry(r)]
        BY <2>1, <2>2
      <3>2. held'[p].content = disk'[p].content
        BY <1>0, <2>1, <2>2, <3>1, ReadFinds DEF StateType
      <3> QED
        BY <3>2 DEF Known
    <2>3. CASE p # r
      <3>1. held'[p] = held[p] /\ batch'[p] = batch[p] /\ p \notin events \cup unreported \cup unreadNamed
        BY <1>0, <2>1, <2>3 DEF StateType, QueueType
      <3>2. Known(p)
        BY <1>0, <3>1 DEF HeldInv
      <3> QED
        BY <2>1, <3>1, <3>2 DEF Known, OnTheWay
    <2> QED
      BY <2>2, <2>3
  <1>9. CASE ReadNothing
    <2>1. /\ UNCHANGED <<disk, events, unreported, unreadNamed, held, queue, requested, phase, stopped, lastReconciled,
                         lost, unhealthy>>
          /\ draining /\ ~vouched
      BY <1>9 DEF ReadNothing, diskVars, stateVars, passVars
    <2>2. lost \/ ~lastReconciled
      BY <1>0, <2>1 DEF SetInv
    <2> QED
      BY <2>1, <2>2 DEF Known
  <1>10. CASE Settle
    <2>1. /\ phase = "walking" /\ walked = Paths
          /\ UNCHANGED <<disk, events, unreported>>
          /\ queue' = Enqueued(queue, RestampedPaths(held, inventory))
          /\ held' = [r \in Paths |-> KeptRead(held[r], inventory[r], r \in Queued(queue))]
          /\ unhealthy' = SettledHealth(TRUE)
      BY <1>10 DEF Settle, diskVars
    <2>2. held'[p].content = inventory[p].content
      BY <2>1 DEF KeptRead
    <2>3. inventory[p].content = disk[p].content \/ queue[p] = "change" \/ watchFailed
      BY <1>0, <2>1 DEF WalkInv
    <2>4. CASE inventory[p].content = disk[p].content
      BY <2>1, <2>2, <2>4 DEF Known
    <2>5. CASE queue[p] = "change"
      BY <2>1, <2>5 DEF Known, OnTheWay, Enqueued
    <2>6. CASE watchFailed
      BY <2>1, <2>6 DEF Known, SettledHealth
    <2> QED
      BY <2>3, <2>4, <2>5, <2>6
  <1>11. CASE WalkFails \/ WatchFailed \/ (\E r \in Paths : ReadFails(r))
    <2>1. lost' = TRUE \/ unhealthy' = TRUE
      BY <1>11 DEF WalkFails, WatchFailed, ReadFails, InputSetLost
    <2> QED
      BY <2>1 DEF Known
  <1>12. ASSUME NEW r \in Paths, WalkRead(r) PROVE Known(p)'
    <2>1. phase' = "walking"
      BY <1>12 DEF WalkRead
    <2> QED
      BY <2>1 DEF Known, OnTheWay
  <1>13. CASE \/ \E r \in Paths : LoseEvent(r)
              \/ Tick \/ Request \/ StartPass \/ Query \/ Stop
              \/ \E i \in Jobs : BeginJob(i) \/ EndJob(i) \/ CloseJob(i)
              \/ UNCHANGED vars
    <2>1. /\ UNCHANGED <<disk, held, unreadNamed, queue, batch, lastReconciled, lost, unhealthy>>
          /\ (events \cup unreported)' = events \cup unreported
      BY <1>13 DEF LoseEvent, Tick, Request, StartPass, Query, Stop, BeginJob, EndJob, CloseJob,
                   vars, diskVars, stateVars, queueVars, passVars, historyVars
    <2>2. requested \/ phase = "walking" \/ stopped => requested' \/ phase' = "walking" \/ stopped'
      BY <1>13 DEF LoseEvent, Tick, Request, RequestReconciliation, StartPass, Query, Stop,
                   BeginJob, EndJob, CloseJob, vars, passVars
    <2>3. OnTheWay(p) => OnTheWay(p)'
      BY <2>1, <2>2 DEF OnTheWay
    <2> QED
      BY <1>1, <2>1, <2>3
  <1> QED
    BY <1>2, <1>3, <1>4, <1>5, <1>6, <1>7, <1>8, <1>9, <1>10, <1>11, <1>12, <1>13 DEF Next

\* Before the first pass every view is unavailable, so nothing held need be true.
LEMMA InitTruth == Init => TruthInv
  <1> SUFFICES ASSUME Init PROVE TruthInv
    OBVIOUS
  <1>1. HeldInv
    BY DEF Init, HeldInv, Known
  <1>2. WalkInv /\ SetInv /\ ProjectInv
    BY DEF Init, WalkInv, SetInv, ProjectInv
  <1> QED
    BY <1>1, <1>2 DEF TruthInv

\* What makes a view true does.
LEMMA TruthSeen == VerdictInv /\ TruthInv => ViewIsTrue
  <1> SUFFICES ASSUME VerdictInv, TruthInv, ~Unavailable, ~changed,
                      NEW p \in Paths \ (events \cup unreported \cup unreadNamed)
               PROVE  ProjectDigests[p] = disk[p].content
    BY DEF ViewIsTrue
  <1>1. ~OnTheWay(p) /\ lastReconciled /\ ~lost /\ ~unhealthy
    BY DEF VerdictInv, PassInv, QueueInv, Unavailable, Incomplete, Reconciling, Pending, OnTheWay
  <1>2. held[p].content = disk[p].content
    BY <1>1 DEF TruthInv, HeldInv, Known
  <1>3. ProjectDigests = Digests(held)
    BY DEF TruthInv, ProjectInv, ProjectDigests
  <1> QED
    BY <1>2, <1>3 DEF Digests

\* A view the tracker vouches for gives what the disk holds for every file, but where an event is still on the way or
\* was lost unreported, or a named read failed.
THEOREM ViewsAreTrue == Spec => []ViewIsTrue
  <1>1. TypeOK /\ VerdictInv /\ TruthInv /\ [Next]_vars => TruthInv'
    <2> SUFFICES ASSUME TypeOK, VerdictInv, TruthInv, [Next]_vars PROVE TruthInv'
      OBVIOUS
    <2>1. QueueInv
      BY DEF VerdictInv
    <2> QED
      BY <2>1, HeldStep, WalkStep, SetStep, ProjectStep DEF TruthInv
  <1> QED
    BY <1>1, TruthSeen, InitTruth, TypeCorrect, VerdictKept, PTL DEF Spec

-----------------------------------------------------------------------------
(* A refusal for reads not done is timely: LedgerInv, FirstPassInv and      *)
(* TimelyInv are kept by every step.                                        *)

\* Taking the next batch keeps the ledger ahead of it.
LEMMA ProcessQueueCounts ==
    ASSUME QueueType, NEW q \in [Paths -> {"none", "change", "named"}], NEW b \in BOOLEAN,
           accepted' \in Nat, readThrough' \in Nat, ProcessQueue(q, accepted', b),
           readThrough' <= accepted', b => through <= accepted' /\ through > readThrough',
           Queued(q) # {} => accepted' > readThrough' /\ (b => accepted' > through),
           inFlight # {} /\ (Queued(q) = {} \/ phase' # "idle" \/ stopped) => b
    PROVE  LedgerInv'
  <1>1. CASE Queued(q) = {} \/ b \/ phase' # "idle" \/ stopped
    <2>1. queue' = q /\ through' = through /\ inFlight' = inFlight /\ draining' = b
      BY <1>1 DEF ProcessQueue
    <2>2. inFlight # {} => b
      BY <1>1
    <2> QED
      BY <2>1, <2>2 DEF LedgerInv
  <1>2. CASE ~(Queued(q) = {} \/ b \/ phase' # "idle" \/ stopped)
    <2>1. queue' = NothingQueued /\ through' = accepted' /\ draining' = TRUE
      BY <1>2 DEF ProcessQueue
    <2>2. Queued(queue') = {}
      BY <2>1 DEF Queued, NothingQueued
    <2> QED
      BY <1>2, <2>1, <2>2 DEF LedgerInv
  <1> QED
    BY <1>1, <1>2

\* What joins the queue counts.
LEMMA CountsSome ==
    ASSUME NEW S \in SUBSET Paths, S # {}
    PROVE  Cardinality(S) > 0
  BY ConstantsAssumption, FS_Subset, FS_CardinalityType, FS_EmptySet

\* The ledger stays past the batch being read and past every read done.
LEMMA LedgerStep == TypeOK /\ SetInv /\ LedgerInv /\ [Next]_vars => LedgerInv'
  <1> SUFFICES ASSUME TypeOK, SetInv, LedgerInv, [Next]_vars PROVE LedgerInv'
    OBVIOUS
  <1>0. /\ QueueType /\ accepted \in Nat /\ readThrough \in Nat /\ through \in Nat /\ draining \in BOOLEAN
        /\ queue \in [Paths -> {"none", "change", "named"}]
    BY DEF TypeOK, QueueType, LedgerType
  <1>1. ASSUME NEW p \in Paths, Deliver(p) PROVE LedgerInv'
    <2>1. /\ accepted' = accepted + 1 /\ readThrough' = readThrough
          /\ ProcessQueue(Enqueued(queue, {p}), accepted', draining)
      BY <1>1 DEF Deliver
    <2>2. Enqueued(queue, {p}) \in [Paths -> {"none", "change", "named"}]
      BY <1>0 DEF Enqueued
    <2> QED
      BY <1>0, <2>1, <2>2, ProcessQueueCounts DEF LedgerInv
  <1>2. ASSUME NEW ps \in SUBSET Paths, ReadNamedCall(ps) PROVE LedgerInv'
    <2> DEFINE added == {p \in {p \in ps : Holds(held, p) \/ disk[p].content # Absent} : queue[p] = "none"}
               reads == ~Reconciling /\ established
               q == IF reads THEN [p \in Paths |-> IF p \in added THEN "named" ELSE queue[p]] ELSE queue
    <2>1. /\ accepted' = IF reads THEN accepted + Cardinality(added) ELSE accepted
          /\ readThrough' = readThrough /\ ProcessQueue(q, accepted', draining)
      BY <1>2 DEF ReadNamedCall
    <2>2. added \in SUBSET Paths /\ q \in [Paths -> {"none", "change", "named"}]
      BY <1>0
    <2>3. Queued(q) # {} => Queued(queue) # {} \/ (reads /\ added # {})
      BY <1>0 DEF Queued
    <2>4. Cardinality(added) \in Nat /\ (added # {} => Cardinality(added) > 0)
      BY <2>2, CountType, CountsSome
    <2> HIDE DEF added, reads, q
    <2>5. accepted' \in Nat /\ accepted' >= accepted /\ (reads /\ added # {} => accepted' > accepted)
      BY <1>0, <2>1, <2>4
    <2>6. /\ readThrough' <= accepted' /\ (draining => through <= accepted' /\ through > readThrough')
          /\ Queued(q) # {} => accepted' > readThrough' /\ (draining => accepted' > through)
          /\ inFlight # {} => draining
      BY <1>0, <2>1, <2>3, <2>5 DEF LedgerInv
    <2> QED
      BY <1>0, <2>1, <2>2, <2>5, <2>6, ProcessQueueCounts
  <1>3. CASE EndReconciliation
    <2>1. /\ UNCHANGED <<accepted, readThrough>> /\ ProcessQueue(queue, accepted, FALSE) /\ ~draining
      BY <1>3 DEF EndReconciliation
    <2> QED
      BY <1>0, <2>1, ProcessQueueCounts DEF LedgerInv
  <1>4. CASE EndBatch
    <2>1. /\ UNCHANGED <<accepted, phase>> /\ draining
          /\ readThrough' = IF through > readThrough THEN through ELSE readThrough
      BY <1>4 DEF EndBatch
    <2>2. readThrough' = through /\ through <= accepted
      BY <1>0, <2>1 DEF LedgerInv
    <2>3. CASE Queued(queue) = {} \/ Reconciling \/ stopped
      <3>1. draining' = FALSE /\ inFlight' = {} /\ queue' = queue
        BY <1>4, <2>3 DEF EndBatch
      <3>2. Queued(queue') # {} => accepted' > readThrough'
        BY <1>0, <2>1, <2>2, <3>1 DEF LedgerInv
      <3> QED
        BY <2>1, <2>2, <3>1, <3>2 DEF LedgerInv
    <2>4. CASE ~(Queued(queue) = {} \/ Reconciling \/ stopped)
      <3>1. ProcessQueue(queue, accepted, FALSE)
        BY <1>4, <2>4 DEF EndBatch
      <3>2. accepted > through
        BY <2>1, <2>4 DEF LedgerInv
      <3>3. ~(Queued(queue) = {} \/ phase' # "idle" \/ stopped)
        BY <2>1, <2>4 DEF Reconciling
      <3> QED
        BY <1>0, <2>1, <2>2, <3>1, <3>2, <3>3, ProcessQueueCounts
    <2> QED
      BY <2>3, <2>4
  <1>5. CASE Settle
    <2> DEFINE restamped == RestampedPaths(held, inventory)
    <2>1. /\ UNCHANGED <<draining, through, inFlight, readThrough>> /\ phase = "walking"
          /\ queue' = Enqueued(queue, restamped)
          /\ accepted' = accepted + Cardinality(restamped)
      BY <1>5 DEF Settle
    <2>2. ~draining
      BY <2>1 DEF SetInv
    <2>3. restamped \in SUBSET Paths
      BY DEF RestampedPaths
    <2>4. Cardinality(restamped) \in Nat /\ (restamped # {} => Cardinality(restamped) > 0)
      BY <2>3, CountType, CountsSome
    <2>5. Queued(queue') # {} => Queued(queue) # {} \/ restamped # {}
      BY <2>1 DEF Queued, Enqueued
    <2> HIDE DEF restamped
    <2> QED
      BY <1>0, <2>1, <2>2, <2>4, <2>5 DEF LedgerInv
  <1>6. CASE \/ \E p \in Paths : \E c \in Contents \cup {Absent} : Write(p, c)
             \/ \E p \in Paths : \/ LoseEvent(p) \/ ReadPath(p) \/ ReadFails(p) \/ ReadNamed(p) \/ WalkRead(p)
             \/ Tick \/ Request \/ WatchFailed \/ ReadNothing \/ StartPass \/ WalkFails \/ Query \/ Stop
             \/ \E j \in Jobs : BeginJob(j) \/ EndJob(j) \/ CloseJob(j)
             \/ UNCHANGED vars
    <2>1. UNCHANGED <<queue, draining, through, inFlight, accepted, readThrough>>
      BY <1>6 DEF Write, LoseEvent, ReadPath, ReadFails, ReadNamed, WalkRead, Tick, Request, WatchFailed,
                  ReadNothing, StartPass, WalkFails, Query, Stop, BeginJob, EndJob, CloseJob, vars, queueVars, ledgerVars
    <2> QED
      BY <2>1 DEF LedgerInv
  <1> QED
    BY <1>1, <1>2, <1>3, <1>4, <1>5, <1>6 DEF Next

\* Until a pass has ended, one is asked for or walking.
LEMMA FirstPassStep == TypeOK /\ FirstPassInv /\ [Next]_vars => FirstPassInv'
  <1> SUFFICES ASSUME TypeOK, FirstPassInv, [Next]_vars PROVE FirstPassInv'
    OBVIOUS
  <1>1. ASSUME UNCHANGED lastReconciled, stopped' = stopped, requested' = TRUE,
               phase' = IF Reconciling THEN phase ELSE "ready"
        PROVE  FirstPassInv'
    <2>1. phase \in {"idle", "ready", "walking"}
      BY DEF TypeOK, PassType
    <2> QED
      BY <1>1, <2>1 DEF FirstPassInv, Reconciling
  <1>2. CASE Request \/ WatchFailed
    BY <1>1, <1>2 DEF Request, WatchFailed, RequestReconciliation
  <1>3. CASE \E p \in Paths : ReadFails(p)
    <2>1. /\ lastReconciled' = lastReconciled /\ stopped' = stopped
          /\ \/ UNCHANGED <<requested, phase>>
             \/ requested' = TRUE /\ phase' = IF Reconciling THEN phase ELSE "ready"
      BY <1>3 DEF ReadFails, InputSetLost, RequestReconciliation
    <2>2. CASE UNCHANGED <<requested, phase>>
      BY <2>1, <2>2 DEF FirstPassInv
    <2> QED
      BY <1>1, <2>1, <2>2
  <1>4. CASE StartPass
    BY <1>4 DEF StartPass, FirstPassInv
  <1>5. CASE Settle \/ WalkFails
    BY <1>5 DEF Settle, WalkFails, FirstPassInv
  <1>6. CASE EndReconciliation
    BY <1>6 DEF EndReconciliation, FirstPassInv
  <1>7. CASE Stop
    BY <1>7 DEF Stop, FirstPassInv
  <1>8. CASE \/ \E p \in Paths : \E c \in Contents \cup {Absent} : Write(p, c)
             \/ \E p \in Paths : \/ LoseEvent(p) \/ Deliver(p) \/ ReadPath(p) \/ ReadNamed(p) \/ WalkRead(p)
             \/ Tick \/ ReadNothing \/ EndBatch \/ Query
             \/ \E j \in Jobs : BeginJob(j) \/ EndJob(j) \/ CloseJob(j)
             \/ \E ps \in SUBSET Paths : ReadNamedCall(ps)
             \/ UNCHANGED vars
    <2>1. UNCHANGED <<lastReconciled, stopped, phase, requested>>
      BY <1>8 DEF Write, LoseEvent, Deliver, ReadPath, ReadNamed, WalkRead, Tick, ReadNothing, EndBatch, Query,
                  BeginJob, EndJob, CloseJob, ReadNamedCall, vars, passVars
    <2> QED
      BY <2>1 DEF FirstPassInv
  <1> QED
    BY <1>2, <1>3, <1>4, <1>5, <1>6, <1>7, <1>8 DEF Next

\* A job's wait is told of a reconciliation's start without being released, and released once none runs and the reads
\* reach what it waits for.
LEMMA JobNotified ==
    ASSUME LedgerType, NEW j \in Jobs, NEW r \in BOOLEAN, NEW n \in Nat, waits' = Notified(waits, r, n)
    PROVE  /\ r => waits'[j] = waits[j]
           /\ waits[j].state = "released" => waits'[j] = waits[j]
           /\ waits[j].state = "waiting" =>
                waits'[j] = IF ~r /\ n >= waits[j].upTo THEN Released ELSE waits[j]
  <1>1. j # Reader /\ j \in Waiters
    BY ConstantsAssumption DEF Waiters
  <1>2. waits'[j] = IF waits[j].state = "waiting" /\ ~r /\ n >= waits[j].upTo THEN Released ELSE waits[j]
    BY <1>1 DEF Notified, CanEnd
  <1> QED
    BY <1>2

\* With no event since it asked, a job stays waiting past every event's read, or released with none left.
LEMMA TimelyStep == TypeOK /\ SetInv /\ LedgerInv /\ TimelyInv /\ [Next]_vars => TimelyInv'
  <1> DEFINE Free(j) == waits[j].state = "released" /\ phase = "idle" /\ Pending(queue) = {} /\ inFlight = {}
             Held(j) == /\ waits[j].state = "waiting"
                        /\ Pending(queue) # {} =>
                             waits[j].upTo > readThrough /\ (draining => waits[j].upTo > through)
                        /\ inFlight # {} => waits[j].upTo > readThrough
  <1> SUFFICES ASSUME TypeOK, SetInv, LedgerInv, TimelyInv, [Next]_vars,
                      NEW j \in Jobs, windows'[j].state = "ending", ~late'[j], ~stopped'
               PROVE  Free(j)' \/ Held(j)'
    BY DEF TimelyInv
  <1>0. /\ QueueType /\ LedgerType /\ JobsType
        /\ accepted \in Nat /\ readThrough \in Nat /\ through \in Nat /\ draining \in BOOLEAN
        /\ j # Reader /\ j \in Waiters /\ waits[j].upTo \in Nat
    BY ConstantsAssumption DEF TypeOK, LedgerType, QueueType, Waiters, WaitsType
  <1>1. ~stopped /\ ~late[j]
    <2>1. stopped' = stopped \/ stopped' = TRUE
      BY DEF Next, Write, Tick, LoseEvent, Deliver, Request, WatchFailed, ReadNothing, ReadPath, ReadFails, ReadNamed,
             EndBatch, StartPass, WalkRead, Settle, WalkFails, EndReconciliation, Query, BeginJob, EndJob, CloseJob,
             ReadNamedCall, Stop, vars
    <2>2. late' = late \/ late'[j] = (late[j] \/ windows[j].state = "ending")
      BY DEF Next, Write, Tick, LoseEvent, Deliver, Request, WatchFailed, ReadNothing, ReadPath, ReadFails, ReadNamed,
             EndBatch, StartPass, WalkRead, Settle, WalkFails, EndReconciliation, Query, BeginJob, EndJob, CloseJob,
             ReadNamedCall, Stop, vars, historyVars
    <2>3. stopped \in BOOLEAN /\ late[j] \in BOOLEAN
      BY DEF TypeOK, JobsType, HistoryType
    <2> QED
      BY <2>1, <2>2, <2>3
  <1>2. CASE EndJob(j)
    <2>1. /\ UNCHANGED <<accepted, readThrough, phase, queue, draining, through, inFlight>>
          /\ waits' = [waits EXCEPT ![j] = PlacedWait(j)]
      BY <1>2 DEF EndJob, queueVars
    <2>2. waits'[j] = IF ~Reconciling /\ readThrough >= accepted THEN Released
                      ELSE [state |-> "waiting", upTo |-> accepted]
      BY <1>0, <1>1, <2>1 DEF PlacedWait, CanEnd, LedgerType, WaitsType, Reconciling
    <2>3. Pending(queue) # {} => Queued(queue) # {}
      BY DEF Pending, Queued
    <2>4. CASE ~Reconciling /\ readThrough >= accepted
      <3>1. Queued(queue) = {} /\ inFlight = {}
        BY <1>0, <2>4 DEF LedgerInv
      <3> QED
        BY <2>1, <2>2, <2>3, <2>4, <3>1 DEF Released, Reconciling
    <2>5. CASE ~(~Reconciling /\ readThrough >= accepted)
      <3>1. waits'[j].state = "waiting" /\ waits'[j].upTo = accepted
        BY <2>2, <2>5
      <3>2. Pending(queue) # {} => accepted > readThrough /\ (draining => accepted > through)
        BY <2>3 DEF LedgerInv
      <3>3. inFlight # {} => accepted > readThrough
        BY <1>0 DEF LedgerInv
      <3> QED
        BY <2>1, <3>1, <3>2, <3>3
    <2> QED
      BY <2>4, <2>5
  <1> SUFFICES ASSUME ~EndJob(j) PROVE Free(j)' \/ Held(j)'
    BY <1>2
  <1>3. windows[j].state = "ending"
    <2>1. ASSUME NEW ps \in SUBSET Paths, windows'[j] = RecordedPaths(windows, ps)[j]
          PROVE  windows'[j].state = windows[j].state
      BY <1>0, <2>1, Recorded
    <2>2. ASSUME windows'[j] = RecordedCause(windows)[j] PROVE windows'[j].state = windows[j].state
      BY <1>0, <2>2, Caused
    <2>3. ASSUME BeginJob(j) PROVE windows'[j].state = "running"
      BY <1>0, <2>3 DEF BeginJob, JobsType, NoWindow
    <2>4. ASSUME CloseJob(j) PROVE windows'[j].state = "closed"
      BY <1>0, <2>4 DEF CloseJob, JobsType, WindowType
    <2> QED
      BY <2>1, <2>2, <2>3, <2>4, WindowSteps
  <1>4. Free(j) \/ Held(j)
    BY <1>1, <1>3 DEF TimelyInv
  <1>5. Free(j) => TurnOpen
    BY <1>3 DEF TurnOpen
  <1>6. ASSUME UNCHANGED <<queue, inFlight, draining, through, readThrough>>, waits'[j] = waits[j],
               phase' = phase \/ ~TurnOpen \/ phase # "idle"
        PROVE  Free(j)' \/ Held(j)'
    <2>1. CASE Free(j)
      BY <1>5, <1>6, <2>1
    <2>2. CASE Held(j)
      BY <1>6, <2>2
    <2> QED
      BY <1>4, <2>1, <2>2
  <1>7. CASE \/ \E p \in Paths : \E c \in Contents \cup {Absent} : Write(p, c)
             \/ \E p \in Paths : LoseEvent(p) \/ ReadPath(p) \/ ReadNamed(p) \/ WalkRead(p)
             \/ Tick \/ ReadNothing \/ StartPass \/ WalkFails \/ Query
             \/ \E i \in Jobs : BeginJob(i) \/ CloseJob(i)
             \/ UNCHANGED vars
    <2>1. /\ UNCHANGED <<queue, inFlight, draining, through, readThrough, waits>>
          /\ phase' = phase \/ ~TurnOpen \/ phase # "idle"
      BY <1>7 DEF Write, LoseEvent, ReadPath, ReadNamed, WalkRead, Tick, ReadNothing, StartPass, WalkFails, Query,
                  BeginJob, CloseJob, vars, queueVars, passVars, ledgerVars
    <2> QED
      BY <1>6, <2>1
  <1>8. CASE \E i \in Jobs : EndJob(i)
    <2>1. /\ UNCHANGED <<queue, inFlight, draining, through, readThrough, phase>>
          /\ \E i \in Jobs \ {j} : waits' = [waits EXCEPT ![i] = PlacedWait(i)]
      BY <1>8 DEF EndJob, queueVars
    <2>2. waits'[j] = waits[j]
      BY <1>0, <2>1 DEF LedgerType, WaitsType
    <2> QED
      BY <1>6, <2>1, <2>2
  <1>9. CASE Request \/ WatchFailed \/ \E p \in Paths : ReadFails(p)
    <2>1. /\ UNCHANGED <<queue, inFlight, draining, through, readThrough>> /\ ~TurnOpen
          /\ waits' = waits \/ waits' = Notified(waits, TRUE, readThrough)
      BY <1>9 DEF Request, WatchFailed, ReadFails, InputSetLost, RequestReconciliation, queueVars
    <2>2. waits'[j] = waits[j]
      BY <1>0, <2>1, JobNotified
    <2> QED
      BY <1>6, <2>1, <2>2
  <1>10. CASE Stop
    BY <1>10 DEF Stop
  <1>11. ASSUME NEW p \in Paths, Deliver(p) PROVE FALSE
    BY <1>3, <1>11 DEF Deliver
  <1>12. ASSUME NEW ps \in SUBSET Paths, ReadNamedCall(ps) PROVE Free(j)' \/ Held(j)'
    <2> DEFINE added == {p \in {p \in ps : Holds(held, p) \/ disk[p].content # Absent} : queue[p] = "none"}
               q == IF ~Reconciling /\ established
                    THEN [p \in Paths |-> IF p \in added THEN "named" ELSE queue[p]] ELSE queue
    <2>1. /\ ProcessQueue(q, accepted', draining) /\ UNCHANGED <<readThrough, phase>> /\ ~TurnOpen
          /\ waits' = [waits EXCEPT ![Reader] = PlacedWait(Reader)]
      BY <1>12 DEF ReadNamedCall
    <2>2. waits'[j] = waits[j]
      BY <1>0, <2>1 DEF LedgerType, WaitsType
    <2>3. Pending(q) = Pending(queue)
      BY <1>0 DEF Pending, QueueType
    <2> HIDE DEF q
    <2>4. Held(j)
      BY <1>4, <1>5, <2>1
    <2>5. CASE Queued(q) = {} \/ draining \/ phase' # "idle" \/ stopped
      BY <2>1, <2>2, <2>3, <2>4, <2>5 DEF ProcessQueue
    <2>6. CASE ~(Queued(q) = {} \/ draining \/ phase' # "idle" \/ stopped)
      <3>1. queue' = NothingQueued /\ inFlight' = Pending(queue)
        BY <2>1, <2>3, <2>6 DEF ProcessQueue
      <3>2. Pending(queue') = {}
        BY <3>1 DEF Pending, NothingQueued
      <3> QED
        BY <2>1, <2>2, <2>4, <3>1, <3>2
    <2> QED
      BY <2>5, <2>6
  <1>13. CASE Settle
    <2> DEFINE restamped == RestampedPaths(held, inventory)
    <2>1. /\ UNCHANGED <<draining, through, inFlight, readThrough>> /\ phase = "walking"
          /\ queue' = Enqueued(queue, restamped)
          /\ accepted' = accepted + Cardinality(restamped)
          /\ waits' = RaisedWaits(waits, Cardinality(restamped), accepted')
      BY <1>13 DEF Settle
    <2>2. Held(j) /\ ~draining
      BY <1>4, <2>1 DEF SetInv
    <2>3. restamped \in SUBSET Paths
      BY DEF RestampedPaths
    <2>4. Cardinality(restamped) \in Nat /\ (restamped # {} => Cardinality(restamped) > 0)
      BY <2>3, CountType, CountsSome
    <2>5. CASE Cardinality(restamped) = 0
      <3>1. waits' = waits /\ restamped = {}
        BY <2>1, <2>4, <2>5 DEF RaisedWaits
      <3>2. Pending(queue') = Pending(queue)
        BY <2>1, <3>1 DEF Pending, Enqueued
      <3> QED
        BY <2>1, <2>2, <3>1, <3>2
    <2>6. CASE Cardinality(restamped) # 0
      <3>1. waits'[j] = [waits[j] EXCEPT !.upTo = accepted']
        BY <1>0, <2>1, <2>2, <2>6 DEF RaisedWaits
      <3>2. waits[j] \in [state : {"none", "waiting", "released"}, upTo : Nat]
        BY <1>0 DEF LedgerType, WaitsType
      <3>3. waits'[j].state = "waiting" /\ waits'[j].upTo = accepted'
        BY <2>2, <3>1, <3>2
      <3>4. accepted' > readThrough
        BY <1>0, <2>1, <2>4, <2>6 DEF LedgerInv
      <3> QED
        BY <2>1, <2>2, <3>3, <3>4
    <2> QED
      BY <2>5, <2>6
  <1>14. CASE EndReconciliation
    <2>1. /\ ProcessQueue(queue, accepted, FALSE) /\ phase' = "idle" /\ phase # "idle" /\ ~draining
          /\ UNCHANGED readThrough /\ waits' = Notified(waits, FALSE, readThrough)
      BY <1>1, <1>14 DEF EndReconciliation
    <2>2. Held(j) /\ inFlight = {}
      BY <1>4, <2>1 DEF LedgerInv
    <2>3. waits'[j] = IF readThrough >= waits[j].upTo THEN Released ELSE waits[j]
      BY <1>0, <2>1, <2>2, JobNotified
    <2>4. Pending(queue') = {} /\ inFlight' \in {{}, Pending(queue)}
      <3>1. CASE Queued(queue) = {}
        BY <1>1, <2>1, <2>2, <3>1 DEF ProcessQueue, Pending, Queued
      <3>2. CASE Queued(queue) # {}
        BY <1>1, <2>1, <2>2, <3>2 DEF ProcessQueue, Pending, NothingQueued
      <3> QED
        BY <3>1, <3>2
    <2>5. CASE readThrough >= waits[j].upTo
      <3>1. Pending(queue) = {}
        BY <1>0, <2>2, <2>5
      <3> QED
        <4>1. waits'[j].state = "released"
          BY <2>3, <2>5 DEF Released
        <4>2. Pending(queue)' = {} /\ inFlight' = {}
          BY <2>4, <3>1
        <4> QED
          BY <2>1, <4>1, <4>2
    <2>6. CASE ~(readThrough >= waits[j].upTo)
      BY <1>0, <2>1, <2>2, <2>3, <2>4, <2>6
    <2> QED
      BY <2>5, <2>6
  <1>15. CASE EndBatch
    <2>1. /\ draining /\ UNCHANGED phase
          /\ readThrough' = IF through > readThrough THEN through ELSE readThrough
          /\ waits' = Notified(waits, Reconciling, readThrough')
      BY <1>15 DEF EndBatch
    <2>2. readThrough' = through
      BY <1>0, <2>1 DEF LedgerInv
    <2>3. /\ Pending(queue') \in {{}, Pending(queue)} /\ inFlight' \in {{}, Pending(queue)}
          /\ Pending(queue') # {} => draining' = FALSE
      <3>1. CASE Queued(queue) = {} \/ Reconciling \/ stopped
        BY <1>15, <3>1 DEF EndBatch
      <3>2. CASE ~(Queued(queue) = {} \/ Reconciling \/ stopped)
        <4>1. ProcessQueue(queue, accepted, FALSE)
          BY <1>15, <3>2 DEF EndBatch
        <4>2. queue' = NothingQueued /\ inFlight' = Pending(queue)
          BY <2>1, <3>2, <4>1 DEF ProcessQueue, Reconciling
        <4> QED
          BY <4>2 DEF Pending, NothingQueued
      <3> QED
        BY <3>1, <3>2
    <2>4. Reconciling \in BOOLEAN
      BY DEF Reconciling
    <2>5. CASE Free(j)
      <3>1. waits'[j] = waits[j]
        BY <1>0, <2>1, <2>2, <2>4, <2>5, JobNotified
      <3> QED
        BY <2>1, <2>3, <2>5, <3>1
    <2>6. CASE Held(j)
      <3>1. waits'[j] = IF ~Reconciling /\ through >= waits[j].upTo THEN Released ELSE waits[j]
        BY <1>0, <2>1, <2>2, <2>4, <2>6, JobNotified
      <3>2. Pending(queue) # {} => waits[j].upTo > through
        BY <2>1, <2>6
      <3>3. CASE ~Reconciling /\ through >= waits[j].upTo
        <4>1. Pending(queue) = {}
          BY <1>0, <3>2, <3>3
        <4> QED
          BY <2>1, <2>3, <3>1, <3>3, <4>1 DEF Released, Reconciling
      <3>4. CASE ~(~Reconciling /\ through >= waits[j].upTo)
        BY <2>2, <2>3, <2>6, <3>1, <3>2, <3>4
      <3> QED
        BY <3>3, <3>4
    <2> QED
      BY <1>4, <2>5, <2>6
  <1> QED
    BY <1>7, <1>8, <1>9, <1>10, <1>11, <1>12, <1>13, <1>14, <1>15 DEF Next

\* Nothing is queued before the first event, and no job waits before one has begun.
LEMMA InitTimely == Init => LedgerInv /\ FirstPassInv /\ TimelyInv
  <1> SUFFICES ASSUME Init PROVE LedgerInv /\ FirstPassInv /\ TimelyInv
    OBVIOUS
  <1>1. LedgerInv
    BY DEF Init, LedgerInv, Queued, NothingQueued
  <1>2. FirstPassInv
    BY DEF Init, FirstPassInv
  <1>3. \A j \in Jobs : windows[j].state = "none"
    BY DEF Init, NoWindow
  <1>4. TimelyInv
    BY <1>3 DEF TimelyInv
  <1> QED
    BY <1>1, <1>2, <1>4

\* The ledger, the first pass and the waits keep what makes a refusal timely.
LEMMA TimelyKept == Spec => [](SetInv /\ LedgerInv /\ FirstPassInv /\ TimelyInv)
  <1>1. Init => SetInv
    BY InitTruth DEF TruthInv
  <1> QED
    BY <1>1, SetStep, LedgerStep, FirstPassStep, TimelyStep, InitTimely, TypeCorrect, PTL DEF Spec

\* endJob answers "unavailable" for reads not done only when an event came after it was asked: a wait outlives every
\* reconciliation and every read of an event accepted before it was placed.
THEOREM RefusalsAreTimely == Spec => RefusedOnlyWhenLate
  <1>1. TypeOK /\ SetInv /\ LedgerInv /\ FirstPassInv /\ TimelyInv /\ [Next]_vars =>
          \A j \in Jobs : windows'[j].verdict = "unavailable" /\ windows[j].verdict # "unavailable"
                            => stopped \/ lost \/ unhealthy \/ late[j]
    <2> SUFFICES ASSUME TypeOK, SetInv, LedgerInv, FirstPassInv, TimelyInv, [Next]_vars, NEW j \in Jobs,
                        windows'[j].verdict = "unavailable", windows[j].verdict # "unavailable"
                 PROVE  stopped \/ lost \/ unhealthy \/ late[j]
      OBVIOUS
    <2>0. JobsType /\ windows[j] \in WindowType
      BY DEF TypeOK, JobsType
    <2>1. CloseJob(j)
      <3>1. ASSUME NEW ps \in SUBSET Paths, windows'[j] = RecordedPaths(windows, ps)[j]
            PROVE  windows'[j].verdict = windows[j].verdict
        BY <2>0, <3>1, Recorded
      <3>2. ASSUME windows'[j] = RecordedCause(windows)[j] PROVE windows'[j].verdict = windows[j].verdict
        BY <2>0, <3>2, Caused
      <3>3. ASSUME BeginJob(j) PROVE windows'[j].verdict = "none"
        BY <2>0, <3>3 DEF BeginJob, JobsType, NoWindow
      <3>4. ASSUME EndJob(j) PROVE windows'[j].verdict = windows[j].verdict
        BY <2>0, <3>4 DEF EndJob, JobsType, WindowType
      <3> QED
        BY <3>1, <3>2, <3>3, <3>4, WindowSteps
    <2>2. /\ windows[j].state = "ending" /\ waits[j].state = "released"
          /\ windows'[j].verdict = Verdict(windows[j], Unavailable)
      BY <2>0, <2>1 DEF CloseJob, JobsType, WindowType
    <2>3. Unavailable
      BY <2>0, <2>2 DEF Verdict, WindowType
    <2>4. CASE ~late[j] /\ ~stopped
      <3>1. phase = "idle" /\ Pending(queue) = {} /\ inFlight = {}
        BY <2>2, <2>4 DEF TimelyInv
      <3>2. lastReconciled
        BY <2>4, <3>1 DEF FirstPassInv
      <3> QED
        BY <2>3, <3>1, <3>2 DEF Unavailable, Incomplete, Reconciling
    <2> QED
      BY <2>4
  <1> QED
    BY <1>1, TypeCorrect, TimelyKept, PTL DEF Spec, RefusedOnlyWhenLate

-----------------------------------------------------------------------------
(* A discovery's binding: TrackerInv and DiscoveryInv are kept by every    *)
(* step of a discovery and of the tracker around it.                       *)

\* The three jobs of a discovery are different ones.
LEMMA DistinctJobs ==
    ASSUME DiscoveryAssumption
    PROVE  Mark # Guard /\ Mark # Settler /\ Guard # Settler
  <1>1. \A x, y : Cardinality({x, y}) \in 0..2
    <2> SUFFICES ASSUME NEW x, NEW y PROVE Cardinality({x, y}) \in 0..2
      OBVIOUS
    <2>1. IsFiniteSet({x}) /\ Cardinality({x}) = 1
      BY FS_Singleton
    <2>2. {x, y} = {x} \cup {y}
      OBVIOUS
    <2>3. IsFiniteSet({x, y}) /\ Cardinality({x, y}) = IF y \in {x} THEN Cardinality({x}) ELSE Cardinality({x}) + 1
      BY <2>1, <2>2, FS_AddElement
    <2> QED
      BY <2>1, <2>3
  <1>2. Cardinality({Mark, Guard, Settler}) = 3
    BY DEF DiscoveryAssumption
  <1>3. \A x, y : {Mark, Guard, Settler} # {x, y}
    <2> SUFFICES ASSUME NEW x, NEW y, {Mark, Guard, Settler} = {x, y} PROVE FALSE
      OBVIOUS
    <2>1. Cardinality({x, y}) = 3
      BY <1>2
    <2>2. Cardinality({x, y}) \in 0..2
      BY <1>1
    <2> QED
      BY <2>1, <2>2
  <1>4. {Mark, Guard, Settler} # {Mark, Settler} /\ {Mark, Guard, Settler} # {Mark, Guard}
    BY <1>3
  <1> QED
    BY <1>4

\* Each step of a discovery over the tracker is the tracker's own, or places the wait for the inputs to settle.
LEMMA DiscoverySteps ==
    ASSUME DiscoveryAssumption, [DiscoveryNext]_discoveryVars
    PROVE  [Next]_vars \/ Settling
  <1>1. Mark \in Jobs /\ Guard \in Jobs
    BY DEF DiscoveryAssumption
  <1>2. CASE TrackerStep
    BY <1>2 DEF TrackerStep, Next
  <1>3. CASE \/ DiscoveryBegins \/ DiscoveryReturns \/ DiscoveryJudged
             \/ GuardBegins \/ GuardReturns \/ DiscoveryStored
    BY <1>1, <1>3 DEF DiscoveryBegins, DiscoveryReturns, DiscoveryJudged, GuardBegins, GuardReturns, DiscoveryStored,
                      Next
  <1>4. CASE BeginsNothing \/ DiscoveryStopped \/ UNCHANGED discoveryVars
    BY <1>4 DEF BeginsNothing, DiscoveryStopped, discoveryVars, Next
  <1>5. CASE SettleBeforeDiscovery \/ SettleBeforeGuard
    BY <1>5 DEF SettleBeforeDiscovery, SettleBeforeGuard
  <1> QED
    BY <1>2, <1>3, <1>4, <1>5 DEF DiscoveryNext

\* Waiting for the inputs to settle changes nothing but the wait.
LEMMA SettlingKeeps ==
    ASSUME DiscoveryAssumption, TrackerInv, Settling
    PROVE  TrackerInv'
  <1>1. /\ UNCHANGED <<diskVars, stateVars, queueVars, passVars, accepted, readThrough, windows, stopped, counts,
                       historyVars>>
        /\ waits' = [waits EXCEPT ![Settler] = PlacedWait(Settler)]
    BY DEF Settling, passVars
  <1>2. TypeOK'
    <2>1. accepted' \in Nat /\ readThrough' \in Nat /\ waits \in WaitsType
      BY <1>1 DEF TrackerInv, TypeOK, LedgerType
    <2>2. Settler \in Waiters
      BY DEF DiscoveryAssumption, Waiters
    <2>3. PlacedWait(Settler) \in [state : {"none", "waiting", "released"}, upTo : Nat]
      BY <2>1, <2>2, PlacedType
    <2>4. waits' \in WaitsType
      BY <1>1, <2>1, <2>3 DEF WaitsType
    <2>5. LedgerType'
      BY <2>1, <2>4 DEF LedgerType
    <2>6. DiskType' /\ StateType' /\ QueueType' /\ PassType' /\ HistoryType'
      BY <1>1, UnchangedTypes DEF TrackerInv, TypeOK
    <2>7. JobsType'
      BY <1>1, UnchangedTypes DEF TrackerInv, TypeOK
    <2> QED
      BY <2>5, <2>6, <2>7 DEF TypeOK
  <1>3. VerdictInv'
    <2>1. ReadsInv' /\ QueueInv' /\ PassInv' /\ WindowsInv'
      BY <1>1 DEF TrackerInv, VerdictInv, ReadsInv, QueueInv, PassInv, WindowsInv, Reconciling, diskVars, stateVars,
                  queueVars, passVars, historyVars
    <2>4. UNCHANGED <<disk, held, everEstablished, queue, batch, draining, phase, requested, walked, inventory, past,
                      windows, stopped, written, seen, blind>>
      BY <1>1 DEF diskVars, stateVars, queueVars, passVars, historyVars
    <2>5. \A j \in Jobs : /\ MayBind(j)' = MayBind(j) /\ Unrecorded(j, seen[j])' = Unrecorded(j, seen[j])
                         /\ Unrecorded(j, written[j])' = Unrecorded(j, written[j])
      BY <2>4 DEF MayBind, Running, Unrecorded
    <2>6. \A p : OnTheWay(p)' = OnTheWay(p)
      BY <2>4 DEF OnTheWay
    <2>2. BindInv'
      BY <2>4, <2>5, <2>6 DEF TrackerInv, VerdictInv, BindInv
    <2>3. PastInv'
      BY <2>4, <2>5 DEF TrackerInv, VerdictInv, PastInv
    <2> QED
      BY <2>1, <2>2, <2>3 DEF VerdictInv
  <1>4. TruthInv'
    BY <1>1 DEF TrackerInv, TruthInv, HeldInv, Known, WalkInv, SetInv, ProjectInv, OnTheWay, Digests, diskVars,
                stateVars, queueVars, passVars, historyVars
  <1>5. LedgerInv'
    BY <1>1 DEF TrackerInv, LedgerInv, Queued, queueVars
  <1> QED
    BY <1>2, <1>3, <1>4, <1>5 DEF TrackerInv

\* The tracker keeps its invariants through every discovery.
LEMMA TrackerStepKeeps ==
    ASSUME DiscoveryAssumption, TrackerInv, [DiscoveryNext]_discoveryVars
    PROVE  TrackerInv'
  <1>1. CASE Settling
    BY <1>1, SettlingKeeps
  <1>2. CASE [Next]_vars
    <2>1. TypeOK /\ VerdictInv /\ TruthInv /\ LedgerInv
      BY DEF TrackerInv
    <2>2. ReadsInv /\ QueueInv /\ PassInv /\ WindowsInv /\ HeldInv /\ WalkInv /\ SetInv /\ ProjectInv
      BY <2>1 DEF VerdictInv, TruthInv
    <2>3. TypeOK'
      BY <1>2, <2>1, NextType
    <2>4. ReadsInv' /\ QueueInv' /\ PassInv' /\ WindowsInv'
      BY <1>2, <2>1, <2>2, ReadsStep, QueueStep, PassStep, WindowsStep
    <2>5. PastInv' /\ BindInv'
      BY <1>2, <2>1, PastStep, BindStep
    <2>6. HeldInv' /\ WalkInv' /\ SetInv' /\ ProjectInv'
      BY <1>2, <2>1, <2>2, HeldStep, WalkStep, SetStep, ProjectStep
    <2>7. LedgerInv'
      BY <1>2, <2>1, <2>2, LedgerStep
    <2>8. VerdictInv'
      BY <2>4, <2>5 DEF VerdictInv
    <2>9. TruthInv'
      BY <2>6 DEF TruthInv
    <2> QED
      BY <2>3, <2>7, <2>8, <2>9 DEF TrackerInv
  <1> QED
    BY <1>1, <1>2, DiscoverySteps

\* A step of the tracker within a discovery leaves each window's edges and verdict alone, and only adds to what a
\* running one records.
LEMMA EdgesKept ==
    ASSUME TypeOK, TrackerStep, NEW j \in Jobs
    PROVE  /\ windows'[j].state = windows[j].state /\ windows'[j].verdict = windows[j].verdict
           /\ windows'[j].start = windows[j].start /\ windows'[j].end = windows[j].end
           /\ windows'[j].unsettled = windows[j].unsettled
           /\ windows[j].paths \subseteq windows'[j].paths
           /\ ~windows'[j].caused => ~windows[j].caused
           /\ ~Running(j) => windows'[j] = windows[j]
  <1>0. JobsType /\ windows[j] \in WindowType
    BY DEF TypeOK, JobsType
  <1>1. CASE \/ \E p \in Paths : \E c \in Contents \cup {Absent} : Write(p, c)
             \/ \E p \in Paths : LoseEvent(p) \/ Deliver(p) \/ WalkRead(p)
             \/ Tick \/ Request \/ WatchFailed \/ EndBatch \/ StartPass \/ EndReconciliation \/ Query \/ Stop
             \/ \E ps \in SUBSET Paths : ReadNamedCall(ps)
    <2>1. windows' = windows
      BY <1>1 DEF Write, LoseEvent, Deliver, WalkRead, Tick, Request, WatchFailed, EndBatch, StartPass,
                  EndReconciliation, Query, Stop, ReadNamedCall
    <2> QED
      BY <2>1
  <1>2. CASE ReadNothing \/ WalkFails \/ \E p \in Paths : ReadFails(p)
    <2>1. windows' = RecordedCause(windows)
      BY <1>2 DEF ReadNothing, WalkFails, ReadFails
    <2>2. windows'[j] = IF Running(j) THEN [windows[j] EXCEPT !.caused = TRUE] ELSE windows[j]
      BY <2>1 DEF RecordedCause
    <2> HIDE DEF Running
    <2> QED
      BY <1>0, <2>2 DEF WindowType
  <1>3. ASSUME NEW ps \in SUBSET Paths, windows' = RecordedPaths(windows, ps)
        PROVE  /\ windows'[j].state = windows[j].state /\ windows'[j].verdict = windows[j].verdict
               /\ windows'[j].start = windows[j].start /\ windows'[j].end = windows[j].end
               /\ windows'[j].unsettled = windows[j].unsettled
               /\ windows[j].paths \subseteq windows'[j].paths
               /\ ~windows'[j].caused => ~windows[j].caused
               /\ ~Running(j) => windows'[j] = windows[j]
    <2>1. windows'[j] = IF Running(j) THEN [windows[j] EXCEPT !.paths = @ \cup ps] ELSE windows[j]
      BY <1>3 DEF RecordedPaths
    <2> HIDE DEF Running
    <2> QED
      BY <1>0, <2>1 DEF WindowType
  <1>4. ASSUME NEW p \in Paths, ReadPath(p) \/ ReadNamed(p)
        PROVE  windows' = windows \/ windows' = RecordedPaths(windows, {p})
    BY <1>4 DEF ReadPath, ReadNamed
  <1>5. CASE Settle
    <2>1. windows' = RecordedPaths(windows, IF everEstablished THEN ChangedPaths(held, inventory) ELSE {})
      BY <1>5 DEF Settle
    <2>2. (IF everEstablished THEN ChangedPaths(held, inventory) ELSE {}) \in SUBSET Paths
      BY DEF ChangedPaths
    <2> QED
      BY <1>3, <2>1, <2>2
  <1>6. CASE \E p \in Paths : ReadPath(p) \/ ReadNamed(p)
    <2>1. PICK p \in Paths : windows' = windows \/ windows' = RecordedPaths(windows, {p})
      BY <1>4, <1>6
    <2>2. CASE windows' = windows
      BY <2>2
    <2>3. CASE windows' = RecordedPaths(windows, {p})
      BY <1>3, <2>3
    <2> QED
      BY <2>1, <2>2, <2>3
  <1> QED
    BY <1>1, <1>2, <1>5, <1>6 DEF TrackerStep

\* The stages follow the windows through every step.
LEMMA StageStep ==
    ASSUME DiscoveryAssumption, TypeOK, StageInv, [DiscoveryNext]_discoveryVars
    PROVE  StageInv'
  <1>0. /\ Mark \in Jobs /\ Guard \in Jobs /\ Settler \in Jobs
        /\ windows \in [Jobs -> WindowType]
    BY DEF DiscoveryAssumption, TypeOK, JobsType
  <1>1. Mark # Guard /\ Mark # Settler /\ Guard # Settler
    BY DistinctJobs
  <1>2. CASE TrackerStep
    <2>1. \A j \in Jobs : /\ windows'[j].state = windows[j].state
                          /\ ~Running(j) => windows'[j] = windows[j]
      BY <1>2, EdgesKept
    <2>2. \A j \in Jobs : windows[j] = NoWindow => windows'[j] = NoWindow
      BY <2>1 DEF Running, NoWindow
    <2>3. stage' = stage
      BY <1>2 DEF TrackerStep
    <2> QED
      BY <1>0, <2>1, <2>2, <2>3 DEF StageInv
  <1>3. ASSUME NEW j \in {Mark, Guard}, BeginJob(j) \/ EndJob(j) \/ CloseJob(j)
        PROVE  \A i \in Jobs : i # j => windows'[i] = windows[i]
    BY <1>0, <1>3 DEF BeginJob, EndJob, CloseJob
  <1>4. ASSUME NEW j \in {Mark, Guard}, CloseJob(j)
        PROVE  windows'[j].state = "closed"
    BY <1>0, <1>4 DEF CloseJob, WindowType
  <1>5. ASSUME NEW j \in {Mark, Guard}, BeginJob(j) \/ EndJob(j) \/ CloseJob(j)
        PROVE  windows[j].state # "closed"
    BY <1>5 DEF BeginJob, EndJob, CloseJob
  <1>6. CASE DiscoveryBegins
    BY <1>0, <1>1, <1>3, <1>6 DEF DiscoveryBegins, StageInv
  <1>7. CASE DiscoveryReturns
    BY <1>0, <1>1, <1>3, <1>7 DEF DiscoveryReturns, StageInv
  <1>8. CASE DiscoveryJudged
    BY <1>0, <1>1, <1>3, <1>4, <1>8 DEF DiscoveryJudged, StageInv
  <1>9. CASE GuardBegins
    BY <1>0, <1>1, <1>3, <1>9 DEF GuardBegins, StageInv
  <1>10. CASE GuardReturns
    BY <1>0, <1>1, <1>3, <1>10 DEF GuardReturns, StageInv
  <1>11. CASE DiscoveryStored
    BY <1>0, <1>1, <1>3, <1>11 DEF DiscoveryStored, StageInv
  <1>12. CASE SettleBeforeDiscovery \/ SettleBeforeGuard
    BY <1>12 DEF SettleBeforeDiscovery, SettleBeforeGuard, Settling, StageInv
  <1>13. CASE BeginsNothing
    BY <1>13 DEF BeginsNothing, Query, StageInv
  <1>14. CASE DiscoveryStopped \/ UNCHANGED discoveryVars
    BY <1>14 DEF DiscoveryStopped, discoveryVars, vars, StageInv
  <1> QED
    BY <1>2, <1>6, <1>7, <1>8, <1>9, <1>10, <1>11, <1>12, <1>13, <1>14 DEF DiscoveryNext

\* A wait of a job or of the settler is over only once told so, and never by a reconciliation that starts.
LEMMA ReleasedBefore ==
    ASSUME TypeOK, TrackerStep, NEW j \in Jobs, waits'[j].state = "released"
    PROVE  waits[j].state = "released" \/ EndBatch \/ EndReconciliation \/ stopped'
  <1>0. LedgerType /\ waits \in WaitsType /\ j \in Waiters /\ j # Reader
    BY ConstantsAssumption DEF TypeOK, LedgerType, Waiters
  <1>1. CASE waits' = waits
    BY <1>1
  <1>2. CASE RequestReconciliation
    <2>1. waits' = Notified(waits, TRUE, readThrough) /\ readThrough \in Nat
      BY <1>0, <1>2 DEF RequestReconciliation, LedgerType
    <2> QED
      BY <1>0, <2>1, JobNotified
  <1>3. CASE \E ps \in SUBSET Paths : ReadNamedCall(ps)
    <2>1. waits' = [waits EXCEPT ![Reader] = PlacedWait(Reader)]
      BY <1>3 DEF ReadNamedCall
    <2> QED
      BY <1>0, <2>1 DEF WaitsType
  <1>4. CASE Settle
    <2>1. waits' = RaisedWaits(waits, Cardinality(RestampedPaths(held, inventory)), accepted')
      BY <1>4 DEF Settle
    <2>2. waits[j] \in [state : {"none", "waiting", "released"}, upTo : Nat]
      BY <1>0 DEF WaitsType
    <2> QED
      BY <1>0, <2>1, <2>2 DEF RaisedWaits
  <1>5. CASE Stop
    BY <1>5 DEF Stop
  <1>6. CASE Request \/ WatchFailed \/ \E p \in Paths : ReadFails(p)
    BY <1>1, <1>2, <1>6 DEF Request, WatchFailed, ReadFails, InputSetLost
  <1>7. CASE \/ \E p \in Paths : \E c \in Contents \cup {Absent} : Write(p, c)
             \/ \E p \in Paths : LoseEvent(p) \/ Deliver(p) \/ ReadPath(p) \/ ReadNamed(p) \/ WalkRead(p)
             \/ Tick \/ ReadNothing \/ StartPass \/ WalkFails \/ Query
    BY <1>1, <1>7 DEF Write, LoseEvent, Deliver, ReadPath, ReadNamed, WalkRead, Tick, ReadNothing, StartPass, WalkFails,
                      Query, ledgerVars
  <1> QED
    BY <1>3, <1>4, <1>5, <1>6, <1>7 DEF TrackerStep

\* A stop is never undone.
LEMMA StopStays ==
    ASSUME TypeOK, TrackerStep, stopped
    PROVE  stopped'
  BY DEF TrackerStep, Write, Tick, LoseEvent, Deliver, Request, WatchFailed, ReadNothing, ReadPath, ReadFails, ReadNamed,
         EndBatch, StartPass, WalkRead, Settle, WalkFails, EndReconciliation, Query, ReadNamedCall, Stop

\* A wait placed for the inputs to settle that is over at once found nothing being read.
LEMMA PlacedIdle ==
    ASSUME ConstantsAssumption, TypeOK, LedgerInv, NEW j \in Jobs, ~stopped,
           UNCHANGED <<accepted, readThrough, phase>>, PlacedWait(j).state = "released"
    PROVE  ~draining
  <1>1. j # Reader
    BY DEF ConstantsAssumption
  <1>2. readThrough >= accepted
    BY <1>1 DEF PlacedWait, CanEnd
  <1> QED
    BY <1>2 DEF LedgerInv, TypeOK, LedgerType, QueueType

\* No read is left uncommitted in a turn that a wait's end opens.
LEMMA CommittedStep ==
    ASSUME DiscoveryAssumption, TrackerInv, CommittedInv, [DiscoveryNext]_discoveryVars
    PROVE  CommittedInv'
  <1>0. /\ TypeOK /\ LedgerInv /\ waits \in WaitsType /\ windows \in [Jobs -> WindowType]
        /\ Mark \in Jobs /\ Guard \in Jobs /\ Settler \in Jobs /\ stopped \in BOOLEAN
        /\ Mark \in Waiters /\ Guard \in Waiters /\ Settler \in Waiters
    BY DEF TrackerInv, TypeOK, LedgerType, JobsType, DiscoveryAssumption, Waiters
  <1>1. Mark # Guard /\ Mark # Settler /\ Guard # Settler
    BY DistinctJobs
  <1>2. CASE changed' = FALSE
    BY <1>2 DEF CommittedInv
  <1>3. ASSUME TrackerStep, changed' = changed, draining => draining'
        PROVE  CommittedInv'
    <2>1. \A j \in Jobs : windows'[j].state = windows[j].state
      BY <1>0, <1>3, EdgesKept
    <2>2. CASE EndBatch
      BY <1>2, <2>2 DEF EndBatch, Commit
    <2>3. CASE EndReconciliation
      <3>1. ~draining
        BY <2>3 DEF EndReconciliation
      <3>2. changed = FALSE
        BY <1>0, <3>1 DEF CommittedInv, TypeOK, StateType
      <3> QED
        BY <1>2, <1>3, <3>2
    <2>4. CASE ~EndBatch /\ ~EndReconciliation
      <3>1. \A j \in Jobs : waits'[j].state = "released" => waits[j].state = "released" \/ stopped'
        BY <1>0, <1>3, <2>4, ReleasedBefore
      <3>2. stage' = stage
        BY <1>3 DEF TrackerStep
      <3>3. ~stopped' => ~stopped
        BY <1>0, <1>3, StopStays
      <3>4. DiscoveryTurn' /\ ~stopped' => DiscoveryTurn
        BY <1>0, <3>1, <3>2 DEF DiscoveryTurn, HasSettled
      <3> QED
        BY <1>0, <1>3, <2>1, <3>1, <3>2, <3>3, <3>4 DEF CommittedInv
    <2> QED
      BY <2>2, <2>3, <2>4
  <1>4. ASSUME NEW p \in Paths, ReadPath(p) \/ ReadNamed(p), TrackerStep
        PROVE  CommittedInv'
    <2>1. draining /\ draining' = draining /\ waits' = waits /\ stopped' = stopped /\ ~TurnOpen
      BY <1>4 DEF ReadPath, ReadNamed, ledgerVars
    <2>2. \A j \in Jobs : windows'[j].state = windows[j].state
      BY <1>0, <1>4, EdgesKept
    <2>3. ~DiscoveryTurn /\ stage' = stage
      BY <1>4, <2>1 DEF TrackerStep
    <2>4. ~DiscoveryTurn'
      BY <2>1, <2>3 DEF DiscoveryTurn, HasSettled
    <2>5. \A j \in Jobs : ~(windows[j].state = "ending" /\ waits[j].state = "released")
      BY <2>1 DEF TurnOpen
    <2> QED
      BY <1>0, <2>1, <2>2, <2>4, <2>5 DEF CommittedInv
  <1>5. CASE TrackerStep
    <2>1. CASE \E p \in Paths : ReadPath(p) \/ ReadNamed(p)
      BY <1>4, <1>5, <2>1
    <2>2. CASE EndBatch \/ Settle
      BY <1>2, <2>2 DEF EndBatch, Settle, Commit
    <2>3. CASE \/ \E p \in Paths : Deliver(p)
               \/ \E ps \in SUBSET Paths : ReadNamedCall(ps)
      <3>1. changed' = changed /\ (draining => draining')
        BY <2>3 DEF Deliver, ReadNamedCall, ProcessQueue
      <3> QED
        BY <1>3, <1>5, <3>1
    <2>4. CASE EndReconciliation
      <3>1. changed' = changed /\ ~draining
        BY <2>4 DEF EndReconciliation
      <3> QED
        BY <1>3, <1>5, <3>1
    <2>5. CASE \/ \E p \in Paths : \E c \in Contents \cup {Absent} : Write(p, c)
               \/ \E p \in Paths : LoseEvent(p) \/ ReadFails(p) \/ WalkRead(p)
               \/ Tick \/ Request \/ WatchFailed \/ ReadNothing \/ StartPass \/ WalkFails \/ Query \/ Stop
      <3>1. UNCHANGED <<changed, draining>>
        BY <2>5 DEF Write, LoseEvent, ReadFails, WalkRead, Tick, Request, WatchFailed, ReadNothing, StartPass,
                    WalkFails, Query, Stop, stateVars, queueVars
      <3> QED
        BY <1>3, <1>5, <3>1
    <2> QED
      BY <1>5, <2>1, <2>2, <2>3, <2>4, <2>5 DEF TrackerStep
  <1>6. CASE SettleBeforeDiscovery \/ SettleBeforeGuard
    <2>1. /\ UNCHANGED <<changed, draining, windows, stopped, accepted, readThrough, phase>>
          /\ waits' = [waits EXCEPT ![Settler] = PlacedWait(Settler)]
      BY <1>6 DEF SettleBeforeDiscovery, SettleBeforeGuard, Settling, stateVars, queueVars
    <2>2. waits'[Settler] = PlacedWait(Settler) /\ waits'[Mark] = waits[Mark] /\ waits'[Guard] = waits[Guard]
      BY <1>0, <1>1, <2>1 DEF WaitsType
    <2>3. HasSettled' /\ ~stopped => ~draining
      BY <1>0, <2>1, <2>2, ConstantsAssumption, PlacedIdle DEF HasSettled
    <2>4. DiscoveryTurn' /\ stage' # "ended" => HasSettled'
      BY DEF DiscoveryTurn
    <2> QED
      BY <2>1, <2>2, <2>3, <2>4 DEF CommittedInv
  <1>7. CASE DiscoveryBegins \/ GuardBegins
    <2>1. PICK j \in {Mark, Guard} : BeginJob(j)
      BY <1>7 DEF DiscoveryBegins, GuardBegins
    <2>2. /\ UNCHANGED <<changed, draining, waits, stopped>>
          /\ windows'[j].state = "running"
          /\ \A i \in Jobs : i # j => windows'[i] = windows[i]
      BY <1>0, <2>1 DEF BeginJob, queueVars, ledgerVars, NoWindow
    <2>3. stage' \in {"collecting", "guarding"}
      BY <1>7 DEF DiscoveryBegins, GuardBegins
    <2>4. ~DiscoveryTurn'
      BY <2>3 DEF DiscoveryTurn
    <2> QED
      BY <1>0, <2>2, <2>4 DEF CommittedInv
  <1>8. CASE DiscoveryReturns \/ GuardReturns
    <2>1. PICK j \in {Mark, Guard} : EndJob(j)
      BY <1>8 DEF DiscoveryReturns, GuardReturns
    <2>2. /\ UNCHANGED <<changed, draining, stopped, accepted, readThrough, phase>>
          /\ waits' = [waits EXCEPT ![j] = PlacedWait(j)]
          /\ \A i \in Jobs : i # j => windows'[i] = windows[i]
      BY <1>0, <2>1 DEF EndJob, stateVars, queueVars
    <2>3. waits'[j] = PlacedWait(j) /\ \A i \in {Mark, Guard} : i # j => waits'[i] = waits[i]
      BY <1>0, <2>2 DEF WaitsType
    <2>4. waits'[j].state = "released" /\ ~stopped => ~draining
      BY <1>0, <2>2, <2>3, ConstantsAssumption, PlacedIdle
    <2>5. stage' = stage /\ stage \in {"collecting", "guarding"}
      BY <1>8 DEF DiscoveryReturns, GuardReturns
    <2>6. ~DiscoveryTurn'
      BY <2>5 DEF DiscoveryTurn
    <2> QED
      BY <1>0, <2>2, <2>3, <2>4, <2>6 DEF CommittedInv
  <1>9. CASE DiscoveryJudged \/ DiscoveryStored
    <2>1. PICK j \in {Mark, Guard} : CloseJob(j)
      BY <1>9 DEF DiscoveryJudged, DiscoveryStored
    <2>2. /\ UNCHANGED <<changed, draining, stopped, waits>>
          /\ windows'[j].state = "closed"
          /\ \A i \in Jobs : i # j => windows'[i] = windows[i]
      BY <1>0, <2>1 DEF CloseJob, queueVars, ledgerVars, WindowType
    <2>3. DiscoveryTurn' => stage' = "ended"
      BY <1>9 DEF DiscoveryJudged, DiscoveryStored, DiscoveryTurn
    <2> QED
      BY <1>0, <2>2, <2>3 DEF CommittedInv
  <1>10. CASE BeginsNothing \/ DiscoveryStopped
    <2>1. UNCHANGED <<changed, draining, stopped, waits, windows>> /\ stage' \in {"planned", "unstored"}
      BY <1>10 DEF BeginsNothing, DiscoveryStopped, Query, vars, stateVars, queueVars, ledgerVars
    <2>2. ~DiscoveryTurn'
      BY <2>1 DEF DiscoveryTurn
    <2> QED
      BY <2>1, <2>2 DEF CommittedInv
  <1>11. CASE UNCHANGED discoveryVars
    BY <1>11 DEF discoveryVars, vars, stateVars, queueVars, ledgerVars, CommittedInv, DiscoveryTurn, HasSettled
  <1> QED
    BY <1>5, <1>6, <1>7, <1>8, <1>9, <1>10, <1>11 DEF DiscoveryNext

\* A view taken with nothing uncommitted gives the digests of the reads held.
LEMMA CommittedView ==
    ASSUME ProjectInv, ~changed
    PROVE  ProjectDigests = Digests(held)
  BY DEF ProjectInv, ProjectDigests

\* A step of the tracker that records no path in a window that may still be fingerprinted changes no digest.
LEMMA DigestsKept ==
    ASSUME TypeOK, TrackerStep, NEW j \in Jobs, Running(j), windows'[j].paths = {}, everEstablished
    PROVE  Digests(held)' = Digests(held)
  <1>0. held \in [Paths -> Reads] /\ windows[j] \in WindowType
    BY DEF TypeOK, StateType, JobsType
  <1>1. ASSUME NEW ps \in SUBSET Paths, windows' = RecordedPaths(windows, ps)
        PROVE  ps = {}
    <2>1. windows'[j] = [windows[j] EXCEPT !.paths = @ \cup ps]
      BY <1>1 DEF RecordedPaths
    <2> QED
      BY <1>0, <2>1 DEF WindowType
  <1>2. ASSUME NEW p \in Paths, NEW read, held' = [held EXCEPT ![p] = read], read.content = held[p].content
        PROVE  Digests(held)' = Digests(held)
    <2>1. \A r \in Paths : held'[r].content = held[r].content
      BY <1>0, <1>2
    <2> QED
      BY <2>1 DEF Digests
  <1>3. ASSUME NEW p \in Paths, ReadPath(p) PROVE Digests(held)' = Digests(held)
    <2>1. held' = [held EXCEPT ![p] = ReadEntry(p)]
      BY <1>3 DEF ReadPath
    <2>2. Rested(held[p], ReadEntry(p)) \/ windows' = RecordedPaths(windows, {p})
      BY <1>3 DEF ReadPath
    <2>3. {p} # {}
      OBVIOUS
    <2>4. Rested(held[p], ReadEntry(p))
      BY <1>1, <2>2, <2>3
    <2>5. ReadEntry(p).content = held[p].content
      BY <2>4 DEF Rested, Unmoved
    <2> QED
      BY <1>2, <2>1, <2>5
  <1>4. ASSUME NEW p \in Paths, ReadNamed(p) PROVE Digests(held)' = Digests(held)
    <2>1. held' = held \/ windows' = RecordedPaths(windows, {p})
      BY <1>4 DEF ReadNamed
    <2>2. {p} # {}
      OBVIOUS
    <2>3. held' = held
      BY <1>1, <2>1, <2>2
    <2> QED
      BY <2>3 DEF Digests
  <1>5. CASE Settle
    <2>1. /\ windows' = RecordedPaths(windows, ChangedPaths(held, inventory))
          /\ held' = [p \in Paths |-> KeptRead(held[p], inventory[p], p \in Queued(queue))]
      BY <1>5 DEF Settle
    <2>2. ChangedPaths(held, inventory) \in SUBSET Paths
      BY DEF ChangedPaths
    <2>3. ChangedPaths(held, inventory) = {}
      BY <1>1, <2>1, <2>2
    <2>4. \A p \in Paths : held[p].content = inventory[p].content
      BY <2>3 DEF ChangedPaths
    <2>5. \A p \in Paths : held'[p].content = held[p].content
      BY <2>1, <2>4 DEF KeptRead
    <2> QED
      BY <2>5 DEF Digests
  <1>6. CASE \/ \E p \in Paths : \E c \in Contents \cup {Absent} : Write(p, c)
             \/ \E p \in Paths : LoseEvent(p) \/ Deliver(p) \/ ReadFails(p) \/ WalkRead(p)
             \/ Tick \/ Request \/ WatchFailed \/ ReadNothing \/ EndBatch \/ StartPass \/ WalkFails
             \/ EndReconciliation \/ Query \/ Stop
             \/ \E ps \in SUBSET Paths : ReadNamedCall(ps)
    <2>1. held' = held
      BY <1>6 DEF Write, LoseEvent, Deliver, ReadFails, WalkRead, Tick, Request, WatchFailed, ReadNothing, EndBatch,
                  StartPass, WalkFails, EndReconciliation, Query, Stop, ReadNamedCall, stateVars
    <2> QED
      BY <2>1 DEF Digests
  <1> QED
    BY <1>3, <1>4, <1>5, <1>6 DEF TrackerStep

\* Every window of the discovery opened on available inputs opened on the digests held, until it records a path.
LEMMA StartStep ==
    ASSUME DiscoveryAssumption, TrackerInv, CommittedInv, StartInv, [DiscoveryNext]_discoveryVars
    PROVE  StartInv'
  <1>0. /\ TypeOK /\ windows \in [Jobs -> WindowType] /\ Mark \in Jobs /\ Guard \in Jobs
        /\ BindInv /\ ProjectInv
    BY DEF TrackerInv, TypeOK, JobsType, DiscoveryAssumption, VerdictInv, TruthInv
  <1> SUFFICES ASSUME NEW j \in {Mark, Guard}, MayBind(j)', windows'[j].paths = {}
               PROVE  windows'[j].start = Digests(held)'
    BY DEF StartInv
  <1>1. CASE TrackerStep
    <2>1. /\ windows'[j].state = windows[j].state /\ windows'[j].start = windows[j].start
          /\ windows'[j].unsettled = windows[j].unsettled /\ windows[j].paths \subseteq windows'[j].paths
          /\ ~windows'[j].caused => ~windows[j].caused
      BY <1>0, <1>1, EdgesKept
    <2>2. MayBind(j) /\ windows[j].paths = {}
      BY <2>1 DEF MayBind, Running
    <2>3. windows[j].start = Digests(held)
      BY <2>2 DEF StartInv
    <2>4. Running(j) /\ everEstablished
      BY <1>0, <2>2 DEF BindInv, MayBind
    <2>5. Digests(held)' = Digests(held)
      BY <1>0, <1>1, <2>4, DigestsKept
    <2> QED
      BY <2>1, <2>3, <2>5
  <1>2. ASSUME windows'[j] = windows[j], held' = held PROVE windows'[j].start = Digests(held)'
    BY <1>2 DEF StartInv, MayBind, Running, Digests
  <1>3. CASE DiscoveryBegins \/ GuardBegins
    <2>1. PICK i \in {Mark, Guard} : BeginJob(i)
      BY <1>3 DEF DiscoveryBegins, GuardBegins
    <2>2. held' = held
      BY <2>1 DEF BeginJob
    <2>3. CASE i # j
      BY <1>0, <1>2, <2>1, <2>2, <2>3 DEF BeginJob
    <2>4. CASE i = j
      <3>1. windows'[j].unsettled = Unavailable /\ windows'[j].start = ViewDigests
        BY <1>0, <2>1, <2>4 DEF BeginJob, NoWindow
      <3>2. ~Unavailable
        BY <3>1 DEF MayBind
      <3>3. ~stopped /\ DiscoveryTurn /\ stage # "ended"
        BY <1>3 DEF DiscoveryBegins, GuardBegins, DiscoveryTurn
      <3>4. ProjectDigests = Digests(held)
        BY <1>0, <3>3, CommittedView DEF CommittedInv
      <3> QED
        BY <2>2, <3>1, <3>2, <3>4 DEF ViewDigests, Digests
    <2> QED
      BY <2>3, <2>4
  <1>4. CASE DiscoveryReturns \/ GuardReturns
    <2>1. PICK i \in {Mark, Guard} : EndJob(i)
      BY <1>4 DEF DiscoveryReturns, GuardReturns
    <2>2. held' = held
      BY <2>1 DEF EndJob, stateVars
    <2>3. CASE i # j
      BY <1>0, <1>2, <2>1, <2>2, <2>3 DEF EndJob
    <2>4. CASE i = j
      <3>1. /\ windows[j].state = "running" /\ windows'[j].start = windows[j].start
            /\ windows'[j].unsettled = windows[j].unsettled /\ windows'[j].caused = windows[j].caused
            /\ windows'[j].paths = windows[j].paths
        BY <1>0, <2>1, <2>4 DEF EndJob, WindowType
      <3>2. MayBind(j) /\ windows[j].paths = {}
        BY <3>1 DEF MayBind, Running
      <3> QED
        BY <2>2, <3>1, <3>2 DEF StartInv, Digests
    <2> QED
      BY <2>3, <2>4
  <1>5. CASE DiscoveryJudged \/ DiscoveryStored
    <2>1. PICK i \in {Mark, Guard} : CloseJob(i)
      BY <1>5 DEF DiscoveryJudged, DiscoveryStored
    <2>2. i # j
      BY <1>0, <2>1 DEF CloseJob, MayBind, Running, WindowType
    <2> QED
      BY <1>0, <1>2, <2>1, <2>2 DEF CloseJob
  <1>6. CASE SettleBeforeDiscovery \/ SettleBeforeGuard
    BY <1>2, <1>6 DEF SettleBeforeDiscovery, SettleBeforeGuard, Settling, stateVars
  <1>7. CASE BeginsNothing \/ DiscoveryStopped \/ UNCHANGED discoveryVars
    BY <1>2, <1>7 DEF BeginsNothing, Query, DiscoveryStopped, discoveryVars, vars, stateVars
  <1> QED
    BY <1>1, <1>3, <1>4, <1>5, <1>6, <1>7 DEF DiscoveryNext

\* A window judged fingerprinted closes on the digests it opened on.
LEMMA JudgedStep ==
    ASSUME DiscoveryAssumption, TrackerInv, CommittedInv, StartInv, JudgedUnchanged, [DiscoveryNext]_discoveryVars
    PROVE  JudgedUnchanged'
  <1>0. /\ TypeOK /\ windows \in [Jobs -> WindowType] /\ Mark \in Jobs /\ Guard \in Jobs /\ ProjectInv
    BY DEF TrackerInv, TypeOK, JobsType, DiscoveryAssumption, TruthInv
  <1> SUFFICES ASSUME NEW j \in {Mark, Guard}, windows'[j].verdict = "fingerprinted"
               PROVE  windows'[j].start = windows'[j].end
    BY DEF JudgedUnchanged
  <1>1. ASSUME windows'[j].verdict = windows[j].verdict, windows'[j].start = windows[j].start,
               windows'[j].end = windows[j].end
        PROVE  windows'[j].start = windows'[j].end
    BY <1>1 DEF JudgedUnchanged
  <1>2. CASE TrackerStep
    BY <1>0, <1>1, <1>2, EdgesKept
  <1>3. CASE DiscoveryBegins \/ GuardBegins
    <2>1. PICK i \in {Mark, Guard} : BeginJob(i)
      BY <1>3 DEF DiscoveryBegins, GuardBegins
    <2>2. i # j
      BY <1>0, <2>1 DEF BeginJob, NoWindow
    <2> QED
      BY <1>0, <1>1, <2>1, <2>2 DEF BeginJob
  <1>4. CASE DiscoveryReturns \/ GuardReturns
    <2>1. PICK i \in {Mark, Guard} : EndJob(i)
      BY <1>4 DEF DiscoveryReturns, GuardReturns
    <2> QED
      BY <1>0, <1>1, <2>1 DEF EndJob, WindowType
  <1>5. CASE DiscoveryJudged \/ DiscoveryStored
    <2>1. PICK i \in {Mark, Guard} : CloseJob(i)
      BY <1>5 DEF DiscoveryJudged, DiscoveryStored
    <2>2. CASE i # j
      BY <1>0, <1>1, <2>1, <2>2 DEF CloseJob
    <2>3. CASE i = j
      <3>1. /\ windows[j].state = "ending" /\ waits[j].state = "released"
            /\ windows'[j].verdict = Verdict(windows[j], Unavailable)
            /\ windows'[j].start = windows[j].start /\ windows'[j].end = ViewDigests
        BY <1>0, <2>1, <2>3 DEF CloseJob, WindowType
      <3>2. ~windows[j].unsettled /\ ~windows[j].caused /\ windows[j].paths = {} /\ ~Unavailable
        BY <1>0, <3>1 DEF Verdict, WindowType
      <3>3. windows[j].start = Digests(held)
        BY <3>1, <3>2 DEF StartInv, MayBind, Running
      <3>4. ~changed
        BY <3>1, <3>2 DEF CommittedInv, Unavailable, Incomplete
      <3> QED
        BY <1>0, <3>1, <3>2, <3>3, <3>4, CommittedView DEF ViewDigests
    <2> QED
      BY <2>2, <2>3
  <1>6. CASE SettleBeforeDiscovery \/ SettleBeforeGuard
    BY <1>1, <1>6 DEF SettleBeforeDiscovery, SettleBeforeGuard, Settling
  <1>7. CASE BeginsNothing \/ DiscoveryStopped \/ UNCHANGED discoveryVars
    BY <1>1, <1>7 DEF BeginsNothing, Query, DiscoveryStopped, discoveryVars, vars
  <1> QED
    BY <1>2, <1>3, <1>4, <1>5, <1>6, <1>7 DEF DiscoveryNext

\* Taking the next batch leaves nothing accepted that is neither queued nor read by the drain's end.
LEMMA ProcessQueueCatchesUp ==
    ASSUME NEW q \in [Paths -> {"none", "change", "named"}], NEW b \in BOOLEAN, accepted' \in Nat,
           ProcessQueue(q, accepted', b),
           Queued(q) = {} => IF b THEN through >= accepted' ELSE readThrough' >= accepted'
    PROVE  CaughtUpInv'
  <1>1. CASE Queued(q) = {} \/ b \/ phase' # "idle" \/ stopped
    <2>1. queue' = q /\ through' = through /\ draining' = b
      BY <1>1 DEF ProcessQueue
    <2> QED
      BY <2>1 DEF CaughtUpInv
  <1>2. CASE ~(Queued(q) = {} \/ b \/ phase' # "idle" \/ stopped)
    <2>1. through' = accepted' /\ draining' = TRUE
      BY <1>2 DEF ProcessQueue
    <2> QED
      BY <2>1 DEF CaughtUpInv
  <1> QED
    BY <1>1, <1>2

\* With nothing queued, everything accepted is read or being read, after every step of the tracker.
LEMMA CaughtUpStep == TypeOK /\ LedgerInv /\ CaughtUpInv /\ [Next]_vars => CaughtUpInv'
  <1> SUFFICES ASSUME TypeOK, LedgerInv, CaughtUpInv, [Next]_vars PROVE CaughtUpInv'
    OBVIOUS
  <1>0. /\ accepted \in Nat /\ readThrough \in Nat /\ through \in Nat /\ draining \in BOOLEAN
        /\ queue \in [Paths -> {"none", "change", "named"}]
    BY DEF TypeOK, QueueType, LedgerType
  <1>1. ASSUME NEW p \in Paths, Deliver(p) PROVE CaughtUpInv'
    <2>1. accepted' = accepted + 1 /\ ProcessQueue(Enqueued(queue, {p}), accepted', draining)
      BY <1>1 DEF Deliver
    <2>2. Enqueued(queue, {p}) \in [Paths -> {"none", "change", "named"}]
      BY <1>0 DEF Enqueued
    <2>3. p \in Queued(Enqueued(queue, {p}))
      BY DEF Queued, Enqueued
    <2> QED
      BY <1>0, <2>1, <2>2, <2>3, ProcessQueueCatchesUp
  <1>2. ASSUME NEW ps \in SUBSET Paths, ReadNamedCall(ps) PROVE CaughtUpInv'
    <2> DEFINE added == {p \in {p \in ps : Holds(held, p) \/ disk[p].content # Absent} : queue[p] = "none"}
               reads == ~Reconciling /\ established
               q == IF reads THEN [p \in Paths |-> IF p \in added THEN "named" ELSE queue[p]] ELSE queue
    <2>1. /\ accepted' = IF reads THEN accepted + Cardinality(added) ELSE accepted
          /\ readThrough' = readThrough /\ ProcessQueue(q, accepted', draining)
      BY <1>2 DEF ReadNamedCall
    <2>2. added \in SUBSET Paths /\ q \in [Paths -> {"none", "change", "named"}]
      BY <1>0
    <2>3. Queued(q) = {} => Queued(queue) = {} /\ (reads => added = {})
      BY <1>0 DEF Queued
    <2>4. Cardinality(added) \in Nat /\ (added = {} => Cardinality(added) = 0)
      BY <2>2, CountType, FS_EmptySet
    <2> HIDE DEF added, reads, q
    <2>5. accepted' \in Nat /\ (Queued(q) = {} => accepted' = accepted)
      BY <1>0, <2>1, <2>3, <2>4
    <2>6. Queued(q) = {} => IF draining THEN through >= accepted' ELSE readThrough' >= accepted'
      BY <2>1, <2>3, <2>5 DEF CaughtUpInv
    <2> QED
      BY <1>0, <2>1, <2>2, <2>5, <2>6, ProcessQueueCatchesUp
  <1>3. CASE EndReconciliation
    <2>1. /\ UNCHANGED <<accepted, readThrough>> /\ ProcessQueue(queue, accepted, FALSE) /\ ~draining
      BY <1>3 DEF EndReconciliation
    <2> QED
      BY <1>0, <2>1, ProcessQueueCatchesUp DEF CaughtUpInv
  <1>4. CASE EndBatch
    <2>1. /\ UNCHANGED <<accepted, phase>> /\ draining
          /\ readThrough' = IF through > readThrough THEN through ELSE readThrough
      BY <1>4 DEF EndBatch
    <2>2. Queued(queue) = {} => readThrough' >= accepted'
      BY <1>0, <2>1 DEF CaughtUpInv
    <2>3. CASE Queued(queue) = {} \/ Reconciling \/ stopped
      <3>1. draining' = FALSE /\ queue' = queue
        BY <1>4, <2>3 DEF EndBatch
      <3> QED
        BY <2>2, <3>1 DEF CaughtUpInv
    <2>4. CASE ~(Queued(queue) = {} \/ Reconciling \/ stopped)
      <3>1. ProcessQueue(queue, accepted, FALSE)
        BY <1>4, <2>4 DEF EndBatch
      <3> QED
        BY <1>0, <2>1, <2>2, <3>1, ProcessQueueCatchesUp
    <2> QED
      BY <2>3, <2>4
  <1>5. CASE Settle
    <2> DEFINE restamped == RestampedPaths(held, inventory)
    <2>1. /\ UNCHANGED <<draining, through, readThrough>>
          /\ queue' = Enqueued(queue, restamped) /\ accepted' = accepted + Cardinality(restamped)
      BY <1>5 DEF Settle
    <2>2. restamped \in SUBSET Paths
      BY DEF RestampedPaths
    <2>3. Queued(queue') = {} => Queued(queue) = {} /\ restamped = {}
      BY <2>1, <2>2 DEF Queued, Enqueued
    <2>4. restamped = {} => Cardinality(restamped) = 0
      BY FS_EmptySet
    <2> HIDE DEF restamped
    <2> QED
      BY <1>0, <2>1, <2>3, <2>4 DEF CaughtUpInv
  <1>6. CASE \/ \E p \in Paths : \E c \in Contents \cup {Absent} : Write(p, c)
             \/ \E p \in Paths : \/ LoseEvent(p) \/ ReadPath(p) \/ ReadFails(p) \/ ReadNamed(p) \/ WalkRead(p)
             \/ Tick \/ Request \/ WatchFailed \/ ReadNothing \/ StartPass \/ WalkFails \/ Query \/ Stop
             \/ \E j \in Jobs : BeginJob(j) \/ EndJob(j) \/ CloseJob(j)
             \/ UNCHANGED vars
    <2>1. UNCHANGED <<queue, draining, through, accepted, readThrough>>
      BY <1>6 DEF Write, LoseEvent, ReadPath, ReadFails, ReadNamed, WalkRead, Tick, Request, WatchFailed,
                  ReadNothing, StartPass, WalkFails, Query, Stop, BeginJob, EndJob, CloseJob, vars, queueVars, ledgerVars
    <2> QED
      BY <2>1 DEF CaughtUpInv
  <1> QED
    BY <1>1, <1>2, <1>3, <1>4, <1>5, <1>6 DEF Next

\* Taking the next batch of event reads puts them in flight.
LEMMA ProcessQueueUnnamed ==
    ASSUME QueueType, NEW q \in [Paths -> {"none", "change"}], NEW n, NEW b \in BOOLEAN, ProcessQueue(q, n, b),
           b => inFlight # {} /\ \A p \in Paths : batch[p] # "named",
           ~b => \A p \in Paths : batch[p] = "none"
    PROVE  /\ \A p \in Paths : queue'[p] # "named" /\ batch'[p] # "named"
           /\ draining' => inFlight' # {}
  <1>1. CASE Queued(q) = {} \/ b \/ phase' # "idle" \/ stopped
    <2>1. queue' = q /\ batch' = batch /\ inFlight' = inFlight /\ draining' = b
      BY <1>1 DEF ProcessQueue
    <2> QED
      BY <2>1
  <1>2. CASE ~(Queued(q) = {} \/ b \/ phase' # "idle" \/ stopped)
    <2>1. queue' = NothingQueued /\ batch' = q /\ inFlight' = Pending(q)
      BY <1>2 DEF ProcessQueue
    <2>2. Pending(q) # {}
      BY <1>2 DEF Queued, Pending
    <2> QED
      BY <2>1, <2>2 DEF NothingQueued
  <1> QED
    BY <1>1, <1>2

\* With no file named, what is queued and read are events' reads alone, which count as pending until the drain ends.
LEMMA UnnamedStep == TypeOK /\ QueueInv /\ UnnamedInv /\ [Next]_vars => UnnamedInv'
  <1> SUFFICES ASSUME TypeOK, QueueInv, UnnamedInv, [Next]_vars, counts'.named = 0
               PROVE  /\ \A p \in Paths : queue'[p] # "named" /\ batch'[p] # "named"
                      /\ draining' => inFlight' # {}
    BY DEF UnnamedInv
  <1>0. /\ counts \in [writes : Nat, requests : Nat, failures : Nat, named : Nat] /\ QueueType
        /\ queue \in [Paths -> {"none", "change", "named"}] /\ batch \in [Paths -> {"none", "change", "named"}]
        /\ draining \in BOOLEAN
    BY DEF TypeOK, JobsType, QueueType
  <1>1. ASSUME NEW ps \in SUBSET Paths, ReadNamedCall(ps) PROVE FALSE
    <2>1. counts'.named = counts.named + 1 /\ counts.named \in Nat
      BY <1>0, <1>1 DEF ReadNamedCall
    <2> QED
      BY <2>1
  <1>2. counts.named = 0
    <2>1. ASSUME NEW p \in Paths, ReadNamed(p) PROVE counts'.named = counts.named
      BY <1>0, <2>1 DEF ReadNamed
    <2>2. CASE \/ \E p \in Paths : \E c \in Contents \cup {Absent} : Write(p, c)
               \/ \E p \in Paths : LoseEvent(p) \/ Deliver(p) \/ ReadPath(p) \/ ReadFails(p) \/ WalkRead(p)
               \/ Tick \/ Request \/ WatchFailed \/ ReadNothing \/ EndBatch \/ StartPass \/ Settle \/ WalkFails
               \/ EndReconciliation \/ Query \/ Stop
               \/ \E j \in Jobs : BeginJob(j) \/ EndJob(j) \/ CloseJob(j)
               \/ UNCHANGED vars
      <3>1. \/ counts' = counts
            \/ counts' = [counts EXCEPT !.writes = @ + 1]
            \/ counts' = [counts EXCEPT !.requests = @ + 1]
            \/ counts' = [counts EXCEPT !.failures = @ + 1]
        BY <2>2 DEF Write, LoseEvent, Deliver, ReadPath, ReadFails, WalkRead, Tick, Request, WatchFailed, ReadNothing,
                    EndBatch, StartPass, Settle, WalkFails, EndReconciliation, Query, Stop, BeginJob, EndJob, CloseJob,
                    vars
      <3> QED
        BY <1>0, <3>1
    <2> QED
      BY <1>1, <2>1, <2>2 DEF Next
  <1>3. /\ \A p \in Paths : queue[p] # "named" /\ batch[p] # "named"
        /\ draining => inFlight # {}
    BY <1>2 DEF UnnamedInv
  <1>4. queue \in [Paths -> {"none", "change"}]
    BY <1>0, <1>3
  <1>5. ~draining => \A p \in Paths : batch[p] = "none"
    BY DEF QueueInv
  <1>6. ASSUME NEW p \in Paths, Deliver(p)
        PROVE  /\ \A r \in Paths : queue'[r] # "named" /\ batch'[r] # "named"
               /\ draining' => inFlight' # {}
    <2>1. ProcessQueue(Enqueued(queue, {p}), accepted', draining)
      BY <1>6 DEF Deliver
    <2>2. Enqueued(queue, {p}) \in [Paths -> {"none", "change"}]
      BY <1>4 DEF Enqueued
    <2> QED
      BY <1>0, <1>3, <1>5, <2>1, <2>2, ProcessQueueUnnamed
  <1>7. CASE EndReconciliation
    <2>1. ProcessQueue(queue, accepted, FALSE) /\ ~draining
      BY <1>7 DEF EndReconciliation
    <2> QED
      BY <1>0, <1>3, <1>4, <1>5, <2>1, ProcessQueueUnnamed
  <1>8. CASE EndBatch
    <2>1. CASE Queued(queue) = {} \/ Reconciling \/ stopped
      <3>1. draining' = FALSE /\ queue' = queue /\ batch' = NothingQueued
        BY <1>8, <2>1 DEF EndBatch
      <3> QED
        BY <1>3, <3>1 DEF NothingQueued
    <2>2. CASE ~(Queued(queue) = {} \/ Reconciling \/ stopped)
      <3>1. ProcessQueue(queue, accepted, FALSE) /\ phase' = phase
        BY <1>8, <2>2 DEF EndBatch
      <3>2. queue' = NothingQueued /\ batch' = queue /\ inFlight' = Pending(queue)
        BY <2>2, <3>1 DEF ProcessQueue, Reconciling
      <3>3. Pending(queue) # {}
        BY <1>3, <2>2, <1>4 DEF Queued, Pending
      <3> QED
        BY <1>3, <3>2, <3>3 DEF NothingQueued
    <2> QED
      BY <2>1, <2>2
  <1>9. CASE Settle
    <2>1. UNCHANGED <<batch, draining, inFlight>> /\ queue' = Enqueued(queue, RestampedPaths(held, inventory))
      BY <1>9 DEF Settle
    <2> QED
      BY <1>3, <2>1 DEF Enqueued
  <1>10. CASE \/ ReadNothing
              \/ \E p \in Paths : ReadPath(p) \/ ReadFails(p) \/ ReadNamed(p)
    <2>1. UNCHANGED <<queue, draining, inFlight>>
      BY <1>10 DEF ReadNothing, ReadPath, ReadFails, ReadNamed
    <2>2. batch' = NothingQueued \/ \E p \in Paths : batch' = [batch EXCEPT ![p] = "none"]
      BY <1>10 DEF ReadNothing, ReadPath, ReadFails, ReadNamed, ReadDone
    <2>3. \A p \in Paths : batch'[p] # "named"
      BY <1>0, <1>3, <2>2 DEF NothingQueued
    <2> QED
      BY <1>3, <2>1, <2>3
  <1>11. CASE \/ \E p \in Paths : \E c \in Contents \cup {Absent} : Write(p, c)
              \/ \E p \in Paths : LoseEvent(p) \/ WalkRead(p)
              \/ Tick \/ Request \/ WatchFailed \/ StartPass \/ WalkFails \/ Query \/ Stop
              \/ \E j \in Jobs : BeginJob(j) \/ EndJob(j) \/ CloseJob(j)
              \/ UNCHANGED vars
    <2>1. UNCHANGED <<queue, batch, draining, inFlight>>
      BY <1>11 DEF Write, LoseEvent, WalkRead, Tick, Request, WatchFailed, StartPass, WalkFails, Query, Stop, BeginJob,
                   EndJob, CloseJob, vars, queueVars
    <2> QED
      BY <1>3, <2>1
  <1> QED
    BY <1>1, <1>6, <1>7, <1>8, <1>9, <1>10, <1>11 DEF Next

\* A named read asked for is never forgotten.
LEMMA NamedCounted ==
    ASSUME DiscoveryAssumption, TypeOK, [DiscoveryNext]_discoveryVars, counts'.named = 0
    PROVE  counts.named = 0
  <1>0. counts \in [writes : Nat, requests : Nat, failures : Nat, named : Nat]
    BY DEF TypeOK, JobsType
  <1>1. CASE Settling
    BY <1>1 DEF Settling
  <1>2. ASSUME NEW ps \in SUBSET Paths, ReadNamedCall(ps) PROVE counts.named = 0
    <2>1. counts'.named = counts.named + 1
      BY <1>0, <1>2 DEF ReadNamedCall
    <2> QED
      BY <1>0, <2>1
  <1>3. ASSUME NEW p \in Paths, ReadNamed(p) PROVE counts'.named = counts.named
    BY <1>0, <1>3 DEF ReadNamed
  <1>4. CASE \/ \E p \in Paths : \E c \in Contents \cup {Absent} : Write(p, c)
             \/ \E p \in Paths : LoseEvent(p) \/ Deliver(p) \/ ReadPath(p) \/ ReadFails(p) \/ WalkRead(p)
             \/ Tick \/ Request \/ WatchFailed \/ ReadNothing \/ EndBatch \/ StartPass \/ Settle \/ WalkFails
             \/ EndReconciliation \/ Query \/ Stop
             \/ \E j \in Jobs : BeginJob(j) \/ EndJob(j) \/ CloseJob(j)
             \/ UNCHANGED vars
    <2>1. \/ counts' = counts
          \/ counts' = [counts EXCEPT !.writes = @ + 1]
          \/ counts' = [counts EXCEPT !.requests = @ + 1]
          \/ counts' = [counts EXCEPT !.failures = @ + 1]
      BY <1>4 DEF Write, LoseEvent, Deliver, ReadPath, ReadFails, WalkRead, Tick, Request, WatchFailed, ReadNothing,
                  EndBatch, StartPass, Settle, WalkFails, EndReconciliation, Query, Stop, BeginJob, EndJob, CloseJob, vars
    <2> QED
      BY <1>0, <2>1
  <1>5. CASE [Next]_vars
    BY <1>2, <1>3, <1>4, <1>5 DEF Next
  <1> QED
    BY <1>1, <1>5, DiscoverySteps

\* With no file named, a discovery judged fingerprinted settles at once and guards the digests its window closed on.
LEMMA GapStep ==
    ASSUME DiscoveryAssumption, TrackerInv, CaughtUpInv, UnnamedInv, StageInv, GapInv, [DiscoveryNext]_discoveryVars
    PROVE  GapInv'
  <1>0. /\ TypeOK /\ windows \in [Jobs -> WindowType] /\ waits \in WaitsType
        /\ queue \in [Paths -> {"none", "change", "named"}]
        /\ Mark \in Jobs /\ Guard \in Jobs /\ Settler \in Jobs /\ Settler \in Waiters
        /\ Jobs = {Mark, Guard, Settler}
    BY DEF TrackerInv, TypeOK, QueueType, JobsType, LedgerType, DiscoveryAssumption, Waiters
  <1>1. Mark # Guard /\ Mark # Settler /\ Guard # Settler
    BY DistinctJobs
  <1> SUFFICES ASSUME counts'.named = 0, windows'[Mark].verdict = "fingerprinted"
               PROVE  /\ stage' \in {"ended", "settling"} =>
                            /\ ~Unavailable' /\ ~draining' /\ Queued(queue)' = {}
                            /\ ViewDigests' = windows'[Mark].end
                      /\ stage' = "settling" => HasSettled'
                      /\ stage' \in {"guarding", "stored"} => windows'[Guard].start = windows'[Mark].end
    BY DEF GapInv
  <1>2. counts.named = 0
    BY <1>0, NamedCounted
  <1>3. windows[Mark].verdict = "fingerprinted" /\ stage \in {"ended", "settling"} => ~TurnOpen /\ DiscoveryTurn
    <2> SUFFICES ASSUME windows[Mark].verdict = "fingerprinted", stage \in {"ended", "settling"}
                 PROVE  ~TurnOpen /\ DiscoveryTurn
      OBVIOUS
    <2>1. ~Unavailable /\ ~draining /\ (stage = "settling" => HasSettled)
      BY <1>2 DEF GapInv
    <2>2. phase = "idle"
      BY <2>1 DEF Unavailable, Incomplete, Reconciling
    <2>3. \A j \in Jobs : windows[j].state # "ending"
      BY <1>0 DEF StageInv, NoWindow
    <2> QED
      BY <2>1, <2>2, <2>3 DEF TurnOpen, DiscoveryTurn
  <1>4. CASE TrackerStep
    <2>1. \A j \in Jobs : /\ windows'[j].verdict = windows[j].verdict
                          /\ windows'[j].start = windows[j].start /\ windows'[j].end = windows[j].end
      BY <1>0, <1>4, EdgesKept
    <2>2. stage' = stage
      BY <1>4 DEF TrackerStep
    <2>3. stage \notin {"ended", "settling"}
      BY <1>0, <1>3, <1>4, <2>1 DEF TrackerStep
    <2>4. stage \in {"guarding", "stored"} => windows[Guard].start = windows[Mark].end
      BY <1>0, <1>2, <2>1 DEF GapInv
    <2> QED
      BY <1>0, <2>1, <2>2, <2>3, <2>4
  <1>5. CASE DiscoveryJudged
    <2>1. CloseJob(Mark) /\ stage' = "ended"
      BY <1>5 DEF DiscoveryJudged
    <2>2. windows'[Mark].verdict = Verdict(windows[Mark], Unavailable) /\ windows'[Mark].end = ViewDigests
      BY <1>0, <2>1 DEF CloseJob, WindowType
    <2>3. ~Unavailable
      BY <1>0, <2>2 DEF Verdict, WindowType
    <2>4. /\ UNCHANGED <<queue, inFlight, draining, phase, lastReconciled, lost, unhealthy, stopped, held>>
          /\ project' = ProjectDigests
      BY <2>1, <2>3 DEF CloseJob, TakeView, queueVars, passVars
    <2>5. ~Unavailable'
      BY <2>3, <2>4 DEF Unavailable, Incomplete, Reconciling, Pending
    <2>6. ViewDigests' = ViewDigests
      <3>1. ProjectDigests' = ProjectDigests
        BY <2>4 DEF ProjectDigests, Digests
      <3> QED
        BY <2>3, <2>5, <3>1 DEF ViewDigests
    <2>7. ~draining /\ Queued(queue) = {}
      BY <1>0, <1>2, <2>3 DEF UnnamedInv, Unavailable, Pending, Queued
    <2> QED
      BY <2>1, <2>2, <2>4, <2>5, <2>6, <2>7 DEF Queued
  <1>6. CASE SettleBeforeGuard
    <2>1. /\ UNCHANGED <<queue, inFlight, draining, phase, lastReconciled, lost, unhealthy, stopped, held, project,
                         windows, accepted, readThrough>>
          /\ waits' = [waits EXCEPT ![Settler] = PlacedWait(Settler)]
          /\ stage = "ended" /\ stage' = "settling"
      BY <1>6 DEF SettleBeforeGuard, Settling, stateVars, queueVars
    <2>2. ~Unavailable /\ ~draining /\ Queued(queue) = {} /\ ViewDigests = windows[Mark].end
      BY <1>2, <2>1 DEF GapInv
    <2>3. phase = "idle" /\ readThrough >= accepted
      BY <2>2 DEF Unavailable, Incomplete, Reconciling, CaughtUpInv
    <2>4. PlacedWait(Settler) = Released
      BY <2>1, <2>3 DEF PlacedWait, CanEnd
    <2>5. HasSettled'
      BY <1>0, <2>1, <2>4 DEF HasSettled, Released, WaitsType
    <2>6. ~Unavailable' /\ ViewDigests' = ViewDigests
      BY <2>1, <2>2 DEF Unavailable, Incomplete, Reconciling, Pending, ViewDigests, ProjectDigests, Digests
    <2> QED
      BY <2>1, <2>2, <2>5, <2>6 DEF Queued
  <1>7. CASE GuardBegins
    <2>1. BeginJob(Guard) /\ stage = "settling" /\ stage' = "guarding"
      BY <1>7 DEF GuardBegins
    <2>2. windows'[Mark] = windows[Mark] /\ windows'[Guard].start = ViewDigests
      BY <1>0, <1>1, <2>1 DEF BeginJob, NoWindow
    <2>3. ViewDigests = windows[Mark].end
      BY <1>2, <2>1, <2>2 DEF GapInv
    <2> QED
      BY <2>1, <2>2, <2>3
  <1>8. CASE GuardReturns
    <2>1. EndJob(Guard) /\ stage = "guarding" /\ stage' = stage
      BY <1>8 DEF GuardReturns
    <2>2. windows'[Mark] = windows[Mark] /\ windows'[Guard].start = windows[Guard].start
      BY <1>0, <1>1, <2>1 DEF EndJob, WindowType
    <2> QED
      BY <1>2, <2>1, <2>2 DEF GapInv
  <1>9. CASE DiscoveryStored
    <2>1. CloseJob(Guard) /\ stage = "guarding" /\ stage' \in {"stored", "unstored"}
      BY <1>9 DEF DiscoveryStored
    <2>2. windows'[Mark] = windows[Mark] /\ windows'[Guard].start = windows[Guard].start
      BY <1>0, <1>1, <2>1 DEF CloseJob, WindowType
    <2> QED
      BY <1>2, <2>1, <2>2 DEF GapInv
  <1>10. CASE DiscoveryReturns
    <2>1. stage' = "collecting"
      BY <1>10 DEF DiscoveryReturns
    <2> QED
      BY <2>1
  <1>11. CASE SettleBeforeDiscovery \/ DiscoveryBegins \/ BeginsNothing \/ DiscoveryStopped
    <2>1. stage' \in {"opening", "collecting", "planned", "unstored"}
      BY <1>11 DEF SettleBeforeDiscovery, DiscoveryBegins, BeginsNothing, DiscoveryStopped
    <2> QED
      BY <2>1
  <1>12. CASE UNCHANGED discoveryVars
    <2>1. UNCHANGED <<queue, inFlight, draining, phase, lastReconciled, lost, unhealthy, stopped, held, project,
                      windows, waits, stage>>
      BY <1>12 DEF discoveryVars, vars, stateVars, queueVars, passVars, ledgerVars
    <2> QED
      BY <1>2, <2>1 DEF GapInv, Unavailable, Incomplete, Reconciling, Pending, Queued, ViewDigests, ProjectDigests,
                        Digests, HasSettled
  <1> QED
    BY <1>4, <1>5, <1>6, <1>7, <1>8, <1>9, <1>10, <1>11, <1>12 DEF DiscoveryNext

\* A discovery begins with no window open and nothing read.
LEMMA InitBinding == DiscoveryAssumption /\ DiscoveryInit => TrackerInv /\ DiscoveryInv /\ JudgedUnchanged
  <1> SUFFICES ASSUME DiscoveryAssumption, DiscoveryInit PROVE TrackerInv /\ DiscoveryInv /\ JudgedUnchanged
    OBVIOUS
  <1>1. Init /\ stage = "planned"
    BY DEF DiscoveryInit
  <1>2. TrackerInv
    BY <1>1, InitType, InitVerdict, InitTruth, InitTimely DEF TrackerInv
  <1>3. Mark \in Jobs /\ Guard \in Jobs /\ Settler \in Jobs
    BY DEF DiscoveryAssumption
  <1>4. \A j \in {Mark, Guard, Settler} : windows[j] = NoWindow /\ waits[j].state = "none"
    BY <1>1, <1>3 DEF Init, Waiters
  <1>5. CommittedInv /\ StartInv /\ StageInv /\ GapInv /\ JudgedUnchanged
    BY <1>1, <1>4 DEF Init, CommittedInv, DiscoveryTurn, StartInv, MayBind, Running, StageInv, GapInv, JudgedUnchanged,
                      NoWindow
  <1>6. CaughtUpInv /\ UnnamedInv
    BY <1>1 DEF Init, CaughtUpInv, UnnamedInv, NothingQueued
  <1> QED
    BY <1>2, <1>5, <1>6 DEF DiscoveryInv

\* A discovery is judged by windows that close on the inputs they opened on, is stored under the inputs it started from
\* when no file was named meanwhile, and every view it takes is true: protectDiscovered's two windows and the waits
\* before them let no other change through, whatever is written, lost, failed or reconciled.
THEOREM BindingsAreSound == DiscoveryAssumption => (DiscoverySpec => []BindingIsSound)
  <1> SUFFICES ASSUME DiscoveryAssumption PROVE DiscoverySpec => []BindingIsSound
    OBVIOUS
  <1> DEFINE Inv == TrackerInv /\ DiscoveryInv /\ JudgedUnchanged
  <1>1. DiscoveryInit => Inv
    BY InitBinding
  <1>2. Inv /\ [DiscoveryNext]_discoveryVars => Inv'
    <2> SUFFICES ASSUME TrackerInv, DiscoveryInv, JudgedUnchanged, [DiscoveryNext]_discoveryVars
                 PROVE  TrackerInv' /\ DiscoveryInv' /\ JudgedUnchanged'
      OBVIOUS
    <2>0. /\ TypeOK /\ LedgerInv /\ QueueInv
          /\ CommittedInv /\ StartInv /\ CaughtUpInv /\ UnnamedInv /\ StageInv /\ GapInv
      BY DEF TrackerInv, VerdictInv, DiscoveryInv
    <2>1. TrackerInv'
      BY TrackerStepKeeps
    <2>2. CommittedInv'
      BY <2>0, CommittedStep
    <2>3. StartInv' /\ JudgedUnchanged'
      BY <2>0, StartStep, JudgedStep
    <2>4. StageInv'
      BY <2>0, StageStep
    <2>5. CaughtUpInv' /\ UnnamedInv'
      <3>1. CASE Settling
        BY <2>0, <3>1 DEF Settling, queueVars, CaughtUpInv, UnnamedInv
      <3>2. CASE [Next]_vars
        BY <2>0, <3>2, CaughtUpStep, UnnamedStep
      <3> QED
        BY <3>1, <3>2, DiscoverySteps
    <2>6. GapInv'
      BY <2>0, GapStep
    <2> QED
      BY <2>1, <2>2, <2>3, <2>4, <2>5, <2>6 DEF DiscoveryInv
  <1>3. Inv => BindingIsSound
    <2> SUFFICES ASSUME Inv PROVE BindingIsSound
      OBVIOUS
    <2>1. JudgedUnchanged /\ GapInv /\ VerdictInv /\ TruthInv
      BY DEF DiscoveryInv, TrackerInv
    <2>2. ViewIsTrue
      BY <2>1, TruthSeen
    <2>3. BoundWithoutNamed
      BY <2>1 DEF BoundWithoutNamed, BoundToStart, Bound, GapInv, JudgedUnchanged
    <2> QED
      BY <2>1, <2>2, <2>3 DEF BindingIsSound
  <1> QED
    BY <1>1, <1>2, <1>3, PTL DEF DiscoverySpec
=============================================================================
