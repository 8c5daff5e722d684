--------------------------- MODULE SchedulerProofs ---------------------------
(***************************************************************************)
(* For any workspaces, inputs, callers and bounds: the scheduler's state   *)
(* is typed, a workspace runs at most once and once more at one revision   *)
(* and list, a run is kept only under the inputs it ran over, nothing      *)
(* reported as an edit holds a workspace, and nothing due is forgotten.    *)
(* A hold rests on no edit when no content comes back to an earlier one.   *)
(***************************************************************************)
EXTENDS Scheduler, TLAPS

-----------------------------------------------------------------------------
(* The change record's operators *)

\* Whatever is made of a subject's changes stays typed.
LEMMA CountedTyped ==
  ASSUME NEW c \in ChangesType, NEW ps \in SUBSET Paths
  PROVE  /\ EditedEverywhere \in ChangesType /\ StartAfresh \in ChangesType
         /\ AddJob(c, ps) \in ChangesType /\ AddEdits(c, ps) \in ChangesType /\ MoveToEdits(c, ps) \in ChangesType
  BY DEF AddJob, AddEdits, MoveToEdits, Counted, EditedEverywhere, StartAfresh, NoChanges, ChangesType

\* A reading between jobs adds edits, and takes nothing for a job's own change.
LEMMA IntervalAddsEdits ==
  ASSUME NEW ch \in [Subjects -> ChangesType], NEW from, NEW to
  PROVE  /\ Interval(ch, from, to) \in [Subjects -> ChangesType]
         /\ \A s \in Subjects : /\ Interval(ch, from, to)[s].began = ch[s].began
                                /\ Interval(ch, from, to)[s].byJobs \subseteq ch[s].byJobs
<1> DEFINE edits == ChangedBetween(from, to)
<1>1. edits \in SUBSET Paths
  BY DEF ChangedBetween
<1>2. CASE Interval(ch, from, to) = Everywhere(ch)
  BY <1>2, CountedTyped DEF Everywhere, EachBegun, EditedEverywhere, StartAfresh, NoChanges, ChangesType
<1>3. CASE Interval(ch, from, to) = [s \in Subjects |-> IF ch[s].began THEN AddEdits(ch[s], edits) ELSE ch[s]]
  <2>1. \A s \in Subjects : AddEdits(ch[s], edits) \in ChangesType
    BY <1>1, CountedTyped
  <2>2. \A s \in Subjects : ch[s].began => AddEdits(ch[s], edits).began = ch[s].began /\ AddEdits(ch[s], edits).byJobs \subseteq ch[s].byJobs
    BY DEF AddEdits, Counted, EditedEverywhere, StartAfresh, NoChanges, ChangesType
  <2> QED
    BY <1>3, <2>1, <2>2
<1> QED
  BY <1>2, <1>3 DEF Interval, EachBegun

\* What a handed over window makes of the changes: the job's own start afresh, and only what no report named is a job's.
LEMMA AfterWindowAdds ==
  ASSUME NEW ch \in [Subjects -> ChangesType], NEW from, NEW s \in Subjects, holding \in [Subjects -> SUBSET Paths],
         NEW window, window.paths \in SUBSET Paths
  PROVE  /\ AfterWindow(ch, from, window, s) \in [Subjects -> ChangesType]
         /\ \A x \in Subjects :
               LET after == AfterWindow(ch, from, window, s)[x]
               IN  /\ after.byJobs \subseteq ch[x].byJobs \cup (window.paths \ holding[s])
                   /\ ~after.began => ~ch[x].began /\ after.byJobs \subseteq ch[x].byJobs
<1> DEFINE afresh == [Interval(ch, from, window.start) EXCEPT ![s] = StartAfresh]
           caused == window.paths \ holding[s]
           reported == window.paths \cap holding[s]
           added(c) == AddEdits(AddJob(c, caused), reported)
<1>1. caused \in SUBSET Paths /\ reported \in SUBSET Paths
  OBVIOUS
<1>2. afresh \in [Subjects -> ChangesType]
  BY CountedTyped, IntervalAddsEdits
<1>3. \A x \in Subjects : afresh[x].byJobs \subseteq ch[x].byJobs /\ (~afresh[x].began => ~ch[x].began)
  <2>1. StartAfresh.byJobs = {} /\ StartAfresh.began
    BY DEF StartAfresh, NoChanges
  <2> QED
    BY <2>1, IntervalAddsEdits
<1> HIDE DEF afresh, caused, reported
<1>4. CASE AfterWindow(ch, from, window, s) = Everywhere(afresh)
  <2>1. EditedEverywhere \in ChangesType /\ EditedEverywhere.byJobs = {} /\ EditedEverywhere.began
    BY DEF EditedEverywhere, StartAfresh, NoChanges, ChangesType
  <2>2. Everywhere(afresh) = [x \in Subjects |-> IF afresh[x].began THEN EditedEverywhere ELSE afresh[x]]
    BY DEF Everywhere, EachBegun
  <2>3. AfterWindow(ch, from, window, s) \in [Subjects -> ChangesType]
    BY <1>2, <1>4, <2>1, <2>2
  <2>4. \A x \in Subjects : AfterWindow(ch, from, window, s)[x] \in {EditedEverywhere, afresh[x]}
    BY <1>4, <2>2
  <2> QED
    BY <1>3, <2>1, <2>3, <2>4
<1>5. CASE AfterWindow(ch, from, window, s) = [x \in Subjects |-> IF afresh[x].began THEN added(afresh[x]) ELSE afresh[x]]
  <2>1. ASSUME NEW c \in ChangesType
        PROVE  /\ added(c) \in ChangesType /\ added(c).byJobs \subseteq c.byJobs \cup caused
               /\ c.began => added(c).began
    <3>1. /\ AddJob(c, caused) \in ChangesType /\ AddJob(c, caused).byJobs \subseteq c.byJobs \cup caused
          /\ c.began => AddJob(c, caused).began
      BY <1>1 DEF AddJob, Counted, EditedEverywhere, StartAfresh, NoChanges, ChangesType
    <3>2. ASSUME NEW d \in ChangesType
          PROVE  /\ AddEdits(d, reported) \in ChangesType /\ AddEdits(d, reported).byJobs \subseteq d.byJobs
                 /\ d.began => AddEdits(d, reported).began
      BY <1>1 DEF AddEdits, Counted, EditedEverywhere, StartAfresh, NoChanges, ChangesType
    <3> QED
      BY <3>1, <3>2
  <2> HIDE DEF added
  <2>2. AfterWindow(ch, from, window, s) \in [Subjects -> ChangesType]
    BY <1>2, <1>5, <2>1
  <2>3. \A x \in Subjects : /\ afresh[x].began => AfterWindow(ch, from, window, s)[x] = added(afresh[x])
                            /\ ~afresh[x].began => AfterWindow(ch, from, window, s)[x] = afresh[x]
    BY <1>5
  <2>4. \A x \in Subjects : /\ added(afresh[x]).byJobs \subseteq afresh[x].byJobs \cup caused
                            /\ afresh[x].began => added(afresh[x]).began
    BY <1>2, <2>1
  <2> QED
    BY <1>3, <2>2, <2>3, <2>4 DEF caused
<1> QED
  BY <1>4, <1>5 DEF AfterWindow, EachBegun, afresh, caused, reported

\* A report takes what it names from the jobs' changes.
LEMMA MovedToEdits ==
  ASSUME NEW ch \in [Subjects -> ChangesType], NEW keys \in SUBSET Paths
  PROVE  LET moved == EachBegun(ch, LAMBDA c : MoveToEdits(c, keys))
         IN  /\ moved \in [Subjects -> ChangesType]
             /\ \A s \in Subjects : /\ moved[s].byJobs \subseteq ch[s].byJobs
                                    /\ ch[s].began => moved[s].byJobs \cap keys = {}
<1>1. \A s \in Subjects : MoveToEdits(ch[s], keys) \in ChangesType /\ MoveToEdits(ch[s], keys).byJobs = ch[s].byJobs \ keys
  BY DEF MoveToEdits, ChangesType
<1> QED
  BY <1>1 DEF EachBegun

\* Each operation on the record keeps it typed.
LEMMA RecordOperations ==
  ASSUME RecordType(Contents), NEW s \in Subjects, NEW window, window.paths \in SUBSET Paths, window.end \in Contents \cup {NoDigests}
  PROVE  /\ JobEnded(window, s) /\ UNCHANGED unread => RecordType(Contents)'
         /\ JobThrew(s) /\ UNCHANGED unread => RecordType(Contents)'
         /\ JobBegan(s) => holding' \in [Subjects -> SUBSET Paths]
         /\ JobOver(s) => holding' \in [Subjects -> SUBSET Paths]
<1>1. AfterWindow(changes, last, window, s) \in [Subjects -> ChangesType]
  BY AfterWindowAdds DEF RecordType
<1>2. StartAfresh \in ChangesType
  BY DEF StartAfresh, NoChanges, ChangesType
<1>3. Reported \in SUBSET Paths
  BY DEF Reported, RecordType
<1> QED
  BY <1>1, <1>2, <1>3 DEF RecordType, JobEnded, JobThrew, JobBegan, JobOver

\* A report of edited files, made or taken from its file, keeps the record typed.
LEMMA ReportOperations ==
  ASSUME RecordType(Contents), NEW c \in Callers, NEW keys \in SUBSET Paths, NEW running,
         ReportEdits(c, keys, running) \/ ReadReport(c)
  PROVE  RecordType(Contents)'
<1>1. CASE ReportEdits(c, keys, running)
  <2>1. changes' \in [Subjects -> ChangesType]
    BY <1>1, MovedToEdits DEF RecordType, ReportEdits
  <2>2. holding' \in [Subjects -> SUBSET Paths] /\ unread' \in [Callers -> SUBSET Paths] /\ last' = last
    BY <1>1 DEF RecordType, ReportEdits
  <2> QED
    BY <2>1, <2>2 DEF RecordType
<1>2. CASE ReadReport(c)
  BY <1>2 DEF RecordType, ReadReport
<1> QED
  BY <1>1, <1>2

-----------------------------------------------------------------------------
(* The invariant of types: TypeOK in parts, the kind of attempt a job that is not begun gives back, and counts below   *)
(* the hold's.                                                                                                         *)

EnvType ==
    /\ digests \in Contents /\ revision \in Revisions /\ available \in BOOLEAN
    /\ build \in {"building", "narrowed", "widened"} /\ discards \in 0..2
    /\ periodic \in BOOLEAN

StoreType ==
    /\ latest \in [Workspaces -> RunType \cup {NotInEffect}]
    /\ record \in DiscoveryType \cup {NotInEffect}

RoundType == [state : {"pending", "planned", "held"}, revision : Revisions, due : SUBSET Workspaces]

LoopType ==
    /\ phase \in {"quiet", "waiting", "idle", "failed", "starting", "running", "returned"}
    /\ roundRevision \in Revisions /\ retries \in SUBSET Workspaces
    /\ round \in RoundType
    /\ stirred \in BOOLEAN

CountsType == counts \in [touches : 0..MaxTouches, failures : 0..MaxFailures, reports : 0..MaxReports]

BegunType == [jobs : 0..3, modules : Lists]

HistoryType ==
    /\ begun \in [Subjects -> BegunType] /\ relisted \in BOOLEAN
    /\ sinceEdit \in [Workspaces -> 0..(HoldCount + 1)]
    /\ landed \in [Subjects -> SUBSET Paths]
    /\ told \in SUBSET Paths /\ vouchedEdit \in SUBSET Paths

\* A job that is not begun gives back an attempt of its own subject.
BeforeType ==
    IF Runs THEN job.before \in AttemptType(Revisions, Lists) \cup {NoAttempt}
    ELSE job.before \in DiscoveryAttemptType(Revisions) \cup {NoAttempt}

Below(attempt) == attempt # NoAttempt => attempt.startCount.count < HoldCount

\* No job begins at the count that holds its subject.
StartInv ==
    /\ \A w \in Workspaces : Below(attempts[w])
    /\ Below(dAttempt) /\ Below(job.before)
    /\ job.startCount.count < HoldCount

TypeInv ==
    /\ RecordType(Contents) /\ RunHistoryType(Revisions, Lists) /\ DiscoveryHistoryType(Revisions)
    /\ EnvType /\ StoreType /\ LoopType /\ job \in JobType /\ CountsType /\ HistoryType
    /\ BeforeType /\ StartInv

\* The types proved of the scheduler's parts are those the run checks.
LEMMA TypeInvTyped == TypeInv => TypeOK
  BY DEF TypeInv, TypeOK, EnvType, StoreType, LoopType, RoundType, CountsType, HistoryType, BegunType

-----------------------------------------------------------------------------
(* What a view gives, and what a plan decides *)

\* A view's digests, its placement, a workspace's scope and its fingerprint are typed.
LEMMA ViewTyped ==
  ASSUME EnvType, NEW w \in Workspaces
  PROVE  /\ ViewDigests \in Contents \cup {NoDigests}
         /\ Placement \in {"none", "narrowed", "widened"}
         /\ \A kind : Scope(w, kind) \in SUBSET Paths
         /\ Fingerprint(w) \in Prints
<1>1. \A kind : Scope(w, kind) \in {Paths} \cup {Inside[x] : x \in Workspaces} /\ Scope(w, kind) \in SUBSET Paths
  BY SchedulerAssumption DEF Scope
<1>2. [p \in Scope(w, build) |-> digests[p]] \in [Scope(w, build) -> Revisions]
  BY <1>1 DEF EnvType, Contents
<1>3. Fingerprint(w) \in Prints
  BY <1>1, <1>2 DEF Fingerprint, Prints
<1> QED
  BY <1>1, <1>3 DEF EnvType, ViewDigests, Placement

\* A count never passes the hold's, and one that reaches it shares an input the jobs changed this time too.
LEMMA FollowOnTyped ==
  ASSUME NEW base \in CountType, base.count < HoldCount, NEW caused \in SUBSET Paths, caused # {}
  PROVE  /\ FollowOn(base, caused) \in CountType
         /\ FollowOn(base, caused).shared # {} /\ FollowOn(base, caused).shared \subseteq caused
  BY HistoryAssumption DEF FollowOn, CountType

\* No follow-on is a count below the hold's.
LEMMA NoCountTyped == NoCount \in CountType /\ NoCount.count < HoldCount
  BY HistoryAssumption DEF NoCount, CountType

DueType == [retryOnly : BOOLEAN, fingerprinted : BOOLEAN, scope : SUBSET Paths]

\* A workspace that is not held is at a count below the hold's, and a hold is of the paths its jobs changed.
LEMMA DecisionTyped ==
  ASSUME RunHistoryType(Revisions, Lists), StartInv, NEW w \in Workspaces, NEW c \in ChangesType, NEW due \in DueType
  PROVE  LET d == Decision(w, c, due)
         IN  /\ d.count \in CountType /\ d.held \in SUBSET Paths
             /\ d.held = {} => d.count.count < HoldCount
             /\ d.held # heldRuns[w] => d.held \subseteq c.byJobs
<1> DEFINE next == NextCount(w, c, due)
<1>1. /\ next \in CountType
      /\ next.count < HoldCount \/ (next.shared # {} /\ next.shared \subseteq c.byJobs)
  <2>1. CASE next = NoCount
    BY <2>1, NoCountTyped
  <2>2. CASE next # NoCount
    <3>1. attempts[w] # NoAttempt /\ attempts[w].startCount \in CountType /\ attempts[w].startCount.count < HoldCount
      BY <2>2 DEF NextCount, RunHistoryType, AttemptType, StartInv, Below
    <3>2. c.byJobs \cap due.scope # {} /\ next = FollowOn(attempts[w].startCount, c.byJobs \cap due.scope)
      BY <2>2 DEF NextCount
    <3>3. c.byJobs \cap due.scope \in SUBSET Paths
      BY DEF ChangesType
    <3> QED
      BY <3>1, <3>2, <3>3, FollowOnTyped
  <2> QED
    BY <2>1, <2>2
<1>2. CASE heldRuns[w] # {} /\ ~Edited(c, due.scope)
  BY <1>2 DEF Decision, RunHistoryType
<1>3. CASE ~(heldRuns[w] # {} /\ ~Edited(c, due.scope))
  <2> HIDE DEF next
  <2>1. Decision(w, c, due) = [count |-> next, held |-> IF next.count < HoldCount THEN {} ELSE next.shared]
    BY <1>3 DEF Decision, next
  <2> QED
    BY <1>1, <2>1 DEF CountType
<1> QED
  BY <1>2, <1>3

\* The same of the discovery.
LEMMA DiscoveryDecisionTyped ==
  ASSUME DiscoveryHistoryType(Revisions), StartInv, NEW inEffect, NEW c \in ChangesType
  PROVE  LET d == DiscoveryDecision(inEffect, c)
         IN  /\ d.count \in CountType /\ d.held \in SUBSET Paths /\ d.latest \in SUBSET Paths /\ d.retry \in BOOLEAN
             /\ d.held = {} => d.count.count < HoldCount
             /\ d.held # dHeld => d.held \subseteq c.byJobs
<1> DEFINE next == DiscoveryCount(inEffect, c)
           held == HoldAt(next)
<1>1. /\ next \in CountType
      /\ next = NoCount \/ (next.shared # {} /\ next.shared \subseteq c.byJobs)
  <2>1. CASE next = NoCount
    BY <2>1, NoCountTyped
  <2>2. CASE next # NoCount
    <3>1. dAttempt # NoAttempt /\ dAttempt.startCount \in CountType /\ dAttempt.startCount.count < HoldCount
      BY <2>2 DEF DiscoveryCount, DiscoveryHistoryType, DiscoveryAttemptType, StartInv, Below
    <3>2. c.byJobs # {} /\ next = FollowOn(dAttempt.startCount, c.byJobs)
      BY <2>2 DEF DiscoveryCount
    <3> QED
      BY <3>1, <3>2, FollowOnTyped DEF ChangesType
  <2> QED
    BY <2>1, <2>2
<1>2. /\ held \in SUBSET Paths
      /\ held # {} => held \subseteq c.byJobs
      /\ held = {} => next.count < HoldCount
  <2> HIDE DEF next
  <2>1. CASE next = NoCount
    <3>1. held = {}
      BY <2>1, HistoryAssumption DEF HoldAt, NoCount
    <3> QED
      BY <2>1, <3>1, NoCountTyped
  <2>2. CASE next # NoCount
    BY <1>1, <2>2, HistoryAssumption DEF HoldAt, CountType, DiscoveryHistoryType
  <2> QED
    BY <2>1, <2>2
<1> HIDE DEF next, held
<1>3. CASE dHeld # {} /\ inEffect # NotInEffect /\ Unedited(c)
  BY <1>3 DEF DiscoveryDecision, DiscoveryHistoryType
<1>4. CASE ~(dHeld # {} /\ inEffect # NotInEffect /\ Unedited(c))
  <2>1. DiscoveryDecision(inEffect, c) =
          [count |-> next, held |-> held, latest |-> IF held = {} THEN dLatest ELSE held, retry |-> dRetry /\ held = {}]
    BY <1>4 DEF DiscoveryDecision, next, held
  <2> QED
    BY <1>1, <1>2, <2>1 DEF DiscoveryHistoryType
<1> QED
  BY <1>3, <1>4

-----------------------------------------------------------------------------
(* Every action keeps the types *)

\* The job of an idle scheduler is a job.
LEMMA NoJobTyped ==
  /\ NoJob \in JobType
  /\ NoJob.subject = Discovery /\ NoJob.before = NoAttempt /\ NoJob.startCount = NoCount
<1>1. (CHOOSE l \in Lists : TRUE) \in Lists
  BY DistinctAssumption
<1>2. NoDigests \in Prints
  BY DEF Prints
<1>3. 0 \in Revisions
  BY SchedulerAssumption DEF Revisions
<1> QED
  BY <1>1, <1>2, <1>3, NoCountTyped DEF NoJob, NoWindow, JobType, Subjects

\* A round that waits, or is held, is a round.
LEMMA PendingTyped == Pending \in RoundType /\ [Pending EXCEPT !.state = "held"] \in RoundType
  BY SchedulerAssumption DEF Pending, Revisions, RoundType

\* The initial state is typed.
LEMMA InitTyped == Init => TypeInv
<1> SUFFICES ASSUME Init PROVE TypeInv
  OBVIOUS
<1>1. RecordType(Contents)
  BY DEF Init, RecordInit, RecordType, NoChanges, ChangesType
<1>2. RunHistoryType(Revisions, Lists) /\ DiscoveryHistoryType(Revisions)
  BY NoCountTyped DEF Init, RunHistoryInit, DiscoveryHistoryInit, RunHistoryType, DiscoveryHistoryType
<1>9. 0 \in Revisions
  BY SchedulerAssumption DEF Revisions
<1>3. EnvType /\ StoreType
  <2>1. EnvType
    <3>1. digests \in Contents /\ revision \in Revisions
      BY <1>9 DEF Init, Contents
    <3> QED
      <4>1. available \in BOOLEAN /\ periodic \in BOOLEAN
        BY Zenon DEF Init
      <4>2. build \in {"building", "narrowed", "widened"} /\ discards \in 0..2
        BY DEF Init
      <4> QED
        BY <3>1, <4>1, <4>2 DEF EnvType
  <2>2. StoreType
    BY DEF Init, StoreType
  <2> QED
    BY <2>1, <2>2
<1>8. CountsType
  BY SchedulerAssumption DEF Init, CountsType
<1>4. LoopType /\ HistoryType
  <2>1. LoopType
    BY <1>9, PendingTyped DEF Init, LoopType
  <2>2. HistoryType
    <3>1. NoneBegun \in BegunType
      BY NoJobTyped DEF NoneBegun, BegunType, JobType
    <3>2. begun \in [Subjects -> BegunType]
      BY <3>1 DEF Init
    <3>3. relisted \in BOOLEAN
      BY Zenon DEF Init
    <3> QED
      BY <3>2, <3>3, HistoryAssumption DEF Init, HistoryType
  <2> QED
    BY <2>1, <2>2
<1>5. job \in JobType /\ BeforeType /\ StartInv
  BY NoJobTyped, NoCountTyped, RecordAssumption
     DEF Init, BeforeType, Runs, StartInv, Below, RunHistoryInit, DiscoveryHistoryInit
<1> QED
  BY <1>1, <1>2, <1>3, <1>8, <1>4, <1>5 DEF TypeInv

\* The records a step leaves alone.
LEMMA RecordsKept ==
  ASSUME TypeInv, UNCHANGED <<recordVars, runHistoryVars, discoveryHistoryVars>>
  PROVE  /\ RecordType(Contents)' /\ RunHistoryType(Revisions, Lists)' /\ DiscoveryHistoryType(Revisions)'
         /\ \A w \in Workspaces : Below(attempts[w])'
         /\ Below(dAttempt)'
  BY DEF TypeInv, RecordType, RunHistoryType, DiscoveryHistoryType, recordVars, runHistoryVars, discoveryHistoryVars,
         StartInv, Below

\* An edit or a job's write that lands keeps the types.
LEMMA CommitTyped ==
  ASSUME TypeInv, NEW p \in Paths, Commit(p), sinceEdit' \in {sinceEdit, [w \in Workspaces |-> 0]}
  PROVE  TypeInv'
<1>1. EnvType' /\ StoreType'
  <2>1. revision' \in Revisions /\ digests' \in Contents
    BY SchedulerAssumption DEF TypeInv, EnvType, Commit, Contents, Revisions
  <2> QED
    BY <2>1 DEF TypeInv, EnvType, StoreType, Commit, storeVars
<1>2. job' \in JobType /\ job'.subject = job.subject /\ job'.before = job.before /\ job'.startCount = job.startCount
  BY DEF TypeInv, JobType, Commit, Recorded
<1>3. LoopType' /\ CountsType'
  BY DEF TypeInv, LoopType, CountsType, Commit, Recorded, planVars
<1>4. HistoryType'
  <2>1. NoneBegun \in BegunType
    BY NoJobTyped DEF NoneBegun, BegunType, JobType
  <2> QED
    BY <2>1, HistoryAssumption DEF TypeInv, HistoryType, Commit, Recorded
<1>5. BeforeType'
  BY <1>2 DEF TypeInv, BeforeType, Runs
<1> QED
  BY <1>1, <1>2, <1>3, <1>4, <1>5, RecordsKept DEF TypeInv, StartInv, Below, Commit

\* So does a write that changes no content.
LEMMA TouchTyped ==
  ASSUME TypeInv, NEW p \in Paths, Touch(p)
  PROVE  TypeInv'
<1>1. EnvType' /\ StoreType'
  BY DEF TypeInv, EnvType, StoreType, Touch, storeVars
<1>2. job' \in JobType /\ job'.subject = job.subject /\ job'.before = job.before /\ job'.startCount = job.startCount
  BY DEF TypeInv, JobType, Touch, Recorded
<1>3. LoopType' /\ CountsType'
  BY SchedulerAssumption DEF TypeInv, LoopType, CountsType, Touch, Recorded, planVars
<1>4. HistoryType'
  BY HistoryAssumption DEF TypeInv, HistoryType, Touch, Recorded
<1>5. BeforeType'
  BY <1>2 DEF TypeInv, BeforeType, Runs
<1> QED
  BY <1>1, <1>2, <1>3, <1>4, <1>5, RecordsKept DEF TypeInv, StartInv, Below, Touch

\* So does an index that vouches for its inputs, stops vouching or reconciles.
LEMMA VouchingTyped ==
  ASSUME TypeInv, Vouch \/ PeriodicReconciliation \/ \E caused \in BOOLEAN : Unvouch(caused)
  PROVE  TypeInv'
<1>1. EnvType' /\ StoreType'
  BY DEF TypeInv, EnvType, StoreType, Vouch, PeriodicReconciliation, Unvouch, storeVars
<1>2. job' \in JobType /\ job'.subject = job.subject /\ job'.before = job.before /\ job'.startCount = job.startCount
  BY DEF TypeInv, JobType, Vouch, PeriodicReconciliation, Unvouch
<1>3. LoopType' /\ CountsType'
  <2>1. LoopType'
    BY DEF TypeInv, LoopType, Vouch, PeriodicReconciliation, Unvouch, planVars
  <2>2. CountsType'
    BY SchedulerAssumption DEF TypeInv, CountsType, Vouch, PeriodicReconciliation, Unvouch
  <2> QED
    BY <2>1, <2>2
<1>4. HistoryType'
  BY HistoryAssumption DEF TypeInv, HistoryType, Vouch, PeriodicReconciliation, Unvouch, historyVars
<1>5. BeforeType'
  BY <1>2 DEF TypeInv, BeforeType, Runs
<1> QED
  BY <1>1, <1>2, <1>3, <1>4, <1>5, RecordsKept DEF TypeInv, StartInv, Below, Vouch, PeriodicReconciliation, Unvouch

\* So does a build that ends with its placement.
LEMMA BuildEndsTyped ==
  ASSUME TypeInv, NEW kind \in {"narrowed", "widened"}, BuildEnds(kind)
  PROVE  TypeInv'
<1>1. EnvType' /\ StoreType'
  BY DEF TypeInv, EnvType, StoreType, BuildEnds, storeVars
<1>2. job' \in JobType /\ job'.subject = job.subject /\ job'.before = job.before /\ job'.startCount = job.startCount
  BY DEF TypeInv, JobType, BuildEnds
<1>3. LoopType' /\ CountsType' /\ HistoryType'
  BY SchedulerAssumption DEF TypeInv, LoopType, CountsType, HistoryType, BuildEnds, planVars, historyVars
<1>4. BeforeType'
  BY <1>2 DEF TypeInv, BeforeType, Runs
<1> QED
  BY <1>1, <1>2, <1>3, <1>4, RecordsKept DEF TypeInv, StartInv, Below, BuildEnds

\* So does a report of edited files and the reading of one.
LEMMA ReportTyped ==
  ASSUME TypeInv, NEW c \in Callers,
         ReportRead(c) \/ \E keys \in SUBSET Paths \ {{}} : Report(c, keys)
  PROVE  TypeInv'
<1>1. RecordType(Contents)'
  BY ReportOperations DEF TypeInv, ReportRead, Report
<1>2. RunHistoryType(Revisions, Lists)' /\ DiscoveryHistoryType(Revisions)'
  BY DEF TypeInv, ReportRead, Report, RunHistoryType, DiscoveryHistoryType, runHistoryVars, discoveryHistoryVars
<1>3. EnvType' /\ StoreType' /\ LoopType' /\ job' \in JobType
  BY DEF TypeInv, EnvType, StoreType, LoopType, ReportRead, Report, envVars, storeVars, planVars
<1>4. CountsType' /\ HistoryType'
  BY SchedulerAssumption DEF TypeInv, CountsType, HistoryType, ReportRead, Report, historyVars
<1>5. BeforeType' /\ StartInv'
  BY DEF TypeInv, BeforeType, Runs, StartInv, Below, ReportRead, Report, runHistoryVars, discoveryHistoryVars
<1> QED
  BY <1>1, <1>2, <1>3, <1>4, <1>5 DEF TypeInv

\* The loop's steps outside a plan and a job, and the interruption.
LEMMA LoopTyped ==
  ASSUME TypeInv, Wake \/ CoolDown \/ PlanFails \/ Interrupt
  PROVE  TypeInv'
<1>1. EnvType' /\ StoreType' /\ HistoryType'
  BY DEF TypeInv, EnvType, StoreType, HistoryType, Wake, CoolDown, PlanFails, Interrupt, envVars, storeVars, historyVars
<1>2. job' \in JobType /\ job'.subject = job.subject /\ job'.before = job.before /\ job'.startCount = job.startCount
  <2>1. CASE Interrupt
    <3>1. job.window.paths \cap Inside[job.subject] \in SUBSET Paths
      BY DEF TypeInv, JobType
    <3> QED
      BY <2>1, <3>1 DEF TypeInv, JobType, Interrupt
  <2> QED
    BY <2>1 DEF TypeInv, Wake, CoolDown, PlanFails
<1>3. CountsType'
  BY SchedulerAssumption DEF TypeInv, CountsType, Wake, CoolDown, PlanFails, Interrupt
<1>4. LoopType'
  BY PendingTyped DEF TypeInv, LoopType, Wake, CoolDown, PlanFails, Interrupt, planVars
<1>5. BeforeType'
  BY <1>2 DEF TypeInv, BeforeType, Runs
<1>6. /\ RecordType(Contents)' /\ RunHistoryType(Revisions, Lists)'
      /\ dAttempt' = dAttempt /\ attempts' = attempts
  BY DEF TypeInv, RecordType, RunHistoryType, Wake, CoolDown, PlanFails, Interrupt, recordVars, runHistoryVars, discoveryHistoryVars
<1>7. DiscoveryHistoryType(Revisions)'
  BY DEF TypeInv, DiscoveryHistoryType, Wake, CoolDown, PlanFails, Interrupt, discoveryHistoryVars
<1> QED
  BY <1>1, <1>2, <1>3, <1>4, <1>5, <1>6, <1>7 DEF TypeInv, StartInv, Below

-----------------------------------------------------------------------------
(* Those of a job *)

\* With no job under way there is no attempt to give back.
LEMMA NoJobLeft ==
  ASSUME job' = NoJob
  PROVE  /\ job' \in JobType /\ BeforeType' /\ Below(job'.before) /\ job'.startCount.count < HoldCount
  BY NoJobTyped, NoCountTyped, RecordAssumption DEF BeforeType, Runs, Below

\* So does a job given up before it begins.
LEMMA JobNotBegunTyped ==
  ASSUME TypeInv, JobNotBegun
  PROVE  TypeInv'
<1>1. job \in JobType
  BY DEF TypeInv
<1>2. RecordType(Contents)'
  BY <1>1, RecordOperations DEF TypeInv, JobNotBegun, RecordType, JobOver, JobType
<1>3. attempts' \in [Workspaces -> AttemptType(Revisions, Lists) \cup {NoAttempt}]
  BY DEF TypeInv, JobNotBegun, RunHistoryType, BeforeType
<1>4. dAttempt' \in DiscoveryAttemptType(Revisions) \cup {NoAttempt}
  BY DEF TypeInv, JobNotBegun, DiscoveryHistoryType, BeforeType
<1>5. RunHistoryType(Revisions, Lists)' /\ DiscoveryHistoryType(Revisions)'
  <2>1. job.retried \in BOOLEAN
    BY <1>1 DEF JobType
  <2>2. dRetry' \in BOOLEAN
    BY <2>1 DEF TypeInv, JobNotBegun, DiscoveryHistoryType
  <2> QED
    BY <1>3, <1>4, <2>2 DEF TypeInv, JobNotBegun, RunHistoryType, DiscoveryHistoryType
<1>6. EnvType' /\ StoreType' /\ CountsType' /\ HistoryType'
  BY DEF TypeInv, JobNotBegun, EnvType, StoreType, CountsType, HistoryType, storeVars
<1>7. LoopType'
  BY DEF TypeInv, JobNotBegun, LoopType, Runs
<1>8. (\A w \in Workspaces : Below(attempts[w])') /\ Below(dAttempt)'
  BY DEF TypeInv, JobNotBegun, StartInv, Below, RunHistoryType
<1> QED
  BY <1>2, <1>5, <1>6, <1>7, <1>8, NoJobLeft DEF TypeInv, StartInv, Below, JobNotBegun

\* So does a job that starts, with the window and the digests it starts from.
LEMMA JobStartsTyped ==
  ASSUME TypeInv, JobStarts
  PROVE  TypeInv'
<1>1. job \in JobType /\ job.subject \in Subjects
  BY DEF TypeInv, JobType
<1>2. ViewDigests \in Contents \cup {NoDigests} /\ Placement \in {"none", "narrowed", "widened"}
  BY DEF TypeInv, EnvType, ViewDigests, Placement
<1>3. Runs => Fingerprint(job.subject) \in Prints
  BY ViewTyped DEF TypeInv, Runs
<1>4. ViewDigests \in Prints
  BY <1>2 DEF Prints, Contents
<1>5. job' \in JobType /\ job'.subject = job.subject /\ job'.before = job.before /\ job'.startCount = job.startCount
  <2> DEFINE win == [NoWindow EXCEPT !.start = ViewDigests]
             shown == IF Runs THEN Fingerprint(job.subject) ELSE ViewDigests
             placed == {Placement} \ {"none"}
  <2>1. win \in [paths : SUBSET Paths, caused : BOOLEAN, start : Contents \cup {NoDigests}, end : Contents \cup {NoDigests}]
    BY <1>2 DEF NoWindow
  <2>2. placed \in SUBSET {"narrowed", "widened"}
    BY <1>2
  <2>3. shown \in Prints
    BY <1>3, <1>4
  <2>4. job' = [job EXCEPT !.window = win, !.print = shown, !.placements = placed]
    BY DEF JobStarts
  <2> HIDE DEF win, shown, placed
  <2> QED
    BY <1>1, <2>1, <2>2, <2>3, <2>4 DEF JobType
<1>6. EnvType' /\ StoreType' /\ CountsType' /\ LoopType'
  BY DEF TypeInv, JobStarts, EnvType, StoreType, CountsType, LoopType, envVars, storeVars, planVars
<1>7. HistoryType'
  <2>1. \A x \in 0..3 : UpTo(2, x) \in 0..3
    BY DEF UpTo
  <2>2. \A x \in 0..(HoldCount + 1) : UpTo(HoldCount, x) \in 0..(HoldCount + 1)
    BY HistoryAssumption DEF UpTo
  <2>3. begun' \in [Subjects -> BegunType]
    <3> DEFINE more == [jobs |-> IF job.retried \/ begun[job.subject].modules # job.modules THEN 1
                                ELSE UpTo(2, begun[job.subject].jobs),
                       modules |-> job.modules]
    <3>1. begun \in [Subjects -> BegunType] /\ begun' = [begun EXCEPT ![job.subject] = more]
      BY DEF TypeInv, HistoryType, JobStarts
    <3>2. more \in BegunType
      BY <1>1, <2>1, <3>1 DEF BegunType, JobType
    <3> HIDE DEF more
    <3> QED
      BY <1>1, <3>1, <3>2
  <2>4. sinceEdit' \in [Workspaces -> 0..(HoldCount + 1)]
    BY <1>1, <2>2 DEF TypeInv, HistoryType, JobStarts, Runs
  <2> QED
    BY <2>3, <2>4 DEF TypeInv, HistoryType, JobStarts
<1>8. BeforeType'
  BY <1>5 DEF TypeInv, BeforeType, Runs
<1> QED
  BY <1>5, <1>6, <1>7, <1>8, RecordsKept DEF TypeInv, StartInv, Below, JobStarts

\* So does a job that returns.
LEMMA JobReturnsTyped ==
  ASSUME TypeInv, NEW outcome \in {"ran", "failed", "nothing", "interrupted"}, JobReturns(outcome)
  PROVE  TypeInv'
<1>1. ViewDigests \in Contents \cup {NoDigests}
  BY DEF TypeInv, EnvType, ViewDigests
<1>2. job' \in JobType /\ job'.subject = job.subject /\ job'.before = job.before /\ job'.startCount = job.startCount
  <2> DEFINE win == [job.window EXCEPT !.end = ViewDigests]
  <2>1. job \in JobType
    BY DEF TypeInv
  <2>2. win \in [paths : SUBSET Paths, caused : BOOLEAN, start : Contents \cup {NoDigests}, end : Contents \cup {NoDigests}]
    BY <1>1, <2>1 DEF JobType
  <2>3. job' = [job EXCEPT !.outcome = outcome, !.window = win]
    BY <2>1 DEF JobReturns, JobType
  <2> HIDE DEF win
  <2> QED
    BY <2>1, <2>2, <2>3 DEF JobType
<1>3. EnvType' /\ StoreType' /\ LoopType'
  BY DEF TypeInv, JobReturns, EnvType, StoreType, LoopType, storeVars, planVars
<1>4. CountsType' /\ HistoryType'
  BY SchedulerAssumption, HistoryAssumption DEF TypeInv, JobReturns, CountsType, HistoryType
<1>5. BeforeType'
  BY <1>2 DEF TypeInv, BeforeType, Runs
<1> QED
  BY <1>2, <1>3, <1>4, <1>5, RecordsKept DEF TypeInv, StartInv, Below, JobReturns

\* So does a job that throws.
LEMMA JobThrowsTyped ==
  ASSUME TypeInv, JobThrows
  PROVE  TypeInv'
<1>1. job \in JobType /\ job.subject \in Subjects
  BY DEF TypeInv, JobType
<1>2. RecordType(Contents)'
  BY <1>1, CountedTyped DEF TypeInv, JobThrows, JobThrew, JobOver, RecordType
<1>3. RunHistoryType(Revisions, Lists)' /\ DiscoveryHistoryType(Revisions)'
  BY DEF TypeInv, JobThrows, RunHistoryType, DiscoveryHistoryType, runHistoryVars, discoveryHistoryVars
<1>4. EnvType' /\ StoreType' /\ HistoryType'
  BY HistoryAssumption DEF TypeInv, JobThrows, EnvType, StoreType, HistoryType, envVars, storeVars
<1>5. CountsType'
  BY SchedulerAssumption DEF TypeInv, JobThrows, CountsType
<1>6. LoopType'
  BY PendingTyped DEF TypeInv, JobThrows, LoopType, planVars
<1>7. (\A w \in Workspaces : Below(attempts[w])') /\ Below(dAttempt)'
  BY DEF TypeInv, JobThrows, StartInv, Below, runHistoryVars, discoveryHistoryVars
<1> QED
  BY <1>2, <1>3, <1>4, <1>5, <1>6, <1>7, NoJobLeft DEF TypeInv, StartInv, Below, JobThrows

Verdicts == {"noStart", "changedInside", "causes", "endUnavailable", "moved", "kept"}

\* What a run leaves as its workspace's attempt.
Ended(w, stored) ==
    EndedAttempt([modules |-> job.modules, isRerun |-> job.again, startCount |-> job.startCount],
                 RunReport(w, stored), revision)

\* The attempt a run leaves is an attempt, counted from what the run started with.
LEMMA EndedTyped ==
  ASSUME TypeInv, NEW w \in Workspaces, NEW stored \in BOOLEAN
  PROVE  Ended(w, stored) \in AttemptType(Revisions, Lists) /\ Ended(w, stored).startCount = job.startCount
<1> DEFINE report == RunReport(w, stored)
<1>1. job \in JobType
  BY DEF TypeInv
<1>2. report \in [revision : Revisions, stored : BOOLEAN, interrupted : BOOLEAN, changed : BOOLEAN, verdict : Verdicts]
  <2>1. Judgment(w) \in Verdicts
    BY DEF Judgment, Verdicts
  <2> QED
    BY <1>1, <2>1 DEF RunReport, JobType, ChangedWhileRunning
<1>3. Ended(w, stored) = EndedAttempt([modules |-> job.modules, isRerun |-> job.again, startCount |-> job.startCount], report, revision)
  BY DEF Ended
<1> HIDE DEF report
<1> QED
  BY <1>1, <1>2, <1>3 DEF EndedAttempt, OwedAgain, Qualifies, AttemptType, JobType

\* A run that ends, stored or not, keeps the types.
LEMMA RunEndsTyped ==
  ASSUME TypeInv, NEW w \in Workspaces, NEW stored \in BOOLEAN, NEW refreshed \in BOOLEAN, RunEnds(w, stored, refreshed)
  PROVE  TypeInv'
<1> DEFINE report == RunReport(w, stored)
           ended == Ended(w, stored)
           owed == OwedAgain([isRerun |-> job.again], report, revision)
<1>1. job \in JobType /\ job.startCount.count < HoldCount
  BY DEF TypeInv, StartInv
<1>3. ended \in AttemptType(Revisions, Lists) /\ ended.startCount = job.startCount
  BY EndedTyped
<1>4. RecordType(Contents)'
  BY <1>1, RecordOperations DEF TypeInv, RunEnds, JobType, Subjects
<1> HIDE DEF ended, owed, report
<1>5. attempts' = [attempts EXCEPT ![w] = ended] /\ round' = RoundAfter(w, owed)
  BY DEF RunEnds, Ended, ended, owed, report
<1>6. RunHistoryType(Revisions, Lists)' /\ (\A x \in Workspaces : Below(attempts[x])')
  <2>1. attempts \in [Workspaces -> AttemptType(Revisions, Lists) \cup {NoAttempt}]
    BY DEF TypeInv, RunHistoryType
  <2>2. attempts' \in [Workspaces -> AttemptType(Revisions, Lists) \cup {NoAttempt}]
    BY <1>3, <1>5, <2>1
  <2>3. \A x \in Workspaces : attempts'[x] = IF x = w THEN ended ELSE attempts[x]
    BY <1>5, <2>1
  <2>4. \A x \in Workspaces : Below(attempts'[x])
    BY <1>1, <1>3, <2>3 DEF TypeInv, StartInv, Below
  <2> QED
    BY <2>2, <2>4 DEF TypeInv, RunEnds, RunHistoryType, Below
<1>7. DiscoveryHistoryType(Revisions)' /\ Below(dAttempt)'
  BY DEF TypeInv, RunEnds, DiscoveryHistoryType, discoveryHistoryVars, StartInv, Below
<1>8. EnvType'
  BY DEF TypeInv, RunEnds, EnvType
<1>9. StoreType'
  <2>1. [print |-> IF report.verdict = "kept" THEN job.print ELSE NoDigests, failed |-> job.outcome = "failed"] \in RunType
    BY <1>1 DEF RunType, JobType, Prints
  <2> QED
    BY <2>1 DEF TypeInv, RunEnds, StoreType, report
<1>10. CountsType' /\ HistoryType'
  BY SchedulerAssumption, HistoryAssumption DEF TypeInv, RunEnds, CountsType, HistoryType
<1>11. LoopType'
  BY <1>5 DEF TypeInv, RunEnds, LoopType, RoundType, RoundAfter, planVars
<1> QED
  BY <1>4, <1>6, <1>7, <1>8, <1>9, <1>10, <1>11, NoJobLeft DEF TypeInv, StartInv, Below, RunEnds

\* So does a discovery that ends.
LEMMA DiscoveryEndsTyped ==
  ASSUME TypeInv, NEW stored \in BOOLEAN, NEW modules \in Lists, DiscoveryEnds(stored, modules)
  PROVE  TypeInv'
<1>1. job \in JobType /\ job.startCount.count < HoldCount
  BY DEF TypeInv, StartInv
<1>2. RecordType(Contents)'
  BY <1>1, RecordOperations DEF TypeInv, DiscoveryEnds, JobType, Subjects
<1>3. RunHistoryType(Revisions, Lists)' /\ (\A x \in Workspaces : Below(attempts[x])')
  BY DEF TypeInv, DiscoveryEnds, RunHistoryType, runHistoryVars, StartInv, Below
<1>4. DiscoveryHistoryType(Revisions)' /\ Below(dAttempt)'
  <2> DEFINE onceMore == stored /\ DiscoveryChanged /\ job.planned = revision /\ ~job.again
  <2>1. onceMore \in BOOLEAN
    OBVIOUS
  <2> HIDE DEF onceMore
  <2>2. dAttempt' = DiscoveryAttempt(job.planned, stored, onceMore, job.startCount) /\ cooling' = (cooling \/ onceMore)
    BY DEF DiscoveryEnds, onceMore
  <2>3. dAttempt' \in DiscoveryAttemptType(Revisions) /\ dAttempt'.startCount = job.startCount
    BY <1>1, <2>1, <2>2 DEF DiscoveryAttempt, DiscoveryAttemptType, JobType
  <2> QED
    BY <1>1, <2>1, <2>2, <2>3 DEF TypeInv, DiscoveryEnds, DiscoveryHistoryType, Below
<1>5. EnvType'
  BY DEF TypeInv, DiscoveryEnds, EnvType
<1>6. StoreType'
  <2>1. [print |-> IF DiscoveryClean THEN digests ELSE NoDigests, modules |-> modules, failed |-> job.outcome = "failed"] \in DiscoveryType
    BY DEF DiscoveryType, TypeInv, EnvType
  <2> QED
    BY <2>1 DEF TypeInv, DiscoveryEnds, StoreType
<1>7. CountsType'
  BY SchedulerAssumption DEF TypeInv, DiscoveryEnds, CountsType
<1>8. HistoryType'
  BY HistoryAssumption DEF TypeInv, DiscoveryEnds, HistoryType
<1>9. LoopType'
  BY DEF TypeInv, DiscoveryEnds, LoopType, planVars
<1> QED
  BY <1>2, <1>3, <1>4, <1>5, <1>6, <1>7, <1>8, <1>9, NoJobLeft DEF TypeInv, StartInv, Below, DiscoveryEnds
-----------------------------------------------------------------------------
(* And those of a plan *)

\* What every plan leaves of the types, whatever step it takes.
LEMMA PlanningTyped ==
  ASSUME TypeInv, Planning
  PROVE  /\ Observed \in [Subjects -> ChangesType] /\ changes' = Observed /\ last' \in Contents \cup {NoDigests}
         /\ unread' = unread
         /\ DiscoveryPlan.count \in CountType /\ DiscoveryPlan.held \in SUBSET Paths
         /\ DiscoveryPlan.held = {} => DiscoveryPlan.count.count < HoldCount
         /\ dDecided' \in CountType /\ dHeld' \in SUBSET Paths /\ dLatest' \in SUBSET Paths /\ cooling' \in BOOLEAN
         /\ PlanRetry \in BOOLEAN /\ PlanRetries \in SUBSET Workspaces
         /\ EnvType' /\ StoreType' /\ CountsType'
         /\ roundRevision' \in Revisions
         /\ begun' = begun /\ relisted' = FALSE /\ sinceEdit' = sinceEdit /\ landed' = landed /\ vouchedEdit' = vouchedEdit
<1>1. Observed \in [Subjects -> ChangesType]
  BY IntervalAddsEdits DEF TypeInv, RecordType, Observed
<1>2. Observed[Discovery] \in ChangesType
  BY <1>1 DEF Subjects
<1>3. /\ DiscoveryPlan.count \in CountType /\ DiscoveryPlan.held \in SUBSET Paths
      /\ DiscoveryPlan.latest \in SUBSET Paths /\ DiscoveryPlan.retry \in BOOLEAN
      /\ DiscoveryPlan.held = {} => DiscoveryPlan.count.count < HoldCount
  BY <1>2, DiscoveryDecisionTyped DEF TypeInv, DiscoveryPlan
<1>4. last' \in Contents \cup {NoDigests}
  BY DEF TypeInv, EnvType, Planning, ViewDigests
<1>5. EnvType' /\ StoreType' /\ CountsType'
  BY DEF TypeInv, EnvType, StoreType, CountsType, Planning, storeVars
<1>6. PlanRetries \in SUBSET Workspaces
  BY DEF TypeInv, LoopType, PlanRetries, Eligible
<1>7. PlanRetry \in BOOLEAN
  <2> DEFINE failed == record # NotInEffect /\ record.failed
  <2>1. failed \in BOOLEAN
    BY DEF TypeInv, StoreType, DiscoveryType
  <2>2. (dAttempt # NoAttempt /\ ~dAttempt.stored) \in BOOLEAN
    OBVIOUS
  <2> HIDE DEF failed
  <2>3. ArmedRetry(DiscoveryPlan.held, failed) \in BOOLEAN
    BY <2>1, <2>2 DEF ArmedRetry
  <2> QED
    BY <1>3, <2>3 DEF PlanRetry, failed
<1>8. /\ changes' = Observed /\ unread' = unread
      /\ dDecided' = DiscoveryPlan.count /\ dHeld' = DiscoveryPlan.held /\ dLatest' = DiscoveryPlan.latest
      /\ cooling' = cooling /\ roundRevision' = revision
      /\ begun' = begun /\ relisted' = FALSE /\ sinceEdit' = sinceEdit /\ landed' = landed
      /\ vouchedEdit' = vouchedEdit
  BY DEF Planning
<1>9. cooling \in BOOLEAN /\ revision \in Revisions
  BY DEF TypeInv, EnvType, DiscoveryHistoryType
<1> QED
  BY <1>1, <1>3, <1>4, <1>5, <1>6, <1>7, <1>8, <1>9

\* The decisions of a plan no discovery of which is due.
LEMMA DecidingTyped ==
  ASSUME TypeInv, Planning, Deciding
  PROVE  /\ decided' \in [Workspaces -> CountType] /\ heldRuns' \in [Workspaces -> SUBSET Paths]
         /\ round' \in RoundType
         /\ \A w \in Considered : /\ RunPlan[w].count \in CountType
                                  /\ RunPlan[w].held = {} => RunPlan[w].count.count < HoldCount
         /\ Considered \in SUBSET Workspaces
<1>1. Considered \in SUBSET Workspaces
  BY DEF Considered, Eligible
<1>2. \A w \in Considered : /\ RunPlan[w].count \in CountType /\ RunPlan[w].held \in SUBSET Paths
                            /\ RunPlan[w].held = {} => RunPlan[w].count.count < HoldCount
  <2> SUFFICES ASSUME NEW w \in Considered
               PROVE  /\ RunPlan[w].count \in CountType /\ RunPlan[w].held \in SUBSET Paths
                      /\ RunPlan[w].held = {} => RunPlan[w].count.count < HoldCount
    OBVIOUS
  <2>1. Observed[w] \in ChangesType
    BY <1>1, PlanningTyped DEF Subjects
  <2>2. DueFacts(w) \in DueType
    <3>1. Scope(w, Placement) \in SUBSET Paths
      BY <1>1, ViewTyped DEF TypeInv
    <3> QED
      BY <3>1 DEF DueFacts, DueType
  <2>3. RunPlan[w] = Decision(w, Observed[w], DueFacts(w))
    BY DEF RunPlan
  <2> QED
    BY <1>1, <2>1, <2>2, <2>3, DecisionTyped DEF TypeInv
<1>3. DueRuns \in SUBSET Workspaces
  BY <1>1 DEF DueRuns
<1>4. round' \in RoundType
  BY <1>3 DEF Deciding, RoundType, TypeInv, EnvType
<1> HIDE DEF RunPlan, Considered
<1> QED
  BY <1>1, <1>2, <1>4 DEF Deciding, TypeInv, RunHistoryType

\* A plan that waits keeps the types.
LEMMA PlanWaitTyped ==
  ASSUME TypeInv, PlanWait
  PROVE  TypeInv'
<1>1. Planning
  BY DEF PlanWait
<1>2. RecordType(Contents)' /\ RunHistoryType(Revisions, Lists)' /\ DiscoveryHistoryType(Revisions)'
  BY <1>1, PlanningTyped
     DEF TypeInv, RecordType, RunHistoryType, DiscoveryHistoryType, PlanWait, runHistoryVars
<1>3. LoopType' /\ HistoryType'
  BY <1>1, PlanningTyped, PendingTyped DEF TypeInv, LoopType, HistoryType, PlanWait
<1>4. job' \in JobType /\ BeforeType' /\ StartInv'
  BY DEF TypeInv, BeforeType, Runs, StartInv, Below, PlanWait, runHistoryVars
<1> QED
  BY <1>1, <1>2, <1>3, <1>4, PlanningTyped DEF TypeInv

\* So does one that finds nothing due.
LEMMA PlanIdleTyped ==
  ASSUME TypeInv, PlanIdle
  PROVE  TypeInv'
<1>1. Planning /\ Deciding
  BY DEF PlanIdle
<1>2. RecordType(Contents)' /\ RunHistoryType(Revisions, Lists)' /\ DiscoveryHistoryType(Revisions)'
  BY <1>1, PlanningTyped, DecidingTyped
     DEF TypeInv, RecordType, RunHistoryType, DiscoveryHistoryType, PlanIdle
<1>3. LoopType' /\ HistoryType'
  BY <1>1, PlanningTyped, DecidingTyped DEF TypeInv, LoopType, HistoryType, PlanIdle, LeftRetries
<1>4. job' \in JobType /\ BeforeType' /\ StartInv'
  BY DEF TypeInv, BeforeType, Runs, StartInv, Below, PlanIdle
<1> QED
  BY <1>1, <1>2, <1>3, <1>4, PlanningTyped DEF TypeInv

\* So does one that begins a discovery.
LEMMA PlanDiscoverTyped ==
  ASSUME TypeInv, PlanDiscover
  PROVE  TypeInv'
<1>1. Planning
  BY DEF PlanDiscover
<1>2. DiscoveryPlan.held = {} /\ DiscoveryPlan.count \in CountType /\ DiscoveryPlan.count.count < HoldCount
  BY <1>1, PlanningTyped DEF PlanDiscover, PlanDue, DiscoveryDue
<1>3. dAttempt' \in DiscoveryAttemptType(Revisions) /\ dAttempt'.startCount = DiscoveryPlan.count
  BY <1>2 DEF TypeInv, EnvType, PlanDiscover, DiscoveryAttempt, DiscoveryAttemptType
<1>4. /\ job' \in JobType /\ job'.subject = Discovery /\ job'.before = dAttempt
      /\ job'.startCount = DiscoveryPlan.count
  <2>1. dAttempt \in DiscoveryAttemptType(Revisions) \cup {NoAttempt} /\ revision \in Revisions
    BY DEF TypeInv, DiscoveryHistoryType, EnvType
  <2>2. IsOnceMore(revision) \in BOOLEAN
    BY DEF IsOnceMore
  <2>3. PlanRetry \in BOOLEAN
    BY <1>1, PlanningTyped
  <2> HIDE DEF PlanRetry, DiscoveryPlan, IsOnceMore
  <2> QED
    BY <1>2, <2>1, <2>2, <2>3, NoJobTyped DEF PlanDiscover, JobType
<1>5. Reported \in SUBSET Paths
  BY DEF Reported, TypeInv, RecordType
<1>6. RecordType(Contents)' /\ RunHistoryType(Revisions, Lists)' /\ DiscoveryHistoryType(Revisions)'
  BY <1>1, <1>3, <1>5, PlanningTyped
     DEF TypeInv, RecordType, RunHistoryType, DiscoveryHistoryType, PlanDiscover, JobBegan, runHistoryVars
<1>7. LoopType' /\ HistoryType'
  BY <1>1, <1>5, PlanningTyped, PendingTyped DEF TypeInv, LoopType, HistoryType, PlanDiscover
<1>8. BeforeType'
  BY <1>4, RecordAssumption DEF BeforeType, Runs, TypeInv, DiscoveryHistoryType
<1>9. StartInv'
  BY <1>2, <1>3, <1>4 DEF StartInv, Below, TypeInv, PlanDiscover, runHistoryVars
<1> QED
  BY <1>1, <1>4, <1>6, <1>7, <1>8, <1>9, PlanningTyped DEF TypeInv

\* So does one that begins a run.
LEMMA PlanRunTyped ==
  ASSUME TypeInv, NEW w \in Workspaces, PlanRun(w)
  PROVE  TypeInv'
<1>1. Planning /\ Deciding /\ w \in Considered
  BY DEF PlanRun, DueRuns
<1>2. RunPlan[w].count \in CountType /\ RunPlan[w].count.count < HoldCount
  BY <1>1, DecidingTyped DEF PlanRun, DueRuns
<1>3. record.modules \in Lists /\ revision \in Revisions
  BY <1>1 DEF TypeInv, StoreType, EnvType, DiscoveryType, Considered, Eligible
<1>4. /\ attempts' \in [Workspaces -> AttemptType(Revisions, Lists) \cup {NoAttempt}]
      /\ \A x \in Workspaces : Below(attempts[x])'
  <2> DEFINE begins == Attempt(revision, record.modules, RunPlan[w].count)
  <2>1. begins \in AttemptType(Revisions, Lists) /\ begins.startCount = RunPlan[w].count
    BY <1>2, <1>3 DEF Attempt, AttemptType
  <2> HIDE DEF begins
  <2>2. attempts' = [attempts EXCEPT ![w] = begins]
    BY DEF PlanRun, begins
  <2> QED
    BY <1>2, <2>1, <2>2 DEF TypeInv, RunHistoryType, StartInv, Below
<1>5. /\ job' \in JobType /\ job'.subject = w /\ job'.before = attempts[w]
      /\ job'.startCount = RunPlan[w].count
  <2>1. attempts[w] \in AttemptType(Revisions, Lists) \cup {NoAttempt}
    BY DEF TypeInv, RunHistoryType
  <2>2. IsRerun(w, revision, record.modules) \in BOOLEAN
    <3>1. attempts[w] # NoAttempt => attempts[w].rerunOwed \in BOOLEAN
      BY <2>1 DEF AttemptType
    <3> QED
      BY <3>1 DEF IsRerun
  <2>3. Uninterruptible(w) \in BOOLEAN /\ (w \in LeftRetries) \in BOOLEAN /\ w \in Subjects
    BY DEF Uninterruptible, Subjects
  <2> DEFINE again == IsRerun(w, revision, record.modules)
             count == RunPlan[w].count
             retried == w \in LeftRetries
             kept == Uninterruptible(w)
             before == attempts[w]
  <2>4. again \in BOOLEAN /\ count \in CountType /\ retried \in BOOLEAN /\ kept \in BOOLEAN
        /\ before \in AttemptType(Revisions, Lists) \cup {NoAttempt}
    BY <1>2, <2>1, <2>2, <2>3
  <2> DEFINE asked == [NoJob EXCEPT !.subject = w, !.planned = revision, !.modules = record.modules, !.again = again]
  <2>5. asked \in JobType
    <3> HIDE DEF again
    <3> QED
      BY <1>3, <2>3, <2>4, NoJobTyped DEF JobType
  <2>6. job' = [asked EXCEPT !.startCount = count, !.before = before, !.retried = retried, !.uninterruptible = kept]
    BY NoJobTyped DEF PlanRun, JobType
  <2>7. asked.subject = w
    BY NoJobTyped DEF JobType
  <2> HIDE DEF again, count, retried, kept, before, asked
  <2>8. job' \in JobType
    BY <2>4, <2>5, <2>6 DEF JobType
  <2>9. job'.subject = w /\ job'.before = before /\ job'.startCount = count
    BY <2>5, <2>6, <2>7 DEF JobType
  <2> QED
    BY <2>8, <2>9 DEF before, count
<1>6. Reported \in SUBSET Paths
  BY DEF Reported, TypeInv, RecordType
<1>7. RecordType(Contents)' /\ RunHistoryType(Revisions, Lists)' /\ DiscoveryHistoryType(Revisions)'
  BY <1>1, <1>4, <1>6, PlanningTyped, DecidingTyped
     DEF TypeInv, RecordType, RunHistoryType, DiscoveryHistoryType, PlanRun, JobBegan
<1>8. LoopType' /\ HistoryType'
  BY <1>1, <1>6, PlanningTyped, DecidingTyped DEF TypeInv, LoopType, HistoryType, PlanRun, LeftRetries
<1>9. BeforeType'
  BY <1>5 DEF BeforeType, Runs, TypeInv, RunHistoryType
<1>10. StartInv'
  BY <1>2, <1>4, <1>5 DEF StartInv, Below, TypeInv, PlanRun
<1> QED
  BY <1>1, <1>5, <1>7, <1>8, <1>9, <1>10, PlanningTyped DEF TypeInv

\* Every step keeps the types.
LEMMA StepTyped == TypeInv /\ [Next]_vars => TypeInv'
<1> SUFFICES ASSUME TypeInv, [Next]_vars PROVE TypeInv'
  OBVIOUS
<1>1. CASE Plan
  BY <1>1, PlanWaitTyped, PlanDiscoverTyped, PlanIdleTyped, PlanRunTyped DEF Plan
<1>2. CASE PlanFails \/ Wake \/ CoolDown \/ Interrupt
  BY <1>2, LoopTyped
<1>3. CASE JobStep
  BY <1>3, JobNotBegunTyped, JobStartsTyped, RunEndsTyped, DiscoveryEndsTyped, JobReturnsTyped DEF JobStep, JobEnds
<1>4. CASE JobThrows
  BY <1>4, JobThrowsTyped
<1>5. CASE Surroundings
  <2>1. ASSUME NEW p \in Paths, JobWrite(p) \/ Edit(p)
        PROVE  TypeInv'
    BY <2>1, CommitTyped DEF JobWrite, Edit
  <2> QED
    BY <1>5, <2>1, TouchTyped, VouchingTyped, BuildEndsTyped, ReportTyped DEF Surroundings
<1>6. CASE UNCHANGED vars
  <2>1. /\ UNCHANGED <<recordVars, runHistoryVars, discoveryHistoryVars, envVars, storeVars, planVars, historyVars>>
        /\ UNCHANGED <<phase, round, stirred, job, counts>>
    BY <1>6 DEF vars
  <2>2. EnvType' /\ StoreType' /\ LoopType' /\ CountsType' /\ HistoryType'
    BY <2>1 DEF TypeInv, EnvType, StoreType, LoopType, CountsType, HistoryType, envVars, storeVars, planVars, historyVars
  <2>3. BeforeType' /\ job' \in JobType
    BY <2>1 DEF TypeInv, BeforeType, Runs
  <2> QED
    BY <2>1, <2>2, <2>3, RecordsKept DEF TypeInv, StartInv, Below
<1> QED
  BY <1>1, <1>2, <1>3, <1>4, <1>5, <1>6 DEF Next

\* Every variable of the scheduler and its records holds the values its declaration names; no count passes the one that
\* holds its subject, and no job begins at it.
THEOREM SchedulerTypeCorrect == Spec => []TypeOK
<1>1. Init => TypeInv
  BY InitTyped
<1>2. TypeInv /\ [Next]_vars => TypeInv'
  BY StepTyped
<1>3. TypeInv => TypeOK
  BY TypeInvTyped
<1> QED
  BY <1>1, <1>2, <1>3, PTL DEF Spec

-----------------------------------------------------------------------------
(* AtMostOnceMore: how often a job was begun at the revision is bounded only through what its subject's attempt still  *)
(* owes, and that only through what the job that is to end it was begun as.                                            *)

\* A revision that moves under a job has had no job begun at it.
PlannedInv ==
    JobUnderWay => /\ job.planned <= revision
                   /\ job.planned # revision => \A s \in Subjects : begun[s].jobs = 0

\* The attempt a job ends is its own.
UnderWayInv ==
    /\ JobUnderWay /\ Runs =>
          /\ record # NotInEffect /\ job.modules = record.modules
          /\ attempts[job.subject] # NoAttempt
          /\ attempts[job.subject].revision = job.planned /\ attempts[job.subject].modules = job.modules
          /\ ~attempts[job.subject].rerunOwed
    /\ JobUnderWay /\ ~Runs => dAttempt # NoAttempt /\ dAttempt.revision = job.planned /\ ~dAttempt.onceMore

\* A run begun at this revision is of the list of the workspace's last attempt, and the second one owes no other.
RunOnceInv ==
    \A w \in Workspaces : begun[w].jobs > 0 =>
        /\ begun[w].jobs <= 2 /\ attempts[w] # NoAttempt /\ attempts[w].revision = revision
        /\ ~(phase = "starting" /\ job.subject = w) =>
               /\ attempts[w].modules = begun[w].modules
               /\ begun[w].jobs = 2 => ~attempts[w].rerunOwed

\* And a discovery.
DiscoverOnceInv ==
    begun[Discovery].jobs > 0 =>
        /\ begun[Discovery].jobs <= 2 /\ dAttempt # NoAttempt /\ dAttempt.revision = revision
        /\ begun[Discovery].jobs = 2 => ~dAttempt.onceMore

\* Of two jobs of a subject the second is the one the first was owed.
AgainInv ==
    /\ (phase = "starting" /\ ~job.retried /\ begun[job.subject].jobs > 0) =>
           (begun[job.subject].modules = job.modules => begun[job.subject].jobs = 1 /\ job.again)
    /\ phase \in {"running", "returned"} /\ begun[job.subject].jobs = 2 => job.again

OnceInv == PlannedInv /\ UnderWayInv /\ RunOnceInv /\ DiscoverOnceInv /\ AgainInv

\* The fields of a job that are fixed once it is planned.
SameJob == /\ job'.subject = job.subject /\ job'.planned = job.planned /\ job'.modules = job.modules
           /\ job'.again = job.again /\ job'.retried = job.retried /\ job'.before = job.before

\* A step that leaves the job, the attempts and the revision alone keeps the invariant.
LEMMA OnceKept ==
  ASSUME OnceInv, SameJob, UNCHANGED <<phase, begun, attempts, dAttempt, record, revision>>
  PROVE  OnceInv'
  BY DEF OnceInv, PlannedInv, UnderWayInv, RunOnceInv, DiscoverOnceInv, AgainInv, SameJob, Runs, JobUnderWay

\* So does one that leaves no job under way.
LEMMA OnceBetweenJobs ==
  ASSUME OnceInv, phase # "starting", ~JobUnderWay', UNCHANGED <<begun, attempts, dAttempt, record, revision>>
  PROVE  OnceInv'
  BY DEF OnceInv, PlannedInv, UnderWayInv, RunOnceInv, DiscoverOnceInv, AgainInv, JobUnderWay

\* A new revision begins the counting anew, and the job under way is then of an earlier one.
LEMMA OnceCommit ==
  ASSUME TypeInv, OnceInv, NEW p \in Paths, Commit(p)
  PROVE  OnceInv'
<1>1. revision \in Int /\ revision' = revision + 1 /\ job.planned \in Int
  BY DEF Commit, TypeInv, EnvType, JobType, Revisions
<1>2. SameJob /\ UNCHANGED <<phase, attempts, dAttempt, record>>
  BY DEF Commit, Recorded, SameJob, TypeInv, JobType, runHistoryVars, discoveryHistoryVars, storeVars
<1>3. \A s \in Subjects : begun'[s].jobs = 0
  BY DEF Commit, NoneBegun
<1>4. job.subject \in Subjects /\ Discovery \in Subjects /\ Workspaces \subseteq Subjects
  BY DEF TypeInv, JobType, Subjects
<1> QED
  BY <1>1, <1>2, <1>3, <1>4
     DEF OnceInv, PlannedInv, UnderWayInv, RunOnceInv, DiscoverOnceInv, AgainInv, SameJob, Runs, JobUnderWay

\* A discovery is planned for a revision that had none, or one whose discovery owes another.
LEMMA OncePlanDiscover ==
  ASSUME TypeInv, OnceInv, PlanDiscover
  PROVE  OnceInv'
<1>1. /\ UNCHANGED <<begun, attempts, record, revision>>
      /\ phase' = "starting"
      /\ dAttempt' = DiscoveryAttempt(revision, FALSE, FALSE, DiscoveryPlan.count)
  BY DEF PlanDiscover, Planning, runHistoryVars, storeVars
<1>2. /\ job'.subject = Discovery /\ job'.planned = revision /\ job'.again = IsOnceMore(revision)
      /\ job'.retried = PlanRetry
  BY DEF PlanDiscover, NoJob
<1>3. dAttempt' # NoAttempt /\ dAttempt'.revision = revision /\ ~dAttempt'.onceMore
  <2>1. DiscoveryPlan.held = {} /\ DiscoveryPlan.count \in CountType
    BY PlanningTyped DEF PlanDiscover, PlanDue, DiscoveryDue
  <2>2. dAttempt' \in DiscoveryAttemptType(Revisions)
    BY <1>1, <2>1 DEF TypeInv, EnvType, DiscoveryAttempt, DiscoveryAttemptType
  <2> QED
    BY <1>1, <2>2, DistinctAssumption DEF DiscoveryAttempt
<1>4. ~Runs' /\ revision \in Int
  BY <1>2, RecordAssumption DEF Runs, TypeInv, EnvType, Revisions
<1>5. begun[Discovery].jobs > 0 /\ ~PlanRetry => begun[Discovery].jobs = 1 /\ IsOnceMore(revision)
  <2> SUFFICES ASSUME begun[Discovery].jobs > 0, ~PlanRetry
               PROVE  begun[Discovery].jobs = 1 /\ IsOnceMore(revision)
    OBVIOUS
  <2>1. dAttempt # NoAttempt /\ dAttempt.revision = revision
    BY DEF OnceInv, DiscoverOnceInv
  <2>2. dAttempt.onceMore
    <3>1. PlanDue = "now" /\ DiscoveryPlan.held = {}
      BY PlanningTyped DEF PlanDiscover, PlanDue, DiscoveryDue
    <3> HIDE DEF PlanRetry, DiscoveryPlan
    <3> QED
      BY <2>1, <3>1 DEF PlanDue, DiscoveryDue
  <2>3. begun[Discovery].jobs \in Int /\ begun[Discovery].jobs <= 2 /\ begun[Discovery].jobs # 2
    BY <2>2 DEF OnceInv, DiscoverOnceInv, TypeInv, HistoryType, BegunType, Subjects
  <2> QED
    BY <2>1, <2>2, <2>3 DEF IsOnceMore
<1> HIDE DEF PlanRetry, IsOnceMore
<1>6. PlannedInv' /\ UnderWayInv'
  <2>1. PlannedInv'
    BY <1>1, <1>2, <1>4 DEF PlannedInv
  <2>2. UnderWayInv'
    BY <1>2, <1>3, <1>4 DEF UnderWayInv
  <2> QED
    BY <2>1, <2>2
<1>7. RunOnceInv' /\ DiscoverOnceInv' /\ AgainInv'
  <2>1. phase = "quiet" /\ \A w \in Workspaces : w # Discovery
    BY RecordAssumption DEF PlanDiscover, Planning
  <2>2. RunOnceInv'
    BY <1>1, <1>2, <2>1 DEF OnceInv, RunOnceInv
  <2>3. DiscoverOnceInv' /\ AgainInv'
    BY <1>1, <1>2, <1>3, <1>5 DEF OnceInv, DiscoverOnceInv, AgainInv
  <2> QED
    BY <2>2, <2>3
<1> QED
  BY <1>6, <1>7 DEF OnceInv

\* A run is planned for a revision and list its workspace's last attempt is not of, or owes another at.
LEMMA OncePlanRun ==
  ASSUME TypeInv, OnceInv, NEW w \in Workspaces, PlanRun(w)
  PROVE  OnceInv'
<1>1. /\ UNCHANGED <<begun, dAttempt, record, revision>>
      /\ phase' = "starting"
      /\ attempts' = [attempts EXCEPT ![w] = Attempt(revision, record.modules, RunPlan[w].count)]
  BY DEF PlanRun, Planning, storeVars
<1>2. /\ job'.subject = w /\ job'.planned = revision /\ job'.modules = record.modules
      /\ job'.again = IsRerun(w, revision, record.modules) /\ job'.retried = (w \in LeftRetries)
  BY DEF PlanRun, NoJob
<1>3. w \in DueRuns /\ w \in Considered /\ record # NotInEffect /\ record.modules \in Lists
  BY DEF PlanRun, DueRuns, Considered, Eligible, TypeInv, StoreType, DiscoveryType
<1>4. /\ attempts'[w] # NoAttempt /\ attempts'[w].revision = revision /\ attempts'[w].modules = record.modules
      /\ attempts'[w].rerunOwed = FALSE
      /\ \A x \in Workspaces \ {w} : attempts'[x] = attempts[x]
  <2>1. RunPlan[w].count \in CountType
    BY <1>3, DecidingTyped DEF PlanRun
  <2> DEFINE begins == Attempt(revision, record.modules, RunPlan[w].count)
  <2>2. /\ begins \in AttemptType(Revisions, Lists)
        /\ begins.revision = revision /\ begins.modules = record.modules /\ begins.rerunOwed = FALSE
    BY <1>3, <2>1 DEF TypeInv, EnvType, Attempt, AttemptType
  <2>3. begins # NoAttempt
    BY <2>2, DistinctAssumption
  <2> HIDE DEF begins
  <2>4. attempts' = [attempts EXCEPT ![w] = begins]
    BY <1>1 DEF begins
  <2> QED
    BY <2>2, <2>3, <2>4 DEF TypeInv, RunHistoryType
<1>5. Runs' /\ revision \in Int /\ Discovery # w
  BY <1>2, RecordAssumption DEF Runs, TypeInv, EnvType, Revisions
<1>6. begun[w].jobs > 0 /\ begun[w].modules = record.modules /\ w \notin LeftRetries =>
          begun[w].jobs = 1 /\ IsRerun(w, revision, record.modules)
  <2> SUFFICES ASSUME begun[w].jobs > 0, begun[w].modules = record.modules, w \notin LeftRetries
               PROVE  begun[w].jobs = 1 /\ IsRerun(w, revision, record.modules)
    OBVIOUS
  <2>1. attempts[w] # NoAttempt /\ attempts[w].revision = revision /\ attempts[w].modules = record.modules
    BY DEF OnceInv, RunOnceInv, PlanRun, Planning
  <2>2. attempts[w].rerunOwed
    <3>1. w \notin PlanRetries
      BY <1>3 DEF LeftRetries, DueRuns
    <3>2. ~RanAlready(w, revision, record.modules)
      BY <1>3, <3>1 DEF DueRuns
    <3> QED
      BY <2>1, <3>2 DEF RanAlready
  <2>3. begun[w].jobs \in Int /\ begun[w].jobs <= 2 /\ begun[w].jobs # 2
    BY <2>2 DEF OnceInv, RunOnceInv, PlanRun, Planning, TypeInv, HistoryType, BegunType, Subjects
  <2> QED
    BY <2>1, <2>2, <2>3 DEF IsRerun
<1> HIDE DEF LeftRetries, IsRerun
<1>7. PlannedInv' /\ UnderWayInv'
  BY <1>1, <1>2, <1>3, <1>4, <1>5 DEF PlannedInv, UnderWayInv
<1>8. RunOnceInv'
  <2>1. phase = "quiet"
    BY DEF PlanRun, Planning
  <2> QED
    BY <1>1, <1>2, <1>4, <2>1 DEF OnceInv, RunOnceInv
<1>9. DiscoverOnceInv' /\ AgainInv'
  BY <1>1, <1>2, <1>5, <1>6 DEF OnceInv, DiscoverOnceInv, AgainInv
<1> QED
  BY <1>7, <1>8, <1>9 DEF OnceInv

\* A job given up before it begins is not counted.
LEMMA OnceJobNotBegun ==
  ASSUME TypeInv, OnceInv, JobNotBegun
  PROVE  OnceInv'
<1>1. \A s \in Subjects : begun[s].jobs = 0
  BY DEF JobNotBegun, OnceInv, PlannedInv, JobUnderWay
<1>2. begun' = begun /\ phase' = "quiet"
  BY DEF JobNotBegun
<1> QED
  BY <1>1, <1>2 DEF OnceInv, PlannedInv, UnderWayInv, RunOnceInv, DiscoverOnceInv, AgainInv, JobUnderWay, Subjects

\* A job that begins is counted once, and a second time only when the first was owed another.
LEMMA OnceJobStarts ==
  ASSUME TypeInv, OnceInv, JobStarts
  PROVE  OnceInv'
<1> DEFINE s == job.subject
           more == IF job.retried \/ begun[s].modules # job.modules THEN 1 ELSE UpTo(2, begun[s].jobs)
           counted == [jobs |-> more, modules |-> job.modules]
<1>1. s \in Subjects /\ begun \in [Subjects -> BegunType] /\ (Runs => s \in Workspaces) /\ (~Runs => s = Discovery)
  BY DEF TypeInv, JobType, HistoryType, Runs, Subjects
<1>2. /\ begun' = [begun EXCEPT ![s] = counted]
      /\ SameJob /\ phase = "starting" /\ phase' = "running" /\ revision = job.planned
      /\ UNCHANGED <<attempts, dAttempt, record, revision>>
  BY DEF JobStarts, SameJob, TypeInv, JobType, runHistoryVars, discoveryHistoryVars, envVars, storeVars
<1>3. more \in {1, 2} /\ (more = 2 => job.again)
  BY <1>1, <1>2 DEF OnceInv, AgainInv, UpTo, BegunType
<1>4. counted.jobs = more /\ counted.modules = job.modules
  OBVIOUS
<1> HIDE DEF more, counted, s
<1>5. begun'[s] = counted /\ \A x \in Subjects \ {s} : begun'[x] = begun[x]
  BY <1>1, <1>2
<1>6. PlannedInv' /\ UnderWayInv'
  BY <1>2 DEF OnceInv, PlannedInv, UnderWayInv, SameJob, Runs, JobUnderWay
<1>7. AgainInv'
  BY <1>2, <1>3, <1>4, <1>5 DEF AgainInv, SameJob, s
<1>8. RunOnceInv'
  <2> SUFFICES ASSUME NEW w \in Workspaces, begun'[w].jobs > 0
               PROVE  /\ begun'[w].jobs <= 2 /\ attempts[w] # NoAttempt /\ attempts[w].revision = revision
                      /\ attempts[w].modules = begun'[w].modules
                      /\ begun'[w].jobs = 2 => ~attempts[w].rerunOwed
    BY <1>2 DEF RunOnceInv
  <2>1. CASE w = s
    BY <1>2, <1>3, <1>4, <1>5, <2>1 DEF OnceInv, UnderWayInv, Runs, JobUnderWay, s
  <2>2. CASE w # s
    BY <1>5, <2>2 DEF OnceInv, RunOnceInv, Subjects, s
  <2> QED
    BY <2>1, <2>2
<1>9. DiscoverOnceInv'
  <2>1. CASE s = Discovery
    BY <1>2, <1>3, <1>4, <1>5, <2>1, RecordAssumption DEF OnceInv, UnderWayInv, DiscoverOnceInv, Runs, JobUnderWay, s
  <2>2. CASE s # Discovery
    BY <1>2, <1>5, <2>2 DEF OnceInv, DiscoverOnceInv, Subjects
  <2> QED
    BY <2>1, <2>2
<1> QED
  BY <1>6, <1>7, <1>8, <1>9 DEF OnceInv

\* A job that returns is still the one counted.
LEMMA OnceJobReturns ==
  ASSUME TypeInv, OnceInv, NEW outcome, JobReturns(outcome)
  PROVE  OnceInv'
<1>1. SameJob /\ phase = "running" /\ phase' = "returned" /\ UNCHANGED <<begun, attempts, dAttempt, record, revision>>
  BY DEF JobReturns, SameJob, TypeInv, JobType, runHistoryVars, discoveryHistoryVars, storeVars
<1> QED
  BY <1>1 DEF OnceInv, PlannedInv, UnderWayInv, RunOnceInv, DiscoverOnceInv, AgainInv, SameJob, Runs, JobUnderWay

\* A run that ends owes another only when it was the first.
LEMMA OnceRunEnds ==
  ASSUME TypeInv, OnceInv, NEW w \in Workspaces, NEW stored \in BOOLEAN, NEW refreshed, RunEnds(w, stored, refreshed)
  PROVE  OnceInv'
<1> DEFINE report == RunReport(w, stored)
           ended == Ended(w, stored)
<1>1. /\ phase = "returned" /\ phase' = "quiet" /\ job.subject = w
      /\ UNCHANGED <<begun, dAttempt, record, revision>>
      /\ attempts' = [attempts EXCEPT ![w] = ended]
  BY DEF RunEnds, Ended, discoveryHistoryVars
<1>2. ended.revision = job.planned /\ ended.modules = job.modules /\ (job.again => ~ended.rerunOwed)
  BY DEF Ended, EndedAttempt, OwedAgain, RunReport
<1>3. ended # NoAttempt
  BY EndedTyped, DistinctAssumption
<1> HIDE DEF ended
<1>4. attempts'[w] = ended /\ \A x \in Workspaces \ {w} : attempts'[x] = attempts[x]
  BY <1>1 DEF TypeInv, RunHistoryType
<1>5. RunOnceInv'
  <2> SUFFICES ASSUME NEW x \in Workspaces, begun[x].jobs > 0
               PROVE  /\ begun[x].jobs <= 2 /\ attempts'[x] # NoAttempt /\ attempts'[x].revision = revision
                      /\ attempts'[x].modules = begun[x].modules
                      /\ begun[x].jobs = 2 => ~attempts'[x].rerunOwed
    BY <1>1 DEF RunOnceInv
  <2>1. CASE x = w
    <3>1. job.planned = revision /\ job.modules = begun[w].modules /\ (begun[w].jobs = 2 => job.again)
      BY <1>1, <2>1 DEF OnceInv, PlannedInv, UnderWayInv, RunOnceInv, AgainInv, Runs, JobUnderWay, Subjects
    <3> QED
      BY <1>2, <1>3, <1>4, <2>1, <3>1 DEF OnceInv, RunOnceInv
  <2>2. CASE x # w
    BY <1>1, <1>4, <2>2 DEF OnceInv, RunOnceInv
  <2> QED
    BY <2>1, <2>2
<1>6. DiscoverOnceInv'
  BY <1>1 DEF OnceInv, DiscoverOnceInv
<1> QED
  BY <1>1, <1>5, <1>6 DEF OnceInv, PlannedInv, UnderWayInv, AgainInv, JobUnderWay

\* So does a discovery.
LEMMA OnceDiscoveryEnds ==
  ASSUME TypeInv, OnceInv, NEW stored \in BOOLEAN, NEW modules \in Lists, DiscoveryEnds(stored, modules)
  PROVE  OnceInv'
<1>1. /\ phase = "returned" /\ phase' = "quiet" /\ ~Runs /\ job.subject = Discovery
      /\ UNCHANGED <<attempts, begun, revision>>
  BY DEF DiscoveryEnds, runHistoryVars, TypeInv, JobType, Subjects, Runs
<1>5. RunOnceInv'
  BY <1>1, RecordAssumption DEF OnceInv, RunOnceInv
<1>6. DiscoverOnceInv'
  <2>1. /\ dAttempt'.revision = job.planned /\ (job.again => ~dAttempt'.onceMore) /\ dAttempt' # NoAttempt
    <3> DEFINE onceMore == stored /\ DiscoveryChanged /\ job.planned = revision /\ ~job.again
    <3>1. onceMore \in BOOLEAN /\ (job.again => ~onceMore)
      OBVIOUS
    <3> HIDE DEF onceMore
    <3>2. dAttempt' = DiscoveryAttempt(job.planned, stored, onceMore, job.startCount)
      BY DEF DiscoveryEnds, onceMore
    <3>3. dAttempt' \in DiscoveryAttemptType(Revisions)
      BY <3>1, <3>2 DEF DiscoveryAttempt, DiscoveryAttemptType, TypeInv, JobType
    <3> QED
      BY <3>1, <3>2, <3>3, DistinctAssumption DEF DiscoveryAttempt
  <2>2. begun[Discovery].jobs > 0 => job.planned = revision /\ (begun[Discovery].jobs = 2 => job.again)
    BY <1>1 DEF OnceInv, PlannedInv, AgainInv, JobUnderWay, Subjects
  <2> QED
    BY <1>1, <2>1, <2>2 DEF OnceInv, DiscoverOnceInv
<1> QED
  BY <1>1, <1>5, <1>6 DEF OnceInv, PlannedInv, UnderWayInv, AgainInv, JobUnderWay

\* Every step keeps the invariant.
LEMMA StepOnce == TypeInv /\ OnceInv /\ [Next]_vars => OnceInv'
<1> SUFFICES ASSUME TypeInv, OnceInv, [Next]_vars PROVE OnceInv'
  OBVIOUS
<1>1. ASSUME PlanWait \/ PlanIdle \/ PlanFails \/ Wake \/ JobThrows
      PROVE  OnceInv'
  BY <1>1, OnceBetweenJobs
     DEF PlanWait, PlanIdle, PlanFails, Wake, JobThrows, Planning, Deciding, JobUnderWay, recordVars, runHistoryVars,
         discoveryHistoryVars, envVars, storeVars, historyVars
<1>2. ASSUME CoolDown \/ Interrupt
      PROVE  OnceInv'
  BY <1>2, OnceKept
     DEF CoolDown, Interrupt, SameJob, TypeInv, JobType, runHistoryVars, discoveryHistoryVars, envVars, storeVars, historyVars
<1>3. CASE Plan
  BY <1>1, <1>3, OncePlanDiscover, OncePlanRun DEF Plan
<1>4. CASE JobStep
  BY <1>4, OnceJobNotBegun, OnceJobStarts, OnceJobReturns, OnceRunEnds, OnceDiscoveryEnds DEF JobStep, JobEnds
<1>5. CASE Surroundings
  <2>1. ASSUME NEW p \in Paths, JobWrite(p) \/ Edit(p)
        PROVE  OnceInv'
    BY <2>1, OnceCommit DEF JobWrite, Edit
  <2>2. ASSUME NEW p \in Paths, Touch(p)
        PROVE  OnceInv'
    BY <2>2, OnceKept DEF Touch, Recorded, SameJob, TypeInv, JobType, runHistoryVars, discoveryHistoryVars, storeVars
  <2>3. ASSUME Vouch \/ PeriodicReconciliation \/ \E caused \in BOOLEAN : Unvouch(caused)
        PROVE  OnceInv'
    BY <2>3, OnceKept DEF Vouch, PeriodicReconciliation, Unvouch, SameJob, TypeInv, JobType, runHistoryVars,
                          discoveryHistoryVars, storeVars, historyVars
  <2>4. ASSUME NEW kind, BuildEnds(kind)
        PROVE  OnceInv'
    BY <2>4, OnceKept DEF BuildEnds, SameJob, TypeInv, JobType, runHistoryVars, discoveryHistoryVars, storeVars, historyVars
  <2>5. ASSUME NEW c \in Callers, ReportRead(c) \/ \E keys \in SUBSET Paths \ {{}} : Report(c, keys)
        PROVE  OnceInv'
    BY <2>5, OnceKept DEF ReportRead, Report, SameJob, runHistoryVars, discoveryHistoryVars, envVars, storeVars, historyVars
  <2> QED
    BY <1>5, <2>1, <2>2, <2>3, <2>4, <2>5 DEF Surroundings
<1>6. CASE UNCHANGED vars
  BY <1>6, OnceKept DEF vars, SameJob, runHistoryVars, discoveryHistoryVars, envVars, storeVars, historyVars
<1> QED
  BY <1>1, <1>2, <1>3, <1>4, <1>5, <1>6 DEF Next

\* A workspace runs at most once, and once more, at one revision and list of test modules, and a discovery at one
\* revision, whatever changes, fails, is interrupted or retried between its plan and its record.
THEOREM RunsAtMostOnceMore == Spec => []AtMostOnceMore
<1>1. Init => TypeInv /\ OnceInv
  BY InitTyped, RecordAssumption
     DEF Init, OnceInv, PlannedInv, UnderWayInv, RunOnceInv, DiscoverOnceInv, AgainInv, JobUnderWay, Subjects, NoneBegun
<1>2. TypeInv /\ OnceInv /\ [Next]_vars => (TypeInv /\ OnceInv)'
  BY StepTyped, StepOnce
<1>3. TypeInv /\ OnceInv => AtMostOnceMore
  BY DEF TypeInv, HistoryType, BegunType, OnceInv, RunOnceInv, DiscoverOnceInv, AtMostOnceMore, Subjects
<1> QED
  BY <1>1, <1>2, <1>3, PTL DEF Spec

-----------------------------------------------------------------------------
(* KeptRunIsSound: what a run under way would be stored under is made of the digests it started from, over the inputs  *)
(* a build its watch holds gives its workspace, so the judgment by every build held covers all of them.                *)

Took(kind) == job.print = [p \in Scope(job.subject, kind) |-> job.window.start[p]]

BoundInv ==
    phase \in {"running", "returned"} /\ Runs /\ job.print # NoDigests => \E kind \in job.placements : Took(kind)

\* A step that leaves a run's digests and window alone, and forgets no placement, keeps the invariant.
LEMMA BoundKept ==
  ASSUME BoundInv, phase' \in {"running", "returned"} => phase \in {"running", "returned"},
         phase \in {"running", "returned"} =>
            \/ phase' \notin {"running", "returned"}
            \/ /\ job'.subject = job.subject /\ job'.print = job.print /\ job'.window.start = job.window.start
               /\ job.placements \subseteq job'.placements
  PROVE  BoundInv'
<1> SUFFICES ASSUME phase' \in {"running", "returned"}, Runs', job'.print # NoDigests
             PROVE  \E kind \in job'.placements : Took(kind)'
  BY DEF BoundInv
<1>1. PICK kind \in job.placements : Took(kind)
  BY DEF BoundInv, Runs
<1>2. kind \in job'.placements /\ Took(kind)'
  BY <1>1 DEF Took, Scope
<1> QED
  BY <1>2

\* A run starts under the placement its digests are taken over.
LEMMA BoundJobStarts ==
  ASSUME TypeInv, JobStarts
  PROVE  BoundInv'
<1> SUFFICES ASSUME Runs', job'.print # NoDigests
             PROVE  \E kind \in job'.placements : Took(kind)'
  BY DEF BoundInv
<1> DEFINE w == job.subject
<1>1. /\ job'.subject = w /\ job'.placements = {Placement} \ {"none"} /\ job'.window.start = ViewDigests
      /\ job'.print = IF Runs THEN Fingerprint(w) ELSE ViewDigests
  BY DEF JobStarts, TypeInv, JobType, NoWindow
<1>2. Runs /\ job'.print = Fingerprint(w)
  BY <1>1 DEF Runs
<1>3. Placement # "none" /\ Placement = build /\ ViewDigests = digests
  BY <1>2 DEF Fingerprint, Placement, ViewDigests
<1>4. Fingerprint(w) = [p \in Scope(w, build) |-> digests[p]]
  BY <1>3 DEF Fingerprint
<1>5. build \in job'.placements
  BY <1>1, <1>3
<1>6. job'.print = [p \in Scope(job'.subject, build) |-> job'.window.start[p]]
  BY <1>1, <1>2, <1>3, <1>4
<1>7. Took(build)' <=> job'.print = [p \in Scope(job'.subject, build') |-> job'.window.start[p]]
  BY DEF Took, Scope
<1>8. build' = build
  BY DEF JobStarts, envVars
<1> QED
  BY <1>5, <1>6, <1>7, <1>8

\* Every step keeps the invariant.
LEMMA StepBound == TypeInv /\ BoundInv /\ [Next]_vars => BoundInv'
<1> SUFFICES ASSUME TypeInv, BoundInv, [Next]_vars PROVE BoundInv'
  OBVIOUS
<1>1. CASE Plan \/ PlanFails \/ Wake \/ CoolDown \/ JobThrows \/ JobNotBegun \/ JobEnds
  BY <1>1, BoundKept DEF Plan, PlanWait, PlanIdle, PlanDiscover, PlanRun, PlanFails, Wake, CoolDown, JobThrows, JobNotBegun,
                         JobEnds, RunEnds, DiscoveryEnds
<1>2. CASE JobStarts
  BY <1>2, BoundJobStarts
<1>3. ASSUME Interrupt \/ \E outcome : JobReturns(outcome)
      PROVE  BoundInv'
  <2>1. CASE Interrupt
    BY <2>1, BoundKept DEF Interrupt, TypeInv, JobType
  <2>2. ASSUME NEW outcome, JobReturns(outcome)
        PROVE  BoundInv'
    <3>1. /\ job'.subject = job.subject /\ job'.print = job.print /\ job'.window.start = job.window.start
          /\ job'.placements = job.placements /\ phase = "running"
      BY <2>2 DEF JobReturns, TypeInv, JobType
    <3> QED
      BY <3>1, BoundKept
  <2> QED
    BY <1>3, <2>1, <2>2
<1>4. CASE Surroundings
  <2>1. ASSUME NEW p \in Paths, JobWrite(p) \/ Edit(p) \/ Touch(p)
        PROVE  BoundInv'
    BY <2>1, BoundKept DEF JobWrite, Edit, Commit, Touch, Recorded, TypeInv, JobType
  <2>2. ASSUME Vouch \/ PeriodicReconciliation \/ \E caused \in BOOLEAN : Unvouch(caused)
        PROVE  BoundInv'
    BY <2>2, BoundKept DEF Vouch, PeriodicReconciliation, Unvouch, TypeInv, JobType
  <2>3. ASSUME NEW kind, BuildEnds(kind)
        PROVE  BoundInv'
    BY <2>3, BoundKept DEF BuildEnds, TypeInv, JobType
  <2>4. ASSUME NEW c \in Callers, ReportRead(c) \/ \E keys \in SUBSET Paths \ {{}} : Report(c, keys)
        PROVE  BoundInv'
    BY <2>4, BoundKept DEF ReportRead, Report
  <2> QED
    BY <1>4, <2>1, <2>2, <2>3, <2>4 DEF Surroundings
<1>5. CASE UNCHANGED vars
  BY <1>5, BoundKept DEF vars
<1> QED
  BY <1>1, <1>2, <1>3, <1>4, <1>5 DEF Next, JobStep

\* A step's part of KeptRunIsSound.
KeptSoundly ==
    \A w \in Workspaces :
        latest'[w] # latest[w] /\ latest'[w].print # NoDigests =>
            /\ job.window.paths \cap DOMAIN latest'[w].print = {}
            /\ \A p \in Inside[w] : latest'[w].print[p] = job.window.start[p]

\* A run is kept only when its inputs, by every placement it ran under, read the same at its end.
LEMMA RunKeptSoundly ==
  ASSUME TypeInv, BoundInv, NEW w \in Workspaces, NEW stored \in BOOLEAN, NEW refreshed, RunEnds(w, stored, refreshed)
  PROVE  KeptSoundly
<1> DEFINE kept == [print |-> IF RunReport(w, stored).verdict = "kept" THEN job.print ELSE NoDigests,
                    failed |-> job.outcome = "failed"]
<1>1. latest' = IF stored THEN [latest EXCEPT ![w] = kept] ELSE latest
  BY DEF RunEnds
<1> SUFFICES ASSUME stored, kept.print # NoDigests
             PROVE  /\ job.window.paths \cap DOMAIN kept.print = {}
                    /\ \A p \in Inside[w] : kept.print[p] = job.window.start[p]
  <2> HIDE DEF kept
  <2> QED
    BY <1>1 DEF KeptSoundly, TypeInv, StoreType
<1> DEFINE inside == PlacedInside(w, job.window.paths, job.placements \cup {Placement})
<1>2. Judgment(w) = "kept" /\ kept.print = job.print /\ job.print # NoDigests
  BY DEF RunReport
<1>3. inside = {}
  BY <1>2 DEF Judgment
<1>4. PICK kind \in job.placements : job.print = [p \in Scope(w, kind) |-> job.window.start[p]]
  BY <1>2 DEF BoundInv, Took, Runs, RunEnds
<1>5. job.window.paths \cap Scope(w, kind) = {}
  BY <1>3, <1>4 DEF PlacedInside, Scope, TypeInv, JobType
<1>6. Inside[w] \subseteq Scope(w, kind)
  BY SchedulerAssumption DEF Scope
<1> QED
  BY <1>2, <1>4, <1>5, <1>6

\* A run stored under a fingerprint started from the inputs that fingerprint names, and none of them was written while
\* it ran: whatever builds ended meanwhile, narrowed or widened, and however long the store waited for the last one.
THEOREM KeptRunsAreSound == Spec => KeptRunIsSound
<1>1. Init => TypeInv /\ BoundInv
  BY InitTyped DEF Init, BoundInv
<1>2. TypeInv /\ BoundInv /\ [Next]_vars => (TypeInv /\ BoundInv)'
  BY StepTyped, StepBound
<1>3. TypeInv /\ BoundInv /\ [Next]_vars => [KeptSoundly]_vars
  <2> SUFFICES ASSUME TypeInv, BoundInv, Next
               PROVE  KeptSoundly
    OBVIOUS
  <2>1. ASSUME NEW w \in Workspaces, NEW stored \in BOOLEAN, NEW refreshed \in BOOLEAN, RunEnds(w, stored, refreshed)
        PROVE  KeptSoundly
    BY <2>1, RunKeptSoundly
  <2>2. ASSUME latest' = latest
        PROVE  KeptSoundly
    BY <2>2 DEF KeptSoundly
  <2>3. CASE Plan \/ PlanFails \/ Wake \/ CoolDown \/ JobThrows \/ Interrupt
    BY <2>2, <2>3 DEF Plan, PlanWait, PlanIdle, PlanDiscover, PlanRun, Planning, PlanFails, Wake, CoolDown, JobThrows,
                      Interrupt, storeVars
  <2>4. CASE JobStep
    BY <2>1, <2>2, <2>4 DEF JobStep, JobEnds, JobNotBegun, JobStarts, JobReturns, DiscoveryEnds, storeVars
  <2>5. CASE Surroundings
    BY <2>2, <2>5 DEF Surroundings, JobWrite, Edit, Commit, Touch, Unvouch, Vouch, BuildEnds, PeriodicReconciliation, Report,
                      ReportRead, storeVars
  <2> QED
    BY <2>3, <2>4, <2>5 DEF Next
<1> QED
  BY <1>1, <1>2, <1>3, PTL DEF Spec, KeptRunIsSound, KeptSoundly

-----------------------------------------------------------------------------
(* NoHoldOnReported: a path is put to the jobs' account only from a window, less what was reported to the job, so none *)
(* of those on it was reported since its latest change, nor is in a report still open, nor reported to the job under   *)
(* way.                                                                                                                *)

ReportedInv ==
    /\ \A s \in Subjects : /\ ~changes[s].began => changes[s].byJobs = {}
                           /\ changes[s].byJobs \cap (vouchedEdit \cup Reported) = {}
    /\ JobUnderWay => /\ told = holding[job.subject] /\ Reported \subseteq told
                      /\ job.window.paths \cap vouchedEdit \subseteq told
                      /\ \A s \in Subjects : changes[s].byJobs \cap told = {}

\* A step that changes neither the changes nor the reports keeps the invariant.
LEMMA ReportedKept ==
  ASSUME ReportedInv, UNCHANGED <<changes, unread, vouchedEdit>>,
         JobUnderWay' => /\ JobUnderWay /\ UNCHANGED <<holding, told>>
                         /\ job'.subject = job.subject /\ job'.window.paths \in {{}, job.window.paths}
  PROVE  ReportedInv'
  BY DEF ReportedInv, Reported

\* A write recorded is no reported edit until it is reported.
LEMMA ReportedRecorded ==
  ASSUME TypeInv, ReportedInv, NEW p \in Paths, Recorded(p), UNCHANGED <<recordVars, phase, told>>
  PROVE  ReportedInv'
<1>1. /\ job'.subject = job.subject
      /\ job'.window.paths = IF phase = "running" THEN job.window.paths \cup {p} ELSE job.window.paths
      /\ vouchedEdit' = IF phase # "running" THEN vouchedEdit
                        ELSE IF p \in told THEN vouchedEdit \cup {p} ELSE vouchedEdit \ {p}
      /\ UNCHANGED <<changes, holding, unread, told, phase>>
  BY DEF Recorded, TypeInv, JobType, recordVars
<1>2. CASE phase # "running"
  BY <1>1, <1>2, ReportedKept DEF JobUnderWay
<1>3. CASE phase = "running"
  <2>1. JobUnderWay /\ JobUnderWay' /\ Reported' = Reported
    BY <1>1, <1>3 DEF JobUnderWay, Reported
  <2>2. \A s \in Subjects : changes[s].byJobs \cap (vouchedEdit' \cup Reported) = {}
    BY <1>1, <1>3, <2>1 DEF ReportedInv
  <2>3. job'.window.paths \cap vouchedEdit' \subseteq told
    BY <1>1, <1>3, <2>1 DEF ReportedInv
  <2> QED
    BY <1>1, <2>1, <2>2, <2>3 DEF ReportedInv
<1> QED
  BY <1>2, <1>3

\* A report takes what it names from the jobs' changes, and holds it for the job under way.
LEMMA ReportedReport ==
  ASSUME TypeInv, ReportedInv, NEW c \in Callers, NEW keys \in SUBSET Paths, Report(c, keys)
  PROVE  ReportedInv'
<1>1. /\ \A s \in Subjects : /\ changes'[s].byJobs \subseteq changes[s].byJobs
                             /\ changes'[s].byJobs \cap keys = {}
                             /\ ~changes'[s].began => changes'[s].byJobs = {}
  <2>1. changes' = EachBegun(changes, LAMBDA x : MoveToEdits(x, keys))
    BY DEF Report, ReportEdits
  <2>2. \A s \in Subjects : MoveToEdits(changes[s], keys).byJobs = changes[s].byJobs \ keys /\ MoveToEdits(changes[s], keys).began = changes[s].began
    BY DEF MoveToEdits, ChangesType, TypeInv, RecordType
  <2> QED
    BY <2>1, <2>2 DEF EachBegun, ReportedInv
<1>2. unread' = [unread EXCEPT ![c] = keys] /\ Reported' \subseteq Reported \cup keys
  BY DEF Report, ReportEdits, Reported, TypeInv, RecordType
<1>3. vouchedEdit' = vouchedEdit \cup keys /\ job' = job /\ phase' = phase
  BY DEF Report
<1>4. JobUnderWay => /\ told' = told \cup keys
                     /\ holding'[job.subject] = holding[job.subject] \cup keys
  BY DEF Report, ReportEdits, TypeInv, JobType
<1>5. \A s \in Subjects : changes'[s].byJobs \cap (vouchedEdit' \cup Reported') = {}
  BY <1>1, <1>2, <1>3 DEF ReportedInv
<1>6. JobUnderWay => /\ told' = holding'[job.subject] /\ Reported' \subseteq told'
                     /\ job.window.paths \cap vouchedEdit' \subseteq told'
                     /\ \A s \in Subjects : changes'[s].byJobs \cap told' = {}
  BY <1>1, <1>2, <1>3, <1>4 DEF ReportedInv
<1>7. JobUnderWay' <=> JobUnderWay
  BY <1>3 DEF JobUnderWay
<1> QED
  BY <1>1, <1>3, <1>5, <1>6, <1>7 DEF ReportedInv

\* A report read is no longer open; what it named was taken from the changes when it was made.
LEMMA ReportedRead ==
  ASSUME TypeInv, ReportedInv, NEW c \in Callers, ReportRead(c)
  PROVE  ReportedInv'
<1>1. /\ Reported' \subseteq Reported
      /\ UNCHANGED <<changes, holding, phase, job, told, vouchedEdit>>
  BY DEF ReportRead, ReadReport, Reported, TypeInv, RecordType, historyVars
<1> QED
  BY <1>1 DEF ReportedInv, JobUnderWay

\* A plan only takes paths from the jobs' account.
LEMMA ReportedPlanning ==
  ASSUME TypeInv, ReportedInv, Planning
  PROVE  /\ \A s \in Subjects : /\ ~changes'[s].began => changes'[s].byJobs = {}
                                /\ changes'[s].byJobs \cap (vouchedEdit' \cup Reported') = {}
         /\ \A s \in Subjects : Observed[s].byJobs \subseteq changes[s].byJobs
         /\ Reported' = Reported /\ vouchedEdit' = vouchedEdit
<1>1. \A s \in Subjects : /\ Observed[s].began = changes[s].began
                          /\ Observed[s].byJobs \subseteq changes[s].byJobs
  BY IntervalAddsEdits DEF TypeInv, RecordType, Observed
<1>2. changes' = Observed /\ unread' = unread /\ vouchedEdit' = vouchedEdit /\ Reported' = Reported
  BY DEF Planning, Reported
<1> QED
  BY <1>1, <1>2 DEF ReportedInv

\* A plan puts nothing to the jobs' account.
LEMMA ReportedPlan ==
  ASSUME TypeInv, ReportedInv, Plan
  PROVE  ReportedInv'
<1>1. Planning
  BY DEF Plan, PlanWait, PlanDiscover, PlanIdle, PlanRun
<1>2. CASE PlanWait \/ PlanIdle
  BY <1>1, <1>2, ReportedPlanning DEF ReportedInv, PlanWait, PlanIdle, JobUnderWay
<1>3. ASSUME NEW s \in Subjects, JobBegan(s), told' = Reported, job'.subject = s, job'.window.paths = {}
      PROVE  ReportedInv'
  <2>1. holding'[s] = Reported
    BY <1>3 DEF JobBegan, TypeInv, RecordType
  <2> QED
    BY <1>1, <1>3, <2>1, ReportedPlanning DEF ReportedInv
<1>4. CASE PlanDiscover
  BY <1>3, <1>4 DEF PlanDiscover, NoJob, NoWindow, Subjects
<1>5. ASSUME NEW w \in Workspaces, PlanRun(w)
      PROVE  ReportedInv'
  BY <1>3, <1>5 DEF PlanRun, NoJob, NoWindow, Subjects
<1> QED
  BY <1>2, <1>4, <1>5 DEF Plan

\* A window handed over puts to the job what it saw, less what was reported to it.
LEMMA ReportedJobEnded ==
  ASSUME TypeInv, ReportedInv, JobUnderWay, ~JobUnderWay', JobEnded(job.window, job.subject), UNCHANGED <<unread, vouchedEdit>>
  PROVE  ReportedInv'
<1>1. changes' = AfterWindow(changes, last, job.window, job.subject)
  BY DEF JobEnded
<1>2. job.subject \in Subjects /\ job.window.paths \in SUBSET Paths
  BY DEF TypeInv, JobType
<1>3. \A s \in Subjects : /\ changes'[s].byJobs \subseteq changes[s].byJobs \cup (job.window.paths \ holding[job.subject])
                          /\ ~changes'[s].began => ~changes[s].began /\ changes'[s].byJobs \subseteq changes[s].byJobs
  BY <1>1, <1>2, AfterWindowAdds DEF TypeInv, RecordType
<1>4. Reported' = Reported /\ vouchedEdit' = vouchedEdit
  BY DEF Reported
<1> QED
  BY <1>3, <1>4 DEF ReportedInv

\* A job that throws hands over no window, and puts nothing to its account.
LEMMA ReportedJobThrows ==
  ASSUME TypeInv, ReportedInv, JobThrows
  PROVE  ReportedInv'
<1>1. StartAfresh.began /\ StartAfresh.byJobs = {}
  BY DEF StartAfresh, NoChanges
<1>2. /\ changes' = [changes EXCEPT ![job.subject] = StartAfresh]
      /\ Reported' = Reported /\ vouchedEdit' = vouchedEdit /\ ~JobUnderWay'
  BY DEF JobThrows, JobThrew, Reported, JobUnderWay
<1>3. \A s \in Subjects : changes'[s] = StartAfresh \/ changes'[s] = changes[s]
  BY <1>2 DEF TypeInv, RecordType
<1> QED
  BY <1>1, <1>2, <1>3 DEF ReportedInv

\* Every step keeps the invariant.
LEMMA StepReported == TypeInv /\ ReportedInv /\ [Next]_vars => ReportedInv'
<1> SUFFICES ASSUME TypeInv, ReportedInv, [Next]_vars PROVE ReportedInv'
  OBVIOUS
<1>1. CASE Plan
  BY <1>1, ReportedPlan
<1>2. CASE PlanFails \/ Wake \/ CoolDown \/ JobNotBegun \/ JobStarts
  <2>1. CASE JobStarts
    <3>1. job'.subject = job.subject /\ job'.window.paths = {}
      BY <2>1 DEF JobStarts, NoWindow, TypeInv, JobType
    <3> QED
      BY <2>1, <3>1, ReportedKept DEF JobStarts, JobUnderWay, recordVars
  <2>2. CASE PlanFails \/ Wake \/ CoolDown \/ JobNotBegun
    BY <2>2, ReportedKept DEF PlanFails, Wake, CoolDown, JobNotBegun, JobUnderWay, recordVars, historyVars
  <2> QED
    BY <1>2, <2>1, <2>2
<1>3. ASSUME Interrupt \/ \E outcome : JobReturns(outcome)
      PROVE  ReportedInv'
  <2>1. job'.subject = job.subject /\ job'.window.paths = job.window.paths
    <3>1. ASSUME NEW outcome, JobReturns(outcome)
          PROVE  job'.subject = job.subject /\ job'.window.paths = job.window.paths
      BY <3>1 DEF JobReturns, TypeInv, JobType
    <3>2. CASE Interrupt
      BY <3>2 DEF Interrupt, TypeInv, JobType
    <3> QED
      BY <1>3, <3>1, <3>2
  <2> QED
    BY <1>3, <2>1, ReportedKept DEF Interrupt, JobReturns, JobUnderWay, recordVars, historyVars
<1>4. CASE JobEnds
  <2>1. ASSUME NEW w, NEW stored, NEW refreshed, RunEnds(w, stored, refreshed)
        PROVE  ReportedInv'
    BY <2>1, ReportedJobEnded DEF RunEnds, JobUnderWay
  <2>2. ASSUME NEW stored, NEW modules, DiscoveryEnds(stored, modules)
        PROVE  ReportedInv'
    <3>1. job.subject = Discovery
      BY <2>2 DEF DiscoveryEnds, Runs, TypeInv, JobType, Subjects
    <3> QED
      BY <2>2, <3>1, ReportedJobEnded DEF DiscoveryEnds, JobUnderWay
  <2> QED
    BY <1>4, <2>1, <2>2 DEF JobEnds
<1>5. CASE JobThrows
  BY <1>5, ReportedJobThrows
<1>6. CASE Surroundings
  <2>1. ASSUME NEW p \in Paths, JobWrite(p) \/ Edit(p) \/ Touch(p)
        PROVE  ReportedInv'
    BY <2>1, ReportedRecorded DEF JobWrite, Edit, Commit, Touch
  <2>2. ASSUME Vouch \/ PeriodicReconciliation \/ \E caused \in BOOLEAN : Unvouch(caused)
        PROVE  ReportedInv'
    BY <2>2, ReportedKept DEF Vouch, PeriodicReconciliation, Unvouch, JobUnderWay, TypeInv, JobType, recordVars, historyVars
  <2>3. ASSUME NEW kind, BuildEnds(kind)
        PROVE  ReportedInv'
    BY <2>3, ReportedKept DEF BuildEnds, JobUnderWay, TypeInv, JobType, recordVars, historyVars
  <2> QED
    BY <1>6, <2>1, <2>2, <2>3, ReportedReport, ReportedRead DEF Surroundings
<1>7. CASE UNCHANGED vars
  BY <1>7, ReportedKept DEF vars, JobUnderWay, recordVars, historyVars
<1> QED
  BY <1>1, <1>2, <1>3, <1>4, <1>5, <1>6, <1>7 DEF Next, JobStep

\* A step's part of NoHoldOnReported.
HoldsUnreported ==
    /\ \A w \in Workspaces : heldRuns'[w] # heldRuns[w] => heldRuns'[w] \cap vouchedEdit = {}
    /\ dHeld' # dHeld => dHeld' \cap vouchedEdit = {}

\* A plan holds a workspace only over changes put to jobs, so over nothing reported.
LEMMA PlanHoldsUnreported ==
  ASSUME TypeInv, ReportedInv, Plan
  PROVE  HoldsUnreported
<1>1. Planning
  BY DEF Plan, PlanWait, PlanDiscover, PlanIdle, PlanRun
<1>2. \A s \in Subjects : Observed[s] \in ChangesType /\ Observed[s].byJobs \cap vouchedEdit = {}
  BY <1>1, ReportedPlanning, PlanningTyped DEF ReportedInv
<1>3. dHeld' # dHeld => dHeld' \cap vouchedEdit = {}
  <2>1. DiscoveryPlan.held # dHeld => DiscoveryPlan.held \subseteq Observed[Discovery].byJobs
    BY <1>2, DiscoveryDecisionTyped DEF DiscoveryPlan, TypeInv, Subjects
  <2>2. dHeld' = DiscoveryPlan.held
    BY <1>1 DEF Planning
  <2> HIDE DEF DiscoveryPlan
  <2> QED
    BY <1>2, <2>1, <2>2 DEF Subjects
<1>4. ASSUME NEW w \in Workspaces, heldRuns'[w] # heldRuns[w]
      PROVE  heldRuns'[w] \cap vouchedEdit = {}
  <2>1. /\ w \in Considered /\ heldRuns'[w] = RunPlan[w].held
    BY <1>4 DEF Plan, PlanWait, PlanDiscover, PlanIdle, PlanRun, Deciding, runHistoryVars
  <2>2. DueFacts(w) \in DueType
    <3>1. Scope(w, Placement) \in SUBSET Paths
      BY ViewTyped DEF TypeInv
    <3> QED
      BY <3>1 DEF DueFacts, DueType
  <2>3. RunPlan[w] = Decision(w, Observed[w], DueFacts(w))
    BY <2>1 DEF RunPlan
  <2>4. w \in Subjects /\ Observed[w] \in ChangesType
    BY <1>2 DEF Subjects
  <2>5. RunPlan[w].held # heldRuns[w] => RunPlan[w].held \subseteq Observed[w].byJobs
    BY <2>2, <2>3, <2>4, DecisionTyped DEF TypeInv
  <2> HIDE DEF RunPlan
  <2> QED
    BY <1>2, <1>4, <2>1, <2>4, <2>5
<1> QED
  BY <1>3, <1>4 DEF HoldsUnreported

\* No hold begins on a path whose latest change a caller reported as its own edit, whether the report came before,
\* during or after the job that recorded the change.
THEOREM NoReportedHolds == Spec => NoHoldOnReported
<1>1. Init => TypeInv /\ ReportedInv
  <2>1. Init => ReportedInv
    BY DEF Init, RecordInit, ReportedInv, Reported, NoChanges, JobUnderWay
  <2> QED
    BY <2>1, InitTyped
<1>2. TypeInv /\ ReportedInv /\ [Next]_vars => (TypeInv /\ ReportedInv)'
  BY StepTyped, StepReported
<1>3. TypeInv /\ ReportedInv /\ [Next]_vars => [HoldsUnreported]_vars
  <2> SUFFICES ASSUME TypeInv, ReportedInv, Next
               PROVE  HoldsUnreported
    OBVIOUS
  <2>1. CASE Plan
    BY <2>1, PlanHoldsUnreported
  <2>2. ASSUME heldRuns' = heldRuns /\ dHeld' = dHeld
        PROVE  HoldsUnreported
    BY <2>2 DEF HoldsUnreported
  <2>3. CASE PlanFails \/ Wake \/ CoolDown \/ JobThrows \/ Interrupt
    BY <2>2, <2>3 DEF PlanFails, Wake, CoolDown, JobThrows, Interrupt, runHistoryVars, discoveryHistoryVars
  <2>4. CASE JobStep
    <3>1. CASE JobNotBegun \/ JobStarts
      BY <2>2, <3>1 DEF JobNotBegun, JobStarts, runHistoryVars, discoveryHistoryVars
    <3>2. ASSUME NEW outcome, JobReturns(outcome)
          PROVE  HoldsUnreported
      BY <2>2, <3>2 DEF JobReturns, runHistoryVars, discoveryHistoryVars
    <3>3. ASSUME NEW w, NEW stored, NEW refreshed, RunEnds(w, stored, refreshed)
          PROVE  HoldsUnreported
      BY <2>2, <3>3 DEF RunEnds, discoveryHistoryVars
    <3>4. ASSUME NEW stored, NEW modules, DiscoveryEnds(stored, modules)
          PROVE  HoldsUnreported
      BY <2>2, <3>4 DEF DiscoveryEnds, runHistoryVars
    <3> QED
      BY <2>4, <3>1, <3>2, <3>3, <3>4 DEF JobStep, JobEnds
  <2>5. CASE Surroundings
    BY <2>2, <2>5 DEF Surroundings, JobWrite, Edit, Commit, Touch, Unvouch, Vouch, BuildEnds, PeriodicReconciliation, Report,
                      ReportRead, runHistoryVars, discoveryHistoryVars
  <2> QED
    BY <2>1, <2>3, <2>4, <2>5 DEF Next
<1> QED
  BY <1>1, <1>2, <1>3, PTL DEF Spec, NoHoldOnReported, HoldsUnreported


-----------------------------------------------------------------------------
(* NothingDueForgotten: what a plan finds due is in its round, held or tried, and what it finds current is current by  *)
(* the build it planned with, so that neither a build that ends nor inputs vouched for anew make a run owed unsaid;    *)
(* and an attempt that stands for a run is of a run that began.                                                        *)

\* The round in effect, the holds, the job under way or the attempts speak for the workspace.
Spoken(w) ==
    \/ w \in round.due \/ heldRuns[w] # {}
    \/ JobUnderWay /\ job.subject = w
    \/ RanAlready(w, revision, record.modules)

\* The latest run is bound to the fingerprint the build that ended gives, vouched for or not.
CurrentByBuild(w) ==
    /\ build # "building" /\ latest[w] # NotInEffect /\ latest[w].print # NoDigests
    /\ latest[w].print = [p \in Scope(w, build) |-> digests[p]]

\* A round is planned at a revision the inputs had, and beside a job only for that job, a run.
RoundInv ==
    /\ round.state = "planned" => round.revision <= revision
    /\ JobUnderWay => ~relisted
    /\ JobUnderWay /\ round.state = "planned" => Runs /\ round.revision = job.planned

NamesInv ==
    RoundInEffect /\ record # NotInEffect /\ ~relisted => \A w \in Workspaces : Spoken(w) \/ CurrentByBuild(w)

\* But for a job not begun yet, an attempt at this revision is of a job that began at it.
RunBegunInv ==
    \A w \in Workspaces : attempts[w] # NoAttempt =>
        /\ attempts[w].revision <= revision
        /\ attempts[w].revision = revision /\ ~(phase = "starting" /\ job.subject = w) =>
               begun[w].jobs > 0 /\ begun[w].modules = attempts[w].modules

DiscoveryBegunInv ==
    dAttempt # NoAttempt =>
        /\ dAttempt.revision <= revision
        /\ dAttempt.revision = revision /\ ~(phase = "starting" /\ job.subject = Discovery) => begun[Discovery].jobs > 0

BeforeInv == phase = "starting" /\ job.before # NoAttempt => job.before.revision <= job.planned

BegunInv == RunBegunInv /\ DiscoveryBegunInv /\ BeforeInv

\* The discovery is current, held or was begun at this revision.
DiscoveryDone ==
    \/ record # NotInEffect /\ record.print = digests
    \/ dHeld # {} \/ begun[Discovery].jobs > 0

\* An idle scheduler's round is planned at the revision it waits to change, with nothing due.
IdleInv ==
    /\ roundRevision <= revision
    /\ phase = "idle" => /\ round.state = "planned" /\ round.revision = roundRevision
                         /\ round.due = {} /\ ~relisted
    /\ phase = "idle" /\ revision = roundRevision => DiscoveryDone

DueInv == RoundInv /\ NamesInv /\ BegunInv /\ IdleInv

\* The revisions compared are numbers.
LEMMA RevisionsAreNumbers ==
  ASSUME TypeInv
  PROVE  /\ revision \in Int /\ roundRevision \in Int /\ round.revision \in Int /\ job.planned \in Int
         /\ \A w \in Workspaces : attempts[w] # NoAttempt => attempts[w].revision \in Int
         /\ dAttempt # NoAttempt => dAttempt.revision \in Int
         /\ job.before # NoAttempt => job.before.revision \in Int
<1>1. revision \in Int /\ roundRevision \in Int /\ round.revision \in Int
  BY DEF TypeInv, EnvType, LoopType, RoundType, Revisions
<1>2. job.planned \in Int
  BY DEF TypeInv, JobType, Revisions
<1>3. \A w \in Workspaces : attempts[w] # NoAttempt => attempts[w].revision \in Int
  BY DEF TypeInv, RunHistoryType, AttemptType, Revisions
<1>4. dAttempt # NoAttempt => dAttempt.revision \in Int
  BY DEF TypeInv, DiscoveryHistoryType, DiscoveryAttemptType, Revisions
<1>5. job.before # NoAttempt => job.before.revision \in Int
  BY DEF TypeInv, BeforeType, AttemptType, DiscoveryAttemptType, Revisions
<1> QED
  BY <1>1, <1>2, <1>3, <1>4, <1>5

\* The invariant rests on these parts of the state; a step that leaves them alone and begins or ends no job keeps it.
LEMMA DueKept ==
  ASSUME DueInv, UNCHANGED <<round, relisted, heldRuns, attempts, dAttempt, dHeld, begun, revision, roundRevision,
                             record, build, latest, digests>>,
         job'.subject = job.subject /\ job'.planned = job.planned /\ job'.before = job.before,
         JobUnderWay' = JobUnderWay, phase' = "starting" <=> phase = "starting", phase' = "idle" => phase = "idle"
  PROVE  DueInv'
<1>1. RoundInv'
  BY DEF DueInv, RoundInv, Runs
<1>2. NamesInv'
  BY DEF DueInv, NamesInv, RoundInEffect, Spoken, RanAlready, CurrentByBuild, Scope
<1>3. BegunInv'
  BY DEF DueInv, BegunInv, RunBegunInv, DiscoveryBegunInv, BeforeInv
<1>4. IdleInv'
  BY DEF DueInv, IdleInv, DiscoveryDone
<1> QED
  BY <1>1, <1>2, <1>3, <1>4 DEF DueInv

\* A step that leaves no round in effect, and neither begins nor ends a job, keeps it.
LEMMA DueUnplanned ==
  ASSUME DueInv, UNCHANGED <<attempts, dAttempt, begun, revision, roundRevision>>,
         round'.state # "planned", ~JobUnderWay', phase # "starting", phase' # "idle"
  PROVE  DueInv'
<1>1. phase' # "starting"
  BY DEF JobUnderWay
<1>2. BegunInv'
  BY <1>1 DEF DueInv, BegunInv, RunBegunInv, DiscoveryBegunInv, BeforeInv
<1> QED
  BY <1>2 DEF DueInv, RoundInv, NamesInv, RoundInEffect, IdleInv

\* A change of the inputs ends what the round in effect, the attempts and the idling were of.
LEMMA DueCommit ==
  ASSUME TypeInv, DueInv, NEW p \in Paths, Commit(p)
  PROVE  DueInv'
<1>1. /\ revision' = revision + 1 /\ SameJob
      /\ UNCHANGED <<phase, round, relisted, attempts, dAttempt, roundRevision>>
  BY DEF Commit, Recorded, SameJob, TypeInv, JobType, runHistoryVars, discoveryHistoryVars, storeVars, planVars
<1>2. RoundInv' /\ ~RoundInEffect'
  BY <1>1, RevisionsAreNumbers DEF DueInv, RoundInv, RoundInEffect, SameJob, Runs, JobUnderWay
<1>3. BegunInv'
  BY <1>1, RevisionsAreNumbers DEF DueInv, BegunInv, RunBegunInv, DiscoveryBegunInv, BeforeInv, SameJob
<1>4. IdleInv'
  BY <1>1, RevisionsAreNumbers DEF DueInv, IdleInv
<1> QED
  BY <1>2, <1>3, <1>4 DEF DueInv, NamesInv

\* A build that ends finds every workspace spoken for: none was current while it ran.
LEMMA DueBuildEnds ==
  ASSUME TypeInv, DueInv, NEW kind, BuildEnds(kind)
  PROVE  DueInv'
<1>1. /\ UNCHANGED <<phase, round, relisted, heldRuns, attempts, dAttempt, dHeld, begun, revision, roundRevision,
                     record, latest, digests>>
      /\ SameJob /\ build = "building"
  BY DEF BuildEnds, BuildPending, SameJob, TypeInv, JobType, runHistoryVars, discoveryHistoryVars, storeVars, planVars,
         historyVars
<1>2. RoundInv'
  BY <1>1 DEF DueInv, RoundInv, Runs, JobUnderWay, SameJob
<1>3. NamesInv'
  BY <1>1 DEF DueInv, NamesInv, RoundInEffect, Spoken, RanAlready, CurrentByBuild, JobUnderWay, SameJob
<1>4. BegunInv'
  BY <1>1 DEF DueInv, BegunInv, RunBegunInv, DiscoveryBegunInv, BeforeInv, SameJob
<1>5. IdleInv'
  BY <1>1 DEF DueInv, IdleInv, DiscoveryDone
<1> QED
  BY <1>2, <1>3, <1>4, <1>5 DEF DueInv

\* A plan that decides the workspaces leaves none unsaid: not considered, one is current by the build it was decided by.
LEMMA DuePlanned ==
  ASSUME TypeInv, Planning, Deciding,
         \A w \in Workspaces : w \notin DueRuns => attempts'[w] = attempts[w]
  PROVE  NamesInv'
<1> SUFFICES ASSUME record' # NotInEffect, NEW w \in Workspaces
             PROVE  Spoken(w)' \/ CurrentByBuild(w)'
  BY DEF NamesInv
<1>1. UNCHANGED <<revision, available, build, digests, latest, record>>
  BY DEF Planning, storeVars
<1>2. /\ round'.due = DueRuns
      /\ heldRuns' = [x \in Workspaces |-> IF x \in Considered THEN RunPlan[x].held ELSE heldRuns[x]]
  BY DEF Deciding
<1>3. w \in Eligible
  BY <1>1 DEF Eligible
<1>4. CASE w \notin Considered
  <2>1. ~Stale(w)
    BY <1>3, <1>4 DEF Considered
  <2>2. /\ latest[w] # NotInEffect /\ latest[w].print # NoDigests /\ latest[w].print = Fingerprint(w)
    BY <2>1 DEF Stale
  <2>3. build # "building" /\ Fingerprint(w) = [p \in Scope(w, build) |-> digests[p]]
    BY <2>2 DEF Fingerprint, Placement
  <2> QED
    BY <1>1, <2>2, <2>3 DEF CurrentByBuild, Scope
<1>5. CASE w \in Considered
  <2>1. CASE w \in DueRuns
    BY <1>2, <2>1 DEF Spoken
  <2>2. CASE w \notin DueRuns
    <3>1. RunPlan[w].held # {} \/ RanAlready(w, revision, record.modules)
      BY <1>5, <2>2 DEF DueRuns
    <3>2. CASE RunPlan[w].held # {}
      BY <1>2, <1>5, <3>2 DEF Spoken
    <3>3. CASE RanAlready(w, revision, record.modules)
      BY <1>1, <2>2, <3>3 DEF Spoken, RanAlready
    <3> QED
      BY <3>1, <3>2, <3>3
  <2> QED
    BY <2>1, <2>2
<1> QED
  BY <1>4, <1>5

\* A plan leaves the begun jobs and the revision alone, and is made between jobs.
LEMMA DuePlanning ==
  ASSUME TypeInv, DueInv, Planning
  PROVE  /\ phase = "quiet" /\ roundRevision' = revision /\ relisted' = FALSE
         /\ UNCHANGED <<begun, revision, record, digests>>
         /\ dHeld' = DiscoveryPlan.held /\ roundRevision' <= revision'
<1>1. /\ phase = "quiet" /\ roundRevision' = revision /\ relisted' = FALSE
      /\ UNCHANGED <<begun, revision, record, digests>> /\ dHeld' = DiscoveryPlan.held
  BY DEF Planning, storeVars
<1>2. roundRevision' <= revision'
  BY <1>1, RevisionsAreNumbers
<1> QED
  BY <1>1, <1>2

\* A plan that waits leaves no round in effect.
LEMMA DuePlanWait ==
  ASSUME TypeInv, DueInv, PlanWait
  PROVE  DueInv'
<1>1. /\ round'.state # "planned" /\ ~JobUnderWay' /\ phase' = "waiting"
      /\ UNCHANGED <<attempts, dAttempt>>
  BY DEF PlanWait, Pending, JobUnderWay, runHistoryVars
<1>2. Planning
  BY DEF PlanWait
<1>3. BegunInv'
  BY <1>1, <1>2, DuePlanning DEF DueInv, BegunInv, RunBegunInv, DiscoveryBegunInv, BeforeInv
<1> QED
  BY <1>1, <1>2, <1>3, DuePlanning DEF DueInv, RoundInv, NamesInv, RoundInEffect, IdleInv

\* Nor does one that begins a discovery, whose attempt is of a job not begun yet.
LEMMA DuePlanDiscover ==
  ASSUME TypeInv, DueInv, PlanDiscover
  PROVE  DueInv'
<1>1. /\ round'.state # "planned" /\ phase' = "starting" /\ attempts' = attempts
      /\ dAttempt' = DiscoveryAttempt(revision, FALSE, FALSE, DiscoveryPlan.count)
  BY DEF PlanDiscover, Pending, runHistoryVars
<1>2. job'.subject = Discovery /\ job'.planned = revision /\ job'.before = dAttempt
  BY DEF PlanDiscover, NoJob
<1>3. Planning
  BY DEF PlanDiscover
<1>4. dAttempt'.revision = revision
  BY <1>1 DEF DiscoveryAttempt
<1>5. revision <= revision
  BY RevisionsAreNumbers
<1>6. RunBegunInv' /\ BeforeInv'
  BY <1>1, <1>2, <1>3, DuePlanning, RecordAssumption DEF DueInv, BegunInv, RunBegunInv, DiscoveryBegunInv, BeforeInv
<1>7. DiscoveryBegunInv'
  BY <1>1, <1>2, <1>3, <1>4, <1>5, DuePlanning DEF DiscoveryBegunInv
<1> QED
  BY <1>1, <1>3, <1>6, <1>7, DuePlanning DEF DueInv, BegunInv, RoundInv, NamesInv, RoundInEffect, IdleInv

\* One that begins a run leaves it out of the round, as under way.
LEMMA DuePlanRun ==
  ASSUME TypeInv, DueInv, NEW w \in Workspaces, PlanRun(w)
  PROVE  DueInv'
<1> DEFINE begins == Attempt(revision, record.modules, RunPlan[w].count)
<1>1. /\ Planning /\ Deciding /\ w \in DueRuns /\ phase' = "starting" /\ dAttempt' = dAttempt
      /\ attempts' = [attempts EXCEPT ![w] = begins]
  BY DEF PlanRun
<1>2. job'.subject = w /\ job'.planned = revision /\ job'.before = attempts[w]
  BY DEF PlanRun, NoJob
<1>3. begins.revision = revision
  BY DEF Attempt
<1> HIDE DEF begins
<1>4. attempts'[w] = begins /\ \A x \in Workspaces \ {w} : attempts'[x] = attempts[x]
  BY <1>1 DEF TypeInv, RunHistoryType
<1>5. revision <= revision
  BY RevisionsAreNumbers
<1>6. RoundInv'
  BY <1>1, <1>2, <1>5, DuePlanning DEF Deciding, RoundInv, Runs
<1>7. NamesInv'
  BY <1>1, <1>4, DuePlanned
<1>8. RunBegunInv'
  <2> SUFFICES ASSUME NEW x \in Workspaces, attempts'[x] # NoAttempt
               PROVE  /\ attempts'[x].revision <= revision'
                      /\ attempts'[x].revision = revision' /\ ~(phase' = "starting" /\ job'.subject = x) =>
                             begun'[x].jobs > 0 /\ begun'[x].modules = attempts'[x].modules
    BY DEF RunBegunInv
  <2>1. CASE x = w
    BY <1>1, <1>2, <1>3, <1>4, <1>5, <2>1, DuePlanning
  <2>2. CASE x # w
    BY <1>1, <1>4, <2>2, DuePlanning DEF DueInv, BegunInv, RunBegunInv
  <2> QED
    BY <2>1, <2>2
<1>9. DiscoveryBegunInv' /\ BeforeInv'
  BY <1>1, <1>2, DuePlanning, RecordAssumption DEF DueInv, BegunInv, RunBegunInv, DiscoveryBegunInv, BeforeInv
<1>10. IdleInv'
  BY <1>1, DuePlanning DEF IdleInv
<1> QED
  BY <1>6, <1>7, <1>8, <1>9, <1>10 DEF DueInv, BegunInv

\* One that finds nothing due idles at the revision it planned at, the discovery done.
LEMMA DuePlanIdle ==
  ASSUME TypeInv, DueInv, PlanIdle
  PROVE  DueInv'
<1>1. /\ Planning /\ Deciding /\ DueRuns = {} /\ phase' = "idle"
      /\ UNCHANGED <<attempts, dAttempt, job>>
  BY DEF PlanIdle
<1>2. round' = [state |-> "planned", revision |-> revision, due |-> {}]
  BY <1>1 DEF Deciding
<1>3. round'.state = "planned" /\ round'.revision = revision /\ round'.due = {}
  BY <1>2
<1>4. revision <= revision
  BY RevisionsAreNumbers
<1>5. RoundInv'
  BY <1>1, <1>3, <1>4, DuePlanning DEF RoundInv, JobUnderWay
<1>6. NamesInv'
  BY <1>1, DuePlanned
<1>7. BegunInv'
  BY <1>1, DuePlanning DEF DueInv, BegunInv, RunBegunInv, DiscoveryBegunInv, BeforeInv
<1>8. DiscoveryDone'
  <2>1. CASE DiscoveryPlan.held # {}
    BY <1>1, <2>1, DuePlanning DEF DiscoveryDone
  <2>2. CASE DiscoveryPlan.held = {} /\ (dAttempt = NoAttempt \/ dAttempt.revision # revision)
    <3>1. InEffect # NotInEffect /\ InEffect.current
      <4> HIDE DEF PlanRetry, DiscoveryPlan, InEffect
      <4> QED
        BY <1>1, <2>2 DEF Deciding, PlanDue, DiscoveryDue
    <3>2. record # NotInEffect /\ record.print = digests
      BY <3>1 DEF InEffect
    <3> QED
      BY <1>1, <3>2, DuePlanning DEF DiscoveryDone
  <2>3. CASE dAttempt # NoAttempt /\ dAttempt.revision = revision
    BY <1>1, <2>3, DuePlanning DEF DueInv, BegunInv, DiscoveryBegunInv, DiscoveryDone
  <2> QED
    BY <2>1, <2>2, <2>3
<1>9. IdleInv'
  BY <1>1, <1>3, <1>8, DuePlanning DEF IdleInv
<1> QED
  BY <1>5, <1>6, <1>7, <1>9 DEF DueInv

\* A job given up before it begins was planned at an earlier revision, and gives back an attempt of one.
LEMMA DueJobNotBegun ==
  ASSUME TypeInv, OnceInv, DueInv, JobNotBegun
  PROVE  DueInv'
<1>1. /\ phase = "starting" /\ JobUnderWay /\ revision # job.planned /\ phase' = "quiet" /\ ~JobUnderWay'
      /\ UNCHANGED <<round, relisted, begun, revision, roundRevision, record>>
  BY DEF JobNotBegun, JobUnderWay, storeVars
<1>2. job.planned <= revision
  BY <1>1 DEF OnceInv, PlannedInv
<1>3. ~RoundInEffect'
  BY <1>1 DEF DueInv, RoundInv, RoundInEffect
<1>4. job.before # NoAttempt => job.before.revision <= revision /\ job.before.revision # revision
  BY <1>1, <1>2, RevisionsAreNumbers DEF DueInv, BegunInv, BeforeInv
<1>5. RunBegunInv' /\ DiscoveryBegunInv'
  <2>1. CASE Runs
    <3>1. attempts' = [attempts EXCEPT ![job.subject] = job.before] /\ dAttempt' = dAttempt /\ job.subject # Discovery
      BY <2>1, RecordAssumption DEF JobNotBegun, Runs
    <3>2. RunBegunInv'
      <4> SUFFICES ASSUME NEW x \in Workspaces, attempts'[x] # NoAttempt
                   PROVE  /\ attempts'[x].revision <= revision'
                          /\ attempts'[x].revision = revision' =>
                                 begun'[x].jobs > 0 /\ begun'[x].modules = attempts'[x].modules
        BY <1>1 DEF RunBegunInv
      <4>1. CASE x = job.subject
        <5>1. attempts'[x] = job.before
          BY <3>1, <4>1 DEF TypeInv, RunHistoryType
        <5> QED
          BY <1>1, <1>4, <5>1
      <4>2. CASE x # job.subject
        <5>1. attempts'[x] = attempts[x]
          BY <3>1, <4>2 DEF TypeInv, RunHistoryType
        <5> QED
          BY <1>1, <4>2, <5>1 DEF DueInv, BegunInv, RunBegunInv
      <4> QED
        BY <4>1, <4>2
    <3>3. DiscoveryBegunInv'
      BY <1>1, <3>1 DEF DueInv, BegunInv, DiscoveryBegunInv
    <3> QED
      BY <3>2, <3>3
  <2>2. CASE ~Runs
    <3>1. attempts' = attempts /\ dAttempt' = job.before
      BY <2>2 DEF JobNotBegun
    <3>2. RunBegunInv'
      BY <1>1, <2>2, <3>1 DEF DueInv, BegunInv, RunBegunInv, Runs
    <3>3. DiscoveryBegunInv'
      BY <1>1, <1>4, <3>1 DEF DiscoveryBegunInv
    <3> QED
      BY <3>2, <3>3
  <2> QED
    BY <2>1, <2>2
<1> QED
  BY <1>1, <1>3, <1>5 DEF DueInv, RoundInv, NamesInv, BegunInv, BeforeInv, IdleInv

\* A job that begins is of the list of the attempt that stands for it.
LEMMA DueJobStarts ==
  ASSUME TypeInv, OnceInv, DueInv, JobStarts
  PROVE  DueInv'
<1> DEFINE s == job.subject
           more == IF job.retried \/ begun[s].modules # job.modules THEN 1 ELSE UpTo(2, begun[s].jobs)
           counted == [jobs |-> more, modules |-> job.modules]
<1>1. s \in Subjects /\ begun \in [Subjects -> BegunType] /\ (Runs => s \in Workspaces) /\ (~Runs => s = Discovery)
  BY DEF TypeInv, JobType, HistoryType, Runs, Subjects
<1>2. /\ begun' = [begun EXCEPT ![s] = counted]
      /\ SameJob /\ phase = "starting" /\ phase' = "running" /\ JobUnderWay /\ JobUnderWay'
      /\ UNCHANGED <<round, relisted, heldRuns, attempts, dAttempt, revision, roundRevision, record, build, latest, digests>>
  BY DEF JobStarts, SameJob, TypeInv, JobType, JobUnderWay, runHistoryVars, discoveryHistoryVars, envVars, storeVars, planVars
<1>3. more > 0
  BY <1>1 DEF UpTo, BegunType
<1>4. counted.jobs = more /\ counted.modules = job.modules
  OBVIOUS
<1> HIDE DEF more, counted, s
<1>5. begun'[s] = counted /\ \A x \in Subjects \ {s} : begun'[x] = begun[x]
  BY <1>1, <1>2
<1>6. RoundInv'
  BY <1>2 DEF DueInv, RoundInv, SameJob, Runs
<1>7. NamesInv'
  BY <1>2 DEF DueInv, NamesInv, RoundInEffect, Spoken, RanAlready, CurrentByBuild, Scope, SameJob
<1>8. RunBegunInv'
  <2> SUFFICES ASSUME NEW w \in Workspaces, attempts[w] # NoAttempt
               PROVE  /\ attempts[w].revision <= revision
                      /\ attempts[w].revision = revision =>
                             begun'[w].jobs > 0 /\ begun'[w].modules = attempts[w].modules
    BY <1>2 DEF RunBegunInv
  <2>1. CASE w = s
    BY <1>2, <1>3, <1>4, <1>5, <2>1 DEF DueInv, BegunInv, RunBegunInv, OnceInv, UnderWayInv, Runs, s
  <2>2. CASE w # s
    BY <1>5, <2>2 DEF DueInv, BegunInv, RunBegunInv, Subjects, s
  <2> QED
    BY <2>1, <2>2
<1>9. DiscoveryBegunInv'
  <2>1. CASE s = Discovery
    BY <1>2, <1>3, <1>4, <1>5, <2>1 DEF DueInv, BegunInv, DiscoveryBegunInv
  <2>2. CASE s # Discovery
    BY <1>2, <1>5, <2>2 DEF DueInv, BegunInv, DiscoveryBegunInv, Subjects, s
  <2> QED
    BY <2>1, <2>2
<1>10. BeforeInv' /\ IdleInv'
  BY <1>2 DEF DueInv, BeforeInv, IdleInv
<1> QED
  BY <1>6, <1>7, <1>8, <1>9, <1>10 DEF DueInv, BegunInv

\* A run that ends stays in its round when it is owed another, and is tried at its revision when it is not.
LEMMA DueRunEnds ==
  ASSUME TypeInv, OnceInv, DueInv, NEW w \in Workspaces, NEW stored \in BOOLEAN, NEW refreshed \in BOOLEAN,
         RunEnds(w, stored, refreshed)
  PROVE  DueInv'
<1> DEFINE ended == Ended(w, stored)
           owed == OwedAgain([isRerun |-> job.again], RunReport(w, stored), revision)
<1>1. /\ phase = "returned" /\ phase' = "quiet" /\ job.subject = w /\ JobUnderWay /\ ~JobUnderWay' /\ Runs
      /\ relisted' = refreshed /\ round' = RoundAfter(w, owed)
      /\ attempts' = [attempts EXCEPT ![w] = ended]
      /\ UNCHANGED <<heldRuns, dAttempt, begun, revision, roundRevision, record, digests>>
      /\ ~refreshed => build' = build
  BY DEF RunEnds, Ended, JobUnderWay, Runs, discoveryHistoryVars, planVars
<1>2. latest' = latest \/ \E kept : latest' = [latest EXCEPT ![w] = kept]
  BY DEF RunEnds
<1>3. ended.revision = job.planned /\ ended.modules = job.modules /\ ended.rerunOwed = owed
  BY DEF Ended, EndedAttempt, OwedAgain, RunReport
<1>4. ended # NoAttempt
  BY EndedTyped, DistinctAssumption
<1>5. round' = round \/ round' = [round EXCEPT !.due = IF owed THEN @ \cup {w} ELSE @ \ {w}]
  BY <1>1 DEF RoundAfter
<1>6. round'.state = round.state /\ round'.revision = round.revision
  BY <1>5 DEF TypeInv, LoopType, RoundType
<1>7. round.state = "planned" => round'.due = IF owed THEN round.due \cup {w} ELSE round.due \ {w}
  BY <1>1 DEF RoundAfter, TypeInv, LoopType, RoundType
<1> HIDE DEF ended, owed
<1>8. attempts'[w] = ended /\ \A x \in Workspaces \ {w} : attempts'[x] = attempts[x] /\ latest'[x] = latest[x]
  BY <1>1, <1>2 DEF TypeInv, RunHistoryType, StoreType
<1>9. RoundInv'
  BY <1>1, <1>6 DEF DueInv, RoundInv
<1>10. NamesInv'
  <2> SUFFICES ASSUME RoundInEffect', record # NotInEffect, ~refreshed, NEW x \in Workspaces
               PROVE  Spoken(x)' \/ CurrentByBuild(x)'
    BY <1>1 DEF NamesInv
  <2>1. RoundInEffect /\ round.state = "planned" /\ job.planned = revision
    BY <1>1, <1>6 DEF DueInv, RoundInv, RoundInEffect
  <2>2. CASE x = w
    <3>1. CASE owed
      BY <1>7, <2>1, <2>2, <3>1 DEF Spoken
    <3>2. CASE ~owed
      <4>1. job.modules = record.modules
        BY <1>1 DEF OnceInv, UnderWayInv
      <4> QED
        BY <1>1, <1>3, <1>4, <1>8, <2>1, <2>2, <3>2, <4>1 DEF Spoken, RanAlready
    <3> QED
      BY <3>1, <3>2
  <2>3. CASE x # w
    <3>1. Spoken(x) \/ CurrentByBuild(x)
      BY <1>1, <2>1 DEF DueInv, NamesInv, RoundInv
    <3>2. x \in round.due => x \in round'.due
      BY <1>7, <2>1, <2>3
    <3> QED
      BY <1>1, <1>8, <2>3, <3>1, <3>2 DEF Spoken, RanAlready, CurrentByBuild, Scope
  <2> QED
    BY <2>2, <2>3
<1>11. RunBegunInv'
  <2> SUFFICES ASSUME NEW x \in Workspaces, attempts'[x] # NoAttempt
               PROVE  /\ attempts'[x].revision <= revision
                      /\ attempts'[x].revision = revision => begun[x].jobs > 0 /\ begun[x].modules = attempts'[x].modules
    BY <1>1 DEF RunBegunInv
  <2>1. CASE x = w
    <3>1. attempts[w] # NoAttempt /\ attempts[w].revision = job.planned /\ attempts[w].modules = job.modules
      BY <1>1 DEF OnceInv, UnderWayInv
    <3> QED
      BY <1>1, <1>3, <1>8, <2>1, <3>1 DEF DueInv, BegunInv, RunBegunInv
  <2>2. CASE x # w
    BY <1>1, <1>8, <2>2 DEF DueInv, BegunInv, RunBegunInv
  <2> QED
    BY <2>1, <2>2
<1>12. DiscoveryBegunInv' /\ BeforeInv' /\ IdleInv'
  BY <1>1 DEF DueInv, BegunInv, DiscoveryBegunInv, BeforeInv, IdleInv
<1> QED
  BY <1>9, <1>10, <1>11, <1>12 DEF DueInv, BegunInv

\* A discovery ends with no round in effect.
LEMMA DueDiscoveryEnds ==
  ASSUME TypeInv, OnceInv, DueInv, NEW stored \in BOOLEAN, NEW modules \in Lists, DiscoveryEnds(stored, modules)
  PROVE  DueInv'
<1>1. /\ phase = "returned" /\ phase' = "quiet" /\ ~Runs /\ JobUnderWay /\ ~JobUnderWay'
      /\ UNCHANGED <<round, relisted, attempts, begun, revision, roundRevision>>
  BY DEF DiscoveryEnds, JobUnderWay, runHistoryVars, planVars
<1>2. dAttempt'.revision = job.planned
  BY DEF DiscoveryEnds, DiscoveryAttempt
<1>3. dAttempt # NoAttempt /\ dAttempt.revision = job.planned
  BY <1>1 DEF OnceInv, UnderWayInv
<1>4. round.state # "planned"
  BY <1>1 DEF DueInv, RoundInv
<1>5. RunBegunInv' /\ DiscoveryBegunInv' /\ BeforeInv'
  BY <1>1, <1>2, <1>3 DEF DueInv, BegunInv, RunBegunInv, DiscoveryBegunInv, BeforeInv
<1> QED
  BY <1>1, <1>4, <1>5 DEF DueInv, BegunInv, RoundInv, NamesInv, RoundInEffect, IdleInv

\* Every step keeps the invariant.
LEMMA StepDue == TypeInv /\ OnceInv /\ DueInv /\ [Next]_vars => DueInv'
<1> SUFFICES ASSUME TypeInv, OnceInv, DueInv, [Next]_vars PROVE DueInv'
  OBVIOUS
<1>1. ASSUME PlanFails \/ JobThrows
      PROVE  DueInv'
  <2>1. /\ UNCHANGED <<attempts, dAttempt, begun, revision, roundRevision>>
        /\ phase # "starting" /\ phase' = "failed" /\ ~JobUnderWay'
        /\ round' = [Pending EXCEPT !.state = "held"]
    BY <1>1 DEF PlanFails, JobThrows, JobUnderWay, runHistoryVars, discoveryHistoryVars, envVars, planVars, historyVars
  <2>2. round'.state # "planned"
    BY <2>1 DEF Pending
  <2> QED
    BY <2>1, <2>2, DueUnplanned
<1>2. CASE Wake
  <2>1. /\ UNCHANGED <<relisted, heldRuns, attempts, dAttempt, dHeld, begun, revision, roundRevision, record, build, latest,
                       digests, job>>
        /\ phase \in {"idle", "waiting", "failed"} /\ phase' = "quiet" /\ ~JobUnderWay /\ ~JobUnderWay'
        /\ round' = IF round.state = "held" THEN Pending ELSE round
    BY <1>2 DEF Wake, JobUnderWay, runHistoryVars, discoveryHistoryVars, storeVars, planVars, historyVars
  <2>2. CASE round.state = "held"
    BY <2>1, <2>2, DueUnplanned DEF Pending
  <2>3. CASE round.state # "held"
    BY <2>1, <2>3, DueKept DEF JobUnderWay
  <2> QED
    BY <2>2, <2>3
<1>3. CASE CoolDown \/ Interrupt
  BY <1>3, DueKept DEF CoolDown, Interrupt, TypeInv, JobType, JobUnderWay, runHistoryVars, discoveryHistoryVars, envVars,
                       storeVars, planVars, historyVars
<1>4. CASE Plan
  BY <1>4, DuePlanWait, DuePlanDiscover, DuePlanIdle, DuePlanRun DEF Plan
<1>5. CASE JobStep
  <2>1. ASSUME NEW outcome, JobReturns(outcome)
        PROVE  DueInv'
    BY <2>1, DueKept DEF JobReturns, TypeInv, JobType, JobUnderWay, runHistoryVars, discoveryHistoryVars, storeVars, planVars
  <2> QED
    BY <1>5, <2>1, DueJobNotBegun, DueJobStarts, DueRunEnds, DueDiscoveryEnds DEF JobStep, JobEnds
<1>6. CASE Surroundings
  <2>1. ASSUME NEW p \in Paths, JobWrite(p) \/ Edit(p)
        PROVE  DueInv'
    BY <2>1, DueCommit DEF JobWrite, Edit
  <2>2. ASSUME NEW p \in Paths, Touch(p)
        PROVE  DueInv'
    BY <2>2, DueKept DEF Touch, Recorded, TypeInv, JobType, JobUnderWay, runHistoryVars, discoveryHistoryVars, storeVars,
                         planVars
  <2>3. ASSUME Vouch \/ PeriodicReconciliation \/ \E caused \in BOOLEAN : Unvouch(caused)
        PROVE  DueInv'
    BY <2>3, DueKept DEF Vouch, PeriodicReconciliation, Unvouch, TypeInv, JobType, JobUnderWay, runHistoryVars,
                         discoveryHistoryVars, storeVars, planVars, historyVars
  <2>4. ASSUME NEW kind, BuildEnds(kind)
        PROVE  DueInv'
    BY <2>4, DueBuildEnds
  <2>5. ASSUME NEW c \in Callers, ReportRead(c) \/ \E keys \in SUBSET Paths \ {{}} : Report(c, keys)
        PROVE  DueInv'
    BY <2>5, DueKept DEF ReportRead, Report, JobUnderWay, runHistoryVars, discoveryHistoryVars, envVars, storeVars, planVars,
                         historyVars
  <2> QED
    BY <1>6, <2>1, <2>2, <2>3, <2>4, <2>5 DEF Surroundings
<1>7. CASE UNCHANGED vars
  BY <1>7, DueKept DEF vars, JobUnderWay, runHistoryVars, discoveryHistoryVars, envVars, storeVars, planVars, historyVars
<1> QED
  BY <1>1, <1>2, <1>3, <1>4, <1>5, <1>6, <1>7 DEF Next

\* What the invariant says of an idle scheduler and of the round the answers read.
LEMMA DueIsNamed == TypeInv /\ DueInv => NothingDueForgotten
<1> SUFFICES ASSUME TypeInv, DueInv PROVE NothingDueForgotten
  OBVIOUS
<1>1. ASSUME NEW w \in Eligible, RoundInEffect, ~relisted, Stale(w), Fingerprint(w) # NoDigests
      PROVE  Spoken(w)
  <2>1. w \in Workspaces /\ record # NotInEffect
    BY <1>1 DEF Eligible
  <2>2. Fingerprint(w) = [p \in Scope(w, build) |-> digests[p]]
    BY <1>1 DEF Fingerprint
  <2>3. ~CurrentByBuild(w)
    BY <1>1, <2>2 DEF Stale, CurrentByBuild
  <2> QED
    BY <1>1, <2>1, <2>3 DEF DueInv, NamesInv
<1>2. RoundNamesDue
  BY <1>1 DEF RoundNamesDue, Spoken
<1>3. ASSUME phase = "idle", revision = roundRevision, ~periodic, available
      PROVE  /\ \A w \in Eligible : Stale(w) => heldRuns[w] # {} \/ Tried(w)
             /\ \/ record # NotInEffect /\ record.print = digests
                \/ dHeld # {} \/ begun[Discovery].jobs > 0
  <2>1. RoundInEffect /\ round.due = {} /\ ~relisted /\ ~JobUnderWay
    BY <1>3 DEF DueInv, IdleInv, RoundInEffect, JobUnderWay
  <2>2. DiscoveryDone
    BY <1>3 DEF DueInv, IdleInv
  <2>3. ASSUME NEW w \in Eligible, Stale(w)
        PROVE  heldRuns[w] # {} \/ Tried(w)
    <3>1. w \in Workspaces /\ record # NotInEffect
      BY DEF Eligible
    <3>2. ~CurrentByBuild(w)
      <4>1. build # "building" => Fingerprint(w) = [p \in Scope(w, build) |-> digests[p]]
        BY <1>3 DEF Fingerprint, Placement, TypeInv, EnvType
      <4> QED
        BY <2>3, <4>1 DEF Stale, CurrentByBuild
    <3>3. heldRuns[w] # {} \/ RanAlready(w, revision, record.modules)
      BY <2>1, <3>1, <3>2 DEF DueInv, NamesInv, Spoken
    <3> QED
      BY <1>3, <3>1, <3>3 DEF RanAlready, Tried, DueInv, BegunInv, RunBegunInv
  <2> QED
    BY <2>2, <2>3 DEF DiscoveryDone
<1> QED
  BY <1>2, <1>3 DEF NothingDueForgotten, IdleMeansDone

\* Nothing that is due is forgotten: an idle scheduler has tried or holds every workspace that is not current, and the
\* discovery; and the round the answers read names every run still owed, until a run's lists replace what it was planned
\* over.
THEOREM NothingForgotten == Spec => []NothingDueForgotten
<1>1. Init => TypeInv /\ OnceInv /\ DueInv
  <2>1. Init => OnceInv
    BY RecordAssumption
       DEF Init, OnceInv, PlannedInv, UnderWayInv, RunOnceInv, DiscoverOnceInv, AgainInv, JobUnderWay, Subjects, NoneBegun
  <2>2. Init => DueInv
    <3> SUFFICES ASSUME Init PROVE DueInv
      OBVIOUS
    <3>1. /\ phase = "quiet" /\ roundRevision = 0 /\ revision = 0 /\ round = Pending /\ dAttempt = NoAttempt
          /\ attempts = [w \in Workspaces |-> NoAttempt]
      BY DEF Init, RunHistoryInit, DiscoveryHistoryInit
    <3> QED
      BY <3>1 DEF DueInv, RoundInv, NamesInv, BegunInv, RunBegunInv, DiscoveryBegunInv, BeforeInv, IdleInv, RoundInEffect,
                  Pending, JobUnderWay
  <2> QED
    BY <2>1, <2>2, InitTyped
<1>2. TypeInv /\ OnceInv /\ DueInv /\ [Next]_vars => (TypeInv /\ OnceInv /\ DueInv)'
  BY StepTyped, StepOnce, StepDue
<1>3. TypeInv /\ OnceInv /\ DueInv => NothingDueForgotten
  BY DueIsNamed
<1> QED
  BY <1>1, <1>2, <1>3, PTL DEF Spec

-----------------------------------------------------------------------------
(* HeldPastNoEdit: what changed while no job ran is an edit to the record, or differs from the reading the next one is *)
(* compared with, and the latest run's inputs differ by it too, so a plan finds the workspace stale and edited.        *)

\* The path has changed since a reading, or there is none.
Behind(p, reading) == reading = NoDigests \/ reading[p] < digests[p]

\* A reading is of contents the paths had by now.
Earlier(reading) == reading # NoDigests => \A p \in Paths : reading[p] <= digests[p]

InWindow == phase \in {"running", "returned"}

ReadingsInv ==
    /\ roundRevision <= revision
    /\ \A p \in Paths : digests[p] <= revision
    /\ Earlier(last)
    /\ InWindow => Earlier(job.window.start)
    /\ phase = "returned" => Earlier(job.window.end)

\* The record has the path as an edit of the subject.
HasEdit(s, p) == changes[s].everywhere \/ p \in changes[s].edits

\* A job under way starts its subject's record afresh, and has the others' read up to the start of its window.
LandedInv ==
    \A s \in Subjects : \A p \in landed[s] :
        /\ changes[s].began => HasEdit(s, p) \/ Behind(p, last)
        /\ InWindow /\ s # job.subject /\ changes[s].began =>
               \/ HasEdit(s, p) \/ last = NoDigests \/ job.window.start = NoDigests
               \/ last[p] < job.window.start[p]
               \/ phase = "returned" /\ Behind(p, job.window.end)
        /\ InWindow /\ s = job.subject => phase = "returned" /\ Behind(p, last) /\ Behind(p, job.window.end)

\* A fingerprint is of contents the workspace's inputs had, and earlier ones of those that changed between jobs since.
Precedes(w, print) ==
    print # NoDigests =>
        /\ Inside[w] \subseteq DOMAIN print
        /\ \A p \in Inside[w] : print[p] <= digests[p] /\ (p \in landed[w] => print[p] < digests[p])

PrintsInv ==
    /\ \A w \in Workspaces : latest[w] # NotInEffect => Precedes(w, latest[w].print)
    /\ InWindow /\ Runs => Precedes(job.subject, job.print)

IdleHeldInv ==
    phase = "idle" /\ revision = roundRevision =>
        \A w \in Eligible : heldRuns[w] # {} => landed[w] \cap Inside[w] = {}

HoldInv == ReadingsInv /\ LandedInv /\ PrintsInv /\ IdleHeldInv

\* What a subject that has begun a job has as an edit, and what a reading finds changed, is an edit after it.
LEMMA IntervalFinds ==
  ASSUME NEW ch \in [Subjects -> ChangesType], NEW from, NEW to, NEW s \in Subjects, ch[s].began, NEW p \in Paths,
         \/ ch[s].everywhere \/ p \in ch[s].edits
         \/ from = NoDigests \/ to = NoDigests \/ from[p] # to[p]
  PROVE  Interval(ch, from, to)[s].everywhere \/ p \in Interval(ch, from, to)[s].edits
<1> DEFINE found == ChangedBetween(from, to)
<1>1. found \in SUBSET Paths
  BY DEF ChangedBetween
<1>2. EditedEverywhere.everywhere
  BY DEF EditedEverywhere, StartAfresh, NoChanges
<1>3. CASE Interval(ch, from, to) = Everywhere(ch)
  BY <1>2, <1>3 DEF Everywhere, EachBegun
<1>4. CASE /\ Interval(ch, from, to) = [x \in Subjects |-> IF ch[x].began THEN AddEdits(ch[x], found) ELSE ch[x]]
           /\ from # NoDigests /\ to # NoDigests
  <2>1. ch[s].everywhere \/ p \in ch[s].edits \cup found
    BY <1>4 DEF ChangedBetween
  <2>2. AddEdits(ch[s], found).everywhere \/ p \in AddEdits(ch[s], found).edits
    BY <1>1, <1>2, <2>1 DEF AddEdits, Counted, ChangesType
  <2> QED
    BY <1>4, <2>2
<1> QED
  BY <1>3, <1>4 DEF Interval, EachBegun

\* A handed over window takes no edit from another subject's record, nor what a reading at its start finds changed.
LEMMA AfterWindowFinds ==
  ASSUME NEW ch \in [Subjects -> ChangesType], NEW from, NEW j \in Subjects, holding \in [Subjects -> SUBSET Paths],
         NEW window, window.paths \in SUBSET Paths
  PROVE  \A s \in Subjects \ {j} :
             LET after == AfterWindow(ch, from, window, j)[s]
             IN  /\ after.began => ch[s].began
                 /\ \A p \in Paths :
                       /\ ch[s].began
                       /\ \/ ch[s].everywhere \/ p \in ch[s].edits
                          \/ from = NoDigests \/ window.start = NoDigests \/ from[p] # window.start[p]
                       => after.everywhere \/ p \in after.edits
<1> TAKE s \in Subjects \ {j}
<1> DEFINE read == Interval(ch, from, window.start)
           afresh == [read EXCEPT ![j] = StartAfresh]
           caused == window.paths \ holding[j]
           reported == window.paths \cap holding[j]
           added(c) == AddEdits(AddJob(c, caused), reported)
           finds(p) == /\ ch[s].began
                       /\ \/ ch[s].everywhere \/ p \in ch[s].edits
                          \/ from = NoDigests \/ window.start = NoDigests \/ from[p] # window.start[p]
<1>1. read \in [Subjects -> ChangesType] /\ read[s].began = ch[s].began
  BY IntervalAddsEdits
<1>2. \A p \in Paths : finds(p) => ch[s].began /\ (read[s].everywhere \/ p \in read[s].edits)
  BY IntervalFinds
<1>3. caused \in SUBSET Paths /\ reported \in SUBSET Paths
  OBVIOUS
<1>4. EditedEverywhere \in ChangesType /\ EditedEverywhere.everywhere /\ EditedEverywhere.began
  BY DEF EditedEverywhere, StartAfresh, NoChanges, ChangesType
<1> HIDE DEF read
<1>5. afresh[s] = read[s]
  BY <1>1
<1> HIDE DEF afresh, caused, reported, finds
<1>6. CASE AfterWindow(ch, from, window, j) = [x \in Subjects |-> IF afresh[x].began THEN EditedEverywhere ELSE afresh[x]]
  BY <1>1, <1>2, <1>4, <1>5, <1>6 DEF finds
<1>7. CASE AfterWindow(ch, from, window, j) = [x \in Subjects |-> IF afresh[x].began THEN added(afresh[x]) ELSE afresh[x]]
  <2>1. ASSUME NEW c \in ChangesType, c.began
        PROVE  /\ added(c) \in ChangesType /\ added(c).began
               /\ \A p \in Paths : c.everywhere \/ p \in c.edits => added(c).everywhere \/ p \in added(c).edits
    <3>1. /\ AddJob(c, caused) \in ChangesType /\ AddJob(c, caused).began
          /\ \A p \in Paths : c.everywhere \/ p \in c.edits => AddJob(c, caused).everywhere \/ p \in AddJob(c, caused).edits
      BY <1>3, <1>4, <2>1 DEF AddJob, Counted, ChangesType
    <3> QED
      BY <1>3, <1>4, <3>1 DEF AddEdits, Counted, ChangesType
  <2> HIDE DEF added
  <2>2. AfterWindow(ch, from, window, j)[s] = IF read[s].began THEN added(read[s]) ELSE read[s]
    BY <1>5, <1>7
  <2>3. read[s].began => /\ added(read[s]) \in ChangesType /\ added(read[s]).began
                         /\ \A p \in Paths : finds(p) => added(read[s]).everywhere \/ p \in added(read[s]).edits
    BY <1>1, <1>2, <2>1
  <2>4. read[s] \in ChangesType /\ \A p \in Paths : finds(p) => read[s].began
    BY <1>1, <1>2
  <2>5. AfterWindow(ch, from, window, j)[s].began = read[s].began
    BY <2>2, <2>3, <2>4 DEF ChangesType
  <2> QED
    BY <1>1, <2>2, <2>3, <2>4, <2>5 DEF finds
<1> QED
  BY <1>6, <1>7 DEF AfterWindow, EachBegun, Everywhere, read, afresh, caused, reported, finds

\* The contents compared are numbers.
LEMMA ContentsAreNumbers ==
  ASSUME TypeInv
  PROVE  /\ revision \in Nat /\ roundRevision \in Nat /\ \A p \in Paths : digests[p] \in Nat
         /\ \A reading \in Contents \cup {NoDigests} : reading # NoDigests => \A p \in Paths : reading[p] \in Nat
         /\ last \in Contents \cup {NoDigests}
         /\ job.window.start \in Contents \cup {NoDigests} /\ job.window.end \in Contents \cup {NoDigests}
         /\ \A print \in Prints : print # NoDigests => \A p \in DOMAIN print : print[p] \in Nat
         /\ job.print \in Prints /\ \A w \in Workspaces : latest[w] # NotInEffect => latest[w].print \in Prints
<1>1. \A r \in Revisions : r \in Nat
  BY SchedulerAssumption DEF Revisions
<1>2. /\ revision \in Revisions /\ roundRevision \in Revisions /\ digests \in Contents /\ last \in Contents \cup {NoDigests}
      /\ job.window.start \in Contents \cup {NoDigests} /\ job.window.end \in Contents \cup {NoDigests} /\ job.print \in Prints
  BY DEF TypeInv, EnvType, LoopType, RecordType, JobType
<1>3. \A reading \in Contents : \A p \in Paths : reading[p] \in Revisions
  BY DEF Contents
<1>4. \A w \in Workspaces : latest[w] # NotInEffect => latest[w].print \in Prints
  BY DEF TypeInv, StoreType, RunType
<1>5. ASSUME NEW print \in Prints, print # NoDigests, NEW p \in DOMAIN print
      PROVE  print[p] \in Nat
  <2>1. PICK ps : print \in [ps -> Revisions]
    BY <1>5 DEF Prints
  <2> QED
    BY <1>1, <1>5, <2>1
<1> QED
  BY <1>1, <1>2, <1>3, <1>4, <1>5

\* A step between two looks at the record, that neither takes a reading nor begins or ends a window, keeps the invariant.
LEMMA HoldKept ==
  ASSUME HoldInv, UNCHANGED <<digests, revision, roundRevision, last, landed, latest, heldRuns, record>>,
         \A s \in Subjects : /\ changes'[s].began = changes[s].began
                             /\ \A p \in Paths : HasEdit(s, p) => HasEdit(s, p)',
         landed \in [Subjects -> SUBSET Paths],
         phase' \in {"running", "returned", "idle"} => phase' = phase,
         phase' \in {"running", "returned"} =>
            /\ job'.subject = job.subject /\ job'.print = job.print
            /\ job'.window.start = job.window.start /\ job'.window.end = job.window.end
  PROVE  HoldInv'
<1>1. ReadingsInv'
  BY DEF HoldInv, ReadingsInv, Earlier, InWindow
<1>2. LandedInv'
  <2> SUFFICES ASSUME NEW s \in Subjects, NEW p \in landed[s]
               PROVE  /\ changes'[s].began => HasEdit(s, p)' \/ Behind(p, last)'
                      /\ InWindow' /\ s # job'.subject /\ changes'[s].began =>
                             \/ HasEdit(s, p)' \/ last' = NoDigests \/ job'.window.start = NoDigests
                             \/ last'[p] < job'.window.start[p]
                             \/ phase' = "returned" /\ Behind(p, job.window.end)'
                      /\ InWindow' /\ s = job'.subject =>
                             phase' = "returned" /\ Behind(p, last)' /\ Behind(p, job.window.end)'
    BY DEF LandedInv
  <2>1. p \in Paths
    OBVIOUS
  <2> QED
    BY <2>1 DEF HoldInv, LandedInv, Behind, InWindow
<1>3. PrintsInv'
  BY DEF HoldInv, PrintsInv, Precedes, InWindow, Runs
<1>4. IdleHeldInv'
  BY DEF HoldInv, IdleHeldInv, Eligible
<1> QED
  BY <1>1, <1>2, <1>3, <1>4 DEF HoldInv

\* A change raises what the path reads as past every reading and every fingerprint, and leaves the scheduler no longer
\* idle at its revision.
LEMMA HoldCommit ==
  ASSUME ~Reverts, TypeInv, HoldInv, NEW x \in Paths, Commit(x)
  PROVE  HoldInv'
<1>1. /\ digests' = [digests EXCEPT ![x] = revision + 1] /\ revision' = revision + 1
      /\ landed' = [s \in Subjects |-> IF phase = "running" THEN landed[s] ELSE landed[s] \cup {x}]
      /\ UNCHANGED <<changes, last, phase, roundRevision, latest, heldRuns, record>>
      /\ job'.subject = job.subject /\ job'.print = job.print
      /\ job'.window.start = job.window.start /\ job'.window.end = job.window.end
  BY DEF Commit, Recorded, TypeInv, JobType, recordVars, runHistoryVars, storeVars, planVars
<1>2. digests'[x] = revision + 1 /\ \A p \in Paths \ {x} : digests'[p] = digests[p]
  BY <1>1 DEF TypeInv, EnvType, Contents
<1>3. digests[x] <= revision /\ \A p \in Paths : digests[p] <= digests'[p]
  BY <1>2, ContentsAreNumbers DEF HoldInv, ReadingsInv
<1>4. digests[x] < digests'[x]
  BY <1>2, <1>3, ContentsAreNumbers
<1>5. ASSUME NEW reading \in Contents \cup {NoDigests}, reading # NoDigests
      PROVE  /\ Earlier(reading) => reading[x] < digests'[x] /\ \A p \in Paths : reading[p] <= digests'[p]
             /\ \A p \in Paths : reading[p] < digests[p] => reading[p] < digests'[p]
  <2>1. \A p \in Paths : reading[p] \in Nat /\ digests[p] \in Nat /\ digests'[p] \in Nat
    BY <1>2, <1>5, ContentsAreNumbers
  <2> QED
    BY <1>3, <1>4, <1>5, <2>1 DEF Earlier
<1>6. ReadingsInv'
  <2>1. roundRevision' <= revision' /\ \A p \in Paths : digests'[p] <= revision'
    BY <1>1, <1>2, ContentsAreNumbers DEF HoldInv, ReadingsInv
  <2> QED
    BY <1>1, <1>5, <2>1, ContentsAreNumbers DEF HoldInv, ReadingsInv, InWindow, Earlier
<1>7. LandedInv'
  <2> SUFFICES ASSUME NEW s \in Subjects, NEW p \in landed'[s]
               PROVE  /\ changes[s].began => HasEdit(s, p) \/ Behind(p, last)'
                      /\ InWindow /\ s # job.subject /\ changes[s].began =>
                             \/ HasEdit(s, p) \/ last = NoDigests \/ job.window.start = NoDigests
                             \/ last[p] < job.window.start[p]
                             \/ phase = "returned" /\ Behind(p, job.window.end)'
                      /\ InWindow /\ s = job.subject =>
                             phase = "returned" /\ Behind(p, last)' /\ Behind(p, job.window.end)'
    BY <1>1 DEF LandedInv, HasEdit, Behind, InWindow
  <2>1. CASE p \in landed[s]
    <3>1. p \in Paths
      BY <2>1 DEF TypeInv, HistoryType
    <3> QED
      BY <1>1, <1>5, <2>1, <3>1, ContentsAreNumbers DEF HoldInv, LandedInv, Behind
  <2>2. CASE p = x /\ phase # "running"
    <3>1. Earlier(last) /\ (phase = "returned" => Earlier(job.window.end))
      BY DEF HoldInv, ReadingsInv
    <3>2. Behind(x, last)' /\ (phase = "returned" => Behind(x, job.window.end)')
      BY <1>1, <1>5, <3>1, ContentsAreNumbers DEF Behind
    <3> QED
      BY <1>1, <2>2, <3>2 DEF InWindow, Behind
  <2> QED
    BY <1>1, <2>1, <2>2
<1>8. ASSUME NEW w \in Workspaces, NEW print \in Prints, Precedes(w, print)
      PROVE  Precedes(w, print)'
  <2> SUFFICES ASSUME print # NoDigests, NEW p \in Inside[w]
               PROVE  print[p] <= digests'[p] /\ (p \in landed'[w] => print[p] < digests'[p])
    BY <1>8 DEF Precedes
  <2>1. p \in Paths /\ print[p] \in Nat /\ print[p] <= digests[p] /\ (p \in landed[w] => print[p] < digests[p])
    BY <1>8, SchedulerAssumption, ContentsAreNumbers DEF Precedes
  <2>2. digests[p] \in Nat /\ digests'[p] \in Nat
    BY <1>2, <2>1, ContentsAreNumbers
  <2>3. p \in landed'[w] => p \in landed[w] \/ p = x
    BY <1>1 DEF Subjects
  <2> QED
    BY <1>3, <1>4, <2>1, <2>2, <2>3
<1>9. PrintsInv'
  <2>1. \A w \in Workspaces : latest[w] # NotInEffect => Precedes(w, latest[w].print)'
    BY <1>1, <1>8, ContentsAreNumbers DEF HoldInv, PrintsInv
  <2>2. InWindow /\ Runs => Precedes(job.subject, job.print)'
    BY <1>1, <1>8, ContentsAreNumbers DEF HoldInv, PrintsInv, Runs
  <2> QED
    BY <1>1, <2>1, <2>2 DEF PrintsInv, InWindow, Runs, Precedes
<1>10. IdleHeldInv'
  <2>1. roundRevision' # revision'
    BY <1>1, ContentsAreNumbers DEF HoldInv, ReadingsInv
  <2> QED
    BY <2>1 DEF IdleHeldInv
<1> QED
  BY <1>6, <1>7, <1>9, <1>10 DEF HoldInv

\* A job that starts leaves nothing landed for its subject, and its fingerprint is of the contents now.
LEMMA HoldJobStarts ==
  ASSUME TypeInv, HoldInv, JobStarts
  PROVE  HoldInv'
<1> DEFINE s == job.subject
<1>1. /\ phase = "starting" /\ phase' = "running" /\ job'.subject = s /\ job'.window.start = ViewDigests
      /\ job'.print = IF Runs THEN Fingerprint(s) ELSE ViewDigests
      /\ landed' = [landed EXCEPT ![s] = {}]
      /\ UNCHANGED <<changes, last, digests, revision, roundRevision, latest, record, heldRuns>>
  BY DEF JobStarts, TypeInv, JobType, NoWindow, recordVars, runHistoryVars, envVars, storeVars, planVars
<1>2. s \in Subjects
  BY DEF TypeInv, JobType
<1> HIDE DEF s
<1>3. landed'[s] = {} /\ \A x \in Subjects \ {s} : landed'[x] = landed[x]
  BY <1>1, <1>2 DEF TypeInv, HistoryType
<1>4. ViewDigests # NoDigests => ViewDigests = digests
  BY DEF ViewDigests
<1>5. ReadingsInv'
  BY <1>1, <1>4, ContentsAreNumbers DEF HoldInv, ReadingsInv, Earlier, InWindow
<1>6. LandedInv'
  BY <1>1, <1>3, <1>4 DEF HoldInv, LandedInv, HasEdit, Behind, InWindow
<1>7. ASSUME NEW w \in Workspaces, latest[w] # NotInEffect
      PROVE  Precedes(w, latest[w].print)'
  <2>1. w \in Subjects /\ landed'[w] \subseteq landed[w]
    BY <1>3 DEF Subjects
  <2> QED
    BY <1>1, <1>7, <2>1 DEF HoldInv, PrintsInv, Precedes
<1>8. ASSUME Runs
      PROVE  job'.print # NoDigests =>
                 /\ Inside[s] \subseteq DOMAIN job'.print
                 /\ \A p \in Inside[s] : job'.print[p] <= digests'[p] /\ (p \in landed'[s] => job'.print[p] < digests'[p])
  <2>1. job'.print = Fingerprint(s) /\ s \in Workspaces
    BY <1>1, <1>8 DEF Runs, s
  <2>2. CASE Fingerprint(s) = [p \in Scope(s, build) |-> digests[p]]
    <3>1. Inside[s] \subseteq Scope(s, build) /\ Inside[s] \subseteq Paths
      BY <2>1, SchedulerAssumption DEF Scope
    <3> QED
      BY <1>1, <1>3, <2>1, <2>2, <3>1, ContentsAreNumbers
  <2>3. CASE Fingerprint(s) = NoDigests
    BY <2>1, <2>3
  <2> QED
    BY <2>2, <2>3 DEF Fingerprint
<1>9. PrintsInv'
  <2>1. \A w \in Workspaces : latest'[w] # NotInEffect => Precedes(w, latest[w].print)'
    BY <1>1, <1>7
  <2> QED
    BY <1>1, <1>8, <2>1 DEF PrintsInv, Runs, Precedes, s
<1> QED
  BY <1>1, <1>5, <1>6, <1>9 DEF HoldInv, IdleHeldInv

\* A job that returns closes its window with the reading of the view now.
LEMMA HoldJobReturns ==
  ASSUME TypeInv, HoldInv, NEW outcome, JobReturns(outcome)
  PROVE  HoldInv'
<1>1. /\ phase = "running" /\ phase' = "returned" /\ job'.subject = job.subject /\ job'.window.start = job.window.start
      /\ job'.window.end = ViewDigests /\ job'.print = job.print
      /\ UNCHANGED <<changes, last, landed, digests, revision, roundRevision, latest, record, heldRuns>>
  BY DEF JobReturns, TypeInv, JobType, recordVars, runHistoryVars, storeVars, planVars
<1>2. ViewDigests # NoDigests => ViewDigests = digests
  BY DEF ViewDigests
<1>3. ReadingsInv'
  BY <1>1, <1>2, ContentsAreNumbers DEF HoldInv, ReadingsInv, Earlier, InWindow
<1>4. LandedInv'
  BY <1>1 DEF HoldInv, LandedInv, HasEdit, Behind, InWindow
<1>5. PrintsInv'
  BY <1>1 DEF HoldInv, PrintsInv, Precedes, InWindow, Runs
<1> QED
  BY <1>1, <1>3, <1>4, <1>5 DEF HoldInv, IdleHeldInv

\* The end of a job hands its window over: what it read since the reading before, or is behind the one it ended with,
\* is an edit or still behind; and what is stored is the fingerprint it started from.
LEMMA HoldEnded ==
  ASSUME TypeInv, HoldInv, phase = "returned", phase' = "quiet", JobEnded(job.window, job.subject),
         UNCHANGED <<landed, digests, revision, roundRevision>>,
         \A w \in Workspaces : \/ latest'[w] = latest[w]
                               \/ w = job.subject /\ latest'[w].print \in {job.print, NoDigests}
  PROVE  HoldInv'
<1> DEFINE s == job.subject
           window == job.window
<1>1. /\ changes' = AfterWindow(changes, last, window, s) /\ last' = window.end
      /\ s \in Subjects /\ window.paths \in SUBSET Paths
      /\ changes \in [Subjects -> ChangesType] /\ holding \in [Subjects -> SUBSET Paths]
  BY DEF JobEnded, TypeInv, JobType, RecordType
<1>2. ReadingsInv'
  BY <1>1 DEF HoldInv, ReadingsInv, Earlier, InWindow
<1>3. ASSUME NEW x \in Subjects, NEW p \in landed[x], changes'[x].began
      PROVE  HasEdit(x, p)' \/ Behind(p, last)'
  <2>1. p \in Paths
    BY DEF TypeInv, HistoryType
  <2>2. CASE x = s
    BY <1>1, <2>2 DEF HoldInv, LandedInv, InWindow, Behind
  <2>3. CASE x # s
    <3>1. changes[x].began
      <4> HIDE DEF s, window
      <4> QED
        BY <1>1, <1>3, <2>3, AfterWindowFinds
    <3>2. \/ HasEdit(x, p) \/ last = NoDigests \/ window.start = NoDigests
          \/ last[p] < window.start[p] \/ Behind(p, window.end)
      BY <1>3, <2>3, <3>1 DEF HoldInv, LandedInv, InWindow
    <3>3. CASE Behind(p, window.end)
      BY <1>1, <3>3 DEF Behind
    <3>4. CASE HasEdit(x, p) \/ last = NoDigests \/ window.start = NoDigests \/ last[p] < window.start[p]
      <4>1. \/ changes[x].everywhere \/ p \in changes[x].edits
            \/ last = NoDigests \/ window.start = NoDigests \/ last[p] # window.start[p]
        BY <2>1, <3>4, ContentsAreNumbers DEF HasEdit
      <4> HIDE DEF s, window
      <4>2. changes'[x].everywhere \/ p \in changes'[x].edits
        BY <1>1, <1>3, <2>1, <2>3, <3>1, <4>1, AfterWindowFinds
      <4> QED
        BY <4>2 DEF HasEdit
    <3> QED
      BY <3>2, <3>3, <3>4
  <2> QED
    BY <2>2, <2>3
<1>4. LandedInv'
  BY <1>3 DEF LandedInv, InWindow
<1>5. ASSUME NEW w \in Workspaces, latest'[w] # NotInEffect
      PROVE  Precedes(w, latest[w].print)'
  <2>1. CASE latest'[w] = latest[w]
    BY <1>5, <2>1 DEF HoldInv, PrintsInv, Precedes
  <2>2. CASE w = s /\ latest'[w].print \in {job.print, NoDigests}
    BY <2>2 DEF HoldInv, PrintsInv, Precedes, InWindow, Runs
  <2> QED
    BY <2>1, <2>2
<1>6. PrintsInv'
  BY <1>5 DEF PrintsInv, InWindow
<1> QED
  BY <1>2, <1>4, <1>6 DEF HoldInv, IdleHeldInv

\* A run or a discovery that ends does just that.
LEMMA HoldJobEnds ==
  ASSUME TypeInv, HoldInv, JobEnds
  PROVE  HoldInv'
<1>1. ASSUME NEW w \in Workspaces, NEW stored \in BOOLEAN, NEW refreshed \in BOOLEAN, RunEnds(w, stored, refreshed)
      PROVE  HoldInv'
  <2> DEFINE kept == [print |-> IF RunReport(w, stored).verdict = "kept" THEN job.print ELSE NoDigests,
                      failed |-> job.outcome = "failed"]
  <2>1. /\ phase = "returned" /\ phase' = "quiet" /\ job.subject = w /\ JobEnded(job.window, w)
        /\ UNCHANGED <<landed, digests, revision, roundRevision>>
        /\ latest' = IF stored THEN [latest EXCEPT ![w] = kept] ELSE latest
    BY <1>1 DEF RunEnds, planVars
  <2>2. kept.print \in {job.print, NoDigests}
    OBVIOUS
  <2> HIDE DEF kept
  <2>3. \A x \in Workspaces : latest'[x] = latest[x] \/ (x = w /\ latest'[x] = kept)
    BY <2>1 DEF TypeInv, StoreType
  <2> QED
    BY <2>1, <2>2, <2>3, HoldEnded
<1>2. ASSUME NEW stored \in BOOLEAN, NEW modules \in Lists, DiscoveryEnds(stored, modules)
      PROVE  HoldInv'
  <2>1. job.subject = Discovery
    BY <1>2 DEF DiscoveryEnds, Runs, TypeInv, JobType, Subjects
  <2>2. /\ phase = "returned" /\ phase' = "quiet" /\ JobEnded(job.window, job.subject)
        /\ UNCHANGED <<landed, digests, revision, roundRevision, latest>>
    BY <1>2, <2>1 DEF DiscoveryEnds, planVars
  <2> QED
    BY <2>2, HoldEnded
<1> QED
  BY <1>1, <1>2 DEF JobEnds

\* A job that throws starts its subject's record afresh, what landed since it began still behind the reading before it.
LEMMA HoldJobThrows ==
  ASSUME TypeInv, HoldInv, JobThrows
  PROVE  HoldInv'
<1>1. /\ changes' = [changes EXCEPT ![job.subject] = StartAfresh] /\ InWindow /\ phase' = "failed"
      /\ UNCHANGED <<last, landed, digests, revision, roundRevision, latest, record, heldRuns>>
  BY DEF JobThrows, JobThrew, InWindow, runHistoryVars, envVars, storeVars, planVars
<1>2. \A s \in Subjects : s # job.subject => changes'[s] = changes[s]
  BY <1>1 DEF TypeInv, RecordType
<1>3. LandedInv'
  BY <1>1, <1>2 DEF HoldInv, LandedInv, HasEdit, Behind, InWindow
<1>4. ReadingsInv' /\ PrintsInv'
  BY <1>1 DEF HoldInv, ReadingsInv, Earlier, PrintsInv, Precedes, InWindow
<1> QED
  BY <1>1, <1>3, <1>4 DEF HoldInv, IdleHeldInv

\* What is behind the reading of the plan before is an edit to the plan, or there is no reading.
LEMMA PlanFindsEdits ==
  ASSUME TypeInv, HoldInv, phase = "quiet", NEW s \in Subjects, NEW p \in landed[s]
  PROVE  /\ Observed[s].began = changes[s].began
         /\ Observed[s].began => Observed[s].everywhere \/ p \in Observed[s].edits
<1>1. /\ p \in Paths /\ changes \in [Subjects -> ChangesType]
      /\ last \in Contents \cup {NoDigests} /\ ViewDigests \in {digests, NoDigests}
  BY DEF TypeInv, HistoryType, RecordType, ViewDigests
<1>2. Observed[s].began = changes[s].began
  BY <1>1, IntervalAddsEdits DEF Observed
<1>3. changes[s].began => HasEdit(s, p) \/ Behind(p, last)
  BY DEF HoldInv, LandedInv
<1>4. Behind(p, last) => last = NoDigests \/ ViewDigests = NoDigests \/ last[p] # ViewDigests[p]
  BY <1>1, ContentsAreNumbers DEF Behind
<1>5. changes[s].began => \/ changes[s].everywhere \/ p \in changes[s].edits
                          \/ last = NoDigests \/ ViewDigests = NoDigests \/ last[p] # ViewDigests[p]
  BY <1>3, <1>4 DEF HasEdit
<1>6. changes[s].began => Observed[s].everywhere \/ p \in Observed[s].edits
  BY <1>1, <1>5, IntervalFinds DEF Observed
<1> QED
  BY <1>2, <1>6

\* A plan takes a reading, and whatever it goes on to do opens no window.
LEMMA HoldPlanning ==
  ASSUME TypeInv, HoldInv, Planning, phase' \in {"waiting", "starting", "idle"}
  PROVE  /\ ReadingsInv' /\ LandedInv' /\ PrintsInv'
         /\ phase = "quiet" /\ UNCHANGED <<landed, record>>
<1>1. /\ phase = "quiet" /\ changes' = Observed /\ last' = ViewDigests /\ roundRevision' = revision
      /\ UNCHANGED <<digests, revision, latest, record, landed>>
  BY DEF Planning, storeVars
<1>2. ViewDigests # NoDigests => ViewDigests = digests
  BY DEF ViewDigests
<1>3. ReadingsInv'
  BY <1>1, <1>2, ContentsAreNumbers DEF HoldInv, ReadingsInv, Earlier, InWindow
<1>4. LandedInv'
  BY <1>1, PlanFindsEdits DEF LandedInv, HasEdit, InWindow
<1>5. PrintsInv'
  BY <1>1 DEF HoldInv, PrintsInv, Precedes, InWindow
<1> QED
  BY <1>1, <1>3, <1>4, <1>5

\* A plan that idles holds no workspace by what landed: one it considers it releases, and any other is current.
LEMMA HoldPlanIdle ==
  ASSUME TypeInv, HoldInv, PlanIdle
  PROVE  HoldInv'
<1>1. /\ Planning /\ phase' = "idle" /\ phase = "quiet" /\ UNCHANGED <<landed, record>>
      /\ heldRuns' = [w \in Workspaces |-> IF w \in Considered THEN RunPlan[w].held ELSE heldRuns[w]]
  BY HoldPlanning DEF PlanIdle, Deciding, Planning, storeVars
<1>2. ASSUME NEW w \in Eligible, heldRuns'[w] # {}, NEW p \in landed[w] \cap Inside[w]
      PROVE  FALSE
  <2>1. w \in Workspaces /\ w \in Subjects
    BY DEF Eligible, Subjects
  <2>2. \A kind : Inside[w] \subseteq Scope(w, kind)
    BY <2>1, SchedulerAssumption DEF Scope
  <2>3. CASE w \in Considered
    <3>1. RunPlan[w].held # {}
      BY <1>1, <1>2, <2>1, <2>3
    <3>2. RunPlan[w] = Decision(w, Observed[w], DueFacts(w))
      BY <2>3 DEF RunPlan
    <3> HIDE DEF RunPlan
    <3>3. ~Edited(Observed[w], DueFacts(w).scope)
      BY <3>1, <3>2, NoCountTyped DEF Decision, NextCount
    <3>4. Observed[w].began /\ ~Observed[w].everywhere /\ Observed[w].edits \cap DueFacts(w).scope = {}
      BY <3>3 DEF Edited
    <3>5. p \in Observed[w].edits
      BY <1>1, <2>1, <3>4, PlanFindsEdits
    <3>6. p \in DueFacts(w).scope
      BY <2>2 DEF DueFacts
    <3> QED
      BY <3>4, <3>5, <3>6
  <2>4. CASE w \notin Considered
    <3>1. latest[w] # NotInEffect /\ latest[w].print # NoDigests /\ latest[w].print = Fingerprint(w)
      BY <2>4 DEF Considered, Stale
    <3>2. Fingerprint(w) = [x \in Scope(w, build) |-> digests[x]]
      BY <3>1 DEF Fingerprint
    <3>3. latest[w].print[p] < digests[p]
      BY <2>1, <3>1 DEF HoldInv, PrintsInv, Precedes
    <3>4. latest[w].print[p] = digests[p]
      BY <2>2, <3>1, <3>2
    <3>5. digests[p] \in Nat
      BY <2>1, SchedulerAssumption, ContentsAreNumbers
    <3> QED
      BY <3>3, <3>4, <3>5
  <2> QED
    BY <2>3, <2>4
<1>3. IdleHeldInv'
  BY <1>1, <1>2 DEF IdleHeldInv, Eligible
<1> QED
  BY <1>1, <1>3, HoldPlanning DEF HoldInv

\* Every step keeps the invariant.
LEMMA StepHold == ~Reverts /\ TypeInv /\ HoldInv /\ [Next]_vars => HoldInv'
<1> SUFFICES ASSUME ~Reverts, TypeInv, HoldInv, [Next]_vars PROVE HoldInv'
  OBVIOUS
<1>1. landed \in [Subjects -> SUBSET Paths] /\ changes \in [Subjects -> ChangesType]
  BY DEF TypeInv, HistoryType, RecordType
<1>2. CASE Plan
  <2>1. ASSUME Planning, phase' \in {"waiting", "starting"}
        PROVE  HoldInv'
    BY <2>1, HoldPlanning DEF HoldInv, IdleHeldInv
  <2> QED
    BY <1>2, <2>1, HoldPlanIdle DEF Plan, PlanWait, PlanDiscover, PlanRun
<1>3. CASE PlanFails \/ Wake \/ CoolDown \/ JobNotBegun \/ Interrupt
  BY <1>1, <1>3, HoldKept DEF PlanFails, Wake, CoolDown, JobNotBegun, JobOver, Interrupt, TypeInv, JobType, HasEdit, recordVars,
                              runHistoryVars, envVars, storeVars, planVars, historyVars
<1>4. CASE JobThrows
  BY <1>4, HoldJobThrows
<1>5. CASE JobStep
  BY <1>3, <1>5, HoldJobStarts, HoldJobReturns, HoldJobEnds DEF JobStep
<1>6. CASE Surroundings
  <2>1. ASSUME NEW p \in Paths, JobWrite(p) \/ Edit(p)
        PROVE  HoldInv'
    BY <2>1, HoldCommit DEF JobWrite, Edit
  <2>2. ASSUME NEW p \in Paths, Touch(p)
        PROVE  HoldInv'
    BY <1>1, <2>2, HoldKept DEF Touch, Recorded, TypeInv, JobType, HasEdit, recordVars, runHistoryVars, storeVars, planVars
  <2>3. ASSUME Vouch \/ PeriodicReconciliation \/ \E caused \in BOOLEAN : Unvouch(caused)
        PROVE  HoldInv'
    BY <1>1, <2>3, HoldKept DEF Vouch, PeriodicReconciliation, Unvouch, TypeInv, JobType, HasEdit, recordVars, runHistoryVars,
                                storeVars, planVars, historyVars
  <2>4. ASSUME NEW kind, BuildEnds(kind)
        PROVE  HoldInv'
    BY <1>1, <2>4, HoldKept DEF BuildEnds, TypeInv, JobType, HasEdit, recordVars, runHistoryVars, storeVars, planVars, historyVars
  <2>5. ASSUME NEW c \in Callers, ReportRead(c)
        PROVE  HoldInv'
    BY <1>1, <2>5, HoldKept DEF ReportRead, ReadReport, HasEdit, runHistoryVars, envVars, storeVars, planVars, historyVars
  <2>6. ASSUME NEW c \in Callers, NEW keys \in SUBSET Paths, Report(c, keys)
        PROVE  HoldInv'
    <3>1. /\ changes' = EachBegun(changes, LAMBDA x : MoveToEdits(x, keys))
          /\ UNCHANGED <<last, landed, digests, revision, roundRevision, latest, record, heldRuns, phase, job>>
      BY <2>6 DEF Report, ReportEdits, runHistoryVars, envVars, storeVars, planVars
    <3>2. \A s \in Subjects : /\ changes'[s].began = changes[s].began
                              /\ \A p \in Paths : HasEdit(s, p) => HasEdit(s, p)'
      <4>1. \A s \in Subjects : /\ MoveToEdits(changes[s], keys).began = changes[s].began
                                /\ MoveToEdits(changes[s], keys).everywhere = changes[s].everywhere
                                /\ changes[s].edits \subseteq MoveToEdits(changes[s], keys).edits
        BY <1>1 DEF MoveToEdits, ChangesType
      <4> QED
        BY <3>1, <4>1 DEF EachBegun, HasEdit
    <3> QED
      BY <1>1, <3>1, <3>2, HoldKept
  <2> QED
    BY <1>6, <2>1, <2>2, <2>3, <2>4, <2>5, <2>6 DEF Surroundings
<1>7. CASE UNCHANGED vars
  BY <1>1, <1>7, HoldKept DEF vars, HasEdit, recordVars, runHistoryVars, envVars, storeVars, planVars, historyVars
<1> QED
  BY <1>2, <1>3, <1>4, <1>5, <1>6, <1>7 DEF Next

\* A scheduler that idles holds no stale workspace one of whose inputs changed while no job ran, since its last run
\* began: only the daemon's own changes hold one, for inputs whose content does not come back to an earlier one unread
\* (RunHistory.decide over ChangeRecord's intervals).
THEOREM HoldsPassNoEdit ==
    ASSUME ~Reverts
    PROVE  Spec => []HeldPastNoEdit
<1>1. Init => TypeInv /\ HoldInv
  <2>1. Init => HoldInv
    <3> SUFFICES ASSUME Init PROVE HoldInv
      OBVIOUS
    <3>1. /\ digests = [p \in Paths |-> 0] /\ revision = 0 /\ roundRevision = 0 /\ last = NoDigests /\ phase = "quiet"
          /\ landed = [s \in Subjects |-> {}] /\ latest = [w \in Workspaces |-> NotInEffect]
      BY DEF Init, RecordInit
    <3> QED
      BY <3>1 DEF HoldInv, ReadingsInv, Earlier, LandedInv, PrintsInv, IdleHeldInv, InWindow
  <2> QED
    BY <2>1, InitTyped
<1>2. TypeInv /\ HoldInv /\ [Next]_vars => (TypeInv /\ HoldInv)'
  BY StepTyped, StepHold
<1>3. HoldInv => HeldPastNoEdit
  BY DEF HoldInv, IdleHeldInv, HeldPastNoEdit
<1> QED
  BY <1>1, <1>2, <1>3, PTL DEF Spec
=============================================================================
