---------------------------- MODULE ChangeRecord ----------------------------
(***************************************************************************)
(* The daemon's record of what changed since each subject's last job       *)
(* began, told apart as changes its own jobs made and edits.  Models       *)
(* packages/daemon/src/daemon/change-record.ts.                            *)
(*                                                                         *)
(* A subject is a workspace, for its runs, or the discovery.  The jobs a   *)
(* changed path is listed with are only named in answers, so a path a job  *)
(* changed is kept without them.  The operators give the record's next     *)
(* state; the scheduler's actions apply them.                              *)
(***************************************************************************)
EXTENDS Integers, FiniteSets

CONSTANTS
    Paths,          \* the inputs
    Workspaces,     \* the confirmed workspaces
    Discovery,      \* the discovery's subject, which no workspace equals
    Callers,        \* the clients whose requests name edited files
    NoDigests,      \* digests that could not be read
    MaxCounted      \* MAX_COUNTED_CHANGES

ASSUME RecordAssumption ==
    /\ IsFiniteSet(Paths) /\ IsFiniteSet(Workspaces)
    /\ Discovery \notin Workspaces
    /\ MaxCounted \in Nat

Subjects == Workspaces \cup {Discovery}

VARIABLES
    changes,        \* #subjects: what changed since each subject's last job began
    last,           \* #last: the digests at the end of the latest job or reading
    holding,        \* #running: the keys reported to each subject's running job
    unread          \* #unread: the keys of each caller's report it has not read yet

recordVars == <<changes, last, holding, unread>>

\* began says whether any job of the subject has begun: of() gives undefined until one has.
NoChanges == [began |-> FALSE, byJobs |-> {}, edits |-> {}, everywhere |-> FALSE]
StartAfresh == [NoChanges EXCEPT !.began = TRUE]
EditedEverywhere == [StartAfresh EXCEPT !.everywhere = TRUE]

\* #counts: past the bound the change counts as an edit to every input.
Counted(c) ==
    IF Cardinality(c.byJobs \cup c.edits) > MaxCounted THEN EditedEverywhere ELSE c

AddJob(c, ps) == IF c.everywhere THEN c ELSE Counted([c EXCEPT !.byJobs = @ \cup ps])
AddEdits(c, ps) == IF c.everywhere THEN c ELSE Counted([c EXCEPT !.edits = @ \cup ps])

MoveToEdits(c, ps) ==
    [c EXCEPT !.byJobs = @ \ ps, !.edits = @ \cup (c.byJobs \cap ps)]

\* Every subject with a record, changed by Op.
EachBegun(ch, Op(_)) == [s \in Subjects |-> IF ch[s].began THEN Op(ch[s]) ELSE ch[s]]

Everywhere(ch) == EachBegun(ch, LAMBDA c : EditedEverywhere)

ChangedBetween(from, to) == {p \in Paths : from[p] # to[p]}

\* #interval: what differs since the last reading is an edit, for every subject.
Interval(ch, from, to) ==
    IF from = NoDigests \/ to = NoDigests THEN Everywhere(ch)
    ELSE LET edits == ChangedBetween(from, to)
         IN  IF Cardinality(edits) > MaxCounted THEN Everywhere(ch)
             ELSE EachBegun(ch, LAMBDA c : AddEdits(c, edits))

Reported == UNION {unread[c] : c \in Callers}

\* What each subject's changes become when job's window is handed over: its own start afresh, and a path it changed is
\* an edit only when a caller reported it to the job.
AfterWindow(ch, from, window, job) ==
    LET begun == [Interval(ch, from, window.start) EXCEPT ![job] = StartAfresh]
        reported == window.paths \cap holding[job]
        caused == window.paths \ holding[job]
    IN  IF window.caused \/ Cardinality(window.paths) > MaxCounted THEN Everywhere(begun)
        ELSE EachBegun(begun, LAMBDA c : AddEdits(AddJob(c, caused), reported))

\* Mutant of JobBegan: the job holds only what is reported once it has begun.
JobBeganAfresh(job) == holding' = [holding EXCEPT ![job] = {}]

\* jobBegan: the job holds the keys of every report still open.
JobBegan(job) == holding' = [holding EXCEPT ![job] = Reported]

\* jobNotBegun and the deletion from #running of every other end: the job holds no report.
JobOver(job) == holding' = [holding EXCEPT ![job] = {}]

JobEnded(window, job) ==
    /\ changes' = AfterWindow(changes, last, window, job)
    /\ last' = window.end
    /\ JobOver(job)

JobThrew(job) ==
    /\ changes' = [changes EXCEPT ![job] = StartAfresh]
    /\ JobOver(job)
    /\ UNCHANGED last

\* reportEdits by a caller with no report open, while running are the subjects whose job runs.
ReportEdits(caller, keys, running) ==
    /\ unread[caller] = {}
    /\ changes' = EachBegun(changes, LAMBDA c : MoveToEdits(c, keys))
    /\ holding' = [s \in Subjects |-> IF s \in running THEN holding[s] \cup keys ELSE holding[s]]
    /\ unread' = [unread EXCEPT ![caller] = keys]
    /\ UNCHANGED last

\* EditReport.read: the caller's named read has resolved.
ReadReport(caller) ==
    /\ unread[caller] # {}
    /\ unread' = [unread EXCEPT ![caller] = {}]
    /\ UNCHANGED <<changes, last, holding>>

RecordInit ==
    /\ changes = [s \in Subjects |-> NoChanges]
    /\ last = NoDigests
    /\ holding = [s \in Subjects |-> {}]
    /\ unread = [c \in Callers |-> {}]

ChangesType ==
    [began : BOOLEAN, byJobs : SUBSET Paths, edits : SUBSET Paths, everywhere : BOOLEAN]

RecordType(Digests) ==
    /\ changes \in [Subjects -> ChangesType]
    /\ last \in Digests \cup {NoDigests}
    /\ holding \in [Subjects -> SUBSET Paths]
    /\ unread \in [Callers -> SUBSET Paths]
=============================================================================
