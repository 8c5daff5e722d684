---------------------------- MODULE StoreRecords ----------------------------
(***************************************************************************)
(* The rows a run, a discovery and a falsification reply are stored as,    *)
(* and what their readers rebuild from them (store/write-run.ts,           *)
(* read-runs.ts, write-discovery.ts, read-discovery.ts,                    *)
(* defect-evidence.ts, evidence-facts.ts, columns.ts). A text, a list or a *)
(* report a record carries whole is one value; None is NULL, a value the   *)
(* record never held, and Garbled one that no reader accepts.              *)
(***************************************************************************)
EXTENDS Judgement, FiniteSets, SequencesExt

CONSTANTS Garbled, Unreadable, Refused

\* text, integer, json, arrayOf, member: a required column that is NULL or outside its closed set is unreadable.
Held(v) == v \notin {None, Garbled}

\* optionalText, jsonOptional: NULL reads back absent.
MayBeHeld(v) == v # Garbled

---------------------------------------------------------------------------
\* Runs.

TestStates == [execution : {"finished"}, outcome : {"passed", "failed"}, errors : {"errors"}]
              \cup [execution : {"interrupted"}]

ModuleStates(tests) == [state : {"ran"}, errors : {"errors"}, tests : tests]
                       \cup [state : {"failed"}, errors : {"errors"}]
                       \cup [state : {"crashed", "not-run"}]

RunRecords(modules, optional) ==
    [status : {"ran"}, vitest : {"4"}, execution : {"completed", "interrupted"}, forceStopped : BOOLEAN, lists : {"lists"},
     nothingRan : optional, cancelError : optional, closeError : optional, modules : modules]
    \cup [status : {"unsupported"}, report : {"report"}]
    \cup [status : {"failed"}, vitest : {"4"}, error : {"error"}, closeError : optional]
    \cup [status : {"interrupted-before-load"}] \cup [status : {"crashed"}, error : {"error"}]

RunColumns == {"vitest", "report", "error", "execution", "nothingRan", "cancelError", "closeError", "lists", "forceStopped"}

\* Mutant of ColumnsOfRun: a failed run's close error is not written.
ColumnsOfRunUnmarked(r) ==
    [c \in RunColumns |-> IF c = "closeError" /\ r.status = "failed" THEN None
                          ELSE IF c = "forceStopped" /\ r.status = "ran" THEN IF r.forceStopped THEN 1 ELSE 0
                          ELSE IF c \in DOMAIN r THEN r[c] ELSE None]

\* runColumns, ranColumns: the columns one status fills; the rest stay NULL, and a mark is 0 or 1.
ColumnsOfRun(r) ==
    [c \in RunColumns |-> IF c = "forceStopped" /\ r.status = "ran" THEN IF r.forceStopped THEN 1 ELSE 0
                          ELSE IF c \in DOMAIN r THEN r[c] ELSE None]

\* insertModules, insertTests: one row a module by its index, and under a module that ran one row a test.
ModuleRows(r) ==
    IF r.status # "ran" THEN {}
    ELSE {[index |-> i, state |-> r.modules[i].state,
           errors |-> IF r.modules[i].state \in {"ran", "failed"} THEN r.modules[i].errors ELSE None] : i \in DOMAIN r.modules}

TestRows(r) ==
    IF r.status # "ran" THEN {}
    ELSE UNION {{[module |-> i, index |-> j, execution |-> t[j].execution,
                  outcome |-> IF t[j].execution = "finished" THEN t[j].outcome ELSE None,
                  errors |-> IF t[j].execution = "finished" THEN t[j].errors ELSE None] : j \in DOMAIN t}
                : <<i, t>> \in {<<k, r.modules[k].tests>> : k \in {n \in DOMAIN r.modules : r.modules[n].state = "ran"}}}

InsertRun(r) == [status |-> r.status, columns |-> ColumnsOfRun(r), modules |-> ModuleRows(r), tests |-> TestRows(r)]

ByIndex(rows) == SetToSortSeq(rows, LAMBDA a, b : a.index < b.index)

TestRunState(t) ==
    IF t.execution = "interrupted" THEN [execution |-> "interrupted"]
    ELSE IF t.execution = "finished" /\ Held(t.outcome) /\ Held(t.errors)
    THEN [execution |-> "finished", outcome |-> t.outcome, errors |-> t.errors]
    ELSE Unreadable

\* recordedModule: only a module that ran has tests.
RecordedModule(row, tests) ==
    LET states == [i \in DOMAIN tests |-> TestRunState(tests[i])]
    IN  CASE row.state = "ran" /\ Held(row.errors) /\ \A i \in DOMAIN states : states[i] # Unreadable ->
                [state |-> "ran", errors |-> row.errors, tests |-> states]
          [] row.state = "failed" /\ Held(row.errors) /\ tests = <<>> -> [state |-> "failed", errors |-> row.errors]
          [] row.state \in {"crashed", "not-run"} /\ tests = <<>> -> [state |-> row.state]
          [] OTHER -> Unreadable

\* recordedModules: a test whose module has no row is unreadable.
RecordedModules(moduleRows, testRows) ==
    LET rows == ByIndex(moduleRows)
        rebuilt == [i \in DOMAIN rows |-> RecordedModule(rows[i], ByIndex({t \in testRows : t.module = rows[i].index}))]
    IN  IF \E t \in testRows : \A r \in moduleRows : r.index # t.module THEN Unreadable
        ELSE IF \E i \in DOMAIN rebuilt : rebuilt[i] = Unreadable THEN Unreadable
        ELSE rebuilt

RanRun(row) ==
    LET c == row.columns  modules == RecordedModules(row.modules, row.tests)
    IN  IF /\ \A k \in {"vitest", "execution", "lists"} : Held(c[k])
           /\ \A k \in {"nothingRan", "cancelError", "closeError"} : MayBeHeld(c[k])
           /\ c.forceStopped \in {0, 1} /\ modules # Unreadable
        THEN [status |-> "ran", vitest |-> c.vitest, execution |-> c.execution, forceStopped |-> c.forceStopped = 1,
              lists |-> c.lists, nothingRan |-> c.nothingRan, cancelError |-> c.cancelError, closeError |-> c.closeError,
              modules |-> modules]
        ELSE Unreadable

\* workspaceRun: only a run that ran has modules or tests.
WorkspaceRun(row) ==
    LET c == row.columns
    IN  CASE row.status = "ran" -> RanRun(row)
          [] row.status # "ran" /\ (row.modules # {} \/ row.tests # {}) -> Unreadable
          [] row.status = "unsupported" /\ Held(c.report) -> [status |-> "unsupported", report |-> c.report]
          [] row.status = "failed" /\ Held(c.vitest) /\ Held(c.error) /\ MayBeHeld(c.closeError) ->
                [status |-> "failed", vitest |-> c.vitest, error |-> c.error, closeError |-> c.closeError]
          [] row.status = "interrupted-before-load" -> [status |-> "interrupted-before-load"]
          [] row.status = "crashed" /\ Held(c.error) -> [status |-> "crashed", error |-> c.error]
          [] OTHER -> Unreadable

---------------------------------------------------------------------------
\* Discoveries.

WorkspaceEntries(tests, facts) ==
    [status : {"discovered"}, vitest : {"4"}, lists : {"lists"}, closeError : {None, "error"}, facts : facts, tests : tests]
    \cup [status : {"unsupported"}, report : {"report"}]
    \cup [status : {"failed"}, vitest : {"4"}, error : {"error"}, closeError : {None, "error"}]
    \cup [status : {"not-confirmed"}, error : {"reason"}]

DiscoveryRecords(workspaces, notCovered) == [workspaces : workspaces, notRead : {"sources"}, notCovered : notCovered]

WorkspaceColumnNames == {"vitest", "report", "error", "closeError", "lists", "facts"}

\* workspaceColumns: facts that were never reported are NULL.
WorkspaceColumns(w) == [c \in WorkspaceColumnNames |-> IF c \in DOMAIN w THEN w[c] ELSE None]

WriteWorkspaces(d) ==
    [workspaces |-> {[index |-> i, status |-> d.workspaces[i].status, columns |-> WorkspaceColumns(d.workspaces[i])] : i \in DOMAIN d.workspaces},
     tests |-> UNION {{[workspace |-> i, index |-> j, mode |-> d.workspaces[i].tests[j]] : j \in DOMAIN d.workspaces[i].tests}
                      : i \in {k \in DOMAIN d.workspaces : d.workspaces[k].status = "discovered"}},
     notRead |-> d.notRead, notCovered |-> d.notCovered]

\* workspaceDiscovery: only a discovered workspace holds tests or selection facts.
WorkspaceDiscovery(row, tests) ==
    LET c == row.columns
    IN  CASE row.status = "discovered" /\ Held(c.vitest) /\ Held(c.lists) /\ MayBeHeld(c.closeError) /\ MayBeHeld(c.facts)
                /\ (\A i \in DOMAIN tests : Held(tests[i].mode)) ->
                [status |-> "discovered", vitest |-> c.vitest, lists |-> c.lists, closeError |-> c.closeError, facts |-> c.facts,
                 tests |-> [i \in DOMAIN tests |-> tests[i].mode]]
          [] row.status # "discovered" /\ (tests # <<>> \/ c.facts # None) -> Unreadable
          [] row.status = "unsupported" /\ Held(c.report) -> [status |-> "unsupported", report |-> c.report]
          [] row.status = "failed" /\ Held(c.vitest) /\ Held(c.error) /\ MayBeHeld(c.closeError) ->
                [status |-> "failed", vitest |-> c.vitest, error |-> c.error, closeError |-> c.closeError]
          [] row.status = "not-confirmed" /\ Held(c.error) -> [status |-> "not-confirmed", error |-> c.error]
          [] OTHER -> Unreadable

ReadWorkspaces(row) ==
    LET rows == ByIndex(row.workspaces)
        rebuilt == [i \in DOMAIN rows |-> WorkspaceDiscovery(rows[i], ByIndex({t \in row.tests : t.workspace = rows[i].index}))]
    IN  IF \/ \E t \in row.tests : \A r \in row.workspaces : r.index # t.workspace
           \/ \E i \in DOMAIN rebuilt : rebuilt[i] = Unreadable
        THEN Unreadable ELSE rebuilt

StoredDiscovery(row) ==
    LET workspaces == ReadWorkspaces(row)
    IN  IF workspaces # Unreadable /\ Held(row.notRead) /\ MayBeHeld(row.notCovered)
        THEN [workspaces |-> workspaces, notRead |-> row.notRead, notCovered |-> row.notCovered] ELSE Unreadable

---------------------------------------------------------------------------
\* Evidence.

\* runFacts and the facts of the test, its hooks, its reach and its module: each by its own closed set.
ReadableRun(r) == r \in RunFactsType

\* baselineFacts, restoredBaselineFacts: one that was recorded holds a run's facts.
ReadableBaseline(b) == b = None \/ (b # Garbled /\ b.ran \in BOOLEAN /\ (b.ran => ReadableRun(b.facts)))

ReadableConfirming(c) ==
    c = None \/ (c # Garbled /\ c.status \in {"ran", "unrecorded", "interrupted"} /\ (c.status = "ran" => ReadableRun(c.run)))

\* notRunFact, experimentRunFacts: an experiment that did not run says why, one that ran holds its run.
ReadableRecord(r) ==
    \/ r.status = "not-run" /\ Held(r.why)
    \/ r.status = "ran" /\ ReadableRun(r.run) /\ ReadableConfirming(r.confirming)

\* nextRunFact, jobFacts.
ReadableEnd(next, end) == next \in {None, "none", "elsewhere", "counted", "unrecorded"} /\ end \in {"clean", "unclean"}

\* storedFacts: each fact is rebuilt by its own named members down to the leaves, and one that is not is unreadable.
ReadableFacts(f) ==
    f # Garbled /\ ReadableRecord(f.record) /\ ReadableBaseline(f.baseline) /\ ReadableBaseline(f.restored) /\ ReadableEnd(f.next, f.end)

JudgeFacts(f) == Judge(f.record, f.baseline, f.restored, f.next, f.end)

\* storedJudgement, on the way in and on the way out: what the judge gives the facts beside it, or refused.
StoredJudgement(value) ==
    IF ReadableFacts(value.facts) /\ value.reading = JudgeFacts(value.facts) THEN value ELSE Unreadable

Names(entries) == {entries[i].defect : i \in DOMAIN entries}

\* namedMember: every entry of a reply names its defect.
AllNamed(entries) == None \notin Names(entries)

\* refuseRepeatedJudgements: with a verdict or without.
Repeated(judgements) == Cardinality(Names(judgements)) # Len(judgements)

RecordsOf(reply, d) == {i \in DOMAIN reply.experiments : reply.experiments[i].defect = d}

\* mutationFileDigest: the one experiment record of the defect carries the file's digest.
HasFileDigest(reply, d) == \E i \in DOMAIN reply.experiments : RecordsOf(reply, d) = {i} /\ reply.experiments[i].digest

HasVerdict(j) == j.reading.verdict # "none"

\* ranReply, evidenceRows: every member is checked before any is stored, so a broken reply stores no part of itself.
EvidenceRows(reply, digests) ==
    LET given == SelectSeq(reply.judgements, HasVerdict)
        broken == \/ reply.status # "ran"
                  \/ ~AllNamed(reply.judgements) \/ ~AllNamed(reply.experiments)
                  \/ Repeated(reply.judgements)
                  \/ \E i \in DOMAIN given : \/ given[i].defect \notin digests
                                             \/ ~HasFileDigest(reply, given[i].defect)
                                             \/ StoredJudgement(given[i]) = Unreadable
    IN  IF broken THEN Refused ELSE {given[i] : i \in DOMAIN given}

\* storedEvidence: a row of another falsifier version yields its verdict alone, its facts and reason unread.
StoredEvidence(row, version) ==
    IF row.falsifier # version
    THEN [verdict |-> row.reading.verdict]
    ELSE LET j == StoredJudgement([reading |-> row.reading, facts |-> row.facts, defect |-> row.defect])
         IN  IF j = Unreadable THEN Unreadable ELSE [verdict |-> j.reading.verdict, judgement |-> j]

---------------------------------------------------------------------------
\* A run or a discovery reads back as it was written; with a column it needs lost, or its modules, tests or
\* workspaces under another record, it is refused and never read as something else (writeRun, readRun and the
\* discovery's own).
RunReadsBack(r) ==
    LET row == InsertRun(r)
    IN  /\ WorkspaceRun(row) = r
        /\ \A c \in {k \in RunColumns : row.columns[k] # None} :
              WorkspaceRun([row EXCEPT !.columns[c] = None]) = Unreadable \/ (c \in DOMAIN r /\ c \in {"nothingRan", "cancelError", "closeError"})
        /\ \A m \in row.modules : (\E t \in row.tests : t.module = m.index) => WorkspaceRun([row EXCEPT !.modules = @ \ {m}]) = Unreadable
        /\ row.modules # {} => \A s \in {"unsupported", "failed", "interrupted-before-load", "crashed"} :
                                  WorkspaceRun([row EXCEPT !.status = s]) = Unreadable

DiscoveryReadsBack(d) ==
    LET row == WriteWorkspaces(d)
    IN  /\ StoredDiscovery(row) = d
        /\ \A w \in row.workspaces : (\E t \in row.tests : t.workspace = w.index) =>
              StoredDiscovery([row EXCEPT !.workspaces = @ \ {w}]) = Unreadable

\* What is stored of a falsification reply: all of its verdicts or none, one a defect, each the one its facts give, and
\* read back the same; of another falsifier version only the verdict is read.
EvidenceIsJudged(reply, digests) ==
    LET rows == EvidenceRows(reply, digests)
    IN  rows # Refused =>
            /\ \A j \in rows : j.reading = JudgeFacts(j.facts) /\ HasVerdict(j) /\ j.defect \in digests
            /\ \A j, k \in rows : j.defect = k.defect => j = k
            /\ \A i \in DOMAIN reply.judgements : HasVerdict(reply.judgements[i]) => reply.judgements[i] \in rows
            /\ \A j \in rows : LET row == [falsifier |-> 2, reading |-> j.reading, facts |-> j.facts, defect |-> j.defect]
                               IN  StoredEvidence(row, 2).judgement = j /\ StoredEvidence(row, 3) = [verdict |-> j.reading.verdict]
=============================================================================
