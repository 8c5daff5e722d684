------------------------------- MODULE Store --------------------------------
(***************************************************************************)
(* The store one state directory holds, opened by several processes that   *)
(* may be different versions of RT Test (packages/daemon/src/store): how   *)
(* an opener reads, creates or migrates the schema, how a record is        *)
(* written whole in place of the earlier ones, how a query reads one       *)
(* snapshot, and the evidence a connection keeps between reads.            *)
(*                                                                         *)
(* SQLite is external: a write transaction holds the one write lock and    *)
(* commits at once, a read transaction sees the commit it started on, and  *)
(* a connection's data version moves at a commit of any other connection.  *)
(***************************************************************************)
EXTENDS Naturals, FiniteSets, NoValue

CONSTANTS
    Conns,          \* the processes that open the store, one connection each
    Version,        \* Version[c]: the STORE_SCHEMA_VERSION of c's program
    Worktrees,      \* the worktrees whose records the store holds; a scope is one of them
    WorkspaceSet,   \* the workspaces of a worktree
    Defects,        \* the defects evidence is stored for
    InitialFiles,   \* the files the store may be opened on first
    MaxWrites,      \* bound: the records written in a behaviour
    MaxReads,       \* bound: the reads of a connection
    MaxCrashes      \* bound: the processes that die

VARIABLES
    db,        \* the committed store
    lock,      \* the connection that holds the write lock, or None
    conn,      \* each connection's place in its operation
    kept,      \* #kept: the scope, data version and evidence each connection read last, or None
    writes,    \* the number of writes begun, each the identity of its record
    reads,     \* the reads each connection has begun
    crashes,   \* the processes that died
    behind     \* history: the processes left open on a store an older version created as they opened it

storeVars == <<db, lock, conn, kept, writes, reads, crashes, behind>>

RtTest == "rt-test"

\* A row of runs, discoveries or defect_evidence: shape is the schema version it was written or migrated in, and of is
\* the workspace, the worktree's one discovery or the defect.
Rows == [table : {"runs", "discoveries", "evidence"}, scope : Worktrees, of : WorkspaceSet \cup Defects \cup {None},
         seq : Nat, id : Nat, shape : Nat, readable : BOOLEAN]

\* The application identifier of a file: none, RT Test's or another program's.
Files == [application : {None, RtTest, "another"}, version : Nat, objects : BOOLEAN, rows : SUBSET Rows, commits : [Conns -> Nat]]

EmptyFile == [application |-> None, version |-> 0, objects |-> FALSE, rows |-> {}, commits |-> [c \in Conns |-> 0]]

ForeignFile == [EmptyFile EXCEPT !.application = "another", !.objects = TRUE]

\* A store an older version left, in which a workspace has two runs and the later cannot be rebuilt.
OldFile(version, scope, workspace) ==
    [EmptyFile EXCEPT
        !.application = RtTest, !.version = version, !.objects = TRUE,
        !.rows = {[table |-> "runs", scope |-> scope, of |-> workspace, seq |-> n, id |-> 0, shape |-> version, readable |-> n = 1] : n \in 1..2}]

---------------------------------------------------------------------------
\* The header.

IsNew(file) == file.application = None /\ file.version = 0 /\ ~file.objects

\* A table's rows are numbered as they are stored, so a record's are told apart by their numbers.
Numbered(rows) ==
    /\ \E last \in {0} \cup {r.seq : r \in rows} : \A r \in rows : r.seq <= last
    /\ \A r, q \in rows : r.table = q.table /\ r.scope = q.scope /\ r.of = q.of /\ r.seq = q.seq => r = q

StoreAssumption ==
    /\ Version \in [Conns -> Nat \ {0}]
    /\ {MaxWrites, MaxReads, MaxCrashes} \subseteq Nat
    /\ None \notin Conns
    /\ InitialFiles \subseteq Files
    /\ \A file \in InitialFiles :
          /\ Numbered(file.rows)
          /\ \A r \in file.rows : r.shape = file.version
          /\ ~file.objects => file.rows = {}

Closed == [phase |-> "closed", header |-> None, write |-> None, work |-> None, scope |-> None, answer |-> None]

StoreInit ==
    /\ db \in InitialFiles
    /\ lock = None
    /\ conn = [c \in Conns |-> Closed]
    /\ kept = [c \in Conns |-> None]
    /\ writes = 0
    /\ reads = [c \in Conns |-> 0]
    /\ crashes = 0
    /\ behind = {}

---------------------------------------------------------------------------
IsNewerSchema(c, version) == version > Version[c]

\* STORE_MIGRATIONS gives every older version a script to this one.
IsMigratable(c, version) == version \in 1..(Version[c] - 1)

Refused(c, file) ==
    /\ ~IsNew(file)
    /\ \/ file.application # RtTest
       \/ IsNewerSchema(c, file.version)
       \/ ~IsMigratable(c, file.version) /\ file.version < Version[c]

SchemaCreated(c, file) == [file EXCEPT !.application = RtTest, !.version = Version[c], !.objects = TRUE]

\* A migration's script brings every row to the new shape, every step in one transaction.
Migrated(c, file) ==
    [file EXCEPT !.version = Version[c], !.rows = {[r EXCEPT !.shape = Version[c]] : r \in file.rows}]

Committed(c, file) == [file EXCEPT !.commits[c] = @ + 1]

---------------------------------------------------------------------------
\* Opening.

\* openStore: the header is read before the write lock is taken; a file that cannot be read as a store is left unchanged.
OpenHeader(c) ==
    /\ conn[c].phase = "closed"
    /\ conn' = [conn EXCEPT ![c] = IF Refused(c, db) THEN [Closed EXCEPT !.phase = "refused"]
                                   ELSE [Closed EXCEPT !.phase = "opening", !.header = db]]
    /\ UNCHANGED <<db, lock, kept, writes, reads, crashes, behind>>

NeedsSchema(c) == IsNew(conn[c].header) \/ IsMigratable(c, conn[c].header.version)

\* createSchema and migrateSchema read the header again under the write lock.
OpenedFile(c) ==
    IF IsNew(conn[c].header) THEN IF IsNew(db) THEN SchemaCreated(c, db) ELSE db
    ELSE IF IsMigratable(c, db.version) THEN Migrated(c, db) ELSE db

\* One transaction, refused whole where a newer RT Test came first. A new file that an older one created since the header
\* was read is served as it stands: neither is it new to createSchema, nor was its header one to migrate.
OpenSchema(c) ==
    /\ conn[c].phase = "opening"
    /\ NeedsSchema(c) => lock = None
    /\ \/ /\ NeedsSchema(c) => ~Refused(c, db)
          /\ db' = IF NeedsSchema(c) THEN Committed(c, OpenedFile(c)) ELSE db
          /\ conn' = [conn EXCEPT ![c] = [Closed EXCEPT !.phase = "open"]]
          /\ behind' = IF db'.version < Version[c] THEN behind \cup {c} ELSE behind
       \/ /\ NeedsSchema(c) /\ Refused(c, db)
          /\ conn' = [conn EXCEPT ![c] = [Closed EXCEPT !.phase = "refused"]]
          /\ UNCHANGED <<db, behind>>
    /\ UNCHANGED <<lock, kept, writes, reads, crashes>>

\* The lock was not free within busy_timeout: the opener closes the file and throws.
OpenBusy(c) ==
    /\ conn[c].phase = "opening" /\ NeedsSchema(c)
    /\ lock # None
    /\ conn' = [conn EXCEPT ![c] = [Closed EXCEPT !.phase = "refused"]]
    /\ UNCHANGED <<db, lock, kept, writes, reads, crashes, behind>>

---------------------------------------------------------------------------
\* Writing.

\* Each operation of a connection is one synchronous call, so it has none under way and its last answer is given.
Ready(c) == conn[c].phase = "open" /\ conn[c].answer = None

\* What a write stores: a workspace's run, a worktree's discovery, or the evidence of some of a reply's defects.
RecordWrites(id) ==
    {[table |-> "runs", scope |-> s, of |-> {w}, id |-> id, rebuilds |-> ok] : s \in Worktrees, w \in WorkspaceSet, ok \in BOOLEAN}
    \cup {[table |-> "discoveries", scope |-> s, of |-> {None}, id |-> id, rebuilds |-> ok] : s \in Worktrees, ok \in BOOLEAN}

EvidenceWrites(id) ==
    {[table |-> "evidence", scope |-> s, of |-> d, id |-> id, rebuilds |-> ok] : s \in Worktrees, d \in SUBSET Defects, ok \in BOOLEAN}

\* inRecordWrite: BEGIN IMMEDIATE, then the schema version under the lock; a newer one rolls back with nothing stored.
BeginsWrite(c, w) ==
    /\ lock = None
    /\ IF IsNewerSchema(c, db.version) THEN UNCHANGED <<lock, conn>>
       ELSE /\ lock' = c
            /\ conn' = [conn EXCEPT ![c].phase = "removing", ![c].write = w, ![c].work = db]

BeginRecordWrite(c) ==
    /\ Ready(c) /\ writes < MaxWrites
    /\ \E w \in RecordWrites(writes + 1) : BeginsWrite(c, w)
    /\ writes' = writes + 1
    /\ UNCHANGED <<db, kept, reads, crashes, behind>>

\* Mutant of KeptAfterWrite: this connection's own write leaves what it keeps.
KeptAfterWriteUnforgotten(c, w) == kept

\* KeptEvidence.write forgets before the reply is even checked.
KeptAfterWrite(c, w) == [kept EXCEPT ![c] = None]

\* writeEvidence: a reply that cannot be stored throws before any transaction; one with no verdict stores nothing.
BeginEvidenceWrite(c) ==
    /\ Ready(c) /\ writes < MaxWrites
    /\ \E w \in EvidenceWrites(writes + 1) :
          /\ kept' = KeptAfterWrite(c, w)
          /\ \/ w.of = {} /\ UNCHANGED <<lock, conn>>
             \/ w.of # {} /\ BeginsWrite(c, w)
    /\ writes' = writes + 1
    /\ UNCHANGED <<db, reads, crashes, behind>>

Replaced(w, r) == r.table = w.table /\ r.scope = w.scope /\ r.of \in w.of

\* Mutant of RemoveEarlier: the removal is a transaction of its own.
RemoveEarlierAlone(c) ==
    /\ conn[c].phase = "removing"
    /\ LET left == [conn[c].work EXCEPT !.rows = {r \in @ : ~Replaced(conn[c].write, r)}]
       IN  db' = Committed(c, left) /\ conn' = [conn EXCEPT ![c].phase = "inserting", ![c].work = db']
    /\ UNCHANGED <<lock, kept, writes, reads, crashes, behind>>

\* Every earlier record of the same workspace, worktree or defect goes, inside the write's transaction.
RemoveEarlier(c) ==
    /\ conn[c].phase = "removing"
    /\ conn' = [conn EXCEPT ![c].phase = "inserting", ![c].work.rows = {r \in @ : ~Replaced(conn[c].write, r)}]
    /\ UNCHANGED <<db, lock, kept, writes, reads, crashes, behind>>

NextSequence(rows, table) ==
    LET seqs == {r.seq : r \in {q \in rows : q.table = table}}
    IN  IF seqs = {} THEN 1 ELSE 1 + CHOOSE n \in seqs : \A k \in seqs : k <= n

NewRows(c, w) ==
    {[table |-> w.table, scope |-> w.scope, of |-> x, seq |-> NextSequence(conn[c].work.rows, w.table),
      id |-> w.id, shape |-> Version[c], readable |-> w.rebuilds] : x \in w.of}

\* The record is inserted and read back before the commit: one its readers could not rebuild is rolled back whole.
InsertAndReadBack(c) ==
    /\ conn[c].phase = "inserting"
    /\ LET w == conn[c].write
           file == [conn[c].work EXCEPT !.rows = @ \cup NewRows(c, w)]
       IN  db' = IF w.rebuilds THEN Committed(c, file) ELSE db
    /\ lock' = None
    /\ conn' = [conn EXCEPT ![c] = [Closed EXCEPT !.phase = "open"]]
    /\ UNCHANGED <<kept, writes, reads, crashes, behind>>

---------------------------------------------------------------------------
\* Reading.

\* inRecordRead: the schema version is the snapshot's first read; a newer one answers nothing.
BeginRead(c) ==
    /\ Ready(c) /\ reads[c] < MaxReads
    /\ \E s \in Worktrees :
          conn' = IF IsNewerSchema(c, db.version) THEN conn
                  ELSE [conn EXCEPT ![c].phase = "reading", ![c].work = db, ![c].scope = s]
    /\ reads' = [reads EXCEPT ![c] = @ + 1]
    /\ UNCHANGED <<db, lock, kept, writes, crashes, behind>>

RowsOf(file, table, scope) == {r \in file.rows : r.table = table /\ r.scope = scope}

\* SELECT_LATEST_RUNS: the run stored last for each workspace, which is refused when it cannot be rebuilt.
LatestRuns(file, scope) ==
    LET rows == RowsOf(file, "runs", scope)
    IN  {r \in rows : \A q \in rows : q.of = r.of => q.seq <= r.seq}

\* The discovery stored last; a refused one reads as none, beside why.
LatestDiscovery(file, scope) ==
    LET rows == RowsOf(file, "discoveries", scope)
    IN  {r \in rows : r.readable /\ \A q \in rows : q.seq <= r.seq}

\* A connection's data version in a snapshot: the commits of every other connection.
DataVersion(c, file) == [d \in Conns \ {c} |-> file.commits[d]]

StillAnswers(k, scope, version) == k # None /\ k.version = version /\ k.scope = scope

\* KeptEvidence.read: the data version is read in the snapshot before the rows.
EvidenceRead(c) ==
    LET file == conn[c].work  scope == conn[c].scope
        version == DataVersion(c, file)
    IN  IF StillAnswers(kept[c], scope, version) THEN kept[c]
        ELSE [scope |-> scope, version |-> version, latest |-> RowsOf(file, "evidence", scope)]

\* readLatestResults: discovery, runs and evidence of one snapshot; an unreadable row is a refusal of its own.
FinishRead(c) ==
    /\ conn[c].phase = "reading"
    /\ LET file == conn[c].work  scope == conn[c].scope
           runs == LatestRuns(file, scope)
           evidence == EvidenceRead(c)
       IN  /\ kept' = [kept EXCEPT ![c] = evidence]
           /\ conn' = [conn EXCEPT ![c] = [Closed EXCEPT
                 !.phase = "open", !.scope = scope, !.work = file,
                 !.answer = [discovery |-> LatestDiscovery(file, scope),
                             runs |-> {r \in runs : r.readable}, runRefusals |-> {r.of : r \in {q \in runs : ~q.readable}},
                             evidence |-> evidence.latest]]]
    /\ UNCHANGED <<db, lock, writes, reads, crashes, behind>>

\* The query is over and what it read is dropped.
Answered(c) ==
    /\ conn[c].phase = "open" /\ conn[c].answer # None
    /\ conn' = [conn EXCEPT ![c] = [Closed EXCEPT !.phase = "open"]]
    /\ UNCHANGED <<db, lock, kept, writes, reads, crashes, behind>>

---------------------------------------------------------------------------
\* A process dies or closes the store: SQLite drops its transaction and its lock.
Leave(c) ==
    /\ conn[c].phase # "closed" /\ crashes < MaxCrashes
    /\ crashes' = crashes + 1
    /\ conn' = [conn EXCEPT ![c] = Closed]
    /\ kept' = [kept EXCEPT ![c] = None]
    /\ lock' = IF lock = c THEN None ELSE lock
    /\ UNCHANGED <<db, writes, reads, behind>>

StoreNext ==
    \E c \in Conns :
        \/ OpenHeader(c) \/ OpenSchema(c) \/ OpenBusy(c)
        \/ BeginRecordWrite(c) \/ BeginEvidenceWrite(c) \/ RemoveEarlier(c) \/ InsertAndReadBack(c)
        \/ BeginRead(c) \/ FinishRead(c) \/ Answered(c)
        \/ Leave(c)

StoreSpec == StoreInit /\ [][StoreNext]_storeVars

---------------------------------------------------------------------------
\* What a program left behind wrote has its own shape in an older schema.
WrittenBehind(r, file) == r.shape > file.version /\ \E c \in behind : r.shape = Version[c]

\* Every record in the store has the shape its schema version says, but for what was written by a program left open on a
\* file an older one created as it opened it: no other writes in another shape than the schema's, whichever order they
\* opened it, read its header and took the lock in (refuseNewerSchema, migrateSchema; the exception createSchema's).
ShapeIsSchema == db.rows \subseteq Rows /\ \A r \in db.rows : r.shape = db.version \/ WrittenBehind(r, db)

\* A read answers one snapshot: the evidence kept from an earlier read, after this connection's own writes, failed
\* ones among them, and every other connection's, is the evidence of the snapshot the runs were read from; and a
\* workspace whose last run cannot be rebuilt is refused, none of its older runs standing in (readLatestResults).
ReadsOneSnapshot ==
    \A c \in Conns : conn[c].answer # None =>
        LET a == conn[c].answer  file == conn[c].work  runs == RowsOf(file, "runs", conn[c].scope)
        IN  /\ a.evidence = RowsOf(file, "evidence", conn[c].scope)
            /\ \A r \in a.runs \cup a.evidence \cup a.discovery : r.shape <= Version[c] \/ WrittenBehind(r, file)
            /\ \A w \in {r.of : r \in runs} :
                  \/ w \in a.runRefusals /\ ~\E r \in a.runs : r.of = w
                  \/ \E r \in a.runs : r.of = w /\ \A q \in runs : q.of = w => q.seq <= r.seq

\* What a query answers from the store is one snapshot of it, in the schema it was stored under.
AnswerIsSnapshot == ShapeIsSchema /\ ReadsOneSnapshot

\* What was stored for a workspace, a worktree or a defect is only ever replaced: no write that fails, is refused or
\* dies half way leaves its subject with no record (writeRun, writeDiscovery, writeEvidence).
NeverLost ==
    [][\A r \in db.rows : \E q \in db'.rows : q.table = r.table /\ q.scope = r.scope /\ q.of = r.of]_storeVars

\* What openStore says of an open store: it was created, or migrated from an older version. It is not so of the behind.
OpenIsMigrated == \A c \in Conns : conn[c].phase \in {"open", "reading"} => db.version >= Version[c]
=============================================================================
