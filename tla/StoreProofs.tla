---------------------------- MODULE StoreProofs -----------------------------
(***************************************************************************)
(* For any processes, versions, worktrees, workspaces, defects and bounds: *)
(* no record stored is lost, and a query answers one snapshot of the store *)
(* in the schema it was stored under, the evidence kept from an earlier    *)
(* read included. A program left open on a file an older one created as it *)
(* opened it is the exception to the schema, and to nothing else.          *)
(***************************************************************************)
EXTENDS Store, WellFoundedInduction, NaturalsInduction, TLAPS

Tables == {"runs", "discoveries", "evidence"}
Subjects == WorkspaceSet \cup Defects \cup {None}
Writes == [table : Tables, scope : Worktrees, of : SUBSET Subjects, id : Nat, rebuilds : BOOLEAN]
Replies == [discovery : SUBSET Rows, runs : SUBSET Rows, runRefusals : SUBSET Subjects, evidence : SUBSET Rows]
Phases == {"closed", "refused", "opening", "open", "removing", "inserting", "reading"}
Places == [phase : Phases, header : Files \cup {None}, write : Writes \cup {None}, work : Files \cup {None},
           scope : Worktrees \cup {None}, answer : Replies \cup {None}]

Keeps == [scope : Worktrees, version : UNION {[D -> Nat] : D \in SUBSET Conns}, latest : SUBSET Rows]

\* The types of the store, of each connection's place in its operation and of what it keeps.
TypeInv == db \in Files /\ conn \in [Conns -> Places] /\ kept \in [Conns -> Keeps \cup {None}] /\ writes \in Nat

\* A read under way has its snapshot and its scope.
ReadInv == \A c \in Conns : conn[c].phase = "reading" => conn[c].work \in Files /\ conn[c].scope \in Worktrees

\* A write under way has the lock, and works on the store as it stands with at most the earlier record taken out.
WriteInv ==
    \A c \in Conns : conn[c].phase \in {"removing", "inserting"} =>
        /\ lock = c
        /\ conn[c].write \in Writes
        /\ db.version <= Version[c]
        /\ conn[c].phase = "removing" => conn[c].work = db
        /\ conn[c].phase = "inserting" => conn[c].work = [db EXCEPT !.rows = {r \in @ : ~Replaced(conn[c].write, r)}]

\* The numbers of rows have a bound, and tell a record's rows apart.
Told(rows) ==
    /\ \E b \in Nat : \A r \in rows : r.seq <= b
    /\ \A r, q \in rows : r.table = q.table /\ r.scope = q.scope /\ r.of = q.of /\ r.seq = q.seq => r = q

NumberInv == Told(db.rows)

BaseInv == TypeInv /\ ReadInv /\ WriteInv /\ NumberInv

-----------------------------------------------------------------------------
\* A set of numbers that has any has a least.
LEMMA LeastOf ==
    ASSUME NEW T, T \subseteq Nat, T # {}
    PROVE  \E n \in T : \A m \in T : n <= m
<1>1. IsWellFoundedOn(OpToRel(<, Nat), Nat)
  BY NatLessThanWellFounded, Zenon
<1>2. PICK n \in T : \A m \in T : ~(<<m, n>> \in OpToRel(<, Nat))
  BY <1>1, WFMin, Zenon
<1>3. \A m \in T : ~(m < n)
  BY <1>2 DEF OpToRel
<1> QED
  BY <1>3

\* Numbers that have a bound have a greatest.
LEMMA GreatestOf ==
    ASSUME NEW T, T \subseteq Nat, T # {}, NEW b \in Nat, \A m \in T : m <= b
    PROVE  \E n \in T : \A m \in T : m <= n
<1> DEFINE Bounds == {n \in Nat : \A m \in T : m <= n}
<1>1. PICK n \in Bounds : \A m \in Bounds : n <= m
  <2>1. b \in Bounds /\ Bounds \subseteq Nat
    OBVIOUS
  <2> HIDE DEF Bounds
  <2> QED
    BY <2>1, LeastOf
<1>2. n \in Nat /\ \A m \in T : m <= n
  BY <1>1
<1>3. n \in T
  <2> SUFFICES ASSUME n \notin T PROVE FALSE
    OBVIOUS
  <2>1. PICK m \in T : TRUE
    OBVIOUS
  <2>2. \A k \in T : k <= n - 1
    BY <1>2
  <2>3. n - 1 \in Nat
    BY <2>1, <1>2
  <2> QED
    BY <2>2, <2>3, <1>1, <1>2
<1> QED
  BY <1>2, <1>3

\* A row inserted is numbered after every row of its table.
LEMMA NextIsLast ==
    ASSUME NEW rows \in SUBSET Rows, NEW table, NEW b \in Nat, \A r \in rows : r.seq <= b
    PROVE  /\ NextSequence(rows, table) \in Nat
           /\ \A r \in rows : r.table = table => r.seq < NextSequence(rows, table)
<1> DEFINE Seqs == {r.seq : r \in {q \in rows : q.table = table}}
<1>1. Seqs \subseteq Nat /\ (\A m \in Seqs : m <= b) /\ \A r \in rows : r.table = table => r.seq \in Seqs
  BY DEF Rows
<1>2. NextSequence(rows, table) = IF Seqs = {} THEN 1 ELSE 1 + CHOOSE n \in Seqs : \A k \in Seqs : k <= n
  BY DEF NextSequence
<1> HIDE DEF Seqs
<1>3. CASE Seqs = {}
  BY <1>1, <1>2, <1>3
<1>4. CASE Seqs # {}
  <2>1. \E n \in Seqs : \A m \in Seqs : m <= n
    BY <1>1, <1>4, GreatestOf
  <2> DEFINE top == CHOOSE n \in Seqs : \A k \in Seqs : k <= n
  <2>2. top \in Seqs /\ \A k \in Seqs : k <= top
    BY <2>1
  <2>3. NextSequence(rows, table) = 1 + top
    BY <1>2, <1>4
  <2> HIDE DEF top
  <2> QED
    BY <1>1, <2>2, <2>3 DEF Rows
<1> QED
  BY <1>3, <1>4

-----------------------------------------------------------------------------
\* Fewer rows are still told apart.
LEMMA FewerTold ==
    ASSUME NEW rows, NEW fewer \in SUBSET rows, Told(rows)
    PROVE  Told(fewer)
BY DEF Told

\* A migration keeps each row's number and what it is of.
LEMMA MigratedTold ==
    ASSUME NEW c \in Conns, NEW file \in Files, Version \in [Conns -> Nat \ {0}], Told(file.rows)
    PROVE  /\ Migrated(c, file) \in Files
           /\ Migrated(c, file).version = Version[c]
           /\ Told(Migrated(c, file).rows)
           /\ \A r \in file.rows : \E q \in Migrated(c, file).rows : q.table = r.table /\ q.scope = r.scope /\ q.of = r.of
           /\ \A q \in Migrated(c, file).rows : q.shape = Version[c]
<1> DEFINE Moved(r) == [r EXCEPT !.shape = Version[c]]
           moved == {Moved(r) : r \in file.rows}
<1>0. Version[c] \in Nat /\ file.rows \subseteq Rows
  BY DEF Files
<1>1. moved \subseteq Rows
  <2> SUFFICES ASSUME NEW r \in Rows PROVE [r EXCEPT !.shape = Version[c]] \in Rows
    BY <1>0
  <2> QED
    BY <1>0 DEF Rows
<1>2. Migrated(c, file) = [file EXCEPT !.version = Version[c], !.rows = moved]
  BY DEF Migrated
<1>3. Migrated(c, file) \in Files /\ Migrated(c, file).version = Version[c] /\ Migrated(c, file).rows = moved
  <2> HIDE DEF moved
  <2> QED
    BY <1>1, <1>2 DEF Files
<1>4. \A r \in file.rows : /\ Moved(r).shape = Version[c] /\ Moved(r).table = r.table /\ Moved(r).scope = r.scope
                           /\ Moved(r).of = r.of /\ Moved(r).seq = r.seq
  BY <1>0 DEF Rows
<1> HIDE DEF Moved
<1>5. /\ \A q \in moved : q.shape = Version[c]
      /\ \A r \in file.rows : \E q \in moved : q.table = r.table /\ q.scope = r.scope /\ q.of = r.of
  BY <1>4
<1>6. Told(moved)
  <2>1. \A q \in moved : \E r \in file.rows : /\ q = Moved(r)
                                              /\ q.table = r.table /\ q.scope = r.scope /\ q.of = r.of /\ q.seq = r.seq
    BY <1>4
  <2> HIDE DEF moved
  <2>2. (\E b \in Nat : \A r \in file.rows : r.seq <= b) => \E b \in Nat : \A q \in moved : q.seq <= b
    BY <2>1
  <2>3. ASSUME NEW q \in moved, NEW p \in moved, q.table = p.table, q.scope = p.scope, q.of = p.of, q.seq = p.seq
        PROVE  q = p
    BY <2>1, <2>3 DEF Told
  <2> QED
    BY <2>2, <2>3 DEF Told
<1> QED
  BY <1>3, <1>5, <1>6

\* A commit is counted in the store and nothing else of it.
LEMMA CommitOf ==
    ASSUME NEW c \in Conns, NEW file \in Files
    PROVE  /\ Committed(c, file) \in Files
           /\ Committed(c, file).rows = file.rows
           /\ Committed(c, file).version = file.version
           /\ Committed(c, file).application = file.application
           /\ Committed(c, file).objects = file.objects
           /\ Committed(c, file).commits[c] = file.commits[c] + 1
           /\ \A d \in Conns \ {c} : Committed(c, file).commits[d] = file.commits[d]
BY DEF Committed, Files

\* A new store's schema holds the rows of the file, none or more.
LEMMA CreatedOf ==
    ASSUME NEW c \in Conns, NEW file \in Files, Version \in [Conns -> Nat \ {0}]
    PROVE  /\ SchemaCreated(c, file) \in Files
           /\ SchemaCreated(c, file).rows = file.rows
           /\ SchemaCreated(c, file).version = Version[c]
           /\ SchemaCreated(c, file).commits = file.commits
BY DEF SchemaCreated, Files

\* What an opener leaves of the store.
LEMMA OpenedOf ==
    ASSUME NEW c \in Conns, TypeInv, NumberInv, Version \in [Conns -> Nat \ {0}]
    PROVE  /\ OpenedFile(c) \in Files
           /\ Told(OpenedFile(c).rows)
           /\ OpenedFile(c) = db \/ OpenedFile(c).version = Version[c]
           /\ \A r \in db.rows : \E q \in OpenedFile(c).rows : q.table = r.table /\ q.scope = r.scope /\ q.of = r.of
BY MigratedTold, CreatedOf DEF TypeInv, NumberInv, OpenedFile

\* What inserting and reading back leaves of the store: every subject of the write is there, and no other is touched.
LEMMA InsertedOf ==
    ASSUME NEW c \in Conns, BaseInv, conn[c].phase = "inserting", StoreAssumption
    PROVE  LET file == [conn[c].work EXCEPT !.rows = @ \cup NewRows(c, conn[c].write)]
           IN  /\ file \in Files
               /\ file.version = db.version
               /\ file.commits = db.commits
               /\ file.application = db.application /\ file.objects = db.objects
               /\ file.rows = {r \in db.rows : ~Replaced(conn[c].write, r)} \cup NewRows(c, conn[c].write)
               /\ \A q \in NewRows(c, conn[c].write) :
                     q.shape = Version[c] /\ Replaced(conn[c].write, q) /\ q.readable = conn[c].write.rebuilds
               /\ \A x \in conn[c].write.of : \E q \in NewRows(c, conn[c].write) : q.of = x
               /\ Told(file.rows)
<1> DEFINE w == conn[c].write
           left == {r \in db.rows : ~Replaced(w, r)}
           next == NextSequence(left, w.table)
           Row(x) == [table |-> w.table, scope |-> w.scope, of |-> x, seq |-> next, id |-> w.id, shape |-> Version[c],
                      readable |-> w.rebuilds]
           new == NewRows(c, w)
           file == [conn[c].work EXCEPT !.rows = @ \cup new]
<1>1. w \in Writes /\ db \in Files /\ conn[c].work = [db EXCEPT !.rows = left] /\ Version[c] \in Nat
  BY DEF BaseInv, TypeInv, WriteInv, StoreAssumption
<1>2. conn[c].work.rows = left /\ left \in SUBSET Rows /\ left \subseteq db.rows
  BY <1>1 DEF Files
<1>3. PICK b \in Nat : \A r \in db.rows : r.seq <= b
  BY DEF BaseInv, NumberInv, Told
<1>4. next \in Nat /\ \A r \in left : r.table = w.table => r.seq < next
  BY <1>2, <1>3, NextIsLast
<1>5. new = {Row(x) : x \in w.of}
  BY <1>2 DEF NewRows
<1>6. \A x \in w.of : /\ Row(x) \in Rows /\ Row(x).shape = Version[c] /\ Row(x).table = w.table /\ Row(x).scope = w.scope
                      /\ Row(x).of = x /\ Row(x).seq = next /\ Row(x).readable = w.rebuilds
  BY <1>1, <1>4 DEF Writes, Rows, Tables, Subjects
<1> HIDE DEF next, new, Row
<1>7. /\ new \in SUBSET Rows
      /\ \A q \in new : q.shape = Version[c] /\ Replaced(w, q) /\ q.readable = w.rebuilds /\ q.seq = next /\ q.table = w.table
  BY <1>5, <1>6 DEF Replaced
<1>8. \A x \in w.of : \E q \in new : q.of = x
  BY <1>5, <1>6
<1>9. \A q, r \in new : q.of = r.of => q = r
  BY <1>5, <1>6
<1> HIDE DEF left
<1>10. file = [db EXCEPT !.rows = left \cup new]
  BY <1>1, <1>2 DEF Files
<1>11. /\ file \in Files /\ file.version = db.version /\ file.commits = db.commits
       /\ file.application = db.application /\ file.objects = db.objects /\ file.rows = left \cup new
  BY <1>1, <1>2, <1>7, <1>10 DEF Files
<1>12. Told(left \cup new)
  <2>1. \E m \in Nat : \A r \in left \cup new : r.seq <= m
    <3>1. (IF b < next THEN next ELSE b) \in Nat
      BY <1>4
    <3>2. \A r \in left \cup new : r.seq \in Nat
      BY <1>2, <1>7 DEF Rows
    <3> QED
      BY <3>1, <3>2, <1>2, <1>3, <1>4, <1>7
  <2>2. ASSUME NEW r \in left \cup new, NEW q \in left \cup new, r.table = q.table, r.scope = q.scope, r.of = q.of, r.seq = q.seq
        PROVE  r = q
    <3>1. CASE r \in left /\ q \in left
      BY <3>1, <2>2, <1>2 DEF BaseInv, NumberInv, Told
    <3>2. CASE r \in new /\ q \in new
      BY <3>2, <2>2, <1>9
    <3>3. r \in left /\ r.table = w.table => r.seq < next /\ r.seq \in Nat
      BY <1>2, <1>4 DEF Rows
    <3>4. q \in left /\ q.table = w.table => q.seq < next /\ q.seq \in Nat
      BY <1>2, <1>4 DEF Rows
    <3> QED
      BY <3>1, <3>2, <3>3, <3>4, <2>2, <1>4, <1>7
  <2> QED
    BY <2>1, <2>2 DEF Told
<1> HIDE DEF file
<1>13. file = [conn[c].work EXCEPT !.rows = @ \cup NewRows(c, conn[c].write)] /\ new = NewRows(c, conn[c].write)
  BY DEF file, new
<1>14. left = {r \in db.rows : ~Replaced(conn[c].write, r)}
  BY DEF left
<1> QED
  BY <1>7, <1>8, <1>11, <1>12, <1>13, <1>14

-----------------------------------------------------------------------------
\* The invariant of writes holds of every file the store is first opened on.
LEMMA BaseInit ==
    ASSUME StoreAssumption
    PROVE  StoreInit => BaseInv
<1> SUFFICES ASSUME StoreInit PROVE BaseInv
  OBVIOUS
<1>1. TypeInv
  BY DEF StoreInit, StoreAssumption, TypeInv, Closed, Places, Phases
<1>2. WriteInv
  BY DEF StoreInit, WriteInv, Closed
<1>3. NumberInv
  <2>1. Numbered(db.rows) /\ db \in Files
    BY DEF StoreInit, StoreAssumption
  <2>2. {0} \cup {r.seq : r \in db.rows} \subseteq Nat
    BY <2>1 DEF Files, Rows
  <2> QED
    BY <2>1, <2>2 DEF NumberInv, Numbered, Told
<1>4. ReadInv
  BY DEF StoreInit, ReadInv, Closed
<1> QED
  BY <1>1, <1>2, <1>3, <1>4 DEF BaseInv

\* A step that begins no read leaves those under way their snapshots.
LEMMA ReadsKept ==
    ASSUME ReadInv, \A d \in Conns : conn'[d].phase = "reading" => conn'[d] = conn[d]
    PROVE  ReadInv'
BY DEF ReadInv

\* A step of a connection that leaves the store and every other connection keeps the writes' invariant, where the
\* connection is itself in no write or keeps what it works on.
LEMMA OtherConnections ==
    ASSUME WriteInv, NEW c \in Conns, UNCHANGED <<db, lock>>, \A d \in Conns \ {c} : conn'[d] = conn[d],
           conn'[c].phase \notin {"removing", "inserting"}
    PROVE  WriteInv'
BY DEF WriteInv, Replaced

\* Each operation of opening keeps the writes' invariant.
LEMMA OpeningKeepsBase ==
    ASSUME StoreAssumption, BaseInv, NEW c \in Conns, OpenHeader(c) \/ OpenSchema(c) \/ OpenBusy(c)
    PROVE  BaseInv'
<1>1. CASE OpenHeader(c)
  <2>1. TypeInv'
    BY <1>1 DEF OpenHeader, BaseInv, TypeInv, Places, Phases, Closed
  <2>2. conn'[c].phase \notin {"removing", "inserting", "reading"} /\ \A d \in Conns \ {c} : conn'[d] = conn[d]
    BY <1>1 DEF OpenHeader, BaseInv, TypeInv, Closed
  <2> QED
    BY <1>1, <2>1, <2>2, OtherConnections, ReadsKept DEF OpenHeader, BaseInv, NumberInv
<1>2. CASE OpenBusy(c)
  <2>1. TypeInv'
    BY <1>2 DEF OpenBusy, BaseInv, TypeInv, Places, Phases, Closed
  <2>2. conn'[c].phase \notin {"removing", "inserting", "reading"} /\ \A d \in Conns \ {c} : conn'[d] = conn[d]
    BY <1>2 DEF OpenBusy, BaseInv, TypeInv, Closed
  <2> QED
    BY <1>2, <2>1, <2>2, OtherConnections, ReadsKept DEF OpenBusy, BaseInv, NumberInv
<1>3. CASE OpenSchema(c)
  <2> DEFINE Place(phase) == [Closed EXCEPT !.phase = phase]
  <2>a. Place("open") \in Places /\ Place("refused") \in Places /\ Place("open").phase = "open" /\ Place("refused").phase = "refused"
    BY DEF Places, Phases, Closed
  <2>b. \E phase \in {"open", "refused"} : conn' = [conn EXCEPT ![c] = Place(phase)]
    BY <1>3 DEF OpenSchema
  <2> HIDE DEF Place
  <2>1. conn' \in [Conns -> Places] /\ conn'[c].phase \in {"open", "refused"} /\ \A d \in Conns \ {c} : conn'[d] = conn[d]
    BY <2>a, <2>b DEF BaseInv, TypeInv
  <2>c. ReadInv'
    BY <2>1, ReadsKept DEF BaseInv
  <2>2. CASE db' = db
    BY <1>3, <2>1, <2>c, <2>2, OtherConnections DEF OpenSchema, BaseInv, TypeInv, NumberInv
  <2>3. CASE db' # db
    <3>1. NeedsSchema(c) /\ lock = None /\ lock' = None /\ db' = Committed(c, OpenedFile(c)) /\ UNCHANGED <<kept, writes>>
      BY <1>3, <2>3 DEF OpenSchema
    <3>2. db' \in Files /\ Told(db'.rows)
      BY <3>1, OpenedOf, CommitOf DEF BaseInv, StoreAssumption
    <3>3. \A d \in Conns : conn'[d].phase \notin {"removing", "inserting"}
      BY <2>1, <3>1 DEF BaseInv, WriteInv, StoreAssumption
    <3> QED
      BY <2>1, <2>c, <3>1, <3>2, <3>3 DEF BaseInv, TypeInv, NumberInv, WriteInv
  <2> QED
    BY <2>2, <2>3
<1> QED
  BY <1>1, <1>2, <1>3

\* A write that begins works on the store as it stands, under the lock.
LEMMA BeginningKeepsBase ==
    ASSUME StoreAssumption, BaseInv, NEW c \in Conns, BeginRecordWrite(c) \/ BeginEvidenceWrite(c)
    PROVE  BaseInv'
<1>1. writes' = writes + 1 /\ db' = db /\ writes \in Nat /\ kept' \in [Conns -> Keeps \cup {None}]
  BY DEF BeginRecordWrite, BeginEvidenceWrite, KeptAfterWrite, BaseInv, TypeInv
<1>2. RecordWrites(writes + 1) \cup EvidenceWrites(writes + 1) \subseteq Writes
  BY <1>1 DEF RecordWrites, EvidenceWrites, Writes, Tables, Subjects
<1>3. \/ lock' = lock /\ conn' = conn
      \/ \E w \in Writes : lock = None /\ lock' = c /\ db.version <= Version[c]
                           /\ conn' = [conn EXCEPT ![c].phase = "removing", ![c].write = w, ![c].work = db]
  <2>1. ASSUME NEW w \in Writes, BeginsWrite(c, w)
        PROVE  \/ lock' = lock /\ conn' = conn
               \/ lock = None /\ lock' = c /\ db.version <= Version[c]
                  /\ conn' = [conn EXCEPT ![c].phase = "removing", ![c].write = w, ![c].work = db]
    BY <2>1 DEF BeginsWrite, IsNewerSchema, StoreAssumption, BaseInv, TypeInv, Files
  <2> QED
    BY <1>2, <2>1 DEF BeginRecordWrite, BeginEvidenceWrite
<1>4. CASE lock' = lock /\ conn' = conn
  BY <1>1, <1>4 DEF BaseInv, TypeInv, ReadInv, WriteInv, NumberInv, Replaced
<1>5. CASE \E w \in Writes : lock = None /\ lock' = c /\ db.version <= Version[c]
                             /\ conn' = [conn EXCEPT ![c].phase = "removing", ![c].write = w, ![c].work = db]
  <2>1. PICK w \in Writes : lock = None /\ lock' = c /\ db.version <= Version[c]
                            /\ conn' = [conn EXCEPT ![c].phase = "removing", ![c].write = w, ![c].work = db]
    BY <1>5
  <2> DEFINE place == [conn[c] EXCEPT !.phase = "removing", !.write = w, !.work = db]
  <2>a. conn[c] \in Places /\ db \in Files
    BY DEF BaseInv, TypeInv
  <2>b. place \in Places
    BY <2>a DEF Places, Phases
  <2>c. conn' = [conn EXCEPT ![c] = place]
    BY <2>1 DEF BaseInv, TypeInv
  <2>2. TypeInv'
    <3> HIDE DEF place
    <3> QED
      BY <1>1, <2>b, <2>c DEF BaseInv, TypeInv
  <2>3. conn'[c].phase = "removing" /\ conn'[c].write = w /\ conn'[c].work = db
    BY <2>1 DEF BaseInv, TypeInv, Places
  <2>4. \A d \in Conns \ {c} : conn'[d] = conn[d] /\ conn[d].phase \notin {"removing", "inserting"}
    BY <2>1 DEF BaseInv, TypeInv, WriteInv, StoreAssumption
  <2>5. WriteInv'
    BY <1>1, <2>1, <2>3, <2>4 DEF WriteInv
  <2>6. ReadInv'
    BY <2>3, <2>4, ReadsKept DEF BaseInv
  <2> QED
    BY <1>1, <2>2, <2>5, <2>6 DEF BaseInv, NumberInv
<1> QED
  BY <1>3, <1>4, <1>5

\* Taking the earlier record out leaves the lock with the write and the store as it is.
LEMMA RemovalKeepsBase ==
    ASSUME StoreAssumption, BaseInv, NEW c \in Conns, RemoveEarlier(c)
    PROVE  BaseInv'
<1> DEFINE w == conn[c].write
           left == {r \in db.rows : ~Replaced(w, r)}
<1>1. /\ conn[c].work = db /\ lock = c /\ w \in Writes /\ db.version <= Version[c] /\ db \in Files
      /\ conn' = [conn EXCEPT ![c].phase = "inserting", ![c].work.rows = {r \in @ : ~Replaced(w, r)}]
      /\ UNCHANGED <<db, lock, kept, writes>>
  BY DEF BaseInv, WriteInv, TypeInv, RemoveEarlier
<1>2. left \in SUBSET Rows
  BY <1>1 DEF Files
<1>3. conn' = [conn EXCEPT ![c] = [conn[c] EXCEPT !.phase = "inserting", !.work = [db EXCEPT !.rows = left]]]
  <2>1. conn[c] \in Places /\ conn[c].work = db
    BY <1>1 DEF BaseInv, TypeInv
  <2>2. [conn[c] EXCEPT !.phase = "inserting", !.work.rows = {r \in @ : ~Replaced(w, r)}] =
            [conn[c] EXCEPT !.phase = "inserting", !.work = [db EXCEPT !.rows = left]]
    BY <1>1, <2>1 DEF Places, Files
  <2> QED
    BY <1>1, <2>2
<1>4. [db EXCEPT !.rows = left] \in Files
  <2> HIDE DEF left
  <2> QED
    BY <1>1, <1>2 DEF Files
<1>5. /\ conn'[c].phase = "inserting" /\ conn'[c].write = w /\ conn'[c].work = [db EXCEPT !.rows = left]
      /\ conn' \in [Conns -> Places]
      /\ \A d \in Conns \ {c} : conn'[d] = conn[d] /\ conn[d].phase \notin {"removing", "inserting"}
  <2> DEFINE work == [db EXCEPT !.rows = left]
             place == [conn[c] EXCEPT !.phase = "inserting", !.work = work]
  <2>1. conn[c] \in Places
    BY DEF BaseInv, TypeInv
  <2> HIDE DEF work
  <2>2. place \in Places /\ place.phase = "inserting" /\ place.work = work /\ place.write = w
    BY <1>4, <2>1 DEF Places, Phases, work
  <2> HIDE DEF place
  <2>3. conn' = [conn EXCEPT ![c] = place]
    BY <1>3 DEF place, work
  <2>4. \A d \in Conns \ {c} : conn[d].phase \notin {"removing", "inserting"}
    BY <1>1 DEF BaseInv, WriteInv
  <2> QED
    BY <2>2, <2>3, <2>4 DEF BaseInv, TypeInv, work
<1>6. WriteInv'
  BY <1>1, <1>5 DEF WriteInv, Replaced
<1>7. ReadInv'
  BY <1>5, ReadsKept DEF BaseInv
<1> QED
  BY <1>1, <1>5, <1>6, <1>7 DEF BaseInv, TypeInv, NumberInv

\* A write's end leaves the store as it was, or with the write's record in place of the earlier.
LEMMA InsertionKeepsBase ==
    ASSUME StoreAssumption, BaseInv, NEW c \in Conns, InsertAndReadBack(c)
    PROVE  BaseInv'
<1> DEFINE file == [conn[c].work EXCEPT !.rows = @ \cup NewRows(c, conn[c].write)]
<1>1. file \in Files /\ Told(file.rows)
  BY InsertedOf DEF InsertAndReadBack
<1>2. (db' = db \/ db' = Committed(c, file)) /\ conn' = [conn EXCEPT ![c] = [Closed EXCEPT !.phase = "open"]]
      /\ UNCHANGED <<kept, writes>>
  BY DEF InsertAndReadBack
<1> HIDE DEF file
<1>3. db' \in Files /\ Told(db'.rows)
  BY <1>1, <1>2, CommitOf DEF BaseInv, TypeInv, NumberInv
<1>4. /\ conn' \in [Conns -> Places] /\ conn'[c].phase = "open"
      /\ \A d \in Conns : conn'[d].phase \notin {"removing", "inserting"} /\ (d # c => conn'[d] = conn[d])
  <2>1. conn[c].phase = "inserting"
    BY DEF InsertAndReadBack
  <2> QED
    BY <1>2, <2>1 DEF BaseInv, TypeInv, Places, Phases, Closed, WriteInv
<1>5. ReadInv'
  BY <1>4, ReadsKept DEF BaseInv
<1> QED
  BY <1>2, <1>3, <1>4, <1>5 DEF BaseInv, TypeInv, NumberInv, WriteInv

\* What a read answers with is of its snapshot, and the evidence kept or read.
LEMMA ReplyOf ==
    ASSUME BaseInv, NEW c \in Conns, conn[c].phase = "reading"
    PROVE  /\ EvidenceRead(c) \in Keeps
           /\ LatestDiscovery(conn[c].work, conn[c].scope) \in SUBSET Rows
           /\ LatestRuns(conn[c].work, conn[c].scope) \in SUBSET Rows
<1>1. conn[c].work \in Files /\ conn[c].scope \in Worktrees
  BY DEF BaseInv, ReadInv
<1>2. RowsOf(conn[c].work, "evidence", conn[c].scope) \in SUBSET Rows
  BY <1>1 DEF RowsOf, Files
<1>3. DataVersion(c, conn[c].work) \in UNION {[D -> Nat] : D \in SUBSET Conns}
  <2>1. DataVersion(c, conn[c].work) \in [Conns \ {c} -> Nat]
    BY <1>1 DEF DataVersion, Files
  <2> QED
    BY <2>1
<1>4. kept[c] # None => kept[c] \in Keeps
  BY DEF BaseInv, TypeInv
<1> QED
  BY <1>1, <1>2, <1>3, <1>4 DEF EvidenceRead, StillAnswers, LatestDiscovery, LatestRuns, RowsOf, Keeps, Files

\* A read that begins has the store as it stands for its snapshot.
LEMMA ReadingKeepsBase ==
    ASSUME StoreAssumption, BaseInv, NEW c \in Conns, BeginRead(c)
    PROVE  BaseInv'
<1>1. UNCHANGED <<db, lock, kept, writes>> /\ conn[c].phase = "open"
  BY DEF BeginRead, Ready
<1>2. CASE conn' = conn
  BY <1>1, <1>2 DEF BaseInv, TypeInv, ReadInv, WriteInv, NumberInv, Replaced
<1>3. CASE conn' # conn
  <2>1. PICK s \in Worktrees : conn' = [conn EXCEPT ![c].phase = "reading", ![c].work = db, ![c].scope = s]
    BY <1>3 DEF BeginRead
  <2> DEFINE place == [conn[c] EXCEPT !.phase = "reading", !.work = db, !.scope = s]
  <2>2. place \in Places /\ place.phase = "reading" /\ place.work = db /\ place.scope = s
    BY DEF BaseInv, TypeInv, Places, Phases
  <2>3. conn' = [conn EXCEPT ![c] = place]
    BY <2>1
  <2> HIDE DEF place
  <2>4. conn' \in [Conns -> Places] /\ conn'[c] = place /\ \A d \in Conns \ {c} : conn'[d] = conn[d]
    BY <2>2, <2>3 DEF BaseInv, TypeInv
  <2>5. WriteInv'
    BY <1>1, <2>2, <2>4, OtherConnections DEF BaseInv
  <2>6. ReadInv'
    BY <2>2, <2>4 DEF BaseInv, TypeInv, ReadInv
  <2> QED
    BY <1>1, <2>4, <2>5, <2>6 DEF BaseInv, TypeInv, NumberInv
<1> QED
  BY <1>2, <1>3

\* The end of a read, the end of a query and a process that leaves keep the writes' invariant.
LEMMA EndingKeepsBase ==
    ASSUME StoreAssumption, BaseInv, NEW c \in Conns, FinishRead(c) \/ Answered(c) \/ Leave(c)
    PROVE  BaseInv'
<1>1. CASE FinishRead(c)
  <2> DEFINE file == conn[c].work
             scope == conn[c].scope
             runs == LatestRuns(file, scope)
             reply == [discovery |-> LatestDiscovery(file, scope), runs |-> {r \in runs : r.readable},
                       runRefusals |-> {r.of : r \in {q \in runs : ~q.readable}}, evidence |-> EvidenceRead(c).latest]
             place == [Closed EXCEPT !.phase = "open", !.scope = scope, !.work = file, !.answer = reply]
  <2>1. /\ EvidenceRead(c) \in Keeps /\ LatestDiscovery(file, scope) \in SUBSET Rows /\ runs \in SUBSET Rows
        /\ file \in Files /\ scope \in Worktrees
    BY <1>1, ReplyOf DEF FinishRead, BaseInv, ReadInv
  <2>2. /\ kept' = [kept EXCEPT ![c] = EvidenceRead(c)] /\ conn' = [conn EXCEPT ![c] = place]
        /\ UNCHANGED <<db, lock, writes>>
    BY <1>1 DEF FinishRead
  <2> HIDE DEF file, scope, runs
  <2>3. {r.of : r \in {q \in runs : ~q.readable}} \in SUBSET Subjects
    BY <2>1 DEF Rows, Subjects
  <2>4. reply \in Replies
    BY <2>1, <2>3 DEF Replies, Keeps
  <2> HIDE DEF reply
  <2>5. place \in Places /\ place.phase = "open"
    BY <2>1, <2>4 DEF Places, Phases, Closed
  <2> HIDE DEF place
  <2>6. /\ conn' \in [Conns -> Places] /\ conn'[c].phase = "open" /\ (\A d \in Conns \ {c} : conn'[d] = conn[d])
        /\ kept' \in [Conns -> Keeps \cup {None}]
    BY <2>1, <2>2, <2>5 DEF BaseInv, TypeInv
  <2> QED
    BY <2>2, <2>6, OtherConnections, ReadsKept DEF BaseInv, TypeInv, NumberInv
<1>2. CASE Answered(c) \/ Leave(c)
  <2> DEFINE Place(phase) == [Closed EXCEPT !.phase = phase]
  <2>1. /\ \A phase \in {"open", "closed"} : Place(phase) \in Places /\ Place(phase).phase = phase
        /\ Closed = Place("closed")
    BY DEF Places, Phases, Closed
  <2>2. /\ \E phase \in {"open", "closed"} : conn' = [conn EXCEPT ![c] = Place(phase)]
        /\ lock' = lock \/ (lock = c /\ lock' = None)
        /\ UNCHANGED <<db, writes>>
    BY <1>2, <2>1 DEF Answered, Leave
  <2> HIDE DEF Place
  <2>3. /\ conn' \in [Conns -> Places] /\ conn'[c].phase \in {"open", "closed"} /\ \A d \in Conns \ {c} : conn'[d] = conn[d]
    BY <2>1, <2>2 DEF BaseInv, TypeInv
  <2>4. kept' \in [Conns -> Keeps \cup {None}]
    BY <1>2 DEF Answered, Leave, BaseInv, TypeInv
  <2>5. WriteInv'
    BY <2>2, <2>3 DEF BaseInv, WriteInv, Replaced
  <2> QED
    BY <2>2, <2>3, <2>4, <2>5, ReadsKept DEF BaseInv, TypeInv, NumberInv
<1> QED
  BY <1>1, <1>2

\* Every step keeps the writes' invariant.
LEMMA BaseStep ==
    ASSUME StoreAssumption
    PROVE  BaseInv /\ [StoreNext]_storeVars => BaseInv'
<1> SUFFICES ASSUME BaseInv, [StoreNext]_storeVars PROVE BaseInv'
  OBVIOUS
<1>1. CASE UNCHANGED storeVars
  BY <1>1 DEF storeVars, BaseInv, TypeInv, ReadInv, WriteInv, NumberInv, Replaced
<1>2. ASSUME NEW c \in Conns,
             \/ OpenHeader(c) \/ OpenSchema(c) \/ OpenBusy(c)
             \/ BeginRecordWrite(c) \/ BeginEvidenceWrite(c) \/ RemoveEarlier(c) \/ InsertAndReadBack(c)
             \/ BeginRead(c) \/ FinishRead(c) \/ Answered(c)
             \/ Leave(c)
      PROVE  BaseInv'
  BY <1>2, OpeningKeepsBase, BeginningKeepsBase, RemovalKeepsBase, InsertionKeepsBase, ReadingKeepsBase, EndingKeepsBase
<1> QED
  BY <1>1, <1>2 DEF StoreNext

\* The invariant holds in every reachable state.
THEOREM BaseInvariant == ASSUME StoreAssumption PROVE StoreSpec => []BaseInv
<1>1. StoreInit => BaseInv
  BY BaseInit
<1>2. BaseInv /\ [StoreNext]_storeVars => BaseInv'
  BY BaseStep
<1> QED
  BY <1>1, <1>2, PTL DEF StoreSpec

-----------------------------------------------------------------------------
\* A step of the store: it stands, an opener has brought it to its schema, or a write's record took its place.
LEMMA StoreStep ==
    ASSUME StoreAssumption, BaseInv, StoreNext
    PROVE  \/ db' = db
           \/ \E c \in Conns : OpenSchema(c) /\ NeedsSchema(c) /\ db' = Committed(c, OpenedFile(c))
           \/ \E c \in Conns : InsertAndReadBack(c) /\ conn[c].write.rebuilds
BY DEF StoreNext, OpenHeader, OpenSchema, OpenBusy, BeginRecordWrite, BeginEvidenceWrite, RemoveEarlier, InsertAndReadBack,
       BeginRead, FinishRead, Answered, Leave

\* For any processes, versions and bounds, no step leaves what was stored for a workspace, a worktree or a defect with no
\* record: a write's removal and its insertion are one commit (writeRun, writeDiscovery, writeEvidence).
THEOREM NothingIsLost == ASSUME StoreAssumption PROVE StoreSpec => NeverLost
<1> DEFINE Kept == \A r \in db.rows : \E q \in db'.rows : q.table = r.table /\ q.scope = r.scope /\ q.of = r.of
<1>1. BaseInv /\ StoreNext => Kept
  <2> SUFFICES ASSUME BaseInv, StoreNext PROVE Kept
    OBVIOUS
  <2>1. CASE db' = db
    BY <2>1
  <2>2. ASSUME NEW c \in Conns, db' = Committed(c, OpenedFile(c))
        PROVE  Kept
    BY <2>2, OpenedOf, CommitOf DEF BaseInv, StoreAssumption
  <2>3. ASSUME NEW c \in Conns, InsertAndReadBack(c), conn[c].write.rebuilds
        PROVE  Kept
    <3> DEFINE file == [conn[c].work EXCEPT !.rows = @ \cup NewRows(c, conn[c].write)]
               new == NewRows(c, conn[c].write)
    <3>1. /\ file \in Files
          /\ file.rows = {r \in db.rows : ~Replaced(conn[c].write, r)} \cup new
          /\ \A q \in new : Replaced(conn[c].write, q)
          /\ \A x \in conn[c].write.of : \E q \in new : q.of = x
      BY <2>3, InsertedOf DEF InsertAndReadBack
    <3>2. db' = Committed(c, file)
      BY <2>3 DEF InsertAndReadBack
    <3> HIDE DEF file, new
    <3>3. db'.rows = {r \in db.rows : ~Replaced(conn[c].write, r)} \cup new
      BY <3>1, <3>2, CommitOf
    <3> QED
      BY <3>1, <3>3 DEF Replaced
  <2> QED
    BY <2>1, <2>2, <2>3, StoreStep
<1>2. BaseInv /\ [StoreNext]_storeVars => [Kept]_storeVars
  BY <1>1
<1> QED
  BY <1>2, BaseInvariant, PTL DEF StoreSpec, NeverLost

-----------------------------------------------------------------------------
\* The rows of a file all have the shape of its schema.
\* A file is in its schema but for what programs left behind wrote in it.
InSchema(file) == \A r \in file.rows : r.shape = file.version \/ WrittenBehind(r, file)

\* An open connection's store is no new file, and its program no newer than the store or left behind; what an opener read of the file is no newer
\* than the file.
SchemaOf(c) ==
    /\ conn[c].phase \in {"open", "removing", "inserting", "reading"} =>
          db.version # 0 /\ (Version[c] <= db.version \/ c \in behind)
    /\ conn[c].phase = "opening" =>
          /\ conn[c].header \in Files
          /\ ~Refused(c, conn[c].header)
          /\ conn[c].header.version <= db.version

\* A file c can read: no newer than its program, in its own schema, its rows told apart.
Readable(c, file) == file \in Files /\ InSchema(file) /\ Told(file.rows) /\ file.version <= Version[c]

\* What k keeps is the evidence of a file whose data version is the one it was read at.
EvidenceOf(c, k, file) == k.version = DataVersion(c, file) => k.latest = RowsOf(file, "evidence", k.scope)

\* What a connection keeps is the evidence of the store while the data version is the one it was read at; its own writes
\* of evidence, which do not move that version, find it keeping nothing.
KeptOf(c) ==
    kept[c] # None =>
        /\ conn[c].phase \in {"open", "reading", "removing", "inserting"}
        /\ conn[c].phase \in {"removing", "inserting"} => conn[c].write.table # "evidence"
        /\ kept[c].version \in [Conns \ {c} -> Nat]
        /\ \A d \in Conns \ {c} : kept[c].version[d] <= db.commits[d]
        /\ EvidenceOf(c, kept[c], db)

\* The snapshot of a read under way is the store as it was, and as it is while no other connection committed.
SnapshotOf(c) ==
    conn[c].phase = "reading" =>
        /\ Readable(c, conn[c].work)
        /\ \A d \in Conns : conn[c].work.commits[d] <= db.commits[d]
        /\ DataVersion(c, conn[c].work) = DataVersion(c, db) => conn[c].work.rows = db.rows
        /\ kept[c] # None => EvidenceOf(c, kept[c], conn[c].work)

\* An answer is of the snapshot it was read from.
AnswerOf(c) ==
    conn[c].answer # None =>
        LET a == conn[c].answer  file == conn[c].work  scope == conn[c].scope
        IN  /\ conn[c].phase = "open"
            /\ Readable(c, file)
            /\ a.discovery = LatestDiscovery(file, scope)
            /\ a.runs = {r \in LatestRuns(file, scope) : r.readable}
            /\ a.runRefusals = {r.of : r \in {q \in LatestRuns(file, scope) : ~q.readable}}
            /\ a.evidence = RowsOf(file, "evidence", scope)

ConnectionInv(c) == SchemaOf(c) /\ KeptOf(c) /\ SnapshotOf(c) /\ AnswerOf(c)

\* The store is in its schema, and a new one holds nothing.
SchemaInv == InSchema(db) /\ (IsNew(db) => db.rows = {})

StoreInv == BaseInv /\ SchemaInv /\ \A c \in Conns : ConnectionInv(c)

\* What a step of c does to the store: nothing, or one commit of c that leaves it in no older schema. Who is left behind
\* stays so.
Moved(c) ==
    /\ behind \subseteq behind'
    /\ \/ db' = db
       \/ /\ db' \in Files
          /\ db'.commits[c] = db.commits[c] + 1 /\ \A d \in Conns \ {c} : db'.commits[d] = db.commits[d]
          /\ db.version <= db'.version /\ db'.version # 0
          /\ InSchema(db)'

-----------------------------------------------------------------------------
\* Of rows there are any, one has the greatest number.
LEMMA LastOf ==
    ASSUME NEW rows \in SUBSET Rows, Told(rows), NEW w, \E r \in rows : r.of = w
    PROVE  \E r \in rows : r.of = w /\ \A q \in rows : q.of = w => q.seq <= r.seq
<1> DEFINE seqs == {r.seq : r \in {q \in rows : q.of = w}}
<1>1. PICK b \in Nat : \A r \in rows : r.seq <= b
  BY DEF Told
<1>2. seqs \subseteq Nat /\ seqs # {} /\ \A n \in seqs : n <= b
  BY <1>1 DEF Rows
<1>3. PICK n \in seqs : \A m \in seqs : m <= n
  <2> HIDE DEF seqs
  <2> QED
    BY <1>2, GreatestOf
<1> QED
  BY <1>3

\* What a query reads of one snapshot, by the invariant.
LEMMA AnswersRead == StoreInv => AnswerIsSnapshot
<1> SUFFICES ASSUME StoreInv PROVE ShapeIsSchema /\ ReadsOneSnapshot
  BY DEF AnswerIsSnapshot
<1>1. ShapeIsSchema
  BY DEF StoreInv, SchemaInv, InSchema, BaseInv, TypeInv, Files, ShapeIsSchema
<1>2. ASSUME NEW c \in Conns, conn[c].answer # None
      PROVE  LET a == conn[c].answer  file == conn[c].work  runs == RowsOf(file, "runs", conn[c].scope)
             IN  /\ a.evidence = RowsOf(file, "evidence", conn[c].scope)
                 /\ \A r \in a.runs \cup a.evidence \cup a.discovery : r.shape <= Version[c] \/ WrittenBehind(r, file)
                 /\ \A w \in {r.of : r \in runs} :
                       \/ w \in a.runRefusals /\ ~\E r \in a.runs : r.of = w
                       \/ \E r \in a.runs : r.of = w /\ \A q \in runs : q.of = w => q.seq <= r.seq
  <2> DEFINE a == conn[c].answer
             file == conn[c].work
             scope == conn[c].scope
             runs == RowsOf(file, "runs", scope)
             last == LatestRuns(file, scope)
  <2>1. /\ Readable(c, file)
        /\ a.discovery = LatestDiscovery(file, scope)
        /\ a.runs = {r \in last : r.readable}
        /\ a.runRefusals = {r.of : r \in {q \in last : ~q.readable}}
        /\ a.evidence = RowsOf(file, "evidence", scope)
    BY <1>2 DEF StoreInv, ConnectionInv, AnswerOf
  <2> HIDE DEF a, file, scope
  <2>2. /\ runs \in SUBSET Rows /\ Told(runs) /\ last \subseteq runs
        /\ last = {r \in runs : \A q \in runs : q.of = r.of => q.seq <= r.seq}
    BY <2>1, FewerTold DEF Readable, Files, RowsOf, LatestRuns
  <2>3. \A r \in a.runs \cup a.evidence \cup a.discovery : r.shape <= Version[c] \/ WrittenBehind(r, file)
    <3>1. \A r \in a.runs \cup a.evidence \cup a.discovery : r \in file.rows
      BY <2>1, <2>2 DEF RowsOf, LatestDiscovery
    <3> QED
      BY <2>1, <3>1 DEF Readable, InSchema
  <2>4. ASSUME NEW w \in {r.of : r \in runs}
        PROVE  \/ w \in a.runRefusals /\ ~\E r \in a.runs : r.of = w
               \/ \E r \in a.runs : r.of = w /\ \A q \in runs : q.of = w => q.seq <= r.seq
    <3>1. PICK r \in runs : r.of = w /\ \A q \in runs : q.of = w => q.seq <= r.seq
      <4>1. \E r \in runs : r.of = w
        OBVIOUS
      <4> HIDE DEF runs
      <4> QED
        BY <2>2, <4>1, LastOf
    <3>2. r \in last
      BY <2>2, <3>1
    <3>3. \A q \in last : q.of = w => q = r
      <4> SUFFICES ASSUME NEW q \in last, q.of = w PROVE q = r
        OBVIOUS
      <4>1. q \in runs /\ q.seq <= r.seq /\ r.seq <= q.seq
        BY <2>2, <3>1
      <4>2. q.seq = r.seq
        BY <4>1, <2>2 DEF Rows
      <4>3. q.table = r.table /\ q.scope = r.scope
        BY <3>1, <4>1 DEF RowsOf
      <4> QED
        BY <2>2, <3>1, <4>1, <4>2, <4>3 DEF Told
    <3> QED
      BY <2>1, <3>1, <3>2, <3>3
  <2> QED
    BY <2>1, <2>3, <2>4 DEF a, file, scope
<1> QED
  BY <1>1, <1>2 DEF ReadsOneSnapshot

-----------------------------------------------------------------------------
\* The store's invariant holds of every file it may be opened on first.
LEMMA StoreInitInv ==
    ASSUME StoreAssumption
    PROVE  StoreInit => StoreInv
<1> SUFFICES ASSUME StoreInit PROVE StoreInv
  OBVIOUS
<1>1. SchemaInv
  BY DEF StoreInit, StoreAssumption, SchemaInv, InSchema, IsNew
<1>2. \A c \in Conns : ConnectionInv(c)
  BY DEF StoreInit, ConnectionInv, SchemaOf, KeptOf, SnapshotOf, AnswerOf, Closed
<1> QED
  BY <1>1, <1>2, BaseInit DEF StoreInv

\* A snapshot c could read it can read still, whoever is left behind meanwhile.
LEMMA StillReadable ==
    ASSUME NEW d \in Conns, behind \subseteq behind', conn'[d] = conn[d], Readable(d, conn[d].work)
    PROVE  Readable(d, conn[d].work)'
BY DEF Readable, InSchema, WrittenBehind, Told

\* A step of another connection leaves what a connection knows of the store true: a commit of that other moves the data
\* version past every one read before it.
LEMMA OthersStand ==
    ASSUME StoreAssumption, StoreInv, NEW c \in Conns, NEW d \in Conns \ {c}, Moved(c),
           conn'[d] = conn[d], kept'[d] = kept[d]
    PROVE  ConnectionInv(d)'
<1>1. CASE db' = db
  <2>1. SchemaOf(d)' /\ KeptOf(d)'
    BY <1>1 DEF StoreInv, ConnectionInv, SchemaOf, KeptOf, EvidenceOf, Moved
  <2>2. SnapshotOf(d)'
    BY <1>1, StillReadable DEF StoreInv, ConnectionInv, SnapshotOf, EvidenceOf, Moved
  <2>3. AnswerOf(d)'
    BY StillReadable DEF StoreInv, ConnectionInv, AnswerOf, Moved
  <2> QED
    BY <2>1, <2>2, <2>3 DEF ConnectionInv
<1>2. CASE db' # db
  <2>1. /\ db \in Files /\ db' \in Files
        /\ db'.commits[c] = db.commits[c] + 1 /\ (\A e \in Conns \ {c} : db'.commits[e] = db.commits[e])
        /\ db.version <= db'.version /\ db'.version # 0 /\ behind \subseteq behind'
        /\ Version[c] \in Nat /\ Version[d] \in Nat
    BY <1>2 DEF Moved, StoreInv, BaseInv, TypeInv, StoreAssumption
  <2>2. \A e \in Conns : db.commits[e] \in Nat /\ db.commits[e] <= db'.commits[e]
    BY <2>1 DEF Files
  <2>3. SchemaOf(d)'
    <3>1. db.version \in Nat /\ db'.version \in Nat
      BY <2>1 DEF Files
    <3>2. CASE conn[d].phase = "opening"
      <4>1. conn[d].header \in Files /\ conn[d].header.version \in Nat
        BY <3>2 DEF StoreInv, ConnectionInv, SchemaOf, Files
      <4> QED
        BY <2>1, <3>1, <3>2, <4>1 DEF StoreInv, ConnectionInv, SchemaOf
    <3>3. CASE conn[d].phase # "opening"
      BY <2>1, <3>1, <3>3 DEF StoreInv, ConnectionInv, SchemaOf
    <3> QED
      BY <3>2, <3>3
  <2>4. DataVersion(d, db')[c] = db.commits[c] + 1
    BY <2>1 DEF DataVersion
  <2>5. KeptOf(d)'
    <3> SUFFICES ASSUME kept[d] # None
                 PROVE  /\ conn[d].phase \in {"open", "reading", "removing", "inserting"}
                        /\ conn[d].phase \in {"removing", "inserting"} => conn[d].write.table # "evidence"
                        /\ kept[d].version \in [Conns \ {d} -> Nat]
                        /\ \A e \in Conns \ {d} : kept[d].version[e] <= db'.commits[e]
                        /\ EvidenceOf(d, kept[d], db')
      BY DEF KeptOf, EvidenceOf, DataVersion, RowsOf
    <3>1. /\ conn[d].phase \in {"open", "reading", "removing", "inserting"}
          /\ conn[d].phase \in {"removing", "inserting"} => conn[d].write.table # "evidence"
          /\ kept[d].version \in [Conns \ {d} -> Nat]
          /\ \A e \in Conns \ {d} : kept[d].version[e] <= db.commits[e]
      BY DEF StoreInv, ConnectionInv, KeptOf
    <3>2. \A e \in Conns \ {d} : kept[d].version[e] <= db'.commits[e]
      BY <2>1, <2>2, <3>1 DEF Files
    <3>3. kept[d].version # DataVersion(d, db')
      BY <2>2, <2>4, <3>1
    <3> QED
      BY <3>1, <3>2, <3>3 DEF EvidenceOf
  <2>6. SnapshotOf(d)'
    <3> SUFFICES ASSUME conn[d].phase = "reading"
                 PROVE  /\ Readable(d, conn[d].work)'
                        /\ \A e \in Conns : conn[d].work.commits[e] <= db'.commits[e]
                        /\ DataVersion(d, conn[d].work) = DataVersion(d, db') => conn[d].work.rows = db'.rows
                        /\ kept[d] # None => EvidenceOf(d, kept[d], conn[d].work)
      BY DEF SnapshotOf, EvidenceOf
    <3>1. /\ Readable(d, conn[d].work)
          /\ \A e \in Conns : conn[d].work.commits[e] <= db.commits[e]
          /\ kept[d] # None => EvidenceOf(d, kept[d], conn[d].work)
      BY DEF StoreInv, ConnectionInv, SnapshotOf
    <3>2. conn[d].work \in Files /\ \A e \in Conns : conn[d].work.commits[e] \in Nat
      BY <3>1 DEF Readable, Files
    <3>3. \A e \in Conns : conn[d].work.commits[e] <= db'.commits[e]
      BY <2>1, <2>2, <3>1, <3>2 DEF Files
    <3>4. DataVersion(d, conn[d].work)[c] = conn[d].work.commits[c]
      BY DEF DataVersion
    <3>5. DataVersion(d, conn[d].work) # DataVersion(d, db')
      BY <2>2, <2>4, <3>1, <3>2, <3>4
    <3>6. Readable(d, conn[d].work)'
      BY <2>1, <3>1, StillReadable
    <3> QED
      BY <3>1, <3>3, <3>5, <3>6
  <2>7. AnswerOf(d)'
    BY <2>1, StillReadable DEF StoreInv, ConnectionInv, AnswerOf
  <2> QED
    BY <2>3, <2>5, <2>6, <2>7 DEF ConnectionInv
<1> QED
  BY <1>1, <1>2

\* What c's step leaves every connection with is what it leaves c with.
LEMMA StoreKept ==
    ASSUME StoreAssumption, StoreInv, BaseInv', NEW c \in Conns, Moved(c), ConnectionInv(c)',
           \A d \in Conns \ {c} : conn'[d] = conn[d] /\ kept'[d] = kept[d]
    PROVE  StoreInv'
<1>1. \A d \in Conns : ConnectionInv(d)'
  BY OthersStand
<1>2. SchemaInv'
  <2>1. InSchema(db)'
    BY DEF Moved, StoreInv, SchemaInv, InSchema, WrittenBehind
  <2>2. (IsNew(db) => db.rows = {})'
    BY DEF Moved, StoreInv, SchemaInv, IsNew
  <2> QED
    BY <2>1, <2>2 DEF SchemaInv
<1> QED
  BY <1>1, <1>2 DEF StoreInv

-----------------------------------------------------------------------------
\* A connection that is closed, refused or newly open, and keeps nothing, has only the store's schema to answer for.
LEMMA AtRest ==
    ASSUME NEW c \in Conns, NEW phase \in {"closed", "refused", "open"},
           conn'[c] = [Closed EXCEPT !.phase = phase], kept'[c] = None,
           phase = "open" => db'.version # 0 /\ (Version[c] <= db'.version \/ c \in behind')
    PROVE  ConnectionInv(c)'
<1>1. conn'[c].phase = phase /\ conn'[c].answer = None
  BY DEF Closed
<1> QED
  BY <1>1 DEF ConnectionInv, SchemaOf, KeptOf, SnapshotOf, AnswerOf

\* The schema an opener leaves is no older than the one it found, with every row in its shape.
LEMMA SchemaLeft ==
    ASSUME StoreAssumption, StoreInv, NEW c \in Conns, conn[c].phase = "opening", NeedsSchema(c), ~Refused(c, db)
    PROVE  /\ OpenedFile(c) \in Files /\ OpenedFile(c).commits = db.commits
           /\ db.version <= OpenedFile(c).version /\ OpenedFile(c).version # 0 /\ InSchema(OpenedFile(c))
<1> DEFINE header == conn[c].header
<1>1. /\ db \in Files /\ header \in Files /\ Version[c] \in Nat \ {0} /\ InSchema(db) /\ Told(db.rows)
      /\ header.version <= db.version
      /\ db.version \in Nat /\ header.version \in Nat
  BY DEF StoreInv, BaseInv, TypeInv, NumberInv, SchemaInv, ConnectionInv, SchemaOf, StoreAssumption, Files
<1>2. CASE IsNew(header) /\ IsNew(db)
  <2>1. OpenedFile(c) = SchemaCreated(c, db) /\ db.version = 0
    BY <1>2 DEF OpenedFile, IsNew
  <2>2. /\ OpenedFile(c) \in Files /\ OpenedFile(c).rows = db.rows /\ OpenedFile(c).version = Version[c]
        /\ OpenedFile(c).commits = db.commits
    BY <1>1, <2>1, CreatedOf DEF StoreAssumption
  <2>3. db.rows = {}
    BY <1>2 DEF StoreInv, SchemaInv
  <2> QED
    BY <1>1, <2>1, <2>2, <2>3 DEF InSchema
<1>3. CASE IsNew(header) /\ ~IsNew(db)
  <2>1. db.version # 0
    BY <1>1, <1>3 DEF Refused, IsMigratable, IsNewerSchema
  <2> QED
    BY <1>1, <1>3, <2>1 DEF OpenedFile
<1>4. CASE ~IsNew(header) /\ IsMigratable(c, db.version)
  <2>1. OpenedFile(c) = Migrated(c, db)
    BY <1>4 DEF OpenedFile
  <2>2. Migrated(c, db) \in Files /\ Migrated(c, db).version = Version[c] /\ InSchema(Migrated(c, db))
    BY <1>1, MigratedTold DEF StoreAssumption, InSchema
  <2>3. Migrated(c, db).commits = db.commits
    BY <1>1 DEF Migrated, Files
  <2>4. db.version <= Version[c]
    BY <1>1, <1>4 DEF IsMigratable
  <2> QED
    BY <1>1, <2>1, <2>2, <2>3, <2>4
<1>5. CASE ~IsNew(header) /\ ~IsMigratable(c, db.version)
  <2>1. OpenedFile(c) = db
    BY <1>5 DEF OpenedFile
  <2>2. header.version \in 1..(Version[c] - 1)
    BY <1>5 DEF NeedsSchema, IsMigratable
  <2> QED
    BY <1>1, <2>1, <2>2
<1> QED
  BY <1>2, <1>3, <1>4, <1>5

\* Opening leaves the store's invariant.
LEMMA OpeningKeeps ==
    ASSUME StoreAssumption, StoreInv, NEW c \in Conns, OpenHeader(c) \/ OpenSchema(c) \/ OpenBusy(c)
    PROVE  StoreInv'
<1>1. BaseInv'
  BY OpeningKeepsBase DEF StoreInv
<1>2. kept' = kept /\ kept[c] = None /\ \A d \in Conns \ {c} : conn'[d] = conn[d]
  <2>1. conn[c].phase \in {"closed", "opening"} /\ kept' = kept
    BY DEF OpenHeader, OpenSchema, OpenBusy
  <2>2. kept[c] = None
    BY <2>1 DEF StoreInv, ConnectionInv, KeptOf
  <2> QED
    BY <2>1, <2>2 DEF OpenHeader, OpenSchema, OpenBusy, StoreInv, BaseInv, TypeInv
<1>3. CASE OpenHeader(c) /\ ~Refused(c, db)
  <2> DEFINE place == [Closed EXCEPT !.phase = "opening", !.header = db]
  <2>1. place.phase = "opening" /\ place.header = db /\ place.answer = None
    BY DEF Closed
  <2>2. conn'[c] = place /\ db' = db
    BY <1>3 DEF OpenHeader, StoreInv, BaseInv, TypeInv
  <2> HIDE DEF place
  <2>3. SchemaOf(c)'
    BY <1>3, <2>1, <2>2 DEF SchemaOf, Refused, IsNew, IsNewerSchema, IsMigratable, StoreInv, BaseInv, TypeInv, Files
  <2> behind' = behind
    BY <1>3 DEF OpenHeader
  <2>4. KeptOf(c)' /\ SnapshotOf(c)' /\ AnswerOf(c)'
    BY <1>2, <2>1, <2>2 DEF KeptOf, SnapshotOf, AnswerOf
  <2> QED
    BY <1>1, <1>2, <2>2, <2>3, <2>4, StoreKept DEF Moved, ConnectionInv
<1>4. CASE (OpenHeader(c) /\ Refused(c, db)) \/ OpenBusy(c)
  <2>1. conn'[c] = [Closed EXCEPT !.phase = "refused"] /\ db' = db /\ behind' = behind
    BY <1>4 DEF OpenHeader, OpenBusy, StoreInv, BaseInv, TypeInv
  <2>2. ConnectionInv(c)'
    BY <1>2, <2>1, AtRest
  <2> QED
    BY <1>1, <1>2, <2>1, <2>2, StoreKept DEF Moved
<1>5. CASE OpenSchema(c)
  <2>1. CASE NeedsSchema(c) /\ Refused(c, db)
    <3>1. conn'[c] = [Closed EXCEPT !.phase = "refused"] /\ db' = db /\ behind' = behind
      BY <1>5, <2>1 DEF OpenSchema, StoreInv, BaseInv, TypeInv
    <3>2. ConnectionInv(c)'
      BY <1>2, <3>1, AtRest
    <3> QED
      BY <1>1, <1>2, <3>1, <3>2, StoreKept DEF Moved
  <2>2. CASE NeedsSchema(c) /\ ~Refused(c, db)
    <3>1. /\ conn'[c] = [Closed EXCEPT !.phase = "open"] /\ db' = Committed(c, OpenedFile(c)) /\ conn[c].phase = "opening"
          /\ behind' = IF db'.version < Version[c] THEN behind \cup {c} ELSE behind
      BY <1>5, <2>2 DEF OpenSchema, StoreInv, BaseInv, TypeInv
    <3>2. /\ OpenedFile(c) \in Files /\ OpenedFile(c).commits = db.commits
          /\ db.version <= OpenedFile(c).version /\ OpenedFile(c).version # 0 /\ InSchema(OpenedFile(c))
      BY <2>2, <3>1, SchemaLeft
    <3>3. /\ db' \in Files /\ db'.version = OpenedFile(c).version /\ db'.rows = OpenedFile(c).rows
          /\ db'.commits[c] = db.commits[c] + 1 /\ \A d \in Conns \ {c} : db'.commits[d] = db.commits[d]
      BY <3>1, <3>2, CommitOf
    <3>4. behind \subseteq behind'
      BY <3>1
    <3>5. InSchema(db)'
      BY <3>2, <3>3, <3>4 DEF InSchema, WrittenBehind
    <3>6. Moved(c)
      BY <3>2, <3>3, <3>4, <3>5 DEF Moved
    <3>7. Version[c] <= db'.version \/ c \in behind'
      <4>1. Version[c] \in Nat /\ db'.version \in Nat
        BY <3>3 DEF StoreAssumption, Files
      <4> QED
        BY <3>1, <4>1
    <3>8. ConnectionInv(c)'
      BY <1>2, <3>1, <3>2, <3>3, <3>7, AtRest
    <3> QED
      BY <1>1, <1>2, <3>6, <3>8, StoreKept
  <2>3. CASE ~NeedsSchema(c)
    <3>1. conn'[c] = [Closed EXCEPT !.phase = "open"] /\ db' = db /\ conn[c].phase = "opening" /\ behind \subseteq behind'
      BY <1>5, <2>3 DEF OpenSchema, StoreInv, BaseInv, TypeInv
    <3>2. Version[c] <= db.version /\ db.version # 0
      <4>1. /\ conn[c].header \in Files /\ ~Refused(c, conn[c].header) /\ conn[c].header.version <= db.version
            /\ conn[c].header.version \in Nat /\ db.version \in Nat /\ Version[c] \in Nat \ {0}
        BY <3>1 DEF StoreInv, BaseInv, TypeInv, ConnectionInv, SchemaOf, StoreAssumption, Files
      <4> QED
        BY <2>3, <4>1 DEF NeedsSchema, Refused
    <3>3. ConnectionInv(c)'
      BY <1>2, <3>1, <3>2, AtRest
    <3> QED
      BY <1>1, <1>2, <3>1, <3>3, StoreKept DEF Moved
  <2> QED
    BY <2>1, <2>2, <2>3
<1> QED
  BY <1>3, <1>4, <1>5

\* A write that begins leaves the store's invariant; one of evidence finds nothing kept.
LEMMA BeginningKeeps ==
    ASSUME StoreAssumption, StoreInv, NEW c \in Conns, BeginRecordWrite(c) \/ BeginEvidenceWrite(c)
    PROVE  StoreInv'
<1>1. BaseInv'
  BY BeginningKeepsBase DEF StoreInv
<1>2. db' = db /\ conn[c].phase = "open" /\ conn[c].answer = None /\ behind' = behind
  BY DEF BeginRecordWrite, BeginEvidenceWrite, Ready
<1>3. \/ conn'[c] = conn[c]
      \/ \E w \in Writes :
            /\ conn'[c] = [conn[c] EXCEPT !.phase = "removing", !.write = w, !.work = db]
            /\ kept'[c] = None \/ (kept' = kept /\ w.table # "evidence")
  <2>1. CASE BeginRecordWrite(c)
    <3>1. PICK w \in RecordWrites(writes + 1) : BeginsWrite(c, w)
      BY <2>1 DEF BeginRecordWrite
    <3>2. w \in Writes /\ w.table # "evidence"
      BY <3>1 DEF StoreInv, BaseInv, TypeInv, RecordWrites, Writes, Tables, Subjects
    <3> QED
      BY <2>1, <3>1, <3>2 DEF BeginRecordWrite, BeginsWrite, StoreInv, BaseInv, TypeInv
  <2>2. CASE BeginEvidenceWrite(c)
    <3>1. PICK w \in EvidenceWrites(writes + 1) : kept' = KeptAfterWrite(c, w) /\ (UNCHANGED <<lock, conn>> \/ BeginsWrite(c, w))
      BY <2>2 DEF BeginEvidenceWrite
    <3>2. w \in Writes
      BY <3>1 DEF StoreInv, BaseInv, TypeInv, EvidenceWrites, Writes, Tables, Subjects
    <3>3. kept'[c] = None
      BY <3>1 DEF KeptAfterWrite, StoreInv, BaseInv, TypeInv
    <3> QED
      BY <3>1, <3>2, <3>3 DEF BeginsWrite, StoreInv, BaseInv, TypeInv
  <2> QED
    BY <2>1, <2>2
<1>4. kept'[c] = kept[c] \/ kept'[c] = None
  BY DEF BeginRecordWrite, BeginEvidenceWrite, KeptAfterWrite, StoreInv, BaseInv, TypeInv
<1>5. \A d \in Conns \ {c} : conn'[d] = conn[d] /\ kept'[d] = kept[d]
  BY DEF BeginRecordWrite, BeginEvidenceWrite, BeginsWrite, KeptAfterWrite, StoreInv, BaseInv, TypeInv
<1>6. CASE conn'[c] = conn[c]
  <2>1. ConnectionInv(c)'
    BY <1>2, <1>4, <1>6 DEF StoreInv, ConnectionInv, SchemaOf, KeptOf, SnapshotOf, AnswerOf, EvidenceOf
  <2> QED
    BY <1>1, <1>2, <1>5, <2>1, StoreKept DEF Moved
<1>7. CASE \E w \in Writes :
            /\ conn'[c] = [conn[c] EXCEPT !.phase = "removing", !.write = w, !.work = db]
            /\ kept'[c] = None \/ (kept' = kept /\ w.table # "evidence")
  <2>1. PICK w \in Writes :
            /\ conn'[c] = [conn[c] EXCEPT !.phase = "removing", !.write = w, !.work = db]
            /\ kept'[c] = None \/ (kept' = kept /\ w.table # "evidence")
    BY <1>7
  <2>2. conn'[c].phase = "removing" /\ conn'[c].write = w /\ conn'[c].answer = None
    BY <1>2, <2>1 DEF StoreInv, BaseInv, TypeInv, Places
  <2>3. SchemaOf(c)' /\ SnapshotOf(c)' /\ AnswerOf(c)'
    BY <1>2, <2>2 DEF StoreInv, ConnectionInv, SchemaOf, SnapshotOf, AnswerOf
  <2>4. KeptOf(c)'
    <3>1. CASE kept'[c] = None
      BY <3>1 DEF KeptOf
    <3>2. CASE kept' = kept /\ w.table # "evidence"
      <4>1. KeptOf(c)
        BY DEF StoreInv, ConnectionInv
      <4> QED
        BY <1>2, <2>2, <3>2, <4>1 DEF KeptOf, EvidenceOf
    <3> QED
      BY <2>1, <3>1, <3>2
  <2> QED
    BY <1>1, <1>2, <1>5, <2>3, <2>4, StoreKept DEF Moved, ConnectionInv
<1> QED
  BY <1>3, <1>6, <1>7

\* Taking the earlier record out changes nothing a reader sees.
LEMMA RemovalKeeps ==
    ASSUME StoreAssumption, StoreInv, NEW c \in Conns, RemoveEarlier(c)
    PROVE  StoreInv'
<1>1. BaseInv'
  BY RemovalKeepsBase DEF StoreInv
<1>2. /\ conn[c].phase = "removing" /\ db' = db /\ kept' = kept /\ behind' = behind
      /\ conn' = [conn EXCEPT ![c].phase = "inserting", ![c].work.rows = {r \in @ : ~Replaced(conn[c].write, r)}]
  BY DEF RemoveEarlier
<1>3. conn'[c].phase = "inserting" /\ conn'[c].write = conn[c].write /\ conn'[c].answer = conn[c].answer
  BY <1>2 DEF StoreInv, BaseInv, TypeInv, Places
<1>4. \A d \in Conns \ {c} : conn'[d] = conn[d]
  BY <1>2 DEF StoreInv, BaseInv, TypeInv
<1>5. conn[c].answer = None
  BY <1>2 DEF StoreInv, ConnectionInv, AnswerOf
<1>6. SchemaOf(c) /\ KeptOf(c)
  BY DEF StoreInv, ConnectionInv
<1>7. ConnectionInv(c)'
  BY <1>2, <1>3, <1>5, <1>6 DEF ConnectionInv, SchemaOf, KeptOf, SnapshotOf, AnswerOf, EvidenceOf
<1> QED
  BY <1>1, <1>2, <1>4, <1>7, StoreKept DEF Moved

\* A write's end leaves the store in its schema, and what this connection keeps, if anything, is still its evidence: the
\* write was none of evidence.
LEMMA InsertionKeeps ==
    ASSUME StoreAssumption, StoreInv, NEW c \in Conns, InsertAndReadBack(c)
    PROVE  StoreInv'
<1> DEFINE w == conn[c].write
           new == NewRows(c, w)
           file == [conn[c].work EXCEPT !.rows = @ \cup new]
<1>1. BaseInv'
  BY InsertionKeepsBase DEF StoreInv
<1>2. /\ conn[c].phase = "inserting" /\ conn' = [conn EXCEPT ![c] = [Closed EXCEPT !.phase = "open"]] /\ kept' = kept
      /\ db' = IF w.rebuilds THEN Committed(c, file) ELSE db
  BY DEF InsertAndReadBack
<1>3. /\ file \in Files /\ file.version = db.version /\ file.commits = db.commits
      /\ file.rows = {r \in db.rows : ~Replaced(w, r)} \cup new
      /\ \A q \in new : q.shape = Version[c] /\ Replaced(w, q)
  BY <1>2, InsertedOf DEF StoreInv
<1> HIDE DEF new, file
<1>4. /\ db.version <= Version[c] /\ Version[c] \in Nat \ {0} /\ db \in Files /\ behind' = behind
      /\ db.version # 0 /\ (Version[c] <= db.version \/ c \in behind)
  <2>1. db \in Files /\ Version[c] \in Nat \ {0} /\ db.version <= Version[c]
    BY <1>2 DEF StoreInv, BaseInv, TypeInv, WriteInv, StoreAssumption
  <2>2. db.version # 0 /\ (Version[c] <= db.version \/ c \in behind)
    BY <1>2 DEF StoreInv, ConnectionInv, SchemaOf
  <2> QED
    BY <2>1, <2>2 DEF InsertAndReadBack
<1>5. /\ conn'[c].phase = "open" /\ conn'[c].answer = None
      /\ \A d \in Conns \ {c} : conn'[d] = conn[d]
  BY <1>2 DEF StoreInv, BaseInv, TypeInv, Closed
<1>6. CASE db' = db
  <2>1. SchemaOf(c) /\ KeptOf(c)
    BY DEF StoreInv, ConnectionInv
  <2>2. ConnectionInv(c)'
    BY <1>2, <1>4, <1>5, <1>6, <2>1 DEF ConnectionInv, SchemaOf, KeptOf, SnapshotOf, AnswerOf, EvidenceOf
  <2> QED
    BY <1>1, <1>2, <1>4, <1>5, <1>6, <2>2, StoreKept DEF Moved
<1>7. CASE db' = Committed(c, file)
  <2>1. /\ db' \in Files /\ db'.version = db.version /\ db'.rows = {r \in db.rows : ~Replaced(w, r)} \cup new
        /\ db'.commits[c] = db.commits[c] + 1 /\ \A d \in Conns \ {c} : db'.commits[d] = db.commits[d]
    BY <1>3, <1>7, CommitOf
  <2>2. InSchema(db)'
    <3>1. db.version \in Nat /\ InSchema(db)
      BY <1>4 DEF Files, StoreInv, SchemaInv
    <3>2. \A q \in new : q.shape = db.version \/ (q.shape > db.version /\ c \in behind /\ q.shape = Version[c])
      BY <1>3, <1>4, <3>1
    <3> QED
      BY <1>4, <2>1, <3>1, <3>2 DEF InSchema, WrittenBehind
  <2>3. Moved(c)
    BY <1>4, <2>1, <2>2 DEF Moved, Files
  <2>4. KeptOf(c)'
    <3> SUFFICES ASSUME kept[c] # None PROVE KeptOf(c)'
      BY <1>2 DEF KeptOf
    <3>1. KeptOf(c) /\ w.table # "evidence"
      BY <1>2 DEF StoreInv, ConnectionInv, KeptOf
    <3>2. DataVersion(c, db') = DataVersion(c, db)
      BY <2>1 DEF DataVersion
    <3>3. \A scope : RowsOf(db', "evidence", scope) = RowsOf(db, "evidence", scope)
      BY <1>3, <2>1, <3>1 DEF RowsOf, Replaced
    <3> QED
      BY <1>2, <1>5, <2>1, <3>1, <3>2, <3>3 DEF KeptOf, EvidenceOf
  <2>5. SchemaOf(c)' /\ SnapshotOf(c)' /\ AnswerOf(c)'
    BY <1>4, <1>5, <2>1 DEF SchemaOf, SnapshotOf, AnswerOf, Files
  <2> QED
    BY <1>1, <1>2, <1>5, <2>3, <2>4, <2>5, StoreKept DEF ConnectionInv
<1> QED
  BY <1>2, <1>6, <1>7

\* A read that begins has the store in its schema, and what is kept agrees with it as it does with the store.
LEMMA ReadingKeeps ==
    ASSUME StoreAssumption, StoreInv, NEW c \in Conns, BeginRead(c)
    PROVE  StoreInv'
<1>1. BaseInv'
  BY ReadingKeepsBase DEF StoreInv
<1>2. /\ conn[c].phase = "open" /\ conn[c].answer = None /\ db' = db /\ kept' = kept /\ db \in Files /\ behind' = behind
      /\ \A d \in Conns \ {c} : conn'[d] = conn[d]
  BY DEF BeginRead, Ready, StoreInv, BaseInv, TypeInv
<1>3. CASE conn' = conn
  <2>1. ConnectionInv(c)'
    BY <1>2, <1>3 DEF StoreInv, ConnectionInv, SchemaOf, KeptOf, SnapshotOf, AnswerOf, EvidenceOf
  <2> QED
    BY <1>1, <1>2, <2>1, StoreKept DEF Moved
<1>4. CASE conn' # conn
  <2>1. PICK s \in Worktrees : conn' = [conn EXCEPT ![c].phase = "reading", ![c].work = db, ![c].scope = s]
    BY <1>4 DEF BeginRead
  <2>2. ~IsNewerSchema(c, db.version)
    BY <1>4 DEF BeginRead
  <2>3. conn'[c].phase = "reading" /\ conn'[c].work = db /\ conn'[c].answer = None
    BY <1>2, <2>1 DEF StoreInv, BaseInv, TypeInv, Places
  <2>4. Readable(c, db)
    BY <1>2, <2>2 DEF Readable, IsNewerSchema, StoreInv, SchemaInv, BaseInv, NumberInv, StoreAssumption, Files
  <2>5. \A d \in Conns : db.commits[d] <= db.commits[d]
    BY <1>2 DEF Files
  <2>6. SchemaOf(c) /\ KeptOf(c)
    BY DEF StoreInv, ConnectionInv
  <2>7. SchemaOf(c)' /\ KeptOf(c)' /\ AnswerOf(c)'
    BY <1>2, <2>3, <2>6 DEF SchemaOf, KeptOf, AnswerOf, EvidenceOf
  <2>8. SnapshotOf(c)'
    BY <1>2, <2>3, <2>4, <2>5, <2>6 DEF SnapshotOf, KeptOf, EvidenceOf, Readable, InSchema, WrittenBehind
  <2> QED
    BY <1>1, <1>2, <2>7, <2>8, StoreKept DEF Moved, ConnectionInv
<1> QED
  BY <1>3, <1>4

\* A read answers of its snapshot, and what it keeps is the store's evidence while no other connection has committed.
LEMMA FinishKeeps ==
    ASSUME StoreAssumption, StoreInv, NEW c \in Conns, FinishRead(c)
    PROVE  StoreInv'
<1> DEFINE file == conn[c].work
           scope == conn[c].scope
           runs == LatestRuns(file, scope)
           evidence == EvidenceRead(c)
           reply == [discovery |-> LatestDiscovery(file, scope), runs |-> {r \in runs : r.readable},
                     runRefusals |-> {r.of : r \in {q \in runs : ~q.readable}}, evidence |-> evidence.latest]
           place == [Closed EXCEPT !.phase = "open", !.scope = scope, !.work = file, !.answer = reply]
<1>1. BaseInv'
  BY EndingKeepsBase DEF StoreInv
<1>2. /\ conn[c].phase = "reading" /\ kept' = [kept EXCEPT ![c] = evidence] /\ conn' = [conn EXCEPT ![c] = place]
      /\ db' = db /\ behind' = behind
  BY DEF FinishRead
<1>3. /\ Readable(c, file) /\ (\A d \in Conns : file.commits[d] <= db.commits[d])
      /\ (DataVersion(c, file) = DataVersion(c, db) => file.rows = db.rows)
      /\ (kept[c] # None => EvidenceOf(c, kept[c], file))
  BY <1>2 DEF StoreInv, ConnectionInv, SnapshotOf
<1>4. evidence.scope = scope /\ evidence.version = DataVersion(c, file) /\ evidence.latest = RowsOf(file, "evidence", scope)
  BY <1>3 DEF EvidenceRead, StillAnswers, EvidenceOf
<1> HIDE DEF evidence, runs, file, scope
<1>5. reply.discovery = LatestDiscovery(file, scope) /\ reply.runs = {r \in runs : r.readable}
      /\ reply.runRefusals = {r.of : r \in {q \in runs : ~q.readable}} /\ reply.evidence = evidence.latest
  OBVIOUS
<1> HIDE DEF reply
<1>6. place.phase = "open" /\ place.scope = scope /\ place.work = file /\ place.answer = reply
  BY DEF Closed
<1> HIDE DEF place
<1>7. /\ conn'[c] = place /\ kept'[c] = evidence
      /\ \A d \in Conns \ {c} : conn'[d] = conn[d] /\ kept'[d] = kept[d]
  BY <1>2 DEF StoreInv, BaseInv, TypeInv
<1>8. AnswerOf(c)'
  <2>1. /\ place.phase = "open" /\ Readable(c, file)
        /\ reply.discovery = LatestDiscovery(file, scope)
        /\ reply.runs = {r \in LatestRuns(file, scope) : r.readable}
        /\ reply.runRefusals = {r.of : r \in {q \in LatestRuns(file, scope) : ~q.readable}}
        /\ reply.evidence = RowsOf(file, "evidence", scope)
    BY <1>3, <1>4, <1>5, <1>6 DEF runs
  <2> QED
    BY <1>2, <1>6, <1>7, <2>1 DEF AnswerOf, Readable, InSchema, WrittenBehind, Told, LatestDiscovery, LatestRuns, RowsOf
<1>9. KeptOf(c)'
  <2>1. DataVersion(c, file) \in [Conns \ {c} -> Nat]
    BY <1>3 DEF DataVersion, Readable, Files
  <2>2. \A d \in Conns \ {c} : DataVersion(c, file)[d] <= db.commits[d]
    BY <1>3 DEF DataVersion
  <2>3. EvidenceOf(c, evidence, db)
    BY <1>3, <1>4 DEF EvidenceOf, RowsOf
  <2> QED
    BY <1>2, <1>4, <1>6, <1>7, <2>1, <2>2, <2>3 DEF KeptOf, EvidenceOf
<1>10. SchemaOf(c)' /\ SnapshotOf(c)'
  BY <1>2, <1>6, <1>7 DEF StoreInv, ConnectionInv, SchemaOf, SnapshotOf
<1> QED
  BY <1>1, <1>2, <1>7, <1>8, <1>9, <1>10, StoreKept DEF Moved, ConnectionInv

\* The end of a query and a process that leaves keep the store's invariant.
LEMMA EndingKeeps ==
    ASSUME StoreAssumption, StoreInv, NEW c \in Conns, Answered(c) \/ Leave(c)
    PROVE  StoreInv'
<1>1. BaseInv'
  BY EndingKeepsBase DEF StoreInv
<1>2. CASE Answered(c)
  <2>1. /\ conn' = [conn EXCEPT ![c] = [Closed EXCEPT !.phase = "open"]] /\ kept' = kept /\ db' = db /\ conn[c].phase = "open"
        /\ behind' = behind
    BY <1>2 DEF Answered
  <2>2. /\ conn'[c].phase = "open" /\ conn'[c].answer = None
        /\ \A d \in Conns \ {c} : conn'[d] = conn[d]
    BY <2>1 DEF StoreInv, BaseInv, TypeInv, Closed
  <2>3. SchemaOf(c) /\ KeptOf(c)
    BY DEF StoreInv, ConnectionInv
  <2>4. ConnectionInv(c)'
    BY <2>1, <2>2, <2>3 DEF ConnectionInv, SchemaOf, KeptOf, SnapshotOf, AnswerOf, EvidenceOf
  <2> QED
    BY <1>1, <2>1, <2>2, <2>4, StoreKept DEF Moved
<1>3. CASE Leave(c)
  <2>1. conn'[c] = [Closed EXCEPT !.phase = "closed"] /\ kept'[c] = None /\ db' = db /\ behind' = behind
    BY <1>3 DEF Leave, StoreInv, BaseInv, TypeInv, Closed
  <2>2. \A d \in Conns \ {c} : conn'[d] = conn[d] /\ kept'[d] = kept[d]
    BY <1>3 DEF Leave, StoreInv, BaseInv, TypeInv
  <2>3. ConnectionInv(c)'
    BY <2>1, AtRest
  <2> QED
    BY <1>1, <2>1, <2>2, <2>3, StoreKept DEF Moved
<1> QED
  BY <1>2, <1>3

\* Every step keeps the store's invariant.
LEMMA StoreStepInv ==
    ASSUME StoreAssumption
    PROVE  StoreInv /\ [StoreNext]_storeVars => StoreInv'
<1> SUFFICES ASSUME StoreInv, [StoreNext]_storeVars PROVE StoreInv'
  OBVIOUS
<1>1. CASE UNCHANGED storeVars
  <2>1. BaseInv'
    BY <1>1, BaseStep DEF StoreInv
  <2>2. SchemaInv'
    BY <1>1 DEF storeVars, StoreInv, SchemaInv, InSchema, WrittenBehind
  <2>3. ASSUME NEW c \in Conns PROVE ConnectionInv(c)'
    <3>1. SchemaOf(c)' /\ KeptOf(c)'
      BY <1>1 DEF storeVars, StoreInv, ConnectionInv, SchemaOf, KeptOf, EvidenceOf
    <3>2. SnapshotOf(c)'
      BY <1>1, StillReadable DEF storeVars, StoreInv, ConnectionInv, SnapshotOf, EvidenceOf
    <3>3. AnswerOf(c)'
      BY <1>1, StillReadable DEF storeVars, StoreInv, ConnectionInv, AnswerOf
    <3> QED
      BY <3>1, <3>2, <3>3 DEF ConnectionInv
  <2> QED
    BY <2>1, <2>2, <2>3 DEF StoreInv
<1>2. ASSUME NEW c \in Conns,
             \/ OpenHeader(c) \/ OpenSchema(c) \/ OpenBusy(c)
             \/ BeginRecordWrite(c) \/ BeginEvidenceWrite(c) \/ RemoveEarlier(c) \/ InsertAndReadBack(c)
             \/ BeginRead(c) \/ FinishRead(c) \/ Answered(c)
             \/ Leave(c)
      PROVE  StoreInv'
  BY <1>2, OpeningKeeps, BeginningKeeps, RemovalKeeps, InsertionKeeps, ReadingKeeps, FinishKeeps, EndingKeeps
<1> QED
  BY <1>1, <1>2 DEF StoreNext

\* For any processes, versions and bounds, and whoever races to create a new file: every record has the shape of the
\* store's schema, but those of a program left open on a file an older one created as it opened it (createSchema); and a
\* query answers one snapshot of the store, its kept evidence that snapshot's.
THEOREM AnswersAreSnapshots ==
    ASSUME StoreAssumption
    PROVE  StoreSpec => []AnswerIsSnapshot
<1>1. StoreInit => StoreInv
  BY StoreInitInv
<1>2. StoreInv /\ [StoreNext]_storeVars => StoreInv'
  BY StoreStepInv
<1>3. StoreInv => AnswerIsSnapshot
  BY AnswersRead
<1> QED
  BY <1>1, <1>2, <1>3, PTL DEF StoreSpec
=============================================================================
