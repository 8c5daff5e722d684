--------------------------- MODULE ChangeJournal ---------------------------
(***************************************************************************)
(* The journal of standings behind the changes query (change-journal.ts),  *)
(* and the answers callers get from it by cursor (changes.ts).  A key is a *)
(* test or a not-discovered entry; two standings of a key that the source's*)
(* same() takes as equal are one value here.  A determined moment is one   *)
(* whose inputs are available, whose named paths were read and whose       *)
(* dependency build has ended; the standings it finds are the              *)
(* environment's.  Callers keep their cursors across lives of the daemon,  *)
(* which holds its journal in memory only.                                 *)
(***************************************************************************)
EXTENDS Naturals, FiniteSets

CONSTANTS
    Keys,           \* tests and not-discovered entries
    Standings,      \* what a key can stand at
    Absent,         \* of a key that is not listed
    Callers,        \* each keeps the cursor of its last answer
    MaxRecorded,    \* MAX_RECORDED_CHANGES
    MaxSequence,    \* bound: recorded moments in one life
    MaxLives        \* bound: lives of the daemon

ASSUME JournalAssumption ==
    /\ MaxRecorded \in Nat \ {0}
    /\ MaxSequence \in Nat
    /\ MaxLives \in Nat
    /\ Absent \notin Standings
    /\ IsFiniteSet(Keys)

VARIABLES
    life,       \* this.#life: a fresh id of each daemon life
    sequence,   \* this.#sequence: the latest recorded moment, 0 before the first
    latest,     \* this.#latest
    changes,    \* this.#changes, one record of a key in a sequence
    dropped,    \* this.#dropped: the latest sequence whose changes were dropped
    cursor,     \* the cursor each caller holds
    seen,       \* history: the standings at the moment a caller's cursor names
    after       \* history: the changes recorded since that moment

journalVars == <<life, sequence, latest, changes, dropped, cursor, seen, after>>

Moment == [Keys -> Standings \cup {Absent}]
Nothing == [k \in Keys |-> Absent]
NoCursor == [life |-> 0, sequence |-> 0]
Cursors == [life : Nat, sequence : Nat]

TypeOK ==
    /\ life \in Nat \ {0}
    /\ sequence \in Nat
    /\ latest \in Moment
    /\ changes \subseteq [sequence : Nat, key : Keys, before : Standings \cup {Absent}]
    /\ dropped \in 0..sequence
    /\ cursor \in [Callers -> Cursors]
    /\ seen \in [Callers -> Moment]
    /\ after \in [Callers -> Nat]

JournalInit ==
    /\ life = 1
    /\ sequence = 0
    /\ latest = Nothing
    /\ changes = {}
    /\ dropped = 0
    /\ cursor = [c \in Callers |-> NoCursor]
    /\ seen = [c \in Callers |-> Nothing]
    /\ after = [c \in Callers |-> 0]

-----------------------------------------------------------------------------
(* Reading a cursor. *)

\* Mutant of SequenceOf: a cursor of another life is taken by its number alone.
SequenceOfAnyLife(cur) == IF cur.sequence \in 1..sequence THEN cur.sequence ELSE 0

\* The sequence a cursor of this life names, when this life recorded it; 0 otherwise.
SequenceOf(cur) ==
    IF cur.life = life /\ cur.sequence \in 1..sequence THEN cur.sequence ELSE 0

Use(cur) ==
    IF cur = NoCursor THEN "none-given"
    ELSE IF SequenceOf(cur) = 0 THEN "not-issued"
    ELSE IF SequenceOf(cur) < dropped THEN "expired"
    ELSE "used"

\* The changes of a key recorded after a sequence.
ChangesAfter(s, k) == {ch \in changes : ch.sequence > s /\ ch.key = k}

First(s, k, ch) == /\ ch \in ChangesAfter(s, k)
                   /\ \A other \in ChangesAfter(s, k) : ch.sequence <= other.sequence

\* A key's standing at a cursor's moment, as the journal can still tell it.
AtCursor(s, k) ==
    IF ChangesAfter(s, k) = {} THEN latest[k] ELSE (CHOOSE ch \in changes : First(s, k, ch)).before

\* Only the net change counts: a key that changed and changed back is not listed.
Since(cur) ==
    LET s == SequenceOf(cur)
    IN  {[key |-> k, atCursor |-> AtCursor(s, k), now |-> latest[k]] :
            k \in {x \in Keys : ChangesAfter(s, x) # {} /\ AtCursor(s, x) # latest[x]}}

-----------------------------------------------------------------------------
(* Recording. *)

Changed(next) == {k \in Keys : latest[k] # next[k]}

NextSequence(next) == IF sequence = 0 \/ Changed(next) # {} THEN sequence + 1 ELSE sequence

\* No cursor comes before the first moment, so its changes are not kept.
Pushed(next) ==
    IF sequence = 0 THEN changes
    ELSE changes \cup {[sequence |-> sequence + 1, key |-> k, before |-> latest[k]] : k \in Changed(next)}

Kept(held, n) == {ch \in held : ch.sequence > n}

\* Mutant of Drops: drops until no more than the bound are held.
DropsToBound(held, n) ==
    IF Cardinality(held) <= MaxRecorded THEN n = dropped
    ELSE /\ Cardinality(Kept(held, n)) <= MaxRecorded
         /\ \A m \in 0..n : m < n => Cardinality(Kept(held, m)) > MaxRecorded

\* n is the last sequence dropped: whole sequences go, oldest first, while the bound or more changes are held.
Drops(held, n) ==
    IF Cardinality(held) < MaxRecorded THEN n = dropped
    ELSE /\ Cardinality(Kept(held, n)) < MaxRecorded
         /\ \A m \in 0..n : m < n => Cardinality(Kept(held, m)) >= MaxRecorded

\* record(): the whole of one record.
Journalled(next) ==
    /\ NextSequence(next) <= MaxSequence
    /\ sequence' = NextSequence(next)
    /\ latest' = next
    /\ \E n \in 0..sequence' :
           /\ Drops(Pushed(next), n)
           /\ dropped' = n
           /\ changes' = Kept(Pushed(next), n)

\* The changes recorded after each cursor of this life once one more moment is.
Counted(next) ==
    [c \in Callers |->
        IF cursor[c].life = life /\ sequence # 0 THEN after[c] + Cardinality(Changed(next)) ELSE after[c]]

\* A stored run or discovery, an ended build or an input change at a determined moment; at any other nothing is recorded.
Record ==
    \E next \in Moment :
        /\ Journalled(next)
        /\ after' = Counted(next)
        /\ UNCHANGED <<life, cursor, seen>>

\* A changes answer at a determined moment records first and returns the cursor of what it recorded.
Answer(c) ==
    \E next \in Moment :
        /\ Journalled(next)
        /\ cursor' = [cursor EXCEPT ![c] = [life |-> life, sequence |-> sequence']]
        /\ seen' = [seen EXCEPT ![c] = next]
        /\ after' = [Counted(next) EXCEPT ![c] = 0]
        /\ UNCHANGED life

\* A changes answer at a moment not determined lists nothing: a usable cursor is handed back, and otherwise the latest.
AnswerUndetermined(c) ==
    /\ Use(cursor[c]) # "used"
    /\ IF sequence = 0
       THEN cursor' = [cursor EXCEPT ![c] = NoCursor] /\ UNCHANGED <<seen, after>>
       ELSE /\ cursor' = [cursor EXCEPT ![c] = [life |-> life, sequence |-> sequence]]
            /\ seen' = [seen EXCEPT ![c] = latest]
            /\ after' = [after EXCEPT ![c] = 0]
    /\ UNCHANGED <<life, sequence, latest, changes, dropped>>

\* The daemon is stopped or killed and another starts: its journal is empty, and the callers' cursors stay.
Restart ==
    /\ life < MaxLives
    /\ life' = life + 1
    /\ sequence' = 0
    /\ latest' = Nothing
    /\ changes' = {}
    /\ dropped' = 0
    /\ UNCHANGED <<cursor, seen, after>>

JournalNext ==
    \/ Record
    \/ \E c \in Callers : Answer(c) \/ AnswerUndetermined(c)
    \/ Restart

JournalSpec == JournalInit /\ [][JournalNext]_journalVars

-----------------------------------------------------------------------------
(* Properties. *)

Differing(then) == {k \in Keys : then[k] # latest[k]}

\* An answer that uses a caller's cursor lists exactly the keys whose standing differs from the one at the moment the
\* cursor names, each with that standing: whatever was recorded between, dropped at the bound, changed and changed
\* back, and whichever life of the daemon gave the cursor (ChangeJournal.since).
NetChangeIsExact ==
    \A c \in Callers : Use(cursor[c]) = "used" =>
        Since(cursor[c]) = {[key |-> k, atCursor |-> seen[c][k], now |-> latest[k]] : k \in Differing(seen[c])}

\* A cursor of this life expires exactly when the bound's count of changes was recorded after it, so no change is lost
\* to a caller sooner and no more than the bound is held (ChangeJournal.#dropUnneeded).
ExpiresAtBound ==
    /\ \A c \in Callers : cursor[c].life = life =>
           (Use(cursor[c]) = "expired") <=> (after[c] >= MaxRecorded)
    /\ Cardinality(changes) < MaxRecorded

============================================================================
