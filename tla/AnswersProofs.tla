-------------------------- MODULE AnswersProofs --------------------------
(***************************************************************************)
(* What a caller is told: of changes, for any keys, standings, callers,    *)
(* agents, batches, bounds and ages, and of tests and defects, for any     *)
(* workspaces, modules, texts and definitions.                             *)
(*                                                                         *)
(* The journal: an answer lists exactly the net change since its cursor.   *)
(* The invariant says what the journal still tells of every cursor that    *)
(* has not expired: the first change held of a key after the cursor        *)
(* carries the key's standing at the cursor, and a key with no such change *)
(* stands as it stood there.                                               *)
(*                                                                         *)
(* The hook's memory, in the second half: a run that has read its own      *)
(* writer's file holds what that file holds, since no other run writes it  *)
(* or removes it before its time is over, so each save carries the edits   *)
(* of the saves before it; and the latest answer recorded when a run began *)
(* is in a file it has yet to read or in what it read.                     *)
(*                                                                         *)
(* Standings, last: a stored discovery and a stored run are each true of   *)
(* the content they name, and where both name the same one they list the   *)
(* same tests of a module whose list was taken; stored evidence names what *)
(* it was judged on.                                                       *)
(***************************************************************************)
EXTENDS ChangeJournal, HookMemory, DefectStandings, FiniteSetTheorems, FunctionTheorems, SequenceTheorems, NaturalsInduction,
        WellFoundedInduction, TLAPS

ChangeSet == [sequence : Nat, key : Keys, before : Standings \cup {Absent}]

AfterIn(held, s, k) == {ch \in held : ch.sequence > s /\ ch.key = k}

\* The changes held and the latest standings tell that key k stood at v at sequence s.
Tells(held, standing, s, k, v) ==
    \/ AfterIn(held, s, k) = {} /\ v = standing[k]
    \/ \E ch \in AfterIn(held, s, k) :
           /\ ch.before = v
           /\ \A other \in AfterIn(held, s, k) : ch.sequence <= other.sequence

\* Each change held is of a sequence not dropped, one of a key in a sequence.
HeldInv ==
    /\ \A ch \in changes : dropped < ch.sequence /\ ch.sequence <= sequence
    /\ \A a, b \in changes : a.sequence = b.sequence /\ a.key = b.key => a = b
    /\ sequence = 0 => changes = {}

\* A cursor of this life names a moment this life recorded.
CursorInv ==
    \A c \in Callers : /\ cursor[c].life <= life
                       /\ cursor[c].life = life => cursor[c].sequence \in 1..sequence

\* Of every cursor not expired the journal tells the standings at its moment.
SeenInv ==
    \A c \in Callers : cursor[c].life = life /\ dropped <= cursor[c].sequence =>
        \A k \in Keys : Tells(changes, latest, cursor[c].sequence, k, seen[c][k])

JournalInv == TypeOK /\ HeldInv /\ CursorInv /\ SeenInv

-----------------------------------------------------------------------------
\* What a record adds for a moment: the standing each changed key is leaving.
PushedOn(held, standing, next, q) ==
    held \cup {[sequence |-> q + 1, key |-> k, before |-> standing[k]] : k \in {x \in Keys : standing[x] # next[x]}}

\* A record, with what it drops, leaves what the journal tells of an earlier moment that stays usable.
LEMMA RecordTells ==
    ASSUME NEW held \in SUBSET ChangeSet, NEW standing \in Moment, NEW next \in Moment,
           NEW q \in Nat, \A ch \in held : ch.sequence <= q,
           NEW n \in Nat, NEW s \in Nat, n <= s, s <= q,
           NEW k \in Keys, NEW v, Tells(held, standing, s, k, v)
    PROVE  Tells(Kept(PushedOn(held, standing, next, q), n), next, s, k, v)
  <1> DEFINE new == {[sequence |-> q + 1, key |-> x, before |-> standing[x]] : x \in {y \in Keys : standing[y] # next[y]}}
             kept == Kept(PushedOn(held, standing, next, q), n)
  <1>1. \A ch \in new : ch.sequence = q + 1 /\ ch.key \in Keys /\ ch.before = standing[ch.key] /\ standing[ch.key] # next[ch.key]
    OBVIOUS
  <1>2. AfterIn(kept, s, k) = AfterIn(held, s, k) \cup {ch \in new : ch.key = k}
    <2>1. \A ch \in held : ch.sequence \in Nat /\ (ch.sequence > s => ch.sequence > n)
      BY DEF ChangeSet
    <2>2. \A ch \in new : ch.sequence > s /\ ch.sequence > n
      BY <1>1
    <2> QED
      BY <2>1, <2>2 DEF AfterIn, Kept, PushedOn
  <1>3. CASE AfterIn(held, s, k) = {} /\ standing[k] = next[k]
    <2>1. {ch \in new : ch.key = k} = {}
      BY <1>1, <1>3
    <2> QED
      BY <1>2, <1>3, <2>1 DEF Tells
  <1>4. CASE AfterIn(held, s, k) = {} /\ standing[k] # next[k]
    <2> DEFINE ch0 == [sequence |-> q + 1, key |-> k, before |-> standing[k]]
    <2>1. ch0 \in new /\ ch0.key = k /\ ch0.before = standing[k] /\ ch0.sequence = q + 1
      BY <1>4
    <2>2. v = standing[k]
      BY <1>4 DEF Tells
    <2>3. \A other \in AfterIn(kept, s, k) : other.sequence = q + 1
      BY <1>1, <1>2, <1>4
    <2>4. ch0 \in AfterIn(kept, s, k)
      BY <1>2, <2>1
    <2>5. \A other \in AfterIn(kept, s, k) : ch0.sequence <= other.sequence
      BY <2>1, <2>3
    <2> HIDE DEF ch0, kept, new
    <2> QED
      BY <2>1, <2>2, <2>4, <2>5 DEF Tells, kept
  <1>5. CASE AfterIn(held, s, k) # {}
    <2>1. PICK ch \in AfterIn(held, s, k) :
              /\ ch.before = v
              /\ \A other \in AfterIn(held, s, k) : ch.sequence <= other.sequence
      BY <1>5 DEF Tells
    <2>2. ch.sequence <= q /\ ch.sequence \in Nat
      BY <2>1 DEF AfterIn, ChangeSet
    <2>3. \A other \in AfterIn(kept, s, k) : ch.sequence <= other.sequence
      BY <1>1, <1>2, <2>1, <2>2
    <2>4. ch \in AfterIn(kept, s, k)
      BY <1>2, <2>1
    <2> HIDE DEF kept, new
    <2> QED
      BY <2>1, <2>3, <2>4 DEF Tells, kept
  <1> QED
    BY <1>3, <1>4, <1>5

\* What a record does to the journal: the changes it pushes, and the last sequence it drops.
LEMMA RecordSteps ==
    ASSUME JournalInv, NEW next \in Moment, Journalled(next)
    PROVE  /\ sequence' \in Nat /\ latest' = next
           /\ dropped' \in 0..sequence' /\ dropped <= dropped'
           /\ sequence <= sequence' /\ 0 < sequence'
           /\ changes' \subseteq ChangeSet
           /\ HeldInv'
           /\ sequence # 0 => changes' = Kept(PushedOn(changes, latest, next, sequence), dropped')
  <1> DEFINE held == Pushed(next)
  <1>1. sequence' \in Nat /\ sequence <= sequence' /\ sequence' <= sequence + 1 /\ 0 < sequence' /\ latest' = next
    BY DEF Journalled, NextSequence, JournalInv, TypeOK
  <1>2. PICK n \in 0..sequence' : Drops(held, n) /\ dropped' = n /\ changes' = Kept(held, n)
    BY DEF Journalled
  <1>3. held \subseteq ChangeSet
    BY DEF Pushed, ChangeSet, JournalInv, TypeOK, Moment, Changed
  <1>4. \A ch \in held : dropped < ch.sequence /\ ch.sequence <= sequence'
    <2>1. CASE sequence = 0
      BY <2>1 DEF Pushed, JournalInv, HeldInv
    <2>2. CASE sequence # 0 /\ Changed(next) = {}
      BY <1>1, <2>2 DEF Pushed, JournalInv, HeldInv, TypeOK
    <2>3. CASE sequence # 0 /\ Changed(next) # {}
      <3>1. sequence' = sequence + 1
        BY <2>3 DEF Journalled, NextSequence
      <3>2. \A ch \in changes : dropped < ch.sequence /\ ch.sequence <= sequence /\ ch.sequence \in Nat
        BY DEF JournalInv, HeldInv, TypeOK
      <3>3. dropped \in Nat /\ sequence \in Nat /\ dropped < sequence + 1
        BY DEF JournalInv, TypeOK
      <3>4. \A ch \in held \ changes : ch.sequence = sequence + 1
        BY <2>3 DEF Pushed
      <3> QED
        BY <3>1, <3>2, <3>3, <3>4
    <2> QED
      BY <2>1, <2>2, <2>3
  <1>5. dropped <= n
    <2>1. dropped \in Nat
      BY DEF JournalInv, TypeOK
    <2>2. CASE n = dropped
      BY <2>1, <2>2
    <2>3. CASE n # dropped
      <3>1. Kept(held, n) # held
        BY <1>2, <2>3 DEF Drops
      <3>2. PICK ch \in held : ch.sequence <= n
        BY <1>3, <3>1 DEF ChangeSet, Kept
      <3> QED
        BY <1>3, <1>4, <2>1, <3>2 DEF ChangeSet
    <2> QED
      BY <2>2, <2>3
  <1>6. \A a, b \in held : a.sequence = b.sequence /\ a.key = b.key => a = b
    <2>1. CASE sequence = 0
      BY <2>1 DEF Pushed, JournalInv, HeldInv
    <2>2. CASE sequence # 0
      <3>1. \A ch \in changes : ch.sequence # sequence + 1
        BY DEF JournalInv, HeldInv, TypeOK
      <3> DEFINE new == {[sequence |-> sequence + 1, key |-> k, before |-> latest[k]] : k \in Changed(next)}
      <3>2. \A ch \in new : ch.sequence = sequence + 1
        OBVIOUS
      <3>3. \A a, b \in new : a.key = b.key => a = b
        OBVIOUS
      <3>4. held = changes \cup new
        BY <2>2 DEF Pushed
      <3>5. \A a, b \in changes : a.sequence = b.sequence /\ a.key = b.key => a = b
        BY DEF JournalInv, HeldInv
      <3> HIDE DEF held, new
      <3> QED
        BY <3>1, <3>2, <3>3, <3>4, <3>5
    <2> QED
      BY <2>1, <2>2
  <1>7. HeldInv'
    BY <1>1, <1>2, <1>4, <1>6 DEF HeldInv, Kept
  <1>8. changes' \subseteq ChangeSet
    BY <1>2, <1>3 DEF Kept
  <1>9. sequence # 0 => held = PushedOn(changes, latest, next, sequence)
    BY DEF Pushed, PushedOn, Changed
  <1> QED
    BY <1>1, <1>2, <1>5, <1>7, <1>8, <1>9

\* A record keeps what is told of the cursor of a caller that keeps it.
LEMMA RecordKeepsSeen ==
    ASSUME JournalInv, NEW next \in Moment, Journalled(next), NEW c \in Callers,
           cursor[c].life = life, dropped' <= cursor[c].sequence
    PROVE  \A k \in Keys : Tells(changes', latest', cursor[c].sequence, k, seen[c][k])
  <1> DEFINE s == cursor[c].sequence
  <1>1. s \in 1..sequence /\ s \in Nat /\ sequence \in Nat /\ sequence # 0 /\ s <= sequence
    BY DEF JournalInv, CursorInv, TypeOK
  <1>2. /\ latest' = next /\ dropped' \in Nat /\ dropped <= dropped' /\ dropped \in Nat
        /\ changes' = Kept(PushedOn(changes, latest, next, sequence), dropped')
    BY <1>1, RecordSteps DEF JournalInv, TypeOK
  <1>3. \A k \in Keys : Tells(changes, latest, s, k, seen[c][k])
    BY <1>1, <1>2 DEF JournalInv, SeenInv
  <1>4. \A ch \in changes : ch.sequence <= sequence
    BY DEF JournalInv, HeldInv
  <1>5. changes \in SUBSET ChangeSet /\ latest \in Moment
    BY DEF JournalInv, TypeOK, ChangeSet
  <1> HIDE DEF s
  <1>6. dropped' <= s
    BY DEF s
  <1>7. TAKE k \in Keys
  <1>8. Tells(Kept(PushedOn(changes, latest, next, sequence), dropped'), next, s, k, seen[c][k])
    BY <1>1, <1>2, <1>3, <1>4, <1>5, <1>6, RecordTells
  <1> QED
    BY <1>2, <1>8 DEF s

\* The counts of changes after each cursor stay numbers, since finitely many keys change at once.
LEMMA CountedType ==
    ASSUME TypeOK, NEW next \in Moment
    PROVE  Counted(next) \in [Callers -> Nat]
  <1>1. IsFiniteSet(Changed(next))
    BY FS_Subset, JournalAssumption DEF Changed
  <1>2. Cardinality(Changed(next)) \in Nat
    BY <1>1, FS_CardinalityType
  <1> QED
    BY <1>2 DEF Counted, TypeOK

\* The journal's invariant holds in the first life before any record.
LEMMA InitJournal == JournalInit => JournalInv
  BY DEF JournalInit, JournalInv, TypeOK, HeldInv, CursorInv, SeenInv, NoCursor, Cursors, Nothing, Moment

\* Every step of the journal and its callers keeps the invariant.
LEMMA NextJournal == JournalInv /\ [JournalNext]_journalVars => JournalInv'
  <1> SUFFICES ASSUME JournalInv, [JournalNext]_journalVars PROVE JournalInv'
    OBVIOUS
  <1> USE DEF JournalInv
  <1>1. CASE Record
    <2>1. PICK next \in Moment : Journalled(next) /\ after' = Counted(next) /\ UNCHANGED <<life, cursor, seen>>
      BY <1>1 DEF Record
    <2>2. /\ sequence' \in Nat /\ latest' = next /\ dropped' \in 0..sequence' /\ sequence <= sequence'
          /\ changes' \subseteq ChangeSet /\ HeldInv'
      BY <2>1, RecordSteps
    <2>3. Counted(next) \in [Callers -> Nat]
      BY CountedType
    <2>4. TypeOK'
      BY <2>1, <2>2, <2>3 DEF TypeOK, ChangeSet
    <2>5. CursorInv'
      BY <2>1, <2>2 DEF CursorInv, TypeOK
    <2>6. SeenInv'
      BY <2>1, RecordKeepsSeen DEF SeenInv
    <2> QED
      BY <2>2, <2>4, <2>5, <2>6
  <1>2. ASSUME NEW c \in Callers, Answer(c) PROVE JournalInv'
    <2>1. PICK next \in Moment :
              /\ Journalled(next)
              /\ cursor' = [cursor EXCEPT ![c] = [life |-> life, sequence |-> sequence']]
              /\ seen' = [seen EXCEPT ![c] = next]
              /\ after' = [Counted(next) EXCEPT ![c] = 0]
              /\ life' = life
      BY <1>2 DEF Answer
    <2>2. /\ sequence' \in Nat /\ latest' = next /\ dropped' \in 0..sequence' /\ sequence <= sequence' /\ 0 < sequence'
          /\ changes' \subseteq ChangeSet /\ HeldInv'
      BY <2>1, RecordSteps
    <2>3. Counted(next) \in [Callers -> Nat]
      BY CountedType
    <2>4. TypeOK'
      BY <2>1, <2>2, <2>3 DEF TypeOK, ChangeSet, Cursors
    <2>5. CursorInv'
      BY <2>1, <2>2 DEF CursorInv, TypeOK, Cursors
    <2>6. SeenInv'
      <3> SUFFICES ASSUME NEW d \in Callers, cursor'[d].life = life', dropped' <= cursor'[d].sequence
                   PROVE  \A k \in Keys : Tells(changes', latest', cursor'[d].sequence, k, seen'[d][k])
        BY DEF SeenInv
      <3>1. CASE d # c
        <4>1. cursor'[d] = cursor[d] /\ seen'[d] = seen[d]
          BY <2>1, <3>1 DEF TypeOK
        <4> QED
          BY <2>1, <4>1, RecordKeepsSeen
      <3>2. CASE d = c
        <4>1. cursor'[d].sequence = sequence' /\ seen'[d] = next
          BY <2>1, <3>2 DEF TypeOK
        <4>2. \A k \in Keys : AfterIn(changes', sequence', k) = {}
          BY <2>2 DEF HeldInv, AfterIn, ChangeSet
        <4> QED
          BY <2>2, <4>1, <4>2 DEF Tells
      <3> QED
        BY <3>1, <3>2
    <2> QED
      BY <2>2, <2>4, <2>5, <2>6
  <1>3. ASSUME NEW c \in Callers, AnswerUndetermined(c) PROVE JournalInv'
    <2>1. UNCHANGED <<life, sequence, latest, changes, dropped>>
      BY <1>3 DEF AnswerUndetermined
    <2>2. HeldInv'
      BY <2>1 DEF HeldInv
    <2>3. CASE sequence = 0
      <3>1. cursor' = [cursor EXCEPT ![c] = NoCursor] /\ seen' = seen /\ after' = after
        BY <1>3, <2>3 DEF AnswerUndetermined
      <3>2. TypeOK'
        BY <2>1, <3>1 DEF TypeOK, NoCursor, Cursors
      <3>3. CursorInv'
        BY <2>1, <3>1 DEF CursorInv, TypeOK, NoCursor
      <3>4. SeenInv'
        BY <2>1, <2>3, <3>3 DEF SeenInv, CursorInv
      <3> QED
        BY <2>2, <3>2, <3>3, <3>4
    <2>4. CASE sequence # 0
      <3>1. /\ cursor' = [cursor EXCEPT ![c] = [life |-> life, sequence |-> sequence]]
            /\ seen' = [seen EXCEPT ![c] = latest]
            /\ after' = [after EXCEPT ![c] = 0]
        BY <1>3, <2>4 DEF AnswerUndetermined
      <3>2. TypeOK'
        BY <2>1, <3>1 DEF TypeOK, Cursors
      <3>3. CursorInv'
        BY <2>1, <2>4, <3>1 DEF CursorInv, TypeOK, Cursors
      <3>4. SeenInv'
        <4> SUFFICES ASSUME NEW d \in Callers, cursor'[d].life = life', dropped' <= cursor'[d].sequence
                     PROVE  \A k \in Keys : Tells(changes', latest', cursor'[d].sequence, k, seen'[d][k])
          BY DEF SeenInv
        <4>1. CASE d # c
          <5>1. cursor'[d] = cursor[d] /\ seen'[d] = seen[d]
            BY <3>1, <4>1 DEF TypeOK
          <5> QED
            BY <2>1, <5>1 DEF SeenInv
        <4>2. CASE d = c
          <5>1. cursor'[d].sequence = sequence /\ seen'[d] = latest
            BY <3>1, <4>2 DEF TypeOK
          <5>2. \A k \in Keys : AfterIn(changes, sequence, k) = {}
            BY DEF HeldInv, AfterIn, TypeOK
          <5> QED
            BY <2>1, <5>1, <5>2 DEF Tells
        <4> QED
          BY <4>1, <4>2
      <3> QED
        BY <2>2, <3>2, <3>3, <3>4
    <2> QED
      BY <2>3, <2>4
  <1>4. CASE Restart
    <2>1. TypeOK' /\ HeldInv'
      BY <1>4 DEF Restart, TypeOK, HeldInv, Nothing, Moment
    <2>2. \A c \in Callers : cursor'[c].life < life'
      BY <1>4 DEF Restart, CursorInv, TypeOK, Cursors
    <2>3. \A c \in Callers : cursor'[c].life \in Nat /\ life' \in Nat
      BY <2>1 DEF TypeOK, Cursors
    <2> QED
      BY <2>1, <2>2, <2>3 DEF CursorInv, SeenInv
  <1>5. CASE UNCHANGED journalVars
    BY <1>5 DEF journalVars, TypeOK, HeldInv, CursorInv, SeenInv
  <1> QED
    BY <1>1, <1>2, <1>3, <1>4, <1>5 DEF JournalNext

\* The journal's invariant, over every life of the daemon.
THEOREM JournalInvariant == JournalSpec => []JournalInv
  BY InitJournal, NextJournal, PTL DEF JournalSpec

\* Every reachable state of the journal has its types.
THEOREM JournalTypeCorrect == JournalSpec => []TypeOK
<1>1. JournalInv => TypeOK
  BY DEF JournalInv
<1> QED
  BY <1>1, JournalInvariant, PTL

\* since() lists exactly the keys whose standing differs from the one at the moment the cursor names, whatever was
\* recorded and dropped since, and whichever life gave the cursor.
THEOREM NetChangeExact == JournalSpec => []NetChangeIsExact
<1>1. JournalInv => NetChangeIsExact
  <2> SUFFICES ASSUME JournalInv, NEW c \in Callers, Use(cursor[c]) = "used"
               PROVE  Since(cursor[c]) =
                        {[key |-> k, atCursor |-> seen[c][k], now |-> latest[k]] : k \in Differing(seen[c])}
    BY DEF NetChangeIsExact
  <2> DEFINE s == SequenceOf(cursor[c])
  <2>1. cursor[c].life = life /\ s = cursor[c].sequence /\ dropped <= s /\ s \in Nat
    BY DEF Use, SequenceOf, JournalInv, TypeOK, Cursors
  <2>2. \A k \in Keys : Tells(changes, latest, s, k, seen[c][k])
    BY <2>1 DEF JournalInv, SeenInv
  <2>3. \A k \in Keys : AfterIn(changes, s, k) = ChangesAfter(s, k)
    BY DEF AfterIn, ChangesAfter
  <2>4. \A k \in Keys : AtCursor(s, k) = seen[c][k] /\ (ChangesAfter(s, k) = {} => seen[c][k] = latest[k])
    <3> SUFFICES ASSUME NEW k \in Keys
                 PROVE  AtCursor(s, k) = seen[c][k] /\ (ChangesAfter(s, k) = {} => seen[c][k] = latest[k])
      OBVIOUS
    <3> HIDE DEF s
    <3>1. CASE ChangesAfter(s, k) = {}
      BY <2>2, <2>3, <3>1 DEF Tells, AtCursor
    <3>2. CASE ChangesAfter(s, k) # {}
      <4>1. PICK ch \in ChangesAfter(s, k) :
                /\ ch.before = seen[c][k]
                /\ \A other \in ChangesAfter(s, k) : ch.sequence <= other.sequence
        BY <2>2, <2>3, <3>2 DEF Tells
      <4>2. ch \in changes /\ First(s, k, ch)
        BY <4>1 DEF First, ChangesAfter
      <4>3. \A other \in changes : First(s, k, other) => other = ch
        <5>1. \A other \in changes : other.sequence \in Nat
          BY DEF JournalInv, TypeOK
        <5> QED
          BY <4>1, <4>2, <5>1 DEF First, ChangesAfter, JournalInv, HeldInv
      <4>4. (CHOOSE x \in changes : First(s, k, x)) = ch
        BY <4>2, <4>3
      <4> QED
        BY <3>2, <4>1, <4>4 DEF AtCursor
    <3> QED
      BY <3>1, <3>2
  <2>5. {x \in Keys : ChangesAfter(s, x) # {} /\ AtCursor(s, x) # latest[x]} = Differing(seen[c])
    BY <2>4 DEF Differing
  <2> HIDE DEF s
  <2>6. Since(cursor[c]) = {[key |-> k, atCursor |-> AtCursor(s, k), now |-> latest[k]] : k \in Differing(seen[c])}
    BY <2>5 DEF Since, s
  <2> QED
    BY <2>4, <2>6 DEF Differing
<1> QED
  BY <1>1, JournalInvariant, PTL
-----------------------------------------------------------------------------
\* The count of a caller's changes is the number held after its cursor until the cursor expires, and then no less than
\* the bound; fewer than the bound are held.
CountInv ==
    /\ IsFiniteSet(changes) /\ Cardinality(changes) < MaxRecorded
    /\ \A c \in Callers : cursor[c].life = life =>
           IF dropped <= cursor[c].sequence
           THEN after[c] = Cardinality(Kept(changes, cursor[c].sequence))
           ELSE after[c] >= MaxRecorded

\* A record pushes one change for each key that changed, all after every cursor.
LEMMA PushCounts ==
    ASSUME JournalInv, CountInv, NEW next \in Moment, sequence # 0,
           NEW s \in Nat, s <= sequence
    PROVE  /\ IsFiniteSet(Pushed(next)) /\ IsFiniteSet(Kept(Pushed(next), s)) /\ IsFiniteSet(Kept(changes, s))
           /\ Cardinality(Changed(next)) \in Nat
           /\ Cardinality(Kept(Pushed(next), s)) = Cardinality(Kept(changes, s)) + Cardinality(Changed(next))
  <1> DEFINE pushed(k) == [sequence |-> sequence + 1, key |-> k, before |-> latest[k]]
             new == {pushed(k) : k \in Changed(next)}
  <1>1. IsFiniteSet(Changed(next)) /\ Cardinality(Changed(next)) \in Nat
    BY FS_Subset, FS_CardinalityType, JournalAssumption DEF Changed
  <1>2. IsFiniteSet(new) /\ Cardinality(new) = Cardinality(Changed(next))
    <2> DEFINE f == [k \in Changed(next) |-> pushed(k)]
    <2>1. f \in Bijection(Changed(next), new)
      BY DEF Bijection, Injection, Surjection, IsInjective
    <2>2. ExistsBijection(Changed(next), new)
      BY <2>1 DEF ExistsBijection
    <2> HIDE DEF new
    <2> QED
      BY <1>1, <2>2, FS_Bijection
  <1>3. Pushed(next) = changes \cup new
    BY DEF Pushed
  <1>4. \A ch \in changes : ch.sequence \in Nat /\ ch.sequence <= sequence
    BY DEF JournalInv, TypeOK, HeldInv
  <1>5. sequence \in Nat
    BY DEF JournalInv, TypeOK
  <1>6. \A ch \in new : ch.sequence = sequence + 1
    OBVIOUS
  <1> HIDE DEF new
  <1>7. Kept(Pushed(next), s) = Kept(changes, s) \cup new
    BY <1>3, <1>5, <1>6 DEF Kept
  <1>8. Kept(changes, s) \cap new = {}
    BY <1>4, <1>5, <1>6 DEF Kept
  <1>9. IsFiniteSet(Kept(changes, s)) /\ Cardinality(Kept(changes, s)) \in Nat
    <2>1. Kept(changes, s) \in SUBSET changes /\ IsFiniteSet(changes)
      BY DEF Kept, CountInv
    <2> QED
      BY <2>1, FS_Subset, FS_CardinalityType
  <1>10. /\ IsFiniteSet(Kept(Pushed(next), s))
         /\ Cardinality(Kept(Pushed(next), s)) = Cardinality(Kept(changes, s)) + Cardinality(new) - Cardinality({})
    BY <1>2, <1>7, <1>8, <1>9, FS_Union
  <1>11. IsFiniteSet(Pushed(next))
    BY <1>2, <1>3, FS_Union DEF CountInv
  <1>12. Cardinality({}) = 0
    BY FS_EmptySet
  <1> QED
    BY <1>1, <1>2, <1>9, <1>10, <1>11, <1>12

\* A record keeps the counts, whatever it drops.
LEMMA RecordCounts ==
    ASSUME JournalInv, CountInv, NEW next \in Moment, Journalled(next)
    PROVE  /\ IsFiniteSet(changes') /\ Cardinality(changes') < MaxRecorded
           /\ \A c \in Callers : cursor[c].life = life =>
                  IF dropped' <= cursor[c].sequence
                  THEN Counted(next)[c] = Cardinality(Kept(changes', cursor[c].sequence))
                  ELSE Counted(next)[c] >= MaxRecorded
  <1>1. PICK n \in 0..sequence' : Drops(Pushed(next), n) /\ dropped' = n /\ changes' = Kept(Pushed(next), n)
    BY DEF Journalled
  <1>2. /\ sequence \in Nat /\ sequence' \in Nat /\ dropped \in Nat /\ n \in Nat /\ dropped <= n
        /\ MaxRecorded \in Nat /\ MaxRecorded # 0 /\ dropped <= sequence
    BY <1>1, RecordSteps, JournalAssumption DEF JournalInv, TypeOK
  <1>3. CASE sequence = 0
    <2>1. Pushed(next) = {}
      BY <1>3 DEF Pushed, JournalInv, HeldInv
    <2>2. changes' = {}
      BY <1>1, <2>1 DEF Kept
    <2>3. \A c \in Callers : cursor[c].life # life
      BY <1>3 DEF JournalInv, CursorInv
    <2> QED
      BY <1>2, <2>2, <2>3, FS_EmptySet
  <1>4. CASE sequence # 0
    <2>1. IsFiniteSet(Pushed(next)) /\ Cardinality(Pushed(next)) \in Nat
      BY <1>2, <1>4, PushCounts, FS_CardinalityType
    <2>2. \A ch \in Pushed(next) : ch.sequence \in Nat /\ ch.sequence > dropped
      <3>1. \A ch \in changes : ch.sequence \in Nat /\ ch.sequence > dropped
        BY DEF JournalInv, TypeOK, HeldInv
      <3>2. \A ch \in Pushed(next) \ changes : ch.sequence = sequence + 1
        BY <1>4 DEF Pushed
      <3> QED
        BY <1>2, <3>1, <3>2
    <2>3. IsFiniteSet(changes') /\ Cardinality(changes') < MaxRecorded
      <3>1. changes' \in SUBSET Pushed(next)
        BY <1>1 DEF Kept
      <3>2. IsFiniteSet(changes')
        BY <2>1, <3>1, FS_Subset
      <3>3. CASE Cardinality(Pushed(next)) < MaxRecorded
        <4>1. n = dropped
          BY <1>1, <3>3 DEF Drops
        <4>2. changes' = Pushed(next)
          BY <1>1, <2>2, <4>1 DEF Kept
        <4> QED
          BY <3>2, <3>3, <4>2
      <3>4. CASE ~(Cardinality(Pushed(next)) < MaxRecorded)
        BY <1>1, <3>2, <3>4 DEF Drops
      <3> QED
        BY <3>3, <3>4
    <2>4. ASSUME NEW c \in Callers, cursor[c].life = life
          PROVE  IF dropped' <= cursor[c].sequence
                 THEN Counted(next)[c] = Cardinality(Kept(changes', cursor[c].sequence))
                 ELSE Counted(next)[c] >= MaxRecorded
      <3> DEFINE s == cursor[c].sequence
      <3>1. s \in Nat /\ s <= sequence
        BY <1>2, <2>4 DEF JournalInv, CursorInv
      <3>2. Counted(next)[c] = after[c] + Cardinality(Changed(next)) /\ after[c] \in Nat
        BY <1>4, <2>4 DEF Counted, JournalInv, TypeOK
      <3>3. IF dropped <= s THEN after[c] = Cardinality(Kept(changes, s)) ELSE after[c] >= MaxRecorded
        BY <2>4 DEF CountInv
      <3> HIDE DEF s
      <3>4. /\ Cardinality(Changed(next)) \in Nat /\ IsFiniteSet(Kept(Pushed(next), s))
            /\ Cardinality(Kept(Pushed(next), s)) = Cardinality(Kept(changes, s)) + Cardinality(Changed(next))
        BY <1>4, <3>1, PushCounts
      <3>5. CASE dropped' <= s
        <4>1. dropped <= s
          BY <1>1, <1>2, <3>1, <3>5
        <4>2. Kept(changes', s) = Kept(Pushed(next), s)
          BY <1>1, <1>2, <2>2, <3>1, <3>5 DEF Kept
        <4>3. Counted(next)[c] = Cardinality(Kept(changes', s))
          BY <3>2, <3>3, <3>4, <4>1, <4>2
        <4> QED
          BY <3>5, <4>3 DEF s
      <3>6. CASE ~(dropped' <= s) /\ dropped <= s
        <4>1. s < n /\ n # dropped
          BY <1>1, <1>2, <3>1, <3>6
        <4>2. ~(Cardinality(Pushed(next)) < MaxRecorded)
          BY <1>1, <4>1 DEF Drops
        <4>3. Cardinality(Kept(Pushed(next), s)) >= MaxRecorded
          BY <1>1, <1>2, <3>1, <4>1, <4>2 DEF Drops
        <4>4. Counted(next)[c] >= MaxRecorded
          BY <3>2, <3>3, <3>4, <3>6, <4>3
        <4> QED
          BY <3>6, <4>4 DEF s
      <3>7. CASE ~(dropped' <= s) /\ ~(dropped <= s)
        <4>1. Counted(next)[c] >= MaxRecorded
          BY <1>2, <3>2, <3>3, <3>4, <3>7
        <4> QED
          BY <3>7, <4>1 DEF s
      <3> QED
        BY <3>5, <3>6, <3>7
    <2> QED
      BY <2>3, <2>4
  <1> QED
    BY <1>3, <1>4

\* Nothing held lies after the latest sequence.
LEMMA NothingAfter ==
    ASSUME JournalInv, NEW s, sequence = s PROVE Kept(changes, s) = {}
  BY DEF JournalInv, TypeOK, HeldInv, Kept

\* Every step keeps the counts.
LEMMA NextCounts == JournalInv /\ JournalInv' /\ CountInv /\ [JournalNext]_journalVars => CountInv'
  <1> SUFFICES ASSUME JournalInv, JournalInv', CountInv, [JournalNext]_journalVars PROVE CountInv'
    OBVIOUS
  <1>1. CASE Record
    <2>1. PICK next \in Moment : Journalled(next) /\ after' = Counted(next) /\ UNCHANGED <<life, cursor, seen>>
      BY <1>1 DEF Record
    <2> QED
      BY <2>1, RecordCounts DEF CountInv
  <1>2. ASSUME NEW c \in Callers, Answer(c) PROVE CountInv'
    <2>1. PICK next \in Moment :
              /\ Journalled(next)
              /\ cursor' = [cursor EXCEPT ![c] = [life |-> life, sequence |-> sequence']]
              /\ after' = [Counted(next) EXCEPT ![c] = 0]
              /\ life' = life
      BY <1>2 DEF Answer
    <2>2. Counted(next) \in [Callers -> Nat]
      BY CountedType DEF JournalInv
    <2>3. \A d \in Callers : d # c => cursor'[d] = cursor[d] /\ after'[d] = Counted(next)[d]
      BY <2>1, <2>2 DEF JournalInv, TypeOK
    <2>4. cursor'[c].sequence = sequence' /\ after'[c] = 0
      BY <2>1, <2>2 DEF JournalInv, TypeOK
    <2>5. Kept(changes', sequence') = {}
      BY DEF JournalInv, TypeOK, HeldInv, Kept
    <2>6. dropped' <= sequence' /\ Cardinality({}) = 0
      BY FS_EmptySet DEF JournalInv, TypeOK
    <2>7. /\ IsFiniteSet(changes') /\ Cardinality(changes') < MaxRecorded
          /\ \A d \in Callers : cursor[d].life = life =>
                 IF dropped' <= cursor[d].sequence
                 THEN Counted(next)[d] = Cardinality(Kept(changes', cursor[d].sequence))
                 ELSE Counted(next)[d] >= MaxRecorded
      BY <2>1, RecordCounts
    <2>8. ASSUME NEW d \in Callers, cursor'[d].life = life'
          PROVE  IF dropped' <= cursor'[d].sequence
                 THEN after'[d] = Cardinality(Kept(changes', cursor'[d].sequence))
                 ELSE after'[d] >= MaxRecorded
      <3>1. CASE d = c
        BY <2>4, <2>5, <2>6, <3>1
      <3>2. CASE d # c
        BY <2>1, <2>3, <2>7, <2>8, <3>2
      <3> QED
        BY <3>1, <3>2
    <2> QED
      BY <2>7, <2>8 DEF CountInv
  <1>3. ASSUME NEW c \in Callers, AnswerUndetermined(c) PROVE CountInv'
    <2>1. life' = life /\ sequence' = sequence /\ changes' = changes /\ dropped' = dropped
      BY <1>3 DEF AnswerUndetermined
    <2>2. \A d \in Callers : d # c => cursor'[d] = cursor[d] /\ after'[d] = after[d]
      BY <1>3 DEF AnswerUndetermined, JournalInv, TypeOK
    <2>3. CASE sequence = 0
      <3>1. \A d \in Callers : cursor'[d].life # life'
        BY <2>1, <2>3 DEF JournalInv, CursorInv
      <3> QED
        BY <2>1, <3>1 DEF CountInv
    <2>4. CASE sequence # 0
      <3>1. cursor'[c].sequence = sequence /\ after'[c] = 0
        BY <1>3, <2>4 DEF AnswerUndetermined, JournalInv, TypeOK
      <3>2. Kept(changes, sequence) = {} /\ Cardinality({}) = 0
        BY NothingAfter, FS_EmptySet
      <3>3. dropped <= sequence
        BY DEF JournalInv, TypeOK
      <3>4. ASSUME NEW d \in Callers, cursor'[d].life = life'
            PROVE  IF dropped' <= cursor'[d].sequence
                   THEN after'[d] = Cardinality(Kept(changes', cursor'[d].sequence))
                   ELSE after'[d] >= MaxRecorded
        <4>1. CASE d = c
          BY <2>1, <3>1, <3>2, <3>3, <4>1
        <4>2. CASE d # c
          BY <2>1, <2>2, <3>4, <4>2 DEF CountInv
        <4> QED
          BY <4>1, <4>2
      <3> QED
        BY <2>1, <3>4 DEF CountInv
    <2> QED
      BY <2>3, <2>4
  <1>4. CASE Restart
    <2>1. \A c \in Callers : cursor'[c].life # life'
      BY <1>4 DEF Restart, JournalInv, CursorInv, TypeOK, Cursors
    <2>2. changes' = {}
      BY <1>4 DEF Restart
    <2> QED
      BY <2>1, <2>2, FS_EmptySet, JournalAssumption DEF CountInv
  <1>5. CASE UNCHANGED journalVars
    BY <1>5 DEF journalVars, CountInv
  <1> QED
    BY <1>1, <1>2, <1>3, <1>4, <1>5 DEF JournalNext

\* A cursor of this life expires exactly when the bound's count of changes was recorded after its moment, and fewer
\* than the bound are ever held: the answer a caller gets for an expired cursor is one the bound forces.
THEOREM CursorsExpireAtBound == JournalSpec => []ExpiresAtBound
<1>1. JournalInit => CountInv
  BY FS_EmptySet, JournalAssumption DEF JournalInit, CountInv, NoCursor
<1>2. JournalInv /\ CountInv => ExpiresAtBound
  <2> SUFFICES ASSUME JournalInv, CountInv, NEW c \in Callers, cursor[c].life = life
               PROVE  (Use(cursor[c]) = "expired") <=> (after[c] >= MaxRecorded)
    BY DEF ExpiresAtBound, CountInv
  <2> DEFINE s == cursor[c].sequence
  <2>1. s \in 1..sequence /\ s \in Nat /\ dropped \in Nat /\ cursor[c].life \in Nat \ {0}
    BY DEF JournalInv, TypeOK, CursorInv
  <2>2. Use(cursor[c]) = "expired" <=> s < dropped
    BY <2>1 DEF Use, SequenceOf, NoCursor
  <2>3. CASE s < dropped
    BY <2>1, <2>2, <2>3 DEF CountInv
  <2>4. CASE ~(s < dropped)
    <3>1. Kept(changes, s) \in SUBSET changes /\ IsFiniteSet(changes) /\ Cardinality(changes) < MaxRecorded
      BY DEF Kept, CountInv
    <3>2. /\ Cardinality(Kept(changes, s)) \in Nat /\ Cardinality(changes) \in Nat
          /\ Cardinality(Kept(changes, s)) <= Cardinality(changes)
      BY <3>1, FS_Subset, FS_CardinalityType
    <3>3. after[c] = Cardinality(Kept(changes, s))
      BY <2>1, <2>4 DEF CountInv
    <3> QED
      BY <2>2, <2>4, <3>1, <3>2, <3>3, JournalAssumption
  <2> QED
    BY <2>3, <2>4
<1>3. JournalSpec => []CountInv
  <2>1. JournalSpec => []JournalInv
    BY JournalInvariant
  <2> QED
    BY <1>1, <2>1, NextCounts, PTL DEF JournalSpec
<1> QED
  BY <1>2, <1>3, JournalInvariant, PTL

-----------------------------------------------------------------------------
(* The hook's memory. *)

\* What is read of a file; its edits are whatever the batches named.
IsNotes(m) ==
    /\ DOMAIN m = {"paths", "cursor", "toldLossAt", "answeredAt"}
    /\ m.toldLossAt \in Nat /\ m.answeredAt \in Nat

IsFile(f) == f.toldLossAt \in Nat /\ f.answeredAt \in Nat /\ f.mtime \in Nat

Phases == {"none", "reading", "remembering", "pruning", "unlinking", "asking", "retrying", "ended"}

RunFields == {"phase", "start", "left", "read", "named", "unsaved", "asked", "prune", "target", "silent", "answered"}

IsRun(r) ==
    /\ DOMAIN r = RunFields
    /\ r.phase \in Phases /\ r.start \in Nat /\ r.left \subseteq Writers
    /\ r.read = [v \in Writers |-> r.read[v]] /\ \A v \in Writers : IsNotes(r.read[v])
    /\ r.unsaved \in Nat /\ r.prune \subseteq Writers /\ r.answered \in Nat

\* A stored cursor passes no change its agent was told of.
CursorOk(a, m) == m.cursor # None => m.cursor \in Nat /\ m.cursor <= reported[a]

\* The clock, the daemon's changes and the ghosts.
ClockInv ==
    /\ now \in Nat \ {0} /\ journal \in Nat /\ aged \subseteq Writers
    /\ lossTold \in [Agents \cup {TurnEnds} -> Nat] /\ \A r \in Agents \cup {TurnEnds} : lossTold[r] <= now
    /\ reported \in [Agents -> Nat] /\ \A a \in Agents : reported[a] <= journal
    /\ edited = [a \in Agents |-> edited[a]]

\* A file was written in the past, and one past the age is known to be; one that is not holds its agent's edits.
FileInv ==
    /\ memory = [v \in Writers |-> memory[v]]
    /\ \A v \in Writers :
          /\ IsFile(memory[v]) /\ memory[v].mtime <= now /\ memory[v].answeredAt <= now
          /\ memory[v].toldLossAt <= lossTold[Reader(v)]
          /\ Expired(memory[v]) => v \in aged
          /\ ~Exists(memory[v]) => memory[v] = NoFile
          /\ v \in Agents => CursorOk(v, memory[v])
    /\ \A a \in Agents \ aged : memory[a].paths = edited[a]

\* A run has read its writer's own file as it stands, with what it could not save put before it.
OwnRead(w, r) ==
    w \notin aged /\ r.phase # "none" /\ w \notin r.left =>
        /\ r.read[w].answeredAt = memory[w].answeredAt
        /\ r.read[w].paths = IF r.unsaved = Never THEN memory[w].paths ELSE WithEdits(memory[w].paths, r.named, r.unsaved)

\* The latest answer recorded when the run began is still in a file it has to read, or in what it read.
KnowsAnswer(r) ==
    aged = {} => \/ r.answered = Never
                 \/ \E v \in Writers : IF v \in r.left THEN memory[v].answeredAt >= r.answered
                                                       ELSE r.read[v].answeredAt >= r.answered

RunOk(w, r) ==
    /\ IsRun(r) /\ r.start <= now
    /\ r.phase # "reading" => r.left = {}
    /\ r.unsaved # Never => r.phase \notin {"reading", "remembering"}
    /\ r.phase = "unlinking" => r.target \in aged
    /\ \A v \in Writers : r.read[v].answeredAt <= now /\ r.read[v].toldLossAt <= lossTold[Reader(v)]
    /\ w \in Agents => CursorOk(w, r.read[w])
    /\ OwnRead(w, r)
    /\ KnowsAnswer(r)
    /\ aged = {} /\ r.silent => lossTold[Reader(w)] > r.answered

RunsInv == hookRun = [w \in Writers |-> hookRun[w]] /\ \A w \in Writers : RunOk(w, hookRun[w])

HookInv == ClockInv /\ FileInv /\ RunsInv

---------------------------------------------------------------------------
\* What is printed reaches an agent or the user.
LEMMA ReaderTyped == \A w \in Writers : Reader(w) \in Agents \cup {TurnEnds}
BY HookAssumption DEF Reader, Writers, Prompts, TurnEnds

\* A writer with no run.
LEMMA NewRunOk ==
    ASSUME ClockInv, NEW w \in Writers
    PROVE  RunOk(w, NewRun)
<1>1. IsRun(NewRun)
  BY DEF IsRun, RunFields, NewRun, IsNotes, NoMemory, Never, Phases
<1>2. \A v \in Writers : lossTold[Reader(v)] \in Nat
  BY ReaderTyped DEF ClockInv
<1> QED
  BY <1>1, <1>2 DEF RunOk, NewRun, ClockInv, NoMemory, Never, OwnRead, KnowsAnswer, CursorOk

LEMMA InitHook == HookInit => HookInv
<1> SUFFICES ASSUME HookInit PROVE HookInv
  OBVIOUS
<1> USE DEF HookInit
<1>1. ClockInv
  BY DEF ClockInv, Never
<1>2. FileInv
  <2>1. \A v \in Writers : memory[v] = NoFile
    OBVIOUS
  <2>2. \A v \in Writers : lossTold[Reader(v)] = Never
    BY ReaderTyped
  <2> QED
    BY <2>1, <2>2 DEF FileInv, NoFile, FileWith, NoMemory, IsFile, Never, CursorOk, Expired, ExpiredAt, Exists, Writers
<1>3. RunsInv
  <2>1. \A v \in Writers : hookRun[v] = NewRun /\ RunOk(v, NewRun)
    BY <1>1, NewRunOk
  <2> QED
    BY <2>1 DEF RunsInv
<1> QED
  BY <1>1, <1>2, <1>3 DEF HookInv

\* What a writer's step may change that other runs rely on.
Moves(w) ==
    /\ now' = now /\ aged' = aged
    /\ \A v \in Writers : /\ v # w /\ v \notin aged => memory'[v] = memory[v]
                          /\ aged = {} => memory'[v].answeredAt \in Nat /\ memory'[v].answeredAt >= memory[v].answeredAt
    /\ \A a \in Agents : a # w => reported'[a] = reported[a]
    /\ \A x \in Agents \cup {TurnEnds} : lossTold'[x] \in Nat /\ lossTold'[x] >= lossTold[x]

\* A step of a writer keeps the invariant of the other writers' runs.
LEMMA StepOk ==
    ASSUME HookInv, NEW w \in Writers, NEW r, hookRun' = [hookRun EXCEPT ![w] = r],
           ClockInv', FileInv', Moves(w), RunOk(w, r)'
    PROVE  HookInv'
<1>1. hookRun' = [x \in Writers |-> hookRun'[x]] /\ hookRun'[w] = r /\ \A x \in Writers \ {w} : hookRun'[x] = hookRun[x]
  BY DEF HookInv, RunsInv
<1>2. ASSUME NEW x \in Writers \ {w}, NEW q, q = hookRun[x] PROVE RunOk(x, q)'
  <2>0. RunOk(x, q)
    BY <1>2 DEF HookInv, RunsInv
  <2>1. \A v \in Writers : lossTold'[Reader(v)] \in Nat /\ lossTold[Reader(v)] \in Nat /\ lossTold'[Reader(v)] >= lossTold[Reader(v)]
    BY ReaderTyped DEF Moves, HookInv, ClockInv
  <2>2. IsRun(q) /\ now' = now /\ aged' = aged
    BY <2>0 DEF RunOk, Moves
  <2>3. \A v \in Writers : q.read[v].answeredAt <= now' /\ q.read[v].toldLossAt <= lossTold'[Reader(v)]
    <3> SUFFICES ASSUME NEW v \in Writers
                 PROVE  q.read[v].answeredAt <= now' /\ q.read[v].toldLossAt <= lossTold'[Reader(v)]
      OBVIOUS
    <3>1. q.read[v].answeredAt <= now /\ q.read[v].toldLossAt <= lossTold[Reader(v)]
      BY <2>0 DEF RunOk
    <3>2. q.read[v].toldLossAt \in Nat
      BY <2>2 DEF IsRun, IsNotes
    <3> QED
      BY <3>1, <3>2, <2>1, <2>2
  <2>4. x \in Agents => CursorOk(x, q.read[x])'
    BY <2>0 DEF RunOk, CursorOk, Moves
  <2>5. OwnRead(x, q)'
    BY <2>0 DEF RunOk, OwnRead, Moves
  <2>6. KnowsAnswer(q)'
    <3> SUFFICES ASSUME aged = {}, q.answered # Never
                 PROVE  \E v \in Writers : IF v \in q.left THEN memory'[v].answeredAt >= q.answered
                                                           ELSE q.read[v].answeredAt >= q.answered
      BY <2>2 DEF KnowsAnswer
    <3>1. PICK v \in Writers : IF v \in q.left THEN memory[v].answeredAt >= q.answered ELSE q.read[v].answeredAt >= q.answered
      BY <2>0 DEF RunOk, KnowsAnswer
    <3>2. memory'[v].answeredAt \in Nat /\ memory'[v].answeredAt >= memory[v].answeredAt /\ memory[v].answeredAt \in Nat
      BY DEF Moves, HookInv, FileInv, IsFile
    <3> QED
      BY <3>1, <3>2, <2>2 DEF IsRun
  <2>7. aged' = {} /\ q.silent => lossTold'[Reader(x)] > q.answered
    BY <2>0, <2>1, <2>2 DEF RunOk, IsRun
  <2> QED
    BY <2>0, <2>2, <2>3, <2>4, <2>5, <2>6, <2>7 DEF RunOk
<1>3. \A x \in Writers \ {w} : RunOk(x, hookRun[x])' 
  <2> SUFFICES ASSUME NEW x \in Writers \ {w} PROVE RunOk(x, hookRun[x])'
    OBVIOUS
  <2>1. PICK q : q = hookRun[x]
    OBVIOUS
  <2>2. RunOk(x, q)' /\ hookRun'[x] = q
    BY <1>1, <1>2, <2>1
  <2> QED
    BY <2>2
<1>4. RunOk(w, hookRun[w])'
  BY <1>1
<1>5. RunsInv'
  BY <1>1, <1>3, <1>4 DEF RunsInv
<1> QED
  BY <1>5 DEF HookInv

\* A step that changes only the writer's own run.
LEMMA OwnStepOk ==
    ASSUME HookInv, NEW w \in Writers, NEW r, hookRun' = [hookRun EXCEPT ![w] = r], RunOk(w, r),
           UNCHANGED <<now, memory, journal, edited, aged, lossTold, reported>>
    PROVE  HookInv'
<1>1. ClockInv' /\ FileInv'
  BY DEF HookInv, ClockInv, FileInv, CursorOk, Expired, ExpiredAt
<1>2. Moves(w)
  BY DEF Moves, HookInv, ClockInv, FileInv, IsFile
<1>3. RunOk(w, r)'
  BY DEF RunOk, OwnRead, KnowsAnswer, CursorOk
<1> QED
  BY <1>1, <1>2, <1>3, StepOk

LEMMA EndsOk ==
    ASSUME HookInv, NEW w \in Writers, Ends(w),
           UNCHANGED <<now, memory, journal, edited, aged, lossTold, reported>>
    PROVE  HookInv'
<1>1. PICK r : r = NewRun
  OBVIOUS
<1>2. RunOk(w, r)
  BY <1>1, NewRunOk DEF HookInv
<1> QED
  BY <1>1, <1>2, OwnStepOk DEF Ends

LEMMA EndingsOk ==
    ASSUME HookInv, NEW w \in Writers, AsksNothing(w) \/ EndSilent(w) \/ Deadline(w)
    PROVE  HookInv'
BY EndsOk DEF AsksNothing, EndSilent, Deadline

\* Of finitely late times there is a latest.
LEMMA LatestIs ==
    ASSUME NEW T \in SUBSET Nat, T # {}, NEW b \in Nat, \A m \in T : m <= b
    PROVE  Latest(T) \in T /\ \A m \in T : m <= Latest(T)
<1> DEFINE Above == {n \in Nat : \A m \in T : m <= n}
<1>1. IsWellFoundedOn(OpToRel(<, Nat), Nat)
  BY NatLessThanWellFounded, Zenon
<1>2. \E n \in Above : \A m \in Above : ~(<<m, n>> \in OpToRel(<, Nat))
  <2>1. b \in Above /\ Above \subseteq Nat
    OBVIOUS
  <2> HIDE DEF Above
  <2> QED
    BY <1>1, <2>1, WFMin, Zenon
<1>3. PICK n \in Above : \A m \in Above : ~(m < n)
  BY <1>2 DEF OpToRel
<1>4. n \in T
  <2> SUFFICES ASSUME n \notin T PROVE FALSE
    OBVIOUS
  <2>1. PICK m \in T : TRUE
    OBVIOUS
  <2>2. n - 1 \in Nat /\ \A k \in T : k <= n - 1
    BY <2>1
  <2> QED
    BY <2>2, <1>3
<1>5. \A m \in T : m <= n
  OBVIOUS
<1> QED
  BY <1>4, <1>5 DEF Latest

LEMMA BeginRunOk ==
    ASSUME HookInv, NEW w \in Writers, BeginRun(w)
    PROVE  HookInv'
<1> DEFINE times == {Never} \cup {memory[v].answeredAt : v \in Listed}
<1>1. PICK named \in BatchEdits(w) :
          hookRun' = [hookRun EXCEPT ![w] = [NewRun EXCEPT !.phase = Begun(named, Listed), !.start = now, !.left = Listed,
                          !.named = named, !.answered = Latest(times)]]
  BY DEF BeginRun
<1>2. PICK r : r = [NewRun EXCEPT !.phase = Begun(named, Listed), !.start = now, !.left = Listed,
                                  !.named = named, !.answered = Latest(times)]
  OBVIOUS
<1>3. Latest(times) \in times /\ \A m \in times : m <= Latest(times)
  <2>1. times \subseteq Nat /\ times # {} /\ now \in Nat /\ \A m \in times : m <= now
    BY DEF HookInv, FileInv, ClockInv, IsFile, Listed, Never
  <2> HIDE DEF times
  <2> QED
    BY <2>1, LatestIs
<1>4. Latest(times) \in Nat /\ (Latest(times) = Never \/ \E v \in Listed : memory[v].answeredAt = Latest(times))
  <2>1. \A v \in Listed : memory[v].answeredAt \in Nat
    BY DEF HookInv, FileInv, IsFile, Listed
  <2>2. Never \in Nat
    BY DEF Never
  <2>3. Latest(times) \in {Never} \cup {memory[v].answeredAt : v \in Listed}
    BY <1>3
  <2> HIDE DEF times
  <2> QED
    BY <2>1, <2>2, <2>3
<1> HIDE DEF times
<1>5. r = [phase |-> Begun(named, Listed), start |-> now, left |-> Listed, read |-> [v \in Writers |-> NoMemory],
           named |-> named, unsaved |-> Never, asked |-> {}, prune |-> {}, target |-> None, silent |-> FALSE,
           answered |-> Latest(times)]
  BY <1>2 DEF NewRun
<1>6. RunOk(w, r)
  <2>1. IsRun(r)
    BY <1>4, <1>5 DEF IsRun, RunFields, Begun, Listed, Phases, IsNotes, NoMemory, Never, HookInv, ClockInv
  <2>2. r.phase # "reading" => r.left = {}
    BY <1>5 DEF Begun
  <2>3. \A v \in Writers : r.read[v] = NoMemory /\ lossTold[Reader(v)] \in Nat
    BY <1>5, ReaderTyped DEF HookInv, ClockInv
  <2>4. \A v \in Writers : r.read[v].answeredAt <= now /\ r.read[v].toldLossAt <= lossTold[Reader(v)]
    BY <2>3 DEF NoMemory, Never, HookInv, ClockInv
  <2>5. w \in Agents => CursorOk(w, r.read[w])
    BY <2>3 DEF CursorOk, NoMemory
  <2>6. OwnRead(w, r)
    <3>1. w \notin Listed => memory[w] = NoFile
      BY DEF Listed, HookInv, FileInv
    <3>2. w \notin r.left => memory[w].answeredAt = Never /\ memory[w].paths = <<>>
      BY <3>1, <1>5 DEF NoFile, FileWith, NoMemory
    <3>3. r.read[w].answeredAt = Never /\ r.read[w].paths = <<>> /\ r.unsaved = Never
      BY <2>3, <1>5 DEF NoMemory
    <3> QED
      BY <3>2, <3>3 DEF OwnRead
  <2>7. KnowsAnswer(r)
    BY <1>4, <1>5 DEF KnowsAnswer, Listed
  <2>8. r.start = now /\ r.unsaved = Never /\ r.silent = FALSE /\ r.phase \in {"reading", "remembering", "asking"}
    BY <1>5 DEF Begun
  <2>9. r.start <= now
    BY <2>8 DEF HookInv, ClockInv
  <2> QED
    BY <2>1, <2>2, <2>4, <2>5, <2>6, <2>7, <2>8, <2>9 DEF RunOk
<1> QED
  BY <1>1, <1>2, <1>6, OwnStepOk DEF BeginRun

\* What a file not expired at the run's start holds is read as it is; an expired one is known to be.
LEMMA ReadIs ==
    ASSUME HookInv, NEW v \in Writers, NEW start \in Nat, start <= now
    PROVE  /\ IsNotes(ReadMemory(memory[v], start))
           /\ ReadMemory(memory[v], start) = NoMemory \/ ReadMemory(memory[v], start) = MemoryIn(memory[v])
           /\ v \notin aged => ReadMemory(memory[v], start) = MemoryIn(memory[v])
<1>1. IsFile(memory[v]) /\ (Expired(memory[v]) => v \in aged)
  BY DEF HookInv, FileInv
<1>2. ExpiredAt(memory[v], start) => Expired(memory[v])
  BY <1>1, HookAssumption DEF ExpiredAt, Expired, IsFile, HookInv, ClockInv
<1>3. IsNotes(NoMemory) /\ IsNotes(MemoryIn(memory[v]))
  BY <1>1 DEF IsNotes, IsFile, NoMemory, MemoryIn, Never
<1> QED
  BY <1>1, <1>2, <1>3 DEF ReadMemory

LEMMA ReadFileOk ==
    ASSUME HookInv, NEW w \in Writers, ReadFile(w)
    PROVE  HookInv'
<1>0. RunOk(w, hookRun[w]) /\ hookRun[w].phase = "reading"
  BY DEF HookInv, RunsInv, ReadFile
<1>1. PICK v \in hookRun[w].left :
          hookRun' = [hookRun EXCEPT ![w].read[v] = ReadMemory(memory[v], hookRun[w].start), ![w].left = @ \ {v},
                                     ![w].phase = Begun(hookRun[w].named, hookRun[w].left \ {v})]
  BY DEF ReadFile
<1>2. PICK old : old = hookRun[w]
  OBVIOUS
<1>3. PICK m : m = ReadMemory(memory[v], old.start)
  OBVIOUS
<1>4. PICK r : r = [old EXCEPT !.read[v] = m, !.left = @ \ {v}, !.phase = Begun(old.named, old.left \ {v})]
  OBVIOUS
<1>5. RunOk(w, old) /\ IsRun(old) /\ v \in Writers /\ old.phase = "reading" /\ old.unsaved = Never
  BY <1>0, <1>2 DEF RunOk, IsRun
<1>6. hookRun' = [hookRun EXCEPT ![w] = r]
  BY <1>1, <1>2, <1>3, <1>4
<1>a. /\ DOMAIN r = RunFields /\ r.read = [old.read EXCEPT ![v] = m] /\ r.left = old.left \ {v}
      /\ r.phase = Begun(old.named, old.left \ {v}) /\ r.start = old.start /\ r.unsaved = old.unsaved
      /\ r.silent = old.silent /\ r.answered = old.answered /\ r.prune = old.prune
  BY <1>4, <1>5 DEF IsRun, RunFields
<1>7. /\ IsNotes(m) /\ (m = NoMemory \/ m = MemoryIn(memory[v])) /\ (v \notin aged => m = MemoryIn(memory[v]))
      /\ old.start \in Nat /\ old.start <= now
  <2>1. old.start \in Nat /\ old.start <= now
    BY <1>5 DEF RunOk, IsRun
  <2> QED
    BY <1>3, <1>5, <2>1, ReadIs
<1>8. r.read[v] = m /\ \A x \in Writers \ {v} : r.read[x] = old.read[x]
  BY <1>a, <1>5 DEF IsRun
<1>9. /\ r.phase \in {"reading", "remembering", "asking"} /\ (r.phase # "reading" => r.left = {}) /\ r.left = old.left \ {v}
      /\ r.start = old.start /\ r.unsaved = Never /\ r.silent = old.silent /\ r.answered = old.answered
  BY <1>a, <1>5 DEF Begun
<1>10. RunOk(w, r)
  <2>1. IsRun(r)
    <3>1. r.read = [x \in Writers |-> r.read[x]] /\ \A x \in Writers : IsNotes(r.read[x])
      BY <1>a, <1>5, <1>7, <1>8 DEF IsRun
    <3>2. r.start \in Nat /\ r.left \subseteq Writers /\ r.unsaved \in Nat /\ r.prune \subseteq Writers /\ r.answered \in Nat /\ r.phase \in Phases
      BY <1>a, <1>5, <1>9 DEF IsRun, Phases
    <3> QED
      BY <1>a, <3>1, <3>2 DEF IsRun
  <2>2. \A x \in Writers : r.read[x].answeredAt <= now /\ r.read[x].toldLossAt <= lossTold[Reader(x)]
    <3>1. m.answeredAt <= now /\ m.toldLossAt <= lossTold[Reader(v)]
      <4>1. lossTold[Reader(v)] \in Nat
        BY <1>5, ReaderTyped DEF HookInv, ClockInv
      <4> QED
        BY <4>1, <1>5, <1>7 DEF MemoryIn, NoMemory, Never, HookInv, FileInv, ClockInv
    <3> QED
      BY <3>1, <1>5, <1>8 DEF RunOk
  <2>3. w \in Agents => CursorOk(w, r.read[w])
    BY <1>5, <1>7, <1>8 DEF CursorOk, RunOk, HookInv, FileInv, MemoryIn, NoMemory
  <2>4. OwnRead(w, r)
    <3> SUFFICES ASSUME w \notin aged, w \notin r.left
                 PROVE  r.read[w].answeredAt = memory[w].answeredAt /\ r.read[w].paths = memory[w].paths
      BY <1>9 DEF OwnRead
    <3>1. CASE v = w
      BY <3>1, <1>7, <1>8 DEF MemoryIn
    <3>2. CASE v # w
      BY <3>2, <1>5, <1>8, <1>9 DEF RunOk, OwnRead
    <3> QED
      BY <3>1, <3>2
  <2>5. KnowsAnswer(r)
    <3> SUFFICES ASSUME aged = {}, old.answered # Never
                 PROVE  \E x \in Writers : IF x \in r.left THEN memory[x].answeredAt >= r.answered
                                                           ELSE r.read[x].answeredAt >= r.answered
      BY <1>9 DEF KnowsAnswer
    <3>1. PICK x \in Writers : IF x \in old.left THEN memory[x].answeredAt >= old.answered ELSE old.read[x].answeredAt >= old.answered
      BY <1>5 DEF RunOk, KnowsAnswer
    <3>2. CASE x = v
      <4>1. r.read[v].answeredAt = memory[v].answeredAt
        BY <3>2, <1>7, <1>8 DEF MemoryIn
      <4>2. v \in old.left /\ r.left = old.left \ {v} /\ r.answered = old.answered
        BY <1>1, <1>2, <1>9
      <4>3. memory[v].answeredAt >= r.answered /\ v \notin r.left
        BY <3>1, <3>2, <4>2
      <4> QED
        BY <4>1, <4>3, <1>5, <3>2
    <3>3. CASE x # v
      <4>1. (x \in r.left <=> x \in old.left) /\ r.read[x] = old.read[x] /\ r.answered = old.answered
        BY <3>3, <1>8, <1>9
      <4> QED
        BY <3>1, <4>1
    <3> QED
      BY <3>2, <3>3
  <2>6. aged = {} /\ r.silent => lossTold[Reader(w)] > r.answered
    BY <1>5, <1>9 DEF RunOk
  <2> QED
    BY <2>1, <2>2, <2>3, <2>4, <2>5, <2>6, <1>7, <1>9 DEF RunOk
<1> QED
  BY <1>6, <1>10, OwnStepOk DEF ReadFile

\* A step that changes only what does not bear on what a run knows.
LEMMA SameKnown ==
    ASSUME NEW w \in Writers, NEW old, NEW r, RunOk(w, old), IsRun(r), old.phase # "none",
           r.phase \notin {"reading", "remembering"}, r.left = old.left, r.read = old.read, r.start = old.start,
           r.named = old.named, r.unsaved = old.unsaved, r.answered = old.answered, r.left = {},
           r.phase = "unlinking" => r.target \in aged,
           aged = {} /\ r.silent => lossTold[Reader(w)] > r.answered
    PROVE  RunOk(w, r)
BY DEF RunOk, OwnRead, KnowsAnswer

\* A step that changes only a run's phase, and what it prunes, asks about and says.
LEMMA PlainOk ==
    ASSUME HookInv, NEW w \in Writers, NEW old, old = hookRun[w], NEW r, hookRun' = [hookRun EXCEPT ![w] = r],
           DOMAIN r = DOMAIN old, r.start = old.start, r.left = old.left, r.read = old.read, r.named = old.named,
           r.unsaved = old.unsaved, r.answered = old.answered,
           old.phase \notin {"none", "reading"}, r.phase \in Phases \ {"reading", "remembering"}, r.prune \subseteq Writers,
           r.phase = "unlinking" => r.target \in aged,
           aged = {} /\ r.silent => lossTold[Reader(w)] > old.answered,
           UNCHANGED <<now, memory, journal, edited, aged, lossTold, reported>>
    PROVE  HookInv'
<1>2. RunOk(w, old)
  BY DEF HookInv, RunsInv
<1>3. IsRun(r)
  BY <1>2 DEF RunOk, IsRun
<1>5. old.left = {}
  BY <1>2 DEF RunOk
<1>6. RunOk(w, r)
  BY <1>2, <1>3, <1>5, SameKnown
<1> QED
  BY <1>6, OwnStepOk

LEMMA RunIs ==
    ASSUME HookInv, NEW w \in Writers
    PROVE  RunOk(w, hookRun[w]) /\ IsRun(hookRun[w])
BY DEF HookInv, RunsInv, RunOk

LEMMA PruneStatOk ==
    ASSUME HookInv, NEW w \in Writers, PruneStat(w)
    PROVE  HookInv'
<1>1. UNCHANGED <<now, memory, journal, edited, aged, lossTold, reported>>
  BY DEF PruneStat
<1>2. PICK old : old = hookRun[w]
  OBVIOUS
<1>3. RunOk(w, old) /\ IsRun(old) /\ old.phase = "pruning"
  BY <1>2, RunIs DEF PruneStat
<1>4. PICK v \in old.prune :
          hookRun' = IF Expired(memory[v])
                     THEN [hookRun EXCEPT ![w].phase = "unlinking", ![w].target = v]
                     ELSE [hookRun EXCEPT ![w].prune = @ \ {v}, ![w].phase = Pruning(old.prune \ {v})]
  BY <1>2 DEF PruneStat
<1>5. v \in Writers /\ old.prune \subseteq Writers /\ (aged = {} /\ old.silent => lossTold[Reader(w)] > old.answered)
  BY <1>3, <1>4 DEF RunOk, IsRun
<1>6. CASE Expired(memory[v])
  <2>1. PICK r : r = [old EXCEPT !.phase = "unlinking", !.target = v]
    OBVIOUS
  <2>2. hookRun' = [hookRun EXCEPT ![w] = r]
    BY <1>2, <1>4, <1>6, <2>1
  <2>3. /\ DOMAIN r = DOMAIN old /\ r.phase = "unlinking" /\ r.target = v /\ r.start = old.start /\ r.left = old.left
        /\ r.read = old.read /\ r.named = old.named /\ r.unsaved = old.unsaved /\ r.answered = old.answered
        /\ r.prune = old.prune /\ r.silent = old.silent
    BY <1>3, <2>1 DEF IsRun, RunFields
  <2>4. v \in aged
    BY <1>5, <1>6 DEF HookInv, FileInv
  <2> QED
    BY <1>1, <1>2, <1>3, <1>5, <2>2, <2>3, <2>4, PlainOk DEF Phases
<1>7. CASE ~Expired(memory[v])
  <2>1. PICK r : r = [old EXCEPT !.prune = @ \ {v}, !.phase = Pruning(old.prune \ {v})]
    OBVIOUS
  <2>2. hookRun' = [hookRun EXCEPT ![w] = r]
    BY <1>2, <1>4, <1>7, <2>1
  <2>3. /\ DOMAIN r = DOMAIN old /\ r.phase = Pruning(old.prune \ {v}) /\ r.start = old.start /\ r.left = old.left
        /\ r.read = old.read /\ r.named = old.named /\ r.unsaved = old.unsaved /\ r.answered = old.answered
        /\ r.prune = old.prune \ {v} /\ r.silent = old.silent
    BY <1>3, <2>1 DEF IsRun, RunFields
  <2>4. r.phase \in Phases \ {"reading", "remembering", "unlinking"}
    BY <2>3 DEF Pruning, Phases
  <2> QED
    BY <1>1, <1>2, <1>3, <1>5, <2>2, <2>3, <2>4, PlainOk
<1> QED
  BY <1>6, <1>7

LEMMA AskRetriesOk ==
    ASSUME HookInv, NEW w \in Writers, AskRetries(w)
    PROVE  HookInv'
<1>1. UNCHANGED <<now, memory, journal, edited, aged, lossTold, reported>>
  BY DEF AskRetries
<1>2. PICK old : old = hookRun[w]
  OBVIOUS
<1>3. RunOk(w, old) /\ IsRun(old) /\ old.phase = "asking"
  BY <1>2, RunIs DEF AskRetries
<1>4. PICK r : r = [old EXCEPT !.phase = "retrying", !.asked = Unusable(old)]
  OBVIOUS
<1>5. hookRun' = [hookRun EXCEPT ![w] = r]
  BY <1>2, <1>4 DEF AskRetries
<1>6. /\ DOMAIN r = DOMAIN old /\ r.phase = "retrying" /\ r.start = old.start /\ r.left = old.left
      /\ r.read = old.read /\ r.named = old.named /\ r.unsaved = old.unsaved /\ r.answered = old.answered
      /\ r.prune = old.prune /\ r.silent = old.silent
  BY <1>3, <1>4 DEF IsRun, RunFields
<1>7. old.prune \subseteq Writers /\ (aged = {} /\ old.silent => lossTold[Reader(w)] > old.answered)
  BY <1>3 DEF RunOk, IsRun
<1> QED
  BY <1>1, <1>2, <1>3, <1>5, <1>6, <1>7, PlainOk DEF Phases

---------------------------------------------------------------------------
\* A step that saves a writer's memory, and may remove files known to be past the age.
SavesNotes(w, m) ==
    /\ memory' = [v \in Writers |-> memory'[v]] /\ memory'[w] = FileWith(m, now)
    /\ \A v \in Writers \ {w} : memory'[v] = memory[v] \/ (memory'[v] = NoFile /\ v \in aged)

LEMMA SavedOk ==
    ASSUME HookInv, NEW w \in Writers, NEW m, SavesNotes(w, m), ClockInv', now' = now, aged' = aged,
           IsNotes(m), m.answeredAt <= now, m.toldLossAt <= lossTold'[Reader(w)],
           aged = {} => m.answeredAt >= memory[w].answeredAt,
           \A x \in Agents \cup {TurnEnds} : lossTold'[x] >= lossTold[x],
           \A a \in Agents : a # w => reported'[a] = reported[a] /\ edited'[a] = edited[a],
           w \in Agents => CursorOk(w, m)',
           w \in Agents \ aged => edited'[w] = m.paths
    PROVE  FileInv' /\ Moves(w)
<1>0. ClockInv /\ FileInv /\ now \in Nat \ {0}
  BY DEF HookInv, ClockInv
<1>1. \A v \in Writers : lossTold'[Reader(v)] \in Nat /\ lossTold[Reader(v)] \in Nat /\ lossTold'[Reader(v)] >= lossTold[Reader(v)]
  BY <1>0, ReaderTyped DEF ClockInv
<1>2. /\ memory'[w].paths = m.paths /\ memory'[w].cursor = m.cursor /\ memory'[w].toldLossAt = m.toldLossAt
      /\ memory'[w].answeredAt = m.answeredAt /\ memory'[w].mtime = now
  BY DEF SavesNotes, FileWith
<1>3. ASSUME NEW v \in Writers
      PROVE  /\ IsFile(memory'[v]) /\ memory'[v].mtime <= now' /\ memory'[v].answeredAt <= now'
             /\ memory'[v].toldLossAt <= lossTold'[Reader(v)]
             /\ Expired(memory[v])' => v \in aged'
             /\ ~Exists(memory'[v]) => memory'[v] = NoFile
             /\ v \in Agents => CursorOk(v, memory[v])'
  <2>1. CASE v = w
    <3>1. IsFile(memory'[v]) /\ memory'[v].mtime <= now' /\ memory'[v].answeredAt <= now' /\ memory'[v].toldLossAt <= lossTold'[Reader(v)]
      BY <2>1, <1>0, <1>2 DEF IsFile, IsNotes
    <3>2. ~Expired(memory[v])' /\ Exists(memory'[v])
      BY <2>1, <1>0, <1>2, HookAssumption DEF Expired, ExpiredAt, Exists, Never
    <3>3. v \in Agents => CursorOk(v, memory[v])'
      BY <2>1, <1>2 DEF CursorOk
    <3> QED
      BY <3>1, <3>2, <3>3
  <2>2. CASE v # w /\ memory'[v] = memory[v]
    <3>1. /\ IsFile(memory[v]) /\ memory[v].mtime <= now /\ memory[v].answeredAt <= now /\ memory[v].toldLossAt <= lossTold[Reader(v)]
          /\ (Expired(memory[v]) => v \in aged) /\ (~Exists(memory[v]) => memory[v] = NoFile)
          /\ (v \in Agents => CursorOk(v, memory[v]))
      BY <1>0 DEF FileInv
    <3>2. Expired(memory[v])' => v \in aged'
      BY <3>1, <2>2 DEF Expired, ExpiredAt
    <3>3. v \in Agents => CursorOk(v, memory[v])'
      BY <3>1, <2>2 DEF CursorOk
    <3>4. memory'[v].toldLossAt <= lossTold'[Reader(v)]
      BY <3>1, <2>2, <1>1 DEF IsFile
    <3> QED
      BY <3>1, <3>2, <3>3, <3>4, <2>2
  <2>3. CASE v # w /\ memory'[v] = NoFile
    <3>1. /\ memory'[v].mtime = 0 /\ memory'[v].answeredAt = 0 /\ memory'[v].toldLossAt = 0 /\ memory'[v].cursor = None
      BY <2>3 DEF NoFile, FileWith, NoMemory, Never
    <3> QED
      BY <3>1, <2>3, <1>0, <1>1 DEF IsFile, Expired, ExpiredAt, Exists, Never, CursorOk
  <2> QED
    BY <2>1, <2>2, <2>3 DEF SavesNotes
<1>4. \A a \in Agents \ aged' : memory'[a].paths = edited'[a]
  BY <1>0, <1>2 DEF SavesNotes, FileInv, Writers
<1>5. FileInv'
  BY <1>3, <1>4 DEF FileInv, SavesNotes
<1>6. Moves(w)
  <2>1. ASSUME NEW v \in Writers, aged = {}
        PROVE  memory'[v].answeredAt \in Nat /\ memory'[v].answeredAt >= memory[v].answeredAt
    <3>1. CASE v = w
      BY <3>1, <2>1, <1>2 DEF IsNotes
    <3>2. CASE v # w
      <4>1. memory'[v] = memory[v] /\ memory[v].answeredAt \in Nat
        BY <3>2, <2>1, <1>0 DEF SavesNotes, FileInv, IsFile
      <4> QED
        BY <4>1
    <3> QED
      BY <3>1, <3>2
  <2>2. \A v \in Writers : v # w /\ v \notin aged => memory'[v] = memory[v]
    BY DEF SavesNotes
  <2>3. \A x \in Agents \cup {TurnEnds} : lossTold'[x] \in Nat
    BY DEF ClockInv
  <2> QED
    BY <2>1, <2>2, <2>3 DEF Moves
<1> QED
  BY <1>5, <1>6

\* The same of the state a step leads to.
LEMMA NewRunNext ==
    ASSUME ClockInv', NEW w \in Writers, NEW r, r = NewRun
    PROVE  RunOk(w, r)'
<1>1. IsRun(r)
  BY DEF IsRun, RunFields, NewRun, IsNotes, NoMemory, Never, Phases
<1>2. \A v \in Writers : lossTold'[Reader(v)] \in Nat
  BY ReaderTyped DEF ClockInv
<1>3. /\ r.start = 0 /\ r.left = {} /\ r.unsaved = 0 /\ r.phase = "none" /\ r.silent = FALSE /\ r.answered = 0
      /\ \A v \in Writers : r.read[v].answeredAt = 0 /\ r.read[v].toldLossAt = 0 /\ r.read[v].cursor = None
  BY DEF NewRun, NoMemory, Never
<1> QED
  BY <1>1, <1>2, <1>3 DEF RunOk, ClockInv, Never, OwnRead, KnowsAnswer, CursorOk

LEMMA SavesLastIs ==
    ASSUME HookInv, NEW w \in Writers, NEW m, SavesLast(w, m)
    PROVE  SavesNotes(w, m)
BY DEF SavesLast, SavesNotes, MemoryFileOf, HookInv, FileInv

LEMMA RememberOk ==
    ASSUME HookInv, NEW w \in Writers, Remember(w)
    PROVE  HookInv'
<1>1. PICK old : old = hookRun[w]
  OBVIOUS
<1>2. RunOk(w, old) /\ IsRun(old) /\ old.phase = "remembering" /\ old.left = {} /\ old.unsaved = Never
  BY <1>1, RunIs DEF Remember, RunOk
<1>3. IsNotes(old.read[w]) /\ old.read[w].answeredAt <= now /\ old.read[w].toldLossAt <= lossTold[Reader(w)]
  BY <1>2 DEF RunOk, IsRun
<1>4. PICK m : m = [old.read[w] EXCEPT !.paths = WithEdits(@, old.named, now)]
  OBVIOUS
<1>5. /\ m.paths = WithEdits(old.read[w].paths, old.named, now) /\ m.cursor = old.read[w].cursor
      /\ m.toldLossAt = old.read[w].toldLossAt /\ m.answeredAt = old.read[w].answeredAt /\ IsNotes(m)
  BY <1>3, <1>4 DEF IsNotes
<1>6. UNCHANGED <<now, journal, aged, lossTold, reported>>
  BY DEF Remember
<1>7. w \notin aged => old.read[w].answeredAt = memory[w].answeredAt /\ old.read[w].paths = memory[w].paths
  BY <1>2 DEF RunOk, OwnRead
<1>8. now \in Nat \ {0}
  BY DEF HookInv, ClockInv
<1>9. ASSUME NEW r, DOMAIN r = RunFields, r.phase \in {"asking", "pruning"}, r.read = [old.read EXCEPT ![w] = m],
             r.start = old.start, r.left = old.left, r.named = old.named, r.answered = old.answered, r.silent = old.silent,
             r.unsaved \in {Never, now}, r.prune \subseteq Writers
      PROVE  /\ IsRun(r) /\ r.start <= now /\ r.left = {} /\ r.phase \in {"asking", "pruning"}
             /\ \A v \in Writers : /\ r.read[v].answeredAt <= now /\ r.read[v].toldLossAt <= lossTold[Reader(v)]
                                   /\ r.read[v].answeredAt = old.read[v].answeredAt
             /\ r.read[w] = m /\ (w \in Agents => CursorOk(w, r.read[w]))
             /\ aged = {} /\ r.silent => lossTold[Reader(w)] > r.answered
             /\ aged = {} => r.answered = Never \/ \E v \in Writers : r.read[v].answeredAt >= r.answered
  <2>1. r.read[w] = m /\ \A v \in Writers \ {w} : r.read[v] = old.read[v]
    BY <1>9, <1>2 DEF IsRun
  <2>2. r.read = [v \in Writers |-> r.read[v]]
    BY <1>9, <1>2 DEF IsRun
  <2>3. \A v \in Writers : IsNotes(r.read[v])
    BY <2>1, <1>2, <1>5 DEF IsRun
  <2>4. IsRun(r)
    BY <2>2, <2>3, <1>2, <1>8, <1>9 DEF IsRun, Phases, Never
  <2>5. \A v \in Writers : r.read[v].answeredAt = old.read[v].answeredAt
    BY <2>1, <1>5
  <2>6. \A v \in Writers : r.read[v].answeredAt <= now /\ r.read[v].toldLossAt <= lossTold[Reader(v)]
    BY <2>1, <1>2, <1>3, <1>5 DEF RunOk
  <2>7. w \in Agents => CursorOk(w, r.read[w])
    BY <2>1, <1>2, <1>5 DEF RunOk, CursorOk
  <2>8. aged = {} => old.answered = Never \/ \E v \in Writers : old.read[v].answeredAt >= old.answered
    BY <1>2 DEF RunOk, KnowsAnswer
  <2>9. aged = {} => r.answered = Never \/ \E v \in Writers : r.read[v].answeredAt >= r.answered
    BY <2>5, <2>8, <1>9
  <2>10. r.start <= now /\ (aged = {} /\ old.silent => lossTold[Reader(w)] > old.answered)
    BY <1>2, <1>9 DEF RunOk
  <2> QED
    BY <2>1, <2>4, <2>5, <2>6, <2>7, <2>9, <2>10, <1>2, <1>9
<1>10. CASE /\ Saves(w, m) /\ edited' = [edited EXCEPT ![w] = WithEdits(@, old.named, now)]
            /\ hookRun' = [hookRun EXCEPT ![w].phase = Pruning(ToPrune(w)), ![w].read[w] = m, ![w].prune = ToPrune(w)]
  <2>1. PICK r : r = [old EXCEPT !.phase = Pruning(ToPrune(w)), !.read[w] = m, !.prune = ToPrune(w)]
    OBVIOUS
  <2>2. hookRun' = [hookRun EXCEPT ![w] = r]
    BY <1>1, <1>10, <2>1
  <2>3. /\ DOMAIN r = RunFields /\ r.phase = Pruning(ToPrune(w)) /\ r.read = [old.read EXCEPT ![w] = m] /\ r.start = old.start
        /\ r.left = old.left /\ r.named = old.named /\ r.answered = old.answered /\ r.silent = old.silent
        /\ r.unsaved = old.unsaved /\ r.prune = ToPrune(w)
    BY <1>2, <2>1 DEF IsRun, RunFields
  <2>4. r.phase \in {"asking", "pruning"} /\ r.prune \subseteq Writers /\ r.unsaved = Never
    BY <2>3, <1>2 DEF Pruning, ToPrune, Listed
  <2>5. /\ IsRun(r) /\ r.start <= now /\ r.left = {}
        /\ \A v \in Writers : r.read[v].answeredAt <= now /\ r.read[v].toldLossAt <= lossTold[Reader(v)]
        /\ r.read[w] = m /\ (w \in Agents => CursorOk(w, r.read[w]))
        /\ aged = {} /\ r.silent => lossTold[Reader(w)] > r.answered
        /\ aged = {} => r.answered = Never \/ \E v \in Writers : r.read[v].answeredAt >= r.answered
    BY <1>9, <2>3, <2>4
  <2>6. SavesNotes(w, m)
    BY <1>10 DEF Saves, MemoryFileOf, SavesNotes, HookInv, FileInv
  <2>7. ClockInv'
    BY <1>6, <1>10 DEF HookInv, ClockInv
  <2>8. w \in Agents => CursorOk(w, m)'
    BY <2>5, <1>6 DEF CursorOk
  <2>9. /\ w \in Agents \ aged => edited'[w] = m.paths
        /\ \A a \in Agents : a # w => reported'[a] = reported[a] /\ edited'[a] = edited[a]
    BY <1>5, <1>6, <1>7, <1>10 DEF HookInv, ClockInv, FileInv, Writers
  <2>10. aged = {} => m.answeredAt >= memory[w].answeredAt
    BY <1>5, <1>7 DEF IsNotes
  <2>11. \A x \in Agents \cup {TurnEnds} : lossTold'[x] >= lossTold[x]
    BY <1>6 DEF HookInv, ClockInv
  <2>12. FileInv' /\ Moves(w)
    BY <2>6, <2>7, <2>8, <2>9, <2>10, <2>11, <1>3, <1>5, <1>6, SavedOk
  <2>13. memory'[w].answeredAt = m.answeredAt /\ memory'[w].paths = m.paths
    BY <2>6 DEF SavesNotes, FileWith
  <2>14. RunOk(w, r)'
    <3>1. OwnRead(w, r)'
      BY <2>4, <2>5, <2>13 DEF OwnRead
    <3>2. KnowsAnswer(r)'
      BY <2>5, <1>6 DEF KnowsAnswer
    <3> QED
      BY <3>1, <3>2, <2>4, <2>5, <2>8, <1>6 DEF RunOk
  <2> QED
    BY <2>2, <2>7, <2>12, <2>14, StepOk
<1>11. CASE /\ hookRun' = [hookRun EXCEPT ![w].phase = "asking", ![w].read[w] = m, ![w].unsaved = now]
            /\ UNCHANGED <<memory, edited>>
  <2>1. PICK r : r = [old EXCEPT !.phase = "asking", !.read[w] = m, !.unsaved = now]
    OBVIOUS
  <2>2. hookRun' = [hookRun EXCEPT ![w] = r]
    BY <1>1, <1>11, <2>1
  <2>3. /\ DOMAIN r = RunFields /\ r.phase = "asking" /\ r.read = [old.read EXCEPT ![w] = m] /\ r.start = old.start
        /\ r.left = old.left /\ r.named = old.named /\ r.answered = old.answered /\ r.silent = old.silent
        /\ r.unsaved = now /\ r.prune = old.prune
    BY <1>2, <2>1 DEF IsRun, RunFields
  <2>4. r.prune \subseteq Writers
    BY <2>3, <1>2 DEF IsRun
  <2>5. /\ IsRun(r) /\ r.start <= now /\ r.left = {}
        /\ \A v \in Writers : r.read[v].answeredAt <= now /\ r.read[v].toldLossAt <= lossTold[Reader(v)]
        /\ r.read[w] = m /\ (w \in Agents => CursorOk(w, r.read[w]))
        /\ aged = {} /\ r.silent => lossTold[Reader(w)] > r.answered
        /\ aged = {} => r.answered = Never \/ \E v \in Writers : r.read[v].answeredAt >= r.answered
    BY <1>9, <2>3, <2>4
  <2>6. OwnRead(w, r)
    BY <2>3, <2>5, <1>5, <1>7, <1>8 DEF OwnRead, Never
  <2>7. KnowsAnswer(r)
    BY <2>5 DEF KnowsAnswer
  <2>8. RunOk(w, r)
    BY <2>3, <2>5, <2>6, <2>7 DEF RunOk
  <2> QED
    BY <2>2, <2>8, <1>6, <1>11, OwnStepOk
<1> QED
  BY <1>1, <1>4, <1>10, <1>11 DEF Remember

LEMMA PruneUnlinkOk ==
    ASSUME HookInv, NEW w \in Writers, PruneUnlink(w)
    PROVE  HookInv'
<1>1. PICK old : old = hookRun[w]
  OBVIOUS
<1>2. RunOk(w, old) /\ IsRun(old) /\ old.phase = "unlinking" /\ old.left = {} /\ old.target \in aged
  BY <1>1, RunIs DEF PruneUnlink, RunOk
<1>3. UNCHANGED <<now, journal, edited, aged, lossTold, reported>>
  BY DEF PruneUnlink
<1>4. PICK v : v = old.target
  OBVIOUS
<1>5. PICK r : r = [old EXCEPT !.phase = Pruning(old.prune \ {v}), !.prune = @ \ {v}, !.target = None]
  OBVIOUS
<1>6. hookRun' = [hookRun EXCEPT ![w] = r]
  BY <1>1, <1>4, <1>5 DEF PruneUnlink
<1>7. /\ DOMAIN r = RunFields /\ r.phase = Pruning(old.prune \ {v}) /\ r.start = old.start /\ r.left = old.left
      /\ r.read = old.read /\ r.named = old.named /\ r.unsaved = old.unsaved /\ r.answered = old.answered
      /\ r.prune = old.prune \ {v} /\ r.silent = old.silent
  BY <1>2, <1>5 DEF IsRun, RunFields
<1>8. r.phase \in {"asking", "pruning"}
  BY <1>7 DEF Pruning
<1>9. memory' = [memory EXCEPT ![v] = NoFile] /\ v \in aged /\ v \in Writers
  BY <1>1, <1>2, <1>4 DEF PruneUnlink, HookInv, ClockInv
<1>10. ClockInv'
  BY <1>3 DEF HookInv, ClockInv
<1>11. memory' = [x \in Writers |-> memory'[x]] /\ memory'[v] = NoFile /\ \A x \in Writers \ {v} : memory'[x] = memory[x]
  BY <1>9 DEF HookInv, FileInv
<1>12. FileInv'
  <2>1. ASSUME NEW x \in Writers
        PROVE  /\ IsFile(memory'[x]) /\ memory'[x].mtime <= now' /\ memory'[x].answeredAt <= now'
               /\ memory'[x].toldLossAt <= lossTold'[Reader(x)]
               /\ Expired(memory[x])' => x \in aged'
               /\ ~Exists(memory'[x]) => memory'[x] = NoFile
               /\ x \in Agents => CursorOk(x, memory[x])'
    <3>1. CASE x = v
      <4>1. /\ memory'[x].mtime = 0 /\ memory'[x].answeredAt = 0 /\ memory'[x].toldLossAt = 0 /\ memory'[x].cursor = None
            /\ memory'[x] = NoFile /\ lossTold'[Reader(x)] \in Nat
        BY <3>1, <1>3, <1>11, ReaderTyped DEF NoFile, FileWith, NoMemory, Never, HookInv, ClockInv
      <4> QED
        BY <4>1, <1>10 DEF IsFile, Expired, ExpiredAt, Exists, Never, CursorOk, ClockInv
    <3>2. CASE x # v
      BY <3>2, <1>3, <1>11 DEF HookInv, FileInv, Expired, ExpiredAt, CursorOk
    <3> QED
      BY <3>1, <3>2
  <2>2. \A a \in Agents \ aged' : memory'[a].paths = edited'[a]
    BY <1>3, <1>9, <1>11 DEF HookInv, FileInv, Writers
  <2> QED
    BY <2>1, <2>2, <1>11 DEF FileInv
<1>13. Moves(w)
  BY <1>3, <1>9, <1>11 DEF Moves, HookInv, FileInv, ClockInv, IsFile
<1>14. RunOk(w, r)
  <2>1. IsRun(r)
    BY <1>2, <1>7, <1>8 DEF IsRun, Phases
  <2>2. aged = {} /\ r.silent => lossTold[Reader(w)] > old.answered
    BY <1>2, <1>7 DEF RunOk
  <2>3. old.phase # "none" /\ r.phase \notin {"reading", "remembering", "unlinking"}
    BY <1>2, <1>8
  <2> QED
    BY <1>2, <1>7, <2>1, <2>2, <2>3, SameKnown
<1>15. RunOk(w, r)'
  <2>1. OwnRead(w, r)'
    BY <1>3, <1>9, <1>11, <1>14 DEF RunOk, OwnRead
  <2>2. KnowsAnswer(r)'
    BY <1>3, <1>9, <1>14 DEF RunOk, KnowsAnswer
  <2> QED
    BY <2>1, <2>2, <1>3, <1>14 DEF RunOk, CursorOk
<1> QED
  BY <1>6, <1>10, <1>12, <1>13, <1>15, StepOk

---------------------------------------------------------------------------
\* What a run that has read its files knows of its writer's own.
LEMMA OwnKnown ==
    ASSUME HookInv, NEW w \in Writers, NEW old, old = hookRun[w], old.phase \in {"asking", "retrying"}
    PROVE  /\ IsNotes(old.read[w]) /\ old.read[w].answeredAt <= now /\ old.read[w].toldLossAt <= lossTold[Reader(w)]
           /\ old.left = {} /\ (w \in Agents => CursorOk(w, old.read[w]))
           /\ w \notin aged => old.read[w].answeredAt = memory[w].answeredAt
           /\ w \in Agents \ aged => old.read[w].paths = SavedSoFar(w)
<1>1. RunOk(w, old) /\ IsRun(old) /\ old.phase # "none" /\ old.phase # "reading"
  BY RunIs
<1>2. IsNotes(old.read[w])
  BY <1>1 DEF IsRun
<1>3. old.left = {} /\ old.read[w].answeredAt <= now /\ old.read[w].toldLossAt <= lossTold[Reader(w)] /\ OwnRead(w, old)
      /\ (w \in Agents => CursorOk(w, old.read[w]))
  BY <1>1 DEF RunOk
<1>4. w \in Agents \ aged => memory[w].paths = edited[w]
  BY DEF HookInv, FileInv
<1> QED
  BY <1>1, <1>2, <1>3, <1>4 DEF OwnRead, SavedSoFar

LEMMA AnsweredOk ==
    ASSUME HookInv, NEW w \in Writers, NEW old, old = hookRun[w], old.phase \in {"asking", "retrying"},
           NEW gone, Answered(w, gone), Ends(w), UNCHANGED <<now, aged, lossTold>>
    PROVE  HookInv'
<1>1. /\ IsNotes(old.read[w]) /\ old.read[w].answeredAt <= now /\ old.read[w].toldLossAt <= lossTold[Reader(w)]
      /\ (w \in Agents => CursorOk(w, old.read[w]))
      /\ w \in Agents \ aged => old.read[w].paths = SavedSoFar(w)
  BY OwnKnown
<1>2. PICK before : before = [old.read[w] EXCEPT !.paths = WithoutPaths(@, gone)]
  OBVIOUS
<1>3. /\ IsNotes(before) /\ before.paths = WithoutPaths(old.read[w].paths, gone) /\ before.cursor = old.read[w].cursor
      /\ before.toldLossAt = old.read[w].toldLossAt /\ before.answeredAt = old.read[w].answeredAt
  BY <1>1, <1>2 DEF IsNotes
<1> DEFINE Saved(last, answer, ok) ==
             LET m == IF w \in Agents THEN WithAnswer(before, answer) ELSE [old.read[w] EXCEPT !.answeredAt = now]
             IN  /\ IF ok THEN SavesLast(w, m) ELSE UNCHANGED memory
                 /\ edited' = IF ok /\ w \in Agents THEN [edited EXCEPT ![w] = WithoutPaths(SavedSoFar(w), gone)] ELSE edited
                 /\ reported' = IF w \in Agents /\ answer.determined THEN [reported EXCEPT ![w] = last] ELSE reported
                 /\ journal' = last
<1>a. PICK last \in journal..MaxChanges : \E answer \in Answers(before.cursor, last), ok \in BOOLEAN : Saved(last, answer, ok)
  BY <1>2 DEF Answered
<1>4. PICK answer \in Answers(before.cursor, last), ok \in BOOLEAN : Saved(last, answer, ok)
  BY <1>a
<1>5. PICK m : m = IF w \in Agents THEN WithAnswer(before, answer) ELSE [old.read[w] EXCEPT !.answeredAt = now]
  OBVIOUS
<1>6. now \in Nat \ {0} /\ journal \in Nat /\ last \in Nat /\ journal <= last /\ (\A a \in Agents : reported[a] \in Nat /\ reported[a] <= journal)
  BY HookAssumption DEF HookInv, ClockInv
<1>7. /\ IsNotes(m) /\ m.answeredAt = now /\ m.toldLossAt = old.read[w].toldLossAt
      /\ w \in Agents => /\ m.paths = WithoutPaths(old.read[w].paths, gone)
                         /\ m.cursor = IF answer.determined THEN answer.cursor ELSE old.read[w].cursor
  BY <1>1, <1>3, <1>5, <1>6 DEF IsNotes, WithAnswer
<1>8. ClockInv'
  <2>1. reported' \in [Agents -> Nat] /\ \A a \in Agents : reported'[a] <= journal'
    BY <1>4, <1>6 DEF HookInv, ClockInv
  <2>2. edited' = [a \in Agents |-> edited'[a]]
    BY <1>4 DEF HookInv, ClockInv
  <2> QED
    BY <2>1, <2>2, <1>4, <1>6 DEF HookInv, ClockInv
<1>9. \A a \in Agents : a # w => reported'[a] = reported[a] /\ edited'[a] = edited[a]
  BY <1>4
<1>10. PICK r : r = NewRun
  OBVIOUS
<1>11. hookRun' = [hookRun EXCEPT ![w] = r] /\ RunOk(w, r)'
  BY <1>8, <1>10, NewRunNext DEF Ends
<1>12. w \in Agents => reported'[w] = IF answer.determined THEN last ELSE reported[w]
  BY <1>4 DEF HookInv, ClockInv
<1>13. CASE ok
  <2>1. SavesNotes(w, m)
    BY <1>4, <1>5, <1>13, SavesLastIs
  <2>2. answer.determined => answer.cursor = last
    BY <1>4 DEF Answers
  <2>3. w \in Agents => CursorOk(w, m)'
    BY <2>2, <1>1, <1>6, <1>7, <1>12 DEF CursorOk
  <2>4. w \in Agents \ aged => edited'[w] = m.paths
    BY <1>1, <1>4, <1>7, <1>13 DEF HookInv, ClockInv
  <2>5. aged = {} => m.answeredAt >= memory[w].answeredAt
    BY <1>6, <1>7 DEF HookInv, FileInv
  <2>6. \A x \in Agents \cup {TurnEnds} : lossTold'[x] >= lossTold[x]
    BY DEF HookInv, ClockInv
  <2>7. m.answeredAt <= now /\ m.toldLossAt <= lossTold'[Reader(w)]
    BY <1>1, <1>6, <1>7
  <2>8. FileInv' /\ Moves(w)
    BY <2>1, <2>3, <2>4, <2>5, <2>6, <2>7, <1>7, <1>8, <1>9, SavedOk
  <2> QED
    BY <2>8, <1>8, <1>11, StepOk
<1>14. CASE ~ok
  <2>1. memory' = memory /\ edited' = edited
    BY <1>4, <1>14
  <2>2. \A v \in Agents : CursorOk(v, memory[v])'
    <3> SUFFICES ASSUME NEW v \in Agents PROVE CursorOk(v, memory[v])'
      OBVIOUS
    <3>1. CursorOk(v, memory[v])
      BY DEF HookInv, FileInv, Writers
    <3>2. reported'[v] >= reported[v] /\ reported[v] \in Nat /\ reported'[v] \in Nat
      BY <1>6, <1>9, <1>12
    <3> QED
      BY <2>1, <3>1, <3>2 DEF CursorOk
  <2>3. FileInv'
    BY <2>1, <2>2 DEF HookInv, FileInv, Expired, ExpiredAt
  <2>4. Moves(w)
    BY <2>1, <1>9 DEF Moves, HookInv, ClockInv, FileInv, IsFile
  <2> QED
    BY <2>3, <2>4, <1>8, <1>11, StepOk
<1> QED
  BY <1>13, <1>14

\* Who tells and who is told: a teller's reader is the run's.
LEMMA TellersReader == \A w \in Writers : \A t \in Tellers(w) : t \in Writers /\ Reader(t) = Reader(w)
BY HookAssumption DEF Tellers, Reader

LEMMA NoAnswerOk ==
    ASSUME HookInv, NEW w \in Writers, NoAnswer(w)
    PROVE  HookInv'
<1>1. PICK old : old = hookRun[w]
  OBVIOUS
<1>2. RunOk(w, old) /\ IsRun(old) /\ old.phase \in {"asking", "retrying"}
  BY <1>1, RunIs DEF NoAnswer
<1>3. UNCHANGED <<now, journal, aged, reported>> /\ now \in Nat \ {0}
  BY DEF NoAnswer, HookInv, ClockInv
<1>4. /\ IsNotes(old.read[w]) /\ old.read[w].answeredAt <= now /\ old.read[w].toldLossAt <= lossTold[Reader(w)]
      /\ old.left = {} /\ (w \in Agents => CursorOk(w, old.read[w]))
      /\ w \notin aged => old.read[w].answeredAt = memory[w].answeredAt
      /\ w \in Agents \ aged => old.read[w].paths = SavedSoFar(w)
  BY <1>1, <1>2, OwnKnown
<1>5. CASE ToldLoss(old, w)
  <2>1. PICK r : r = [old EXCEPT !.phase = "ended", !.silent = TRUE]
    OBVIOUS
  <2>2. hookRun' = [hookRun EXCEPT ![w] = r] /\ UNCHANGED <<memory, lossTold, edited>>
    BY <1>1, <1>5, <2>1 DEF NoAnswer
  <2>3. /\ DOMAIN r = DOMAIN old /\ r.phase = "ended" /\ r.start = old.start /\ r.left = old.left
        /\ r.read = old.read /\ r.named = old.named /\ r.unsaved = old.unsaved /\ r.answered = old.answered
        /\ r.prune = old.prune
    BY <1>2, <2>1 DEF IsRun, RunFields
  <2>4. ASSUME aged = {} PROVE lossTold[Reader(w)] > old.answered
    <3>1. PICK t \in Tellers(w) : \A a \in Writers : old.read[t].toldLossAt > old.read[a].answeredAt
      BY <1>5 DEF ToldLoss
    <3>2. t \in Writers /\ Reader(t) = Reader(w)
      BY <3>1, TellersReader
    <3>3. old.read[t].toldLossAt <= lossTold[Reader(w)] /\ lossTold[Reader(w)] \in Nat /\ old.read[t].toldLossAt \in Nat
      BY <1>2, <3>2, ReaderTyped DEF RunOk, IsRun, IsNotes, HookInv, ClockInv
    <3>4. old.answered = Never \/ \E v \in Writers : old.read[v].answeredAt >= old.answered
      BY <1>2, <1>4, <2>4 DEF RunOk, KnowsAnswer
    <3>5. \A v \in Writers : old.read[v].answeredAt \in Nat
      BY <1>2 DEF IsRun, IsNotes
    <3>6. CASE old.answered = Never
      BY <3>1, <3>3, <3>5, <3>6 DEF Never
    <3>7. CASE \E v \in Writers : old.read[v].answeredAt >= old.answered
      <4>1. PICK v \in Writers : old.read[v].answeredAt >= old.answered
        BY <3>7
      <4>2. old.read[t].toldLossAt > old.read[v].answeredAt /\ old.read[v].answeredAt \in Nat /\ old.answered \in Nat
        BY <3>1, <3>5, <1>2 DEF IsRun
      <4> QED
        BY <4>1, <4>2, <3>3
    <3> QED
      BY <3>4, <3>6, <3>7
  <2>5. old.prune \subseteq Writers
    BY <1>2 DEF IsRun
  <2>6. old.phase \notin {"none", "reading"} /\ r.phase \in Phases \ {"reading", "remembering", "unlinking"}
    BY <1>2, <2>3 DEF Phases
  <2> QED
    BY <1>1, <1>3, <2>2, <2>3, <2>4, <2>5, <2>6, PlainOk
<1>6. CASE ~ToldLoss(old, w)
  <2>1. PICK ok \in BOOLEAN :
          IF ok THEN /\ SavesLast(w, [old.read[w] EXCEPT !.toldLossAt = now])
                     /\ edited' = IF w \in Agents THEN [edited EXCEPT ![w] = SavedSoFar(w)] ELSE edited
          ELSE UNCHANGED <<memory, edited>>
    BY <1>1, <1>6 DEF NoAnswer
  <2>2. lossTold' = [lossTold EXCEPT ![Reader(w)] = now] /\ Ends(w)
    BY <1>1, <1>6 DEF NoAnswer
  <2>3. PICK m : m = [old.read[w] EXCEPT !.toldLossAt = now]
    OBVIOUS
  <2>4. /\ IsNotes(m) /\ m.paths = old.read[w].paths /\ m.cursor = old.read[w].cursor /\ m.toldLossAt = now
        /\ m.answeredAt = old.read[w].answeredAt
    BY <1>3, <1>4, <2>3 DEF IsNotes
  <2>5. /\ lossTold' \in [Agents \cup {TurnEnds} -> Nat] /\ lossTold'[Reader(w)] = now
        /\ \A x \in Agents \cup {TurnEnds} : lossTold'[x] >= lossTold[x] /\ lossTold'[x] <= now
    BY <1>3, <2>2, ReaderTyped DEF HookInv, ClockInv
  <2>6. edited' = [a \in Agents |-> edited'[a]]
    BY <2>1 DEF HookInv, ClockInv
  <2>7. ClockInv'
    BY <1>3, <2>5, <2>6 DEF HookInv, ClockInv
  <2>8. PICK r : r = NewRun
    OBVIOUS
  <2>9. hookRun' = [hookRun EXCEPT ![w] = r] /\ RunOk(w, r)'
    BY <2>2, <2>7, <2>8, NewRunNext DEF Ends
  <2>10. \A a \in Agents : a # w => reported'[a] = reported[a] /\ edited'[a] = edited[a]
    <3>1. edited' = IF ok /\ w \in Agents THEN [edited EXCEPT ![w] = SavedSoFar(w)] ELSE edited
      BY <2>1
    <3> QED
      BY <1>3, <3>1
  <2>11. CASE ok
    <3>1. SavesNotes(w, m)
      BY <2>1, <2>3, <2>11, SavesLastIs
    <3>2. w \in Agents => CursorOk(w, m)'
      BY <1>3, <1>4, <2>4 DEF CursorOk
    <3>3. w \in Agents \ aged => edited'[w] = m.paths
      BY <1>4, <2>1, <2>4, <2>11 DEF HookInv, ClockInv
    <3>4. aged = {} => m.answeredAt >= memory[w].answeredAt
      BY <1>4, <2>4 DEF IsNotes
    <3>5. m.toldLossAt <= lossTold'[Reader(w)] /\ m.answeredAt <= now
      BY <1>3, <1>4, <2>4, <2>5
    <3>6. FileInv' /\ Moves(w)
      BY <3>1, <3>2, <3>3, <3>4, <3>5, <1>3, <2>4, <2>5, <2>7, <2>10, SavedOk
    <3> QED
      BY <3>6, <2>7, <2>9, StepOk
  <2>12. CASE ~ok
    <3>1. memory' = memory /\ edited' = edited
      BY <2>1, <2>12
    <3>2. \A v \in Writers : memory'[v].toldLossAt <= lossTold'[Reader(v)]
      <4> SUFFICES ASSUME NEW v \in Writers PROVE memory[v].toldLossAt <= lossTold'[Reader(v)]
        BY <3>1
      <4>1. memory[v].toldLossAt \in Nat /\ memory[v].toldLossAt <= lossTold[Reader(v)]
        BY DEF HookInv, FileInv, IsFile
      <4>2. lossTold[Reader(v)] \in Nat /\ lossTold'[Reader(v)] \in Nat /\ lossTold'[Reader(v)] >= lossTold[Reader(v)]
        BY <2>5, ReaderTyped DEF HookInv, ClockInv
      <4> QED
        BY <4>1, <4>2
    <3>3. FileInv'
      BY <1>3, <3>1, <3>2 DEF HookInv, FileInv, Expired, ExpiredAt, CursorOk
    <3>4. Moves(w)
      BY <1>3, <2>5, <3>1 DEF Moves, HookInv, FileInv, IsFile
    <3> QED
      BY <3>3, <3>4, <2>7, <2>9, StepOk
  <2> QED
    BY <2>11, <2>12
<1> QED
  BY <1>5, <1>6

LEMMA TickOk ==
    ASSUME HookInv, Tick
    PROVE  HookInv'
<1>1. /\ now' = now + 1 /\ aged' = aged \cup {w \in Writers : Exists(memory[w]) /\ now' - memory[w].mtime > Age}
      /\ UNCHANGED <<memory, hookRun, journal, edited, lossTold, reported>>
  BY DEF Tick
<1>2. ClockInv'
  BY <1>1 DEF HookInv, ClockInv
<1>3. FileInv'
  <2>1. ASSUME NEW v \in Writers
        PROVE  /\ IsFile(memory[v]) /\ memory[v].mtime <= now' /\ memory[v].answeredAt <= now'
               /\ memory[v].toldLossAt <= lossTold[Reader(v)]
               /\ Expired(memory[v])' => v \in aged'
               /\ ~Exists(memory[v]) => memory[v] = NoFile
               /\ v \in Agents => CursorOk(v, memory[v])
    <3>1. Expired(memory[v])' => v \in aged'
      BY <1>1 DEF Expired, ExpiredAt
    <3> QED
      BY <1>1, <3>1 DEF HookInv, FileInv, ClockInv, IsFile
  <2> QED
    BY <2>1, <1>1 DEF HookInv, FileInv, CursorOk
<1>4. ASSUME NEW w \in Writers, NEW r, r = hookRun[w] PROVE RunOk(w, r)'
  <2>1. RunOk(w, r) /\ IsRun(r)
    BY <1>4, RunIs
  <2>2. r.start <= now'
    BY <1>1, <2>1 DEF RunOk, IsRun, HookInv, ClockInv
  <2>3. ASSUME NEW v \in Writers PROVE r.read[v].answeredAt <= now' /\ r.read[v].toldLossAt <= lossTold'[Reader(v)]
    <3>1. r.read[v].answeredAt <= now /\ r.read[v].answeredAt \in Nat /\ r.read[v].toldLossAt <= lossTold[Reader(v)]
      BY <2>1 DEF RunOk, IsRun, IsNotes
    <3> QED
      BY <1>1, <3>1 DEF HookInv, ClockInv
  <2>4. OwnRead(w, r)'
    BY <1>1, <2>1 DEF RunOk, OwnRead
  <2>5. KnowsAnswer(r)'
    BY <1>1, <2>1 DEF RunOk, KnowsAnswer
  <2> QED
    BY <1>1, <2>1, <2>2, <2>3, <2>4, <2>5 DEF RunOk, CursorOk
<1>5. RunsInv'
  <2>1. \A w \in Writers : RunOk(w, hookRun[w])'
    <3> SUFFICES ASSUME NEW w \in Writers PROVE RunOk(w, hookRun[w])'
      OBVIOUS
    <3>1. PICK r : r = hookRun[w]
      OBVIOUS
    <3>2. RunOk(w, r)' /\ hookRun'[w] = r
      BY <1>1, <1>4, <3>1
    <3> QED
      BY <3>2
  <2> QED
    BY <1>1, <2>1 DEF HookInv, RunsInv
<1> QED
  BY <1>2, <1>3, <1>5 DEF HookInv

LEMMA HookStutters == HookInv /\ UNCHANGED hookVars => HookInv'
BY DEF hookVars, HookInv, ClockInv, FileInv, RunsInv, RunOk, OwnRead, KnowsAnswer, CursorOk, Expired, ExpiredAt

LEMMA HookInvariant == HookSpec => []HookInv
<1>1. HookInv /\ [HookNext]_hookVars => HookInv'
  <2> SUFFICES ASSUME HookInv, [HookNext]_hookVars PROVE HookInv'
    OBVIOUS
  <2>1. ASSUME NEW w \in Writers, BeginRun(w) \/ ReadFile(w) \/ Remember(w) \/ PruneStat(w) \/ PruneUnlink(w)
        PROVE  HookInv'
    BY <2>1, BeginRunOk, ReadFileOk, RememberOk, PruneStatOk, PruneUnlinkOk
  <2>2. ASSUME NEW w \in Writers, AsksNothing(w) \/ EndSilent(w) \/ Deadline(w)
        PROVE  HookInv'
    BY <2>2, EndingsOk
  <2>3. ASSUME NEW w \in Writers, AskAnswered(w) PROVE HookInv'
    BY <2>3, AnsweredOk DEF AskAnswered
  <2>4. ASSUME NEW w \in Writers, RetryAnswered(w) PROVE HookInv'
    BY <2>4, AnsweredOk DEF RetryAnswered
  <2>5. ASSUME NEW w \in Writers, AskRetries(w) \/ NoAnswer(w) PROVE HookInv'
    BY <2>5, AskRetriesOk, NoAnswerOk
  <2> QED
    BY <2>1, <2>2, <2>3, <2>4, <2>5, TickOk, HookStutters DEF HookNext
<1> QED
  BY <1>1, InitHook, PTL DEF HookSpec

\* Every agent's edits that a run of its could save stay remembered, whatever the other runs do, for any agents, batches,
\* age of the memory and order of the runs, while its file was never left untouched past the age (SessionMemory).
THEOREM EditsStayRemembered == HookSpec => []EditsRemembered
<1>1. HookInv => EditsRemembered
  BY DEF HookInv, FileInv, EditsRemembered
<1> QED
  BY <1>1, HookInvariant, PTL

\* A run is silent about a missing answer only when its reader was told of it since the latest answer recorded when it
\* began, and no cursor passes a change its agent was not told of (toldLoss, lossResult, withAnswer).
THEOREM ChangesAreEverTold == HookSpec => []ChangesAreTold
<1>1. HookInv => ChangesAreTold
  <2> SUFFICES ASSUME HookInv PROVE ChangesAreTold
    OBVIOUS
  <2>1. \A a \in Agents : memory[a].cursor # None => memory[a].cursor <= reported[a]
    BY DEF HookInv, FileInv, CursorOk, Writers
  <2>2. \A w \in Writers : aged = {} /\ hookRun[w].silent => lossTold[Reader(w)] > hookRun[w].answered
    BY DEF HookInv, RunsInv, RunOk
  <2> QED
    BY <2>1, <2>2 DEF ChangesAreTold
<1> QED
  BY <1>1, HookInvariant, PTL

---------------------------------------------------------------------------
\* Stored answers.

ListItems == [id : TestIds, duplicate : BOOLEAN]
EntryRecords(w) ==
    [status : {"discovered", "failed"}, failed : SUBSET ModulesOf[w], unhandled : BOOLEAN, lists : [ModulesOf[w] -> Seq(ListItems)]]
IsDiscovery(d) ==
    /\ d = [entries |-> d.entries, print |-> d.print, ours |-> d.ours]
    /\ d.entries = [w \in Workspaces |-> d.entries[w]] /\ \A w \in Workspaces : d.entries[w] \in EntryRecords(w)
    /\ d.print \in {None} \cup ([Modules -> Texts] \X Outcomes) /\ d.ours \in BOOLEAN

AnswersTypeOk ==
    /\ texts \in [Modules -> Texts] /\ source \in Outcomes
    /\ discovery # None => IsDiscovery(discovery)
    /\ runs = [w \in Workspaces |-> runs[w]]
    /\ \A w \in Workspaces : runs[w] \notin {None, Refused} => runs[w] \in RunType(w)

\* A test not marked duplicate is the only one of its name.
ToldApart(list) == \A i, j \in DOMAIN list : i # j /\ list[i].id[1] = list[j].id[1] => list[i].duplicate

\* What a discovery that read the text lists: no test only where there is none, and where no run could replace the list, all.
ListTrue(list, text, run) ==
    /\ list = <<>> => text.tests = <<>> /\ text.breaks = "no"
    /\ run = None => list = Collected(text.tests) /\ text.breaks = "no"

ListsInv ==
    discovery # None => \A w \in Workspaces : \A m \in ModulesOf[w] :
        LET entry == discovery.entries[w]
        IN /\ ToldApart(entry.lists[m])
           /\ discovery.print # None /\ entry.status = "discovered" /\ m \notin entry.failed
              => ListTrue(entry.lists[m], discovery.print[1][m], runs[w])

\* What a run that read the text records of a module that ran: every test the text's collection reaches, each with the outcome.
Reported(text) == IF text.breaks = "at load" THEN <<>> ELSE text.tests
RanAs(record, text, outcome) ==
    record.state = "ran" =>
        /\ record.error \/ text.breaks = "no"
        /\ LET tests == Reported(text)
           IN record.tests = [i \in DOMAIN tests |-> [id |-> Identities(tests)[i], duplicate |-> Duplicate(tests, i), outcome |-> outcome]]

StoredRunsInv ==
    \A w \in Workspaces : runs[w] \notin {None, Refused} => \A m \in ModulesOf[w] :
        /\ ToldApart(runs[w].modules[m].tests)
        /\ runs[w].status = "ran" /\ runs[w].print # None => RanAs(runs[w].modules[m], runs[w].print[1][m], runs[w].print[2])

\* The stored discovery and the run of one content list the same tests of a module whose list the run reported and the
\* discovery could be stored with.
SameContent(w) == runs[w].print = <<[m \in ModulesOf[w] |-> discovery.print[1][m]], discovery.print[2]>>
Reports(w, m) == m \in RunLists(runs[w]) /\ runs[w].modules[m].tests # <<>>
TakenInv ==
    discovery # None => \A w \in Workspaces : \A m \in ModulesOf[w] :
        /\ runs[w] \notin {None, Refused} /\ <<w, m>> \notin unrefreshed /\ discovery.ours
        /\ discovery.entries[w].status = "discovered" /\ discovery.entries[w].lists[m] # <<>>
        /\ discovery.print # None /\ runs[w].print # None /\ SameContent(w) /\ Reports(w, m)
        => IdsOf(discovery.entries[w].lists[m]) = IdsOf(runs[w].modules[m].tests)

AnswersInv == AnswersTypeOk /\ ListsInv /\ StoredRunsInv /\ TakenInv

---------------------------------------------------------------------------
\* Lists and records.

LEMMA IdentityOk ==
    ASSUME AnswersAssumption, NEW t \in Texts, NEW i \in DOMAIN t.tests
    PROVE  /\ Identities(t.tests)[i] \in TestIds /\ Identities(t.tests)[i][1] = NameOf[t.tests[i]]
           /\ Duplicate(t.tests, i) \in BOOLEAN
<1>1. Identities(t.tests)[i] \in TestIds
  BY DEF TestIds
<1>2. Identities(t.tests)[i][1] = NameOf[t.tests[i]]
  BY DEF Identities
<1>3. Duplicate(t.tests, i) \in BOOLEAN
  BY DEF Duplicate
<1> QED BY <1>1, <1>2, <1>3

LEMMA NoElement ==
    ASSUME NEW S, NEW s \in Seq(S), DOMAIN s = {}
    PROVE  s = <<>>
<1>1. DOMAIN s = 1..Len(s) /\ (s # <<>> => Len(s) \in Nat \ {0})
  BY LenProperties, EmptySeq
<1>2. s # <<>> => 1 \in DOMAIN s
  BY <1>1
<1> QED BY <1>2

\* A list of a text's tests, in their order and marked as it marks them.
Lists(list, t) ==
    /\ DOMAIN list = DOMAIN t.tests
    /\ \A i \in DOMAIN t.tests : list[i].id = Identities(t.tests)[i] /\ list[i].duplicate = Duplicate(t.tests, i)

LEMMA ListsOk ==
    ASSUME AnswersAssumption, NEW t \in Texts, NEW list, Lists(list, t)
    PROVE  ToldApart(list) /\ IdsOf(list) = {Identities(t.tests)[i] : i \in DOMAIN t.tests}
<1>1. ToldApart(list)
  <2> SUFFICES ASSUME NEW i \in DOMAIN list, NEW j \in DOMAIN list, i # j, list[i].id[1] = list[j].id[1] PROVE list[i].duplicate
    BY DEF ToldApart
  <2>1. NameOf[t.tests[i]] = NameOf[t.tests[j]]
    BY IdentityOk DEF Lists
  <2>2. Duplicate(t.tests, i)
    BY <2>1 DEF Duplicate, Lists
  <2> QED BY <2>2 DEF Lists
<1>2. IdsOf(list) = {Identities(t.tests)[i] : i \in DOMAIN t.tests}
  BY DEF IdsOf, Lists
<1> QED BY <1>1, <1>2

LEMMA CollectedOk ==
    ASSUME AnswersAssumption, NEW t \in Texts
    PROVE  /\ Collected(t.tests) \in Seq(ListItems) /\ Lists(Collected(t.tests), t)
           /\ Collected(t.tests) = <<>> => t.tests = <<>>
<1> DEFINE s == t.tests
<1> DEFINE c == Collected(s)
<1>1. /\ s \in Seq(DOMAIN NameOf) /\ Len(s) \in Nat /\ DOMAIN s = 1..Len(s)
  BY SeqDef DEF AnswersAssumption
<1>2. Lists(c, t)
  BY DEF Collected, Lists
<1>3. \A i \in DOMAIN s : c[i] \in ListItems
  BY IdentityOk DEF Collected, ListItems
<1>4. c \in Seq(ListItems)
  <2>1. c = [i \in 1..Len(s) |-> c[i]]
    BY <1>1 DEF Collected
  <2>2. c \in [1..Len(s) -> ListItems]
    <3> HIDE DEF c, s
    <3> QED BY <1>1, <1>3, <2>1
  <2> QED BY <1>1, <2>2, SeqDef
<1>5. c = <<>> => s = <<>>
  <2>1. c = <<>> => DOMAIN s = {}
    BY <1>2 DEF Lists
  <2> QED BY <1>1, <2>1, NoElement
<1> QED BY <1>2, <1>4, <1>5

RunTests == [id : TestIds, duplicate : BOOLEAN, outcome : Outcomes \cup {None}]
RunTest(t, outcome) ==
    [i \in DOMAIN t.tests |-> [id |-> Identities(t.tests)[i], duplicate |-> Duplicate(t.tests, i), outcome |-> outcome]]

LEMMA RunTestsOk ==
    ASSUME AnswersAssumption, NEW t \in Texts, NEW outcome \in Outcomes \cup {None}
    PROVE  RunTest(t, outcome) \in Seq(RunTests) /\ Lists(RunTest(t, outcome), t)
<1> DEFINE s == t.tests
<1> DEFINE c == RunTest(t, outcome)
<1>1. /\ s \in Seq(DOMAIN NameOf) /\ Len(s) \in Nat /\ DOMAIN s = 1..Len(s)
  BY SeqDef DEF AnswersAssumption
<1>2. Lists(c, t)
  BY DEF RunTest, Lists
<1>3. \A i \in DOMAIN s : c[i] \in RunTests
  BY IdentityOk DEF RunTest, RunTests
<1>4. c = [i \in 1..Len(s) |-> c[i]]
  BY <1>1 DEF RunTest
<1>5. c \in [1..Len(s) -> RunTests]
  <2> HIDE DEF c, s
  <2> QED BY <1>1, <1>3, <1>4
<1> QED BY <1>1, <1>2, <1>5, SeqDef

Hows == {"done", "hook", "crashed", "not run"}

LEMMA NothingListed == DOMAIN <<>> = {} /\ <<>> \in Seq(RunTests) /\ <<>> \in Seq(ListItems) /\ ToldApart(<<>>)
BY EmptySeq DEF ToldApart

LEMMA RecordedOk ==
    ASSUME AnswersAssumption, NEW m \in Modules, texts[m] \in Texts, NEW how \in Hows, NEW outcome \in Outcomes \cup {None}
    PROVE  /\ Recorded(m, how, outcome) \in ModuleRecords /\ ToldApart(Recorded(m, how, outcome).tests)
           /\ RanAs(Recorded(m, how, outcome), texts[m], outcome)
<1> DEFINE t == texts[m]
<1> DEFINE r == Recorded(m, how, outcome)
<1> DEFINE error == t.breaks # "no" \/ how = "hook"
<1>1. ToldApart(<<>>) /\ <<>> \in Seq(RunTests)
  BY NothingListed
<1>2. CASE how \in {"crashed", "not run"}
  <2>1. r = [state |-> how, tests |-> <<>>, error |-> FALSE]
    BY <1>2 DEF Recorded
  <2> HIDE DEF r
  <2>2. r \in ModuleRecords
    BY <1>1, <1>2, <2>1 DEF ModuleRecords, RunTests
  <2>3. r.state # "ran" /\ ToldApart(r.tests)
    BY <1>1, <1>2, <2>1
  <2> QED BY <2>2, <2>3 DEF RanAs, r
<1>3. CASE how \notin {"crashed", "not run"} /\ t.breaks = "at load"
  <2>1. r = [state |-> "failed", tests |-> <<>>, error |-> TRUE]
    BY <1>3 DEF Recorded
  <2> QED BY <1>1, <2>1 DEF ModuleRecords, RanAs, RunTests
<1>4. CASE how \notin {"crashed", "not run"} /\ t.breaks # "at load" /\ t.tests = <<>> /\ error
  <2>1. r = [state |-> "failed", tests |-> <<>>, error |-> TRUE]
    BY <1>4 DEF Recorded
  <2> QED BY <1>1, <2>1 DEF ModuleRecords, RanAs, RunTests
<1>5. CASE how \notin {"crashed", "not run"} /\ t.breaks # "at load" /\ ~(t.tests = <<>> /\ error)
  <2> PICK e \in BOOLEAN : e = error
    OBVIOUS
  <2>1. ~e => t.breaks = "no"
    OBVIOUS
  <2>2. r = [state |-> "ran", error |-> e, tests |-> RunTest(t, outcome)]
    BY <1>5 DEF Recorded, RunTest
  <2>3. RunTest(t, outcome) \in Seq(RunTests) /\ ToldApart(RunTest(t, outcome))
    BY RunTestsOk, ListsOk
  <2>4. r \in ModuleRecords
    <3> HIDE DEF error
    <3> QED BY <2>2, <2>3 DEF ModuleRecords, RunTests
  <2>5. RanAs(r, t, outcome)
    <3>1. r.error \/ t.breaks = "no"
      <4> HIDE DEF r, error
      <4> QED BY <2>1, <2>2
    <3>2. r.tests = RunTest(t, outcome) /\ Reported(t) = t.tests
      <4> HIDE DEF r, error
      <4> QED BY <1>5, <2>2 DEF Reported
    <3> QED BY <3>1, <3>2 DEF RanAs, RunTest
  <2> QED BY <2>2, <2>3, <2>4, <2>5
<1> HIDE DEF r
<1> QED BY <1>2, <1>3, <1>4, <1>5

\* What a run leaves stored: a record of the contents now, when it is bound to a fingerprint.
RunOkNow(w, run) ==
    /\ run \in RunType(w) /\ run.ours /\ run.print \in {None, WorkspacePrint(w)}
    /\ \A m \in ModulesOf[w] :
          /\ ToldApart(run.modules[m].tests)
          /\ run.status = "ran" /\ run.print # None => RanAs(run.modules[m], texts[m], source)

LEMMA RunRecordsOk ==
    ASSUME AnswersAssumption, AnswersTypeOk, NEW w \in Workspaces, NEW run \in RunRecords(w)
    PROVE  RunOkNow(w, run)
<1> DEFINE p == WorkspacePrint(w)
<1>1. /\ ModulesOf[w] \subseteq Modules /\ texts \in [Modules -> Texts] /\ source \in Outcomes
      /\ \A m \in ModulesOf[w] : texts[m] \in Texts
  BY DEF AnswersTypeOk, Modules
<1>2. p \in [ModulesOf[w] -> Texts] \X Outcomes
  BY <1>1 DEF WorkspacePrint
<1> HIDE DEF p
<1>3. PICK s \in {"ran"} \cup Failures, how \in [ModulesOf[w] -> Hows], o \in Outcomes \cup {None}, q \in {None, p} :
        run = RunRecord(w, s, how, o, q) /\ (s = "ran" /\ q # None => o = source)
  <2>1. ASSUME NEW S \in SUBSET Hows PROVE [ModulesOf[w] -> S] \subseteq [ModulesOf[w] -> Hows]
    OBVIOUS
  <2>2. CASE run \in FailedRuns(w)
    <3>1. PICK s \in Failures, q \in {None, p} : run = RunRecord(w, s, NotRunModules(w), None, q)
      BY <2>2 DEF FailedRuns, Prints, p
    <3>2. NotRunModules(w) \in [ModulesOf[w] -> Hows]
      BY DEF Hows, NotRunModules
    <3> QED BY <3>1, <3>2 DEF Failures
  <2>3. CASE run \in EndedRuns(w)
    <3>1. PICK how \in [ModulesOf[w] -> {"done", "hook", "crashed"}], q \in {None, p} : run = RunRecord(w, "ran", how, source, q)
      BY <2>3 DEF EndedRuns, Prints, p
    <3>2. how \in [ModulesOf[w] -> Hows]
      BY <2>1 DEF Hows
    <3> QED BY <1>1, <3>1, <3>2
  <2>4. CASE run \in InterruptedRuns(w)
    <3>1. PICK how \in [ModulesOf[w] -> {"done", "not run"}] : run = RunRecord(w, "ran", how, None, None)
      BY <2>4 DEF InterruptedRuns
    <3>2. how \in [ModulesOf[w] -> Hows]
      BY <2>1 DEF Hows
    <3> QED BY <3>1, <3>2
  <2> QED BY <2>2, <2>3, <2>4 DEF RunRecords
<1>4. \A m \in ModulesOf[w] : /\ Recorded(m, how[m], o) \in ModuleRecords /\ ToldApart(Recorded(m, how[m], o).tests)
                              /\ RanAs(Recorded(m, how[m], o), texts[m], o)
  BY <1>1, RecordedOk
<1>5. \A m \in ModulesOf[w] : run.modules[m] = Recorded(m, how[m], o)
  BY <1>3 DEF RunRecord
<1>6. run.ours /\ run.print = q /\ run.status = s
  BY <1>3 DEF RunRecord
<1>7. run \in RunType(w)
  BY <1>2, <1>3, <1>4 DEF RunType, RunRecord
<1> QED BY <1>3, <1>4, <1>5, <1>6, <1>7 DEF RunOkNow, p

LEMMA CarriedOk ==
    ASSUME NEW w \in Workspaces, AnswersTypeOk, NEW m \in ListsToCarry(w)
    PROVE  /\ discovery # None /\ runs[w] \notin {None, Refused} /\ m \in ModulesOf[w]
           /\ discovery.entries[w].status = "discovered" /\ discovery.entries[w].lists[m] # <<>>
           /\ runs[w].status = "ran" /\ runs[w].modules[m].state = "ran"
           /\ IdsOf(runs[w].modules[m].tests) = IdsOf(discovery.entries[w].lists[m])
<1>1. /\ discovery # None /\ runs[w] \notin {None, Refused} /\ discovery.entries[w].status = "discovered"
      /\ m \in VouchedModules(discovery.entries[w], runs[w])
  BY DEF ListsToCarry
<1>2. discovery.entries[w] \in EntryRecords(w)
  BY <1>1 DEF AnswersTypeOk, IsDiscovery
<1>3. /\ runs[w].status = "ran" /\ m \in ListedModules(discovery.entries[w]) /\ runs[w].modules[m].state = "ran"
      /\ IdsOf(runs[w].modules[m].tests) = IdsOf(discovery.entries[w].lists[m])
  BY <1>1 DEF VouchedModules
<1>4. m \in ModulesOf[w] /\ discovery.entries[w].lists[m] # <<>>
  BY <1>2, <1>3 DEF ListedModules, EntryRecords
<1> QED BY <1>1, <1>3, <1>4

\* How a rediscovery comes by each of its lists.
ListKept(w, carried, entry, m) ==
    \/ entry.lists[m] = <<>> /\ (entry.status # "discovered" \/ m \in entry.failed)
    \/ m \in carried /\ entry.lists[m] = discovery.entries[w].lists[m]
    \/ m \notin carried /\ entry.lists[m] = Collected(texts[m].tests) /\ texts[m].breaks = "no"

LEMMA DiscoveredOk ==
    ASSUME AnswersAssumption, AnswersTypeOk, NEW w \in Workspaces, NEW carried \in SUBSET ModulesOf[w], carried # {} => discovery # None
    PROVE  /\ Discovered(w, carried) \in EntryRecords(w)
           /\ \A m \in ModulesOf[w] : ListKept(w, carried, Discovered(w, carried), m)
<1> DEFINE failed == {m \in ModulesOf[w] \ carried : texts[m].breaks # "no"}
<1> DEFINE list(m) == IF m \in carried THEN discovery.entries[w].lists[m] ELSE IF m \in failed THEN <<>> ELSE Collected(texts[m].tests)
<1> DEFINE e == Discovered(w, carried)
<1>1. \A m \in ModulesOf[w] : texts[m] \in Texts
  BY DEF AnswersTypeOk, Modules
<1>2. \A m \in carried : discovery.entries[w].lists[m] \in Seq(ListItems)
  BY DEF AnswersTypeOk, IsDiscovery, EntryRecords
<1>3. \A m \in ModulesOf[w] : list(m) \in Seq(ListItems)
  BY <1>1, <1>2, CollectedOk, NothingListed
<1>4. e = [status |-> "discovered", failed |-> failed, unhandled |-> FALSE, lists |-> [m \in ModulesOf[w] |-> list(m)]]
  BY DEF Discovered
<1>5. failed \subseteq ModulesOf[w]
  OBVIOUS
<1>6. \A m \in ModulesOf[w] : m \notin carried /\ m \notin failed => texts[m].breaks = "no"
  OBVIOUS
<1>7. e \in EntryRecords(w)
  <2> HIDE DEF list, failed, e
  <2> QED BY <1>3, <1>4, <1>5 DEF EntryRecords
<1>8. ASSUME NEW m \in ModulesOf[w] PROVE ListKept(w, carried, e, m)
  <2>1. /\ m \in carried => list(m) = discovery.entries[w].lists[m]
        /\ m \notin carried /\ m \in failed => list(m) = <<>>
        /\ m \notin carried /\ m \notin failed => list(m) = Collected(texts[m].tests)
    OBVIOUS
  <2> HIDE DEF list, failed, e
  <2>2. e.lists[m] = list(m) /\ e.failed = failed
    BY <1>4
  <2> QED BY <1>6, <2>1, <2>2 DEF ListKept
<1> QED BY <1>7, <1>8

LEMMA EntriesOk ==
    ASSUME AnswersAssumption, AnswersTypeOk, NEW w \in Workspaces, NEW carried \in SUBSET ModulesOf[w], carried # {} => discovery # None,
           NEW entry \in Entries(w, carried)
    PROVE  entry \in EntryRecords(w) /\ \A m \in ModulesOf[w] : ListKept(w, carried, entry, m)
<1> DEFINE d == Discovered(w, carried)
<1>1. d \in EntryRecords(w) /\ \A m \in ModulesOf[w] : ListKept(w, carried, d, m)
  BY DiscoveredOk
<1>2. CASE entry = d
  BY <1>1, <1>2
<1>3. CASE entry = [status |-> "failed", lists |-> [m \in ModulesOf[w] |-> <<>>], failed |-> {}, unhandled |-> FALSE]
  <2>1. entry \in EntryRecords(w)
    BY <1>3, NothingListed DEF EntryRecords
  <2>2. \A m \in ModulesOf[w] : entry.lists[m] = <<>> /\ entry.status # "discovered"
    BY <1>3
  <2> QED BY <2>1, <2>2 DEF ListKept
<1>4. CASE entry \in Crashing(w, carried)
  <2> HIDE DEF d
  <2>1. PICK n \in ModulesOf[w] \ carried : entry = [d EXCEPT !.failed = @ \cup {n}, !.lists[n] = <<>>, !.unhandled = TRUE]
    BY <1>4 DEF Crashing, d
  <2>2. entry \in EntryRecords(w)
    BY <1>1, <2>1, NothingListed DEF EntryRecords
  <2>3. /\ entry.status = d.status /\ entry.failed = d.failed \cup {n}
        /\ \A m \in ModulesOf[w] : entry.lists[m] = IF m = n THEN <<>> ELSE d.lists[m]
    BY <1>1, <2>1 DEF EntryRecords
  <2> QED BY <1>1, <2>2, <2>3 DEF ListKept
<1> QED BY <1>2, <1>3, <1>4 DEF Entries

---------------------------------------------------------------------------
\* Discoveries.

LEMMA DiscoverGives ==
    ASSUME AnswersAssumption, AnswersTypeOk, Discover
    PROVE  \E carried \in [Workspaces -> SUBSET Modules] :
              /\ IsDiscovery(discovery') /\ discovery'.print \in {None, DiscoveryPrint} /\ unrefreshed' = {}
              /\ \A w \in Workspaces : /\ carried[w] \in {{}, ListsToCarry(w)}
                                       /\ \A m \in ModulesOf[w] : ListKept(w, carried[w], discovery'.entries[w], m)
              /\ UNCHANGED <<texts, source, runs>>
<1>1. PICK bound \in BOOLEAN, read \in BOOLEAN :
         \E entries \in {e \in [Workspaces -> UNION {Entries(w, IF read THEN ListsToCarry(w) ELSE {}) : w \in Workspaces}] :
                             \A w \in Workspaces : e[w] \in Entries(w, IF read THEN ListsToCarry(w) ELSE {})} :
             discovery' = [entries |-> entries, print |-> IF bound THEN DiscoveryPrint ELSE None, ours |-> TRUE]
  BY DEF Discover
<1> DEFINE of(w) == Entries(w, IF read THEN ListsToCarry(w) ELSE {})
<1>2. PICK entries \in [Workspaces -> UNION {of(w) : w \in Workspaces}] :
         /\ \A w \in Workspaces : entries[w] \in of(w)
         /\ discovery' = [entries |-> entries, print |-> IF bound THEN DiscoveryPrint ELSE None, ours |-> TRUE]
  BY <1>1
<1> DEFINE carried == [w \in Workspaces |-> IF read THEN ListsToCarry(w) ELSE {}]
<1>3. \A w \in Workspaces : carried[w] \in {{}, ListsToCarry(w)} /\ carried[w] \in SUBSET ModulesOf[w] /\ (carried[w] # {} => discovery # None)
  BY CarriedOk
<1>4. carried \in [Workspaces -> SUBSET Modules]
  BY <1>3 DEF Modules
<1>5. \A w \in Workspaces : entries[w] \in EntryRecords(w) /\ \A m \in ModulesOf[w] : ListKept(w, carried[w], entries[w], m)
  <2> TAKE w \in Workspaces
  <2>1. entries[w] \in Entries(w, carried[w])
    BY <1>2
  <2> HIDE DEF carried
  <2> QED BY <1>3, <2>1, EntriesOk
<1>6. DiscoveryPrint \in [Modules -> Texts] \X Outcomes
  BY DEF DiscoveryPrint, AnswersTypeOk
<1>7. /\ discovery'.entries = entries /\ discovery'.print \in {None, DiscoveryPrint} /\ discovery'.ours = TRUE
      /\ discovery' = [entries |-> discovery'.entries, print |-> discovery'.print, ours |-> discovery'.ours]
  BY <1>2
<1>8. entries = [w \in Workspaces |-> entries[w]]
  BY <1>2
<1>9. IsDiscovery(discovery')
  <2> HIDE DEF of, carried
  <2> QED BY <1>5, <1>6, <1>7, <1>8 DEF IsDiscovery
<1>10. unrefreshed' = {} /\ UNCHANGED <<texts, source, runs>>
  BY DEF Discover
<1> HIDE DEF of, carried
<1> QED BY <1>3, <1>4, <1>5, <1>7, <1>9, <1>10

LEMMA DiscoverKeeps ==
    ASSUME AnswersAssumption, AnswersInv, Discover
    PROVE  AnswersInv'
<1>1. AnswersTypeOk /\ ListsInv /\ StoredRunsInv /\ TakenInv
  BY DEF AnswersInv
<1>2. PICK carried \in [Workspaces -> SUBSET Modules] :
         /\ IsDiscovery(discovery') /\ discovery'.print \in {None, DiscoveryPrint} /\ unrefreshed' = {}
         /\ \A w \in Workspaces : /\ carried[w] \in {{}, ListsToCarry(w)}
                                  /\ \A m \in ModulesOf[w] : ListKept(w, carried[w], discovery'.entries[w], m)
         /\ UNCHANGED <<texts, source, runs>>
  BY <1>1, DiscoverGives
<1>3. AnswersTypeOk'
  BY <1>1, <1>2 DEF AnswersTypeOk
<1>4. StoredRunsInv'
  BY <1>1, <1>2 DEF StoredRunsInv
<1>5. \A w \in Workspaces : \A m \in carried[w] : m \in ListsToCarry(w)
  BY <1>2
<1>6. \A w \in Workspaces : \A m \in ModulesOf[w] : texts[m] \in Texts
  BY <1>1 DEF AnswersTypeOk, Modules
<1>7. discovery'.print # None => discovery'.print[1] = texts /\ discovery'.print[2] = source
  BY <1>2 DEF DiscoveryPrint
<1>8. ListsInv'
  <2> SUFFICES ASSUME NEW w \in Workspaces, NEW m \in ModulesOf[w]
               PROVE  /\ ToldApart(discovery'.entries[w].lists[m])
                      /\ discovery'.print # None /\ discovery'.entries[w].status = "discovered" /\ m \notin discovery'.entries[w].failed
                         => ListTrue(discovery'.entries[w].lists[m], discovery'.print[1][m], runs'[w])
    BY DEF ListsInv
  <2> DEFINE l == discovery'.entries[w].lists[m]
  <2>1. CASE l = <<>> /\ (discovery'.entries[w].status # "discovered" \/ m \in discovery'.entries[w].failed)
    BY <2>1, NothingListed
  <2>2. CASE m \in carried[w] /\ l = discovery.entries[w].lists[m]
    <3>1. discovery # None /\ runs[w] # None /\ discovery.entries[w].lists[m] # <<>>
      BY <1>1, <1>5, <2>2, CarriedOk
    <3>2. ToldApart(l)
      BY <1>1, <2>2, <3>1 DEF ListsInv
    <3> QED BY <1>2, <2>2, <3>1, <3>2 DEF ListTrue
  <2>3. CASE l = Collected(texts[m].tests) /\ texts[m].breaks = "no"
    <3>1. ToldApart(l) /\ (l = <<>> => texts[m].tests = <<>>)
      BY <1>6, <2>3, CollectedOk, ListsOk
    <3> QED BY <1>7, <2>3, <3>1 DEF ListTrue
  <2> HIDE DEF l
  <2>4. ListKept(w, carried[w], discovery'.entries[w], m)
    BY <1>2
  <2> QED BY <2>1, <2>2, <2>3, <2>4 DEF ListKept, l
<1>9. TakenInv'
  <2> SUFFICES ASSUME NEW w \in Workspaces, NEW m \in ModulesOf[w], runs[w] \notin {None, Refused},
                      discovery'.entries[w].lists[m] # <<>>, discovery'.print # None, runs[w].print # None, SameContent(w)', Reports(w, m)
               PROVE  IdsOf(discovery'.entries[w].lists[m]) = IdsOf(runs[w].modules[m].tests)
    BY <1>2 DEF TakenInv, Reports
  <2>1. CASE m \in carried[w] /\ discovery'.entries[w].lists[m] = discovery.entries[w].lists[m]
    BY <1>1, <1>5, <2>1, CarriedOk
  <2>2. CASE discovery'.entries[w].lists[m] = Collected(texts[m].tests) /\ texts[m].breaks = "no"
    <3>1. runs[w].print = <<[n \in ModulesOf[w] |-> texts[n]], source>>
      BY <1>2, <1>7 DEF SameContent
    <3>2. runs[w].print[1][m] = texts[m] /\ runs[w].print[2] = source
      BY <3>1
    <3>3. runs[w].status = "ran" /\ runs[w].modules[m].state = "ran"
      BY DEF Reports, RunLists
    <3>4. RanAs(runs[w].modules[m], texts[m], source)
      BY <1>1, <3>1, <3>2, <3>3 DEF StoredRunsInv
    <3>5. Lists(runs[w].modules[m].tests, texts[m])
      BY <2>2, <3>3, <3>4 DEF RanAs, Reported, Lists
    <3>6. Lists(Collected(texts[m].tests), texts[m])
      BY <1>6, CollectedOk
    <3> QED BY <1>6, <2>2, <3>5, <3>6, ListsOk
  <2> QED BY <1>2, <2>1, <2>2 DEF ListKept
<1> QED BY <1>3, <1>4, <1>8, <1>9 DEF AnswersInv

---------------------------------------------------------------------------
\* Runs.

LEMMA WithListsOk ==
    ASSUME NEW d, IsDiscovery(d), NEW w \in Workspaces, NEW run \in RunType(w)
    PROVE  LET new == WithModuleLists(d, w, run)
           IN /\ IsDiscovery(new) /\ new.print = d.print /\ new.ours = d.ours
              /\ \A v \in Workspaces : /\ new.entries[v].status = d.entries[v].status /\ new.entries[v].failed = d.entries[v].failed
                                       /\ v # w => new.entries[v] = d.entries[v]
              /\ d.entries[w].status = "discovered" => \A m \in ModulesOf[w] : new.entries[w].lists[m] =
                    IF m \in ReplacedModules(d.entries[w], run) THEN ListOf(run.modules[m].tests) ELSE d.entries[w].lists[m]
<1> DEFINE e == d.entries[w]
<1> DEFINE lists == [m \in DOMAIN e.lists |-> IF m \in ReplacedModules(e, run) THEN ListOf(run.modules[m].tests) ELSE e.lists[m]]
<1> DEFINE new == WithModuleLists(d, w, run)
<1>1. CASE e.status # "discovered"
  BY <1>1 DEF WithModuleLists
<1>2. CASE e.status = "discovered"
  <2>1. new = [d EXCEPT !.entries[w].lists = lists]
    BY <1>2 DEF WithModuleLists, IsDiscovery
  <2>2. e \in EntryRecords(w) /\ DOMAIN e.lists = ModulesOf[w]
    BY DEF IsDiscovery, EntryRecords
  <2>3. \A m \in ModulesOf[w] : ListOf(run.modules[m].tests) \in Seq(ListItems)
    <3> TAKE m \in ModulesOf[w]
    <3> DEFINE t == run.modules[m].tests
    <3>1. t \in Seq(RunTests)
      BY DEF RunType, ModuleRecords, RunTests
    <3>2. DOMAIN t = 1..Len(t) /\ Len(t) \in Nat /\ \A i \in 1..Len(t) : t[i] \in RunTests
      BY <3>1, LenProperties
    <3>3. ListOf(t) = [i \in 1..Len(t) |-> [id |-> t[i].id, duplicate |-> t[i].duplicate]]
      BY <3>2 DEF ListOf
    <3> HIDE DEF t
    <3>4. \A i \in 1..Len(t) : [id |-> t[i].id, duplicate |-> t[i].duplicate] \in ListItems
      BY <3>2 DEF RunTests, ListItems
    <3>5. ListOf(t) \in [1..Len(t) -> ListItems]
      BY <3>3, <3>4
    <3>6. ListOf(t) \in Seq(ListItems)
      BY <3>2, <3>5, SeqDef
    <3> QED BY <3>6 DEF t
  <2>4. lists \in [ModulesOf[w] -> Seq(ListItems)]
    BY <2>2, <2>3 DEF EntryRecords
  <2>5. \A m \in ModulesOf[w] : lists[m] = IF m \in ReplacedModules(e, run) THEN ListOf(run.modules[m].tests) ELSE e.lists[m]
    BY <2>2
  <2> DEFINE changed == [e EXCEPT !.lists = lists]
  <2>6. changed \in EntryRecords(w) /\ changed.lists = lists /\ changed.status = e.status /\ changed.failed = e.failed
    <3> HIDE DEF lists, e
    <3> QED BY <2>2, <2>4 DEF EntryRecords
  <2>7. new = [entries |-> [v \in Workspaces |-> IF v = w THEN changed ELSE d.entries[v]], print |-> d.print, ours |-> d.ours]
    <3> HIDE DEF lists
    <3> QED BY <2>1 DEF IsDiscovery
  <2> HIDE DEF changed, lists, new
  <2>8. /\ new.print = d.print /\ new.ours = d.ours /\ new.entries = [v \in Workspaces |-> IF v = w THEN changed ELSE d.entries[v]]
        /\ new = [entries |-> new.entries, print |-> new.print, ours |-> new.ours]
    BY <2>7
  <2>9. IsDiscovery(new)
    BY <2>6, <2>8 DEF IsDiscovery
  <2> HIDE DEF e
  <2>10. \A v \in Workspaces : new.entries[v] = IF v = w THEN changed ELSE d.entries[v]
    BY <2>8
  <2> QED BY <2>5, <2>6, <2>8, <2>9, <2>10 DEF new, e
<1> QED BY <1>1, <1>2

LEMMA ListOfOk ==
    ASSUME NEW t \in Seq(RunTests)
    PROVE  /\ IdsOf(ListOf(t)) = IdsOf(t) /\ (ToldApart(t) => ToldApart(ListOf(t)))
           /\ t # <<>> => ListOf(t) # <<>>
<1>1. DOMAIN ListOf(t) = DOMAIN t /\ \A i \in DOMAIN t : ListOf(t)[i].id = t[i].id /\ ListOf(t)[i].duplicate = t[i].duplicate
  BY DEF ListOf
<1>2. IdsOf(ListOf(t)) = IdsOf(t)
  BY <1>1 DEF IdsOf
<1>3. ToldApart(t) => ToldApart(ListOf(t))
  BY <1>1 DEF ToldApart
<1>4. ListOf(t) = <<>> => DOMAIN t = {}
  BY <1>1
<1> QED BY <1>2, <1>3, <1>4, NoElement

LEMMA RunGives ==
    ASSUME AnswersAssumption, AnswersTypeOk, NEW w \in Workspaces, Run(w)
    PROVE  \E run \in RunRecords(w) :
              LET entry == discovery.entries[w]
              IN /\ discovery # None /\ entry.status = "discovered" /\ UNCHANGED <<texts, source>> /\ runs' = [runs EXCEPT ![w] = run]
                 /\ IsDiscovery(discovery') /\ discovery'.print = discovery.print /\ discovery'.ours = discovery.ours
                 /\ \A v \in Workspaces : /\ discovery'.entries[v].status = discovery.entries[v].status
                                          /\ discovery'.entries[v].failed = discovery.entries[v].failed
                                          /\ v # w => discovery'.entries[v] = discovery.entries[v]
                 /\ \A m \in ModulesOf[w] :
                       /\ \/ discovery'.entries[w].lists[m] = entry.lists[m]
                          \/ m \in ReplacedModules(entry, run) /\ discovery'.entries[w].lists[m] = ListOf(run.modules[m].tests)
                       /\ discovery.ours /\ <<w, m>> \notin unrefreshed' /\ m \in ReplacedModules(entry, run)
                          => discovery'.entries[w].lists[m] = ListOf(run.modules[m].tests)
                 /\ \A v \in Workspaces \ {w} : \A m \in ModulesOf[v] : <<v, m>> \notin unrefreshed' => <<v, m>> \notin unrefreshed
<1> DEFINE entry == discovery.entries[w]
<1>1. discovery # None /\ entry.status = "discovered" /\ UNCHANGED <<texts, source>>
  BY DEF Run
<1>2. IsDiscovery(discovery)
  BY <1>1 DEF AnswersTypeOk
<1>3. PICK run \in RunRecords(w) :
         /\ runs' = [runs EXCEPT ![w] = run]
         /\ LET replaced == IF discovery.ours THEN ReplacedModules(entry, run) ELSE {}
            IN \/ /\ discovery' = IF replaced = {} THEN discovery ELSE WithModuleLists(discovery, w, run)
                  /\ unrefreshed' = unrefreshed \ ({w} \X replaced)
               \/ /\ replaced # {} /\ unrefreshed' = unrefreshed \cup ({w} \X replaced)
                  /\ UNCHANGED discovery
  BY DEF Run
<1> DEFINE replaced == IF discovery.ours THEN ReplacedModules(entry, run) ELSE {}
<1> DEFINE new == WithModuleLists(discovery, w, run)
<1>4. run \in RunType(w)
  BY RunRecordsOk DEF RunOkNow
<1>5. /\ IsDiscovery(new) /\ new.print = discovery.print /\ new.ours = discovery.ours
      /\ \A v \in Workspaces : /\ new.entries[v].status = discovery.entries[v].status /\ new.entries[v].failed = discovery.entries[v].failed
                               /\ v # w => new.entries[v] = discovery.entries[v]
      /\ \A m \in ModulesOf[w] : new.entries[w].lists[m] =
            IF m \in ReplacedModules(entry, run) THEN ListOf(run.modules[m].tests) ELSE entry.lists[m]
  BY <1>1, <1>2, <1>4, WithListsOk
<1>6. discovery' = discovery \/ discovery' = new
  BY <1>3
<1>7. /\ IsDiscovery(discovery') /\ discovery'.print = discovery.print /\ discovery'.ours = discovery.ours
      /\ \A v \in Workspaces : /\ discovery'.entries[v].status = discovery.entries[v].status
                               /\ discovery'.entries[v].failed = discovery.entries[v].failed
                               /\ v # w => discovery'.entries[v] = discovery.entries[v]
  <2> HIDE DEF new
  <2> QED BY <1>2, <1>5, <1>6
<1>8. ASSUME NEW m \in ModulesOf[w]
      PROVE  \/ discovery'.entries[w].lists[m] = entry.lists[m]
             \/ m \in ReplacedModules(entry, run) /\ discovery'.entries[w].lists[m] = ListOf(run.modules[m].tests)
  <2> HIDE DEF new
  <2> QED BY <1>5, <1>6
<1>9. ASSUME NEW m \in ModulesOf[w], discovery.ours, <<w, m>> \notin unrefreshed', m \in ReplacedModules(entry, run)
      PROVE  discovery'.entries[w].lists[m] = ListOf(run.modules[m].tests)
  <2>1. m \in replaced
    BY <1>9
  <2>2. discovery' = new
    <3> HIDE DEF replaced, new, entry
    <3> QED BY <1>3, <1>9, <2>1 DEF replaced, new, entry
  <2> HIDE DEF new
  <2> QED BY <1>5, <1>9, <2>2
<1>10. ASSUME NEW v \in Workspaces \ {w}, NEW m \in ModulesOf[v], <<v, m>> \notin unrefreshed' PROVE <<v, m>> \notin unrefreshed
  <2>1. <<v, m>> \notin {w} \X replaced
    OBVIOUS
  <2>2. unrefreshed' = unrefreshed \ ({w} \X replaced) \/ unrefreshed' = unrefreshed \cup ({w} \X replaced)
    BY <1>3
  <2> HIDE DEF replaced
  <2> QED BY <1>10, <2>1, <2>2
<1> HIDE DEF new, replaced
<1> QED BY <1>1, <1>3, <1>7, <1>8, <1>9, <1>10

LEMMA RunKeeps ==
    ASSUME AnswersAssumption, AnswersInv, NEW w \in Workspaces, Run(w)
    PROVE  AnswersInv'
<1>1. AnswersTypeOk /\ ListsInv /\ StoredRunsInv /\ TakenInv
  BY DEF AnswersInv
<1> DEFINE entry == discovery.entries[w]
<1>2. PICK run \in RunRecords(w) :
         /\ discovery # None /\ entry.status = "discovered" /\ UNCHANGED <<texts, source>> /\ runs' = [runs EXCEPT ![w] = run]
         /\ IsDiscovery(discovery') /\ discovery'.print = discovery.print /\ discovery'.ours = discovery.ours
         /\ \A v \in Workspaces : /\ discovery'.entries[v].status = discovery.entries[v].status
                                  /\ discovery'.entries[v].failed = discovery.entries[v].failed
                                  /\ v # w => discovery'.entries[v] = discovery.entries[v]
         /\ \A m \in ModulesOf[w] :
               /\ \/ discovery'.entries[w].lists[m] = entry.lists[m]
                  \/ m \in ReplacedModules(entry, run) /\ discovery'.entries[w].lists[m] = ListOf(run.modules[m].tests)
               /\ discovery.ours /\ <<w, m>> \notin unrefreshed' /\ m \in ReplacedModules(entry, run)
                  => discovery'.entries[w].lists[m] = ListOf(run.modules[m].tests)
         /\ \A v \in Workspaces \ {w} : \A m \in ModulesOf[v] : <<v, m>> \notin unrefreshed' => <<v, m>> \notin unrefreshed
  BY <1>1, RunGives
<1>3. RunOkNow(w, run) /\ run \in RunType(w) /\ run # None
  BY <1>1, RunRecordsOk DEF RunOkNow, AnswersAssumption
<1>4. /\ runs'[w] = run /\ runs' = [v \in Workspaces |-> runs'[v]]
      /\ \A v \in Workspaces : v # w => runs'[v] = runs[v]
  BY <1>1, <1>2 DEF AnswersTypeOk
<1>5. AnswersTypeOk'
  BY <1>1, <1>2, <1>3, <1>4 DEF AnswersTypeOk
<1>6. StoredRunsInv'
  <2> SUFFICES ASSUME NEW v \in Workspaces, runs'[v] \notin {None, Refused}, NEW m \in ModulesOf[v]
               PROVE  /\ ToldApart(runs'[v].modules[m].tests)
                      /\ runs'[v].status = "ran" /\ runs'[v].print # None
                         => RanAs(runs'[v].modules[m], runs'[v].print[1][m], runs'[v].print[2])
    BY DEF StoredRunsInv
  <2>1. CASE v # w
    BY <1>1, <1>4, <2>1 DEF StoredRunsInv
  <2>2. CASE v = w
    <3>1. run.print # None => run.print[1][m] = texts[m] /\ run.print[2] = source
      BY <1>3, <2>2 DEF RunOkNow, WorkspacePrint
    <3> QED BY <1>3, <1>4, <2>2, <3>1 DEF RunOkNow
  <2> QED BY <2>1, <2>2
<1>7. \A m \in ModulesOf[w] : run.modules[m].tests \in Seq(RunTests) /\ ToldApart(run.modules[m].tests)
  BY <1>3 DEF RunType, ModuleRecords, RunTests, RunOkNow
<1>8. \A m \in ReplacedModules(entry, run) : run.modules[m].tests # <<>> /\ entry.lists[m] # <<>>
  BY DEF ReplacedModules
<1>9. ListsInv'
  <2> SUFFICES ASSUME NEW v \in Workspaces, NEW m \in ModulesOf[v]
               PROVE  /\ ToldApart(discovery'.entries[v].lists[m])
                      /\ discovery'.print # None /\ discovery'.entries[v].status = "discovered" /\ m \notin discovery'.entries[v].failed
                         => ListTrue(discovery'.entries[v].lists[m], discovery'.print[1][m], runs'[v])
    BY DEF ListsInv
  <2>1. /\ ToldApart(discovery.entries[v].lists[m])
        /\ discovery.print # None /\ discovery.entries[v].status = "discovered" /\ m \notin discovery.entries[v].failed
           => ListTrue(discovery.entries[v].lists[m], discovery.print[1][m], runs[v])
    BY <1>1, <1>2 DEF ListsInv
  <2>2. CASE v # w
    BY <1>2, <1>4, <2>1, <2>2
  <2>3. CASE v = w /\ discovery'.entries[w].lists[m] = entry.lists[m]
    BY <1>2, <1>3, <1>4, <2>1, <2>3 DEF ListTrue
  <2>4. CASE v = w /\ m \in ReplacedModules(entry, run) /\ discovery'.entries[w].lists[m] = ListOf(run.modules[m].tests)
    <3>1. ToldApart(discovery'.entries[w].lists[m]) /\ discovery'.entries[w].lists[m] # <<>>
      BY <1>7, <1>8, <2>4, ListOfOk
    <3> QED BY <1>3, <1>4, <2>4, <3>1 DEF ListTrue
  <2> QED BY <1>2, <2>2, <2>3, <2>4
<1>10. TakenInv'
  <2> SUFFICES ASSUME NEW v \in Workspaces, NEW m \in ModulesOf[v], runs'[v] \notin {None, Refused}, <<v, m>> \notin unrefreshed',
                      discovery'.ours, discovery'.entries[v].status = "discovered", discovery'.entries[v].lists[m] # <<>>,
                      discovery'.print # None, runs'[v].print # None, SameContent(v)', Reports(v, m)'
               PROVE  IdsOf(discovery'.entries[v].lists[m]) = IdsOf(runs'[v].modules[m].tests)
    BY DEF TakenInv
  <2>1. CASE v # w
    <3>1. /\ runs'[v] = runs[v] /\ <<v, m>> \notin unrefreshed /\ discovery'.entries[v] = discovery.entries[v]
          /\ discovery.ours /\ discovery.print # None /\ discovery'.print = discovery.print
      BY <1>2, <1>4, <2>1
    <3>2. SameContent(v) /\ Reports(v, m)
      BY <3>1 DEF SameContent, Reports
    <3> QED BY <1>1, <1>2, <3>1, <3>2 DEF TakenInv
  <2>2. CASE v = w
    <3>1. run.modules[m].tests # <<>> /\ m \in RunLists(run) /\ discovery.ours /\ <<w, m>> \notin unrefreshed'
      BY <1>2, <1>4, <2>2 DEF Reports
    <3>2. CASE m \in ReplacedModules(entry, run)
      BY <1>2, <1>4, <1>7, <2>2, <3>1, <3>2, ListOfOk
    <3>3. CASE m \notin ReplacedModules(entry, run)
      <4>1. discovery'.entries[w].lists[m] = entry.lists[m] /\ entry.lists[m] # <<>>
        BY <1>2, <2>2, <3>3
      <4>2. entry.lists[m] = ListOf(run.modules[m].tests)
        BY <3>1, <3>3, <4>1 DEF ReplacedModules
      <4> QED BY <1>4, <1>7, <2>2, <4>1, <4>2, ListOfOk
    <3> QED BY <3>2, <3>3
  <2> QED BY <2>1, <2>2
<1> QED BY <1>5, <1>6, <1>9, <1>10 DEF AnswersInv

---------------------------------------------------------------------------
\* The worktree, the upgrade and the damage.

LEMMA EditKeeps ==
    ASSUME AnswersInv, texts' \in [Modules -> Texts], source' \in Outcomes, UNCHANGED <<discovery, runs, unrefreshed>>
    PROVE  AnswersInv'
<1>1. AnswersTypeOk /\ ListsInv /\ StoredRunsInv /\ TakenInv
  BY DEF AnswersInv
<1>2. AnswersTypeOk'
  BY <1>1 DEF AnswersTypeOk
<1>3. ListsInv' /\ StoredRunsInv'
  BY <1>1 DEF ListsInv, StoredRunsInv
<1>4. TakenInv'
  BY <1>1 DEF TakenInv, SameContent, Reports
<1> QED BY <1>2, <1>3, <1>4 DEF AnswersInv

LEMMA UpgradeKeeps ==
    ASSUME AnswersAssumption, AnswersInv, Upgrade
    PROVE  AnswersInv'
<1>1. AnswersTypeOk /\ ListsInv /\ StoredRunsInv /\ TakenInv
  BY DEF AnswersInv
<1>2. discovery # None /\ IsDiscovery(discovery) /\ UNCHANGED <<texts, source, unrefreshed>>
  BY <1>1 DEF Upgrade, AnswersTypeOk
<1>3. discovery' = [discovery EXCEPT !.ours = FALSE]
  BY DEF Upgrade
<1>4. /\ discovery'.entries = discovery.entries /\ discovery'.print = discovery.print /\ discovery'.ours = FALSE
      /\ discovery' = [entries |-> discovery'.entries, print |-> discovery'.print, ours |-> discovery'.ours]
  BY <1>2, <1>3 DEF IsDiscovery
<1>5. IsDiscovery(discovery')
  BY <1>2, <1>4 DEF IsDiscovery
<1>6. /\ runs' = [w \in Workspaces |-> runs'[w]]
      /\ \A w \in Workspaces : runs'[w] = IF runs[w] \in {None, Refused} THEN runs[w] ELSE [runs[w] EXCEPT !.ours = FALSE]
  BY DEF Upgrade
<1>7. ASSUME NEW w \in Workspaces, runs'[w] \notin {None, Refused}
      PROVE  /\ runs[w] \notin {None, Refused} /\ runs'[w] \in RunType(w)
             /\ runs'[w].modules = runs[w].modules /\ runs'[w].print = runs[w].print /\ runs'[w].status = runs[w].status
  <2>1. runs[w] \notin {None, Refused} /\ runs'[w] = [runs[w] EXCEPT !.ours = FALSE]
    BY <1>6, <1>7
  <2>2. runs[w] \in RunType(w)
    BY <1>1, <2>1 DEF AnswersTypeOk
  <2> QED BY <2>1, <2>2 DEF RunType
<1>8. ASSUME NEW w \in Workspaces PROVE runs'[w] = None <=> runs[w] = None
  <2>1. CASE runs[w] \in {None, Refused}
    BY <1>6, <2>1
  <2>2. CASE runs[w] \notin {None, Refused}
    <3>1. runs[w] \in RunType(w) /\ runs'[w] = [runs[w] EXCEPT !.ours = FALSE]
      BY <1>1, <1>6, <2>2 DEF AnswersTypeOk
    <3>2. runs'[w] \in RunType(w)
      BY <3>1 DEF RunType
    <3> QED BY <2>2, <3>2 DEF AnswersAssumption
  <2> QED BY <2>1, <2>2
<1>9. AnswersTypeOk'
  BY <1>1, <1>2, <1>5, <1>6, <1>7 DEF AnswersTypeOk
<1>10. StoredRunsInv'
  BY <1>1, <1>7 DEF StoredRunsInv
<1>11. ListsInv'
  BY <1>1, <1>2, <1>4, <1>8 DEF ListsInv, ListTrue
<1>12. TakenInv'
  BY <1>4 DEF TakenInv
<1> QED BY <1>9, <1>10, <1>11, <1>12 DEF AnswersInv

LEMMA DamageKeeps ==
    ASSUME AnswersAssumption, AnswersInv, NEW w \in Workspaces, Damage(w)
    PROVE  AnswersInv'
<1>1. AnswersTypeOk /\ ListsInv /\ StoredRunsInv /\ TakenInv
  BY DEF AnswersInv
<1>2. /\ runs[w] \notin {None, Refused} /\ runs' = [runs EXCEPT ![w] = Refused] /\ None # Refused
      /\ UNCHANGED <<texts, source, discovery, unrefreshed>>
  BY DEF Damage, AnswersAssumption
<1>3. /\ runs' = [v \in Workspaces |-> runs'[v]] /\ runs'[w] = Refused
      /\ \A v \in Workspaces : v # w => runs'[v] = runs[v]
  BY <1>1, <1>2 DEF AnswersTypeOk
<1>4. AnswersTypeOk'
  BY <1>1, <1>2, <1>3 DEF AnswersTypeOk
<1>5. StoredRunsInv'
  BY <1>1, <1>3 DEF StoredRunsInv
<1>6. ListsInv'
  BY <1>1, <1>2, <1>3 DEF ListsInv, ListTrue
<1>7. TakenInv'
  BY <1>1, <1>2, <1>3 DEF TakenInv, SameContent, Reports
<1> QED BY <1>4, <1>5, <1>6, <1>7 DEF AnswersInv

\* Every step of the defects keeps what is stored, changes it as one of these does or leaves it.
LEMMA AnswersInvHolds ==
    ASSUME AnswersAssumption
    PROVE  DefectSpec => []AnswersInv
<1>1. DefectInit => AnswersInv
  <2> SUFFICES ASSUME DefectInit PROVE AnswersInv
    OBVIOUS
  <2>1. /\ texts = Initial /\ source = "passed" /\ discovery = None /\ runs = [w \in Workspaces |-> None]
    BY DEF DefectInit, Init
  <2>2. AnswersTypeOk
    BY <2>1 DEF AnswersTypeOk, AnswersAssumption, Outcomes
  <2> QED BY <2>1, <2>2 DEF AnswersInv, ListsInv, StoredRunsInv, TakenInv
<1>2. AnswersInv /\ [DefectNext]_defectVars => AnswersInv'
  <2> SUFFICES ASSUME AnswersInv, [DefectNext]_defectVars PROVE AnswersInv'
    OBVIOUS
  <2>1. CASE UNCHANGED vars
    BY <2>1, EditKeeps DEF vars, AnswersInv, AnswersTypeOk
  <2>2. ASSUME NEW m \in Modules, NEW t \in Texts, Edit(m, t) PROVE AnswersInv'
    <3>1. texts' \in [Modules -> Texts] /\ UNCHANGED <<source, discovery, runs, unrefreshed>>
      BY <2>2 DEF Edit, AnswersInv, AnswersTypeOk
    <3> QED BY <3>1, EditKeeps DEF AnswersInv, AnswersTypeOk
  <2>3. CASE EditSource
    <3>1. source' \in Outcomes /\ UNCHANGED <<texts, discovery, runs, unrefreshed>>
      BY <2>3 DEF EditSource
    <3> QED BY <3>1, EditKeeps DEF AnswersInv, AnswersTypeOk
  <2>4. CASE Discover
    BY <2>4, DiscoverKeeps
  <2>5. ASSUME NEW w \in Workspaces, Damage(w) \/ Run(w) PROVE AnswersInv'
    BY <2>5, DamageKeeps, RunKeeps
  <2>6. CASE DefectUpgrade
    BY <2>6, UpgradeKeeps DEF DefectUpgrade
  <2>7. CASE EditDefinition \/ DeclareNames \/ RefuseEvidence
    BY <2>7, EditKeeps DEF EditDefinition, DeclareNames, RefuseEvidence, AnswersInv, AnswersTypeOk
  <2>8. ASSUME NEW i \in Slots, Falsify(i) PROVE UNCHANGED vars
    BY <2>8 DEF Falsify
  <2>9. CASE UNCHANGED defectVars
    BY <2>1, <2>9 DEF defectVars
  <2> QED BY <2>1, <2>2, <2>3, <2>4, <2>5, <2>6, <2>7, <2>8, <2>9 DEF DefectNext, AnswersStep
<1> QED BY <1>1, <1>2, PTL DEF DefectSpec

---------------------------------------------------------------------------
\* What is rated current.

LEMMA CurrentRun ==
    ASSUME AnswersInv, NEW w \in Workspaces, runs[w] \notin {None, Refused}, runs[w].print = WorkspacePrint(w), runs[w].print # None,
           runs[w].status = "ran", NEW m \in ModulesOf[w], runs[w].modules[m].state = "ran"
    PROVE  /\ runs[w].modules[m].error \/ texts[m].breaks = "no"
           /\ LET tests == Reported(texts[m])
              IN runs[w].modules[m].tests =
                    [i \in DOMAIN tests |-> [id |-> Identities(tests)[i], duplicate |-> Duplicate(tests, i), outcome |-> source]]
<1>1. runs[w].print[1][m] = texts[m] /\ runs[w].print[2] = source
  BY DEF WorkspacePrint
<1>2. RanAs(runs[w].modules[m], runs[w].print[1][m], runs[w].print[2])
  BY DEF AnswersInv, StoredRunsInv
<1> QED BY <1>1, <1>2 DEF RanAs

LEMMA PrintsAre ==
    ASSUME AnswersInv, AnswersAssumption, NEW w \in Workspaces
    PROVE  WorkspacePrint(w) \in [ModulesOf[w] -> Texts] \X Outcomes
BY DEF AnswersInv, AnswersTypeOk, WorkspacePrint, Modules

LEMMA RatedCurrent ==
    ASSUME NEW print, NEW current, AssessFreshness(print, current) = "current"
    PROVE  print # None /\ print = current
BY DEF AssessFreshness

LEMMA OwnCurrent ==
    ASSUME OwnFreshness = "current"
    PROVE  discovery.ours /\ discovery.print # None /\ discovery.print = <<texts, source>>
BY RatedCurrent DEF OwnFreshness, RecordFreshness, DiscoveryPrint

LEMMA ListsHold ==
    ASSUME AnswersAssumption, AnswersInv
    PROVE  CurrentListsAreTrue
<1> SUFFICES ASSUME discovery # None, ListFreshness = "current", NEW w \in Workspaces, discovery.entries[w].status = "discovered",
                    NEW m \in ModulesOf[w] \ discovery.entries[w].failed, ListTaken(w, m)
             PROVE  IdsOf(discovery.entries[w].lists[m]) = TrueIds(m) /\ texts[m].breaks = "no"
  BY DEF CurrentListsAreTrue
<1> DEFINE list == discovery.entries[w].lists[m]
<1>1. OwnFreshness = "current"
  BY DEF ListFreshness
<1>2. discovery.print # None /\ discovery.print[1] = texts
  BY <1>1, OwnCurrent
<1>3. ListTrue(list, texts[m], runs[w])
  BY <1>2 DEF AnswersInv, ListsInv
<1>4. texts[m] \in Texts
  BY DEF AnswersInv, AnswersTypeOk, Modules
<1>5. CASE runs[w] = None
  <2>1. list = Collected(texts[m].tests) /\ texts[m].breaks = "no"
    BY <1>3, <1>5 DEF ListTrue
  <2> QED BY <1>4, <2>1, CollectedOk, ListsOk DEF TrueIds
<1>6. CASE runs[w] # None /\ list = <<>>
  <2>1. texts[m].tests = <<>> /\ texts[m].breaks = "no"
    BY <1>3, <1>6 DEF ListTrue
  <2> HIDE DEF list
  <2>2. IdsOf(list) = {} /\ TrueIds(m) = {}
    BY <2>1, NothingListed, <1>6 DEF IdsOf, TrueIds
  <2> QED BY <2>1, <2>2 DEF list
<1>7. CASE runs[w] # None /\ list # <<>>
  <2> DEFINE rated == {IF runs[v] = Refused THEN "unknown" ELSE VouchedFreshness(discovery.entries[v], runs[v], WorkspacePrint(v)) :
                           v \in {u \in Workspaces : discovery.entries[u].status = "discovered" /\ runs[u] # None}}
  <2> DEFINE rate == IF runs[w] = Refused THEN "unknown" ELSE VouchedFreshness(discovery.entries[w], runs[w], WorkspacePrint(w))
  <2>1. rate \in rated
    BY <1>7
  <2>2. "stale" \notin rated /\ "unknown" \notin rated
    BY <1>1 DEF ListFreshness
  <2>3. rate # "stale" /\ rate # "unknown"
    <3> HIDE DEF rate, rated
    <3> QED BY <2>1, <2>2
  <2>4. runs[w] # Refused /\ rate = VouchedFreshness(discovery.entries[w], runs[w], WorkspacePrint(w))
    BY <2>3
  <2>5. /\ RecordFreshness(runs[w], WorkspacePrint(w)) = "current"
        /\ VouchedModules(discovery.entries[w], runs[w]) = ListedModules(discovery.entries[w])
    BY <2>3, <2>4 DEF VouchedFreshness, RecordFreshness, AssessFreshness
  <2>6. runs[w].print = WorkspacePrint(w) /\ runs[w].print # None
    BY <2>5, RatedCurrent DEF RecordFreshness
  <2>7. discovery.entries[w] \in EntryRecords(w)
    BY DEF AnswersInv, AnswersTypeOk, IsDiscovery
  <2>8. m \in ListedModules(discovery.entries[w])
    BY <1>7, <2>7 DEF ListedModules, EntryRecords
  <2>9. /\ runs[w].status = "ran" /\ runs[w].modules[m].state = "ran" /\ IdsOf(runs[w].modules[m].tests) = IdsOf(list)
    BY <2>5, <2>8 DEF VouchedModules
  <2>10. ~runs[w].modules[m].error
    BY <1>7, <2>4 DEF ListTaken
  <2>11. /\ texts[m].breaks = "no"
         /\ runs[w].modules[m].tests = [i \in DOMAIN texts[m].tests |->
               [id |-> Identities(texts[m].tests)[i], duplicate |-> Duplicate(texts[m].tests, i), outcome |-> source]]
    <3>1. texts[m].breaks = "no"
      BY <1>7, <2>4, <2>6, <2>9, <2>10, CurrentRun
    <3>2. Reported(texts[m]) = texts[m].tests
      BY <3>1 DEF Reported
    <3> QED BY <1>7, <2>4, <2>6, <2>9, <3>1, <3>2, CurrentRun
  <2>12. Lists(runs[w].modules[m].tests, texts[m])
    BY <2>11 DEF Lists
  <2> QED BY <1>4, <2>9, <2>11, <2>12, ListsOk DEF TrueIds
<1> QED BY <1>5, <1>6, <1>7

\* A result rated current: the run that recorded it is of the contents now, and its test is not told apart by its position only,
\* or the discovery is of the contents now as well.
LEMMA StandingCurrent ==
    ASSUME AnswersAssumption, AnswersInv, NEW w \in Workspaces, NEW m \in ModulesOf[w], NEW test, Standing(w, m, test).freshness = "current"
    PROVE  /\ runs[w] \notin {None, Refused} /\ runs[w].print = WorkspacePrint(w) /\ runs[w].print # None
           /\ runs[w].status = "ran" /\ runs[w].modules[m].state = "ran"
           /\ \E i \in DOMAIN runs[w].modules[m].tests :
                 LET t == runs[w].modules[m].tests[i]
                 IN /\ t.id = test.id /\ Standing(w, m, test).state = t.outcome
                    /\ ~PositionUnvouched(test, t.duplicate)
<1> DEFINE found == RunAnswer(runs[w], m, test.id)
<1>1. runs[w] \notin {None, Refused}
  BY DEF Standing
<1>2. /\ "outcome" \in DOMAIN found
      /\ Standing(w, m, test) = [state |-> found.outcome, freshness |-> StandingFreshness(runs[w], test, found, WorkspacePrint(w))]
  BY <1>1 DEF Standing
<1>3. /\ StandingFreshness(runs[w], test, found, WorkspacePrint(w)) = "current" /\ Standing(w, m, test).state = found.outcome
  BY <1>2
<1>4. /\ ~PositionUnvouched(test, found.positional) /\ AssessFreshness(runs[w].print, WorkspacePrint(w)) = "current"
  BY <1>3 DEF StandingFreshness
<1>5. "outcome" \notin DOMAIN [state |-> runs[w].status] /\ "outcome" \notin DOMAIN [state |-> runs[w].modules[m].state]
      /\ "outcome" \notin DOMAIN [state |-> "not in latest run"] /\ "outcome" \notin DOMAIN [state |-> "interrupted"]
  OBVIOUS
<1> DEFINE of == {i \in DOMAIN runs[w].modules[m].tests : runs[w].modules[m].tests[i].id = test.id}
<1> DEFINE i == CHOOSE j \in of : TRUE
<1>6. runs[w].status = "ran"
  BY <1>2, <1>5 DEF RunAnswer
<1>7. runs[w].modules[m].state = "ran"
  BY <1>2, <1>5, <1>6 DEF RunAnswer
<1>8. of # {}
  BY <1>2, <1>5, <1>6, <1>7 DEF RunAnswer
<1>9. i \in of
  BY <1>8
<1>10. found = [outcome |-> runs[w].modules[m].tests[i].outcome, positional |-> runs[w].modules[m].tests[i].duplicate]
  BY <1>2, <1>5, <1>6, <1>7, <1>8 DEF RunAnswer
<1>11. found.outcome = runs[w].modules[m].tests[i].outcome /\ found.positional = runs[w].modules[m].tests[i].duplicate
  <2> HIDE DEF found, i
  <2> QED BY <1>10
<1>12. runs[w].print = WorkspacePrint(w) /\ runs[w].print # None
  BY <1>4, RatedCurrent
<1>13. i \in DOMAIN runs[w].modules[m].tests /\ runs[w].modules[m].tests[i].id = test.id
  BY <1>9
<1> HIDE DEF found, i, of
<1> QED BY <1>1, <1>3, <1>4, <1>6, <1>7, <1>11, <1>12, <1>13

LEMMA ResultsHold ==
    ASSUME AnswersAssumption, AnswersInv
    PROVE  CurrentResultsHold
<1> SUFFICES ASSUME discovery # None, NEW s \in TestStandings, s.standing.freshness = "current"
             PROVE  /\ s.test.id \in TrueIds(s.module) /\ texts[s.module].breaks # "at load" /\ s.standing.state = source
                    /\ ListTaken(s.workspace, s.module) => PositionsHold(s)
  BY DEF CurrentResultsHold
<1> DEFINE made(w, m, i) == [workspace |-> w, module |-> m, test |-> discovery.entries[w].lists[m][i],
                             standing |-> Standing(w, m, discovery.entries[w].lists[m][i])]
<1>1. PICK w \in Workspaces : /\ discovery.entries[w].status = "discovered"
                             /\ s \in UNION {{made(w, m, i) : i \in DOMAIN discovery.entries[w].lists[m]} : m \in ModulesOf[w]}
  BY DEF TestStandings
<1>2. PICK m \in ModulesOf[w] : s \in {made(w, m, i) : i \in DOMAIN discovery.entries[w].lists[m]}
  BY <1>1
<1>3. PICK i \in DOMAIN discovery.entries[w].lists[m] : s = made(w, m, i)
  BY <1>2
<1>4. /\ discovery.entries[w].status = "discovered" /\ i \in DOMAIN discovery.entries[w].lists[m]
      /\ s = [workspace |-> w, module |-> m, test |-> discovery.entries[w].lists[m][i], standing |-> Standing(w, m, discovery.entries[w].lists[m][i])]
  BY <1>1, <1>3
<1> DEFINE list == discovery.entries[w].lists[m]
<1> DEFINE test == list[i]
<1> DEFINE recorded == runs[w].modules[m].tests
<1>5. s.workspace = w /\ s.module = m /\ s.test = test /\ s.standing = Standing(w, m, test)
  BY <1>4
<1>6. /\ runs[w] \notin {None, Refused} /\ runs[w].print = WorkspacePrint(w) /\ runs[w].print # None
      /\ runs[w].status = "ran" /\ runs[w].modules[m].state = "ran"
  <2> HIDE DEF test
  <2>1. Standing(w, m, test).freshness = "current"
    BY <1>5
  <2> QED BY <2>1, StandingCurrent
<1>7. PICK j \in DOMAIN recorded :
         recorded[j].id = test.id /\ s.standing.state = recorded[j].outcome /\ ~PositionUnvouched(test, recorded[j].duplicate)
  <2> HIDE DEF test
  <2>1. Standing(w, m, test).freshness = "current" /\ s.standing = Standing(w, m, test)
    BY <1>5
  <2>2. \E j \in DOMAIN recorded : /\ recorded[j].id = test.id /\ Standing(w, m, test).state = recorded[j].outcome
                                  /\ ~PositionUnvouched(test, recorded[j].duplicate)
    BY <2>1, StandingCurrent
  <2> QED BY <2>1, <2>2
<1>8. texts[m] \in Texts
  BY DEF AnswersInv, AnswersTypeOk, Modules
<1>9. /\ runs[w].modules[m].error \/ texts[m].breaks = "no"
      /\ LET tests == Reported(texts[m])
         IN recorded = [k \in DOMAIN tests |-> [id |-> Identities(tests)[k], duplicate |-> Duplicate(tests, k), outcome |-> source]]
  BY <1>6, CurrentRun
<1>10. texts[m].breaks # "at load"
  <2> SUFFICES ASSUME texts[m].breaks = "at load" PROVE FALSE
    OBVIOUS
  <2>1. Reported(texts[m]) = <<>>
    BY DEF Reported
  <2>2. DOMAIN recorded = DOMAIN Reported(texts[m])
    BY <1>9
  <2>3. DOMAIN recorded = {}
    <3> HIDE DEF recorded
    <3> QED BY <2>1, <2>2, NothingListed
  <2> HIDE DEF recorded
  <2> QED BY <1>7, <2>3
<1>11. Reported(texts[m]) = texts[m].tests
  BY <1>10 DEF Reported
<1>12. recorded = [k \in DOMAIN texts[m].tests |-> [id |-> Identities(texts[m].tests)[k], duplicate |-> Duplicate(texts[m].tests, k), outcome |-> source]]
  BY <1>9, <1>11
<1>13. Lists(recorded, texts[m]) /\ recorded[j].outcome = source
  <2> HIDE DEF recorded
  <2>1. j \in DOMAIN recorded
    BY <1>7
  <2> QED BY <1>12, <2>1 DEF Lists
<1>14. IdsOf(recorded) = TrueIds(m) /\ ToldApart(recorded)
  BY <1>8, <1>13, ListsOk DEF TrueIds
<1>15. test.id \in TrueIds(m)
  BY <1>7, <1>14 DEF IdsOf
<1>16. ASSUME ListTaken(w, m) PROVE SameNamed(IdsOf(list), test.id) = SameNamed(TrueIds(m), test.id)
  <2>1. <<w, m>> \notin unrefreshed /\ ~runs[w].modules[m].error
    BY <1>6, <1>16 DEF ListTaken
  <2>2. CASE ~test.duplicate /\ ~recorded[j].duplicate
    <3>1. ToldApart(list)
      BY <1>4 DEF AnswersInv, ListsInv
    <3>2. SameNamed(IdsOf(list), test.id) = {test.id}
      BY <1>4, <2>2, <3>1 DEF ToldApart, SameNamed, IdsOf
    <3>3. SameNamed(IdsOf(recorded), test.id) = {test.id}
      BY <1>7, <1>14, <2>2 DEF ToldApart, SameNamed, IdsOf
    <3> QED BY <1>14, <3>2, <3>3
  <2>3. CASE OwnFreshness = "current"
    <3>1. discovery.ours /\ discovery.print # None /\ discovery.print[1] = texts /\ discovery.print[2] = source
      BY <2>3, OwnCurrent
    <3>2. SameContent(w)
      BY <1>6, <3>1 DEF SameContent, WorkspacePrint
    <3>3. recorded # <<>> /\ list # <<>>
      BY <1>4, <1>7
    <3>4. m \in RunLists(runs[w])
      <4>1. runs[w] \in RunType(w)
        BY <1>6 DEF AnswersInv, AnswersTypeOk
      <4>2. DOMAIN runs[w].modules = ModulesOf[w]
        BY <4>1 DEF RunType
      <4> QED BY <1>6, <2>1, <4>2 DEF RunLists
    <3>5. Reports(w, m)
      BY <3>3, <3>4 DEF Reports
    <3>6. IdsOf(list) = IdsOf(recorded)
      BY <1>4, <1>6, <2>1, <3>1, <3>2, <3>3, <3>5 DEF AnswersInv, TakenInv
    <3> QED BY <1>14, <3>6
  <2> QED BY <1>7, <2>2, <2>3 DEF PositionUnvouched
<1> HIDE DEF list, test, recorded
<1>17. ListTaken(w, m) => PositionsHold(s)
  BY <1>5, <1>16 DEF PositionsHold, list
<1> QED BY <1>5, <1>7, <1>10, <1>13, <1>15, <1>17

\* Whatever the workspaces, modules and texts: the tests an answer rates current are the ones there are, and a result it rates
\* current is what the test gives now (query/list-freshness.ts, test-states.ts, daemon/carried-lists.ts).
THEOREM CurrentAnswersAreTrue ==
    ASSUME AnswersAssumption
    PROVE  DefectSpec => []CurrentIsTrue
<1>1. AnswersInv => CurrentIsTrue
  BY ListsHold, ResultsHold DEF CurrentIsTrue
<1> QED BY <1>1, AnswersInvHolds, PTL

---------------------------------------------------------------------------
\* Evidence.

\* A stored verdict with what it was given on: the test of its digest, the mutated file's text and the inputs of its workspace.
EvidenceTrue(id, record, j) ==
    /\ record = [verdict |-> record.verdict, digest |-> record.digest, file |-> record.file, ours |-> record.ours, print |-> record.print]
    /\ j \in JudgedType /\ record.file = j.source
    /\ \E w \in Workspaces : \E m \in ModulesOf[w] : \E test, path :
          /\ j.test = <<m, test>> /\ record.digest = <<id, <<w, m, test>>, path, j.old, j.new, j.names>>
          /\ record.print # None => record.print[1][m] = j.text

EvidenceInv ==
    /\ definitions \in [Slots -> DefinitionValues \cup {None}] /\ names \in SUBSET ErrorNames
    /\ evidence = [id \in Ids |-> evidence[id]] /\ judged = [id \in Ids |-> judged[id]]
    /\ \A id \in Ids : evidence[id] \notin {None, Refused} => EvidenceTrue(id, evidence[id], judged[id])

LEMMA ResolvedOk ==
    ASSUME NEW d, ResolvedTest(d) # None
    PROVE  Cardinality(Matches(d)) = 1 /\ ResolvedTest(d) \in Matches(d)
<1>1. Cardinality(Matches(d)) = 1 /\ ResolvedTest(d) = CHOOSE t \in Matches(d) : TRUE
  BY DEF ResolvedTest
<1>2. Matches(d) # {}
  BY <1>1, FS_EmptySet
<1> QED BY <1>1, <1>2

LEMMA MatchOk ==
    ASSUME NEW d, NEW t \in Matches(d)
    PROVE  /\ ModulePath(d) # None /\ ModulePath(d) = <<t.module>> /\ NamesTest(d.test, t.test.id)
           /\ \E w \in Workspaces : \E m \in ModulesOf[w] : \E i \in DOMAIN discovery.entries[w].lists[m] :
                 discovery.entries[w].status = "discovered" /\ t = [workspace |-> w, module |-> m, test |-> discovery.entries[w].lists[m][i]]
<1> DEFINE made(w, m, i) == [workspace |-> w, module |-> m, test |-> discovery.entries[w].lists[m][i]]
<1> DEFINE at(w) == {n \in ModulesOf[w] : <<n>> = ModulePath(d)}
<1>1. ModulePath(d) # None /\ t \in IndexedTests(ModulePath(d)) /\ NamesTest(d.test, t.test.id)
  BY DEF Matches
<1>2. PICK w \in Workspaces : /\ discovery.entries[w].status = "discovered"
                             /\ t \in UNION {{made(w, m, i) : i \in DOMAIN discovery.entries[w].lists[m]} : m \in at(w)}
  BY <1>1 DEF IndexedTests
<1>3. PICK m \in at(w) : t \in {made(w, m, i) : i \in DOMAIN discovery.entries[w].lists[m]}
  BY <1>2
<1>4. PICK i \in DOMAIN discovery.entries[w].lists[m] : t = made(w, m, i)
  BY <1>3
<1>5. m \in ModulesOf[w] /\ <<m>> = ModulePath(d)
  BY <1>3
<1>6. t.module = m
  BY <1>4
<1> QED BY <1>1, <1>2, <1>4, <1>5, <1>6

LEMMA ImageFinite ==
    ASSUME NEW S, IsFiniteSet(S), NEW f, f = [x \in S |-> f[x]]
    PROVE  IsFiniteSet({f[x] : x \in S})
<1>1. f \in Surjection(S, {f[x] : x \in S})
  BY DEF Surjection
<1> QED BY <1>1, FS_Surjection

LEMMA IndexFinite ==
    ASSUME AnswersAssumption, AnswersTypeOk, discovery # None, NEW path
    PROVE  IsFiniteSet(IndexedTests(path))
<1> DEFINE of(w, m) == {[workspace |-> w, module |-> m, test |-> discovery.entries[w].lists[m][i]] : i \in DOMAIN discovery.entries[w].lists[m]}
<1> DEFINE at(w) == {n \in ModulesOf[w] : <<n>> = path}
<1> DEFINE listed == {v \in Workspaces : discovery.entries[v].status = "discovered"}
<1> DEFINE in(w) == UNION {of(w, m) : m \in at(w)}
<1>1. ASSUME NEW w \in Workspaces, NEW m \in ModulesOf[w] PROVE IsFiniteSet(of(w, m))
  <2> DEFINE list == discovery.entries[w].lists[m]
  <2> DEFINE made(i) == [workspace |-> w, module |-> m, test |-> list[i]]
  <2>1. list \in Seq(ListItems)
    BY DEF AnswersTypeOk, IsDiscovery, EntryRecords
  <2>2. IsFiniteSet(DOMAIN list)
    <3> HIDE DEF list
    <3>1. DOMAIN list = 1..Len(list) /\ Len(list) \in Int
      BY <2>1, LenProperties
    <3>2. IsFiniteSet(1..Len(list))
      BY <3>1, FS_Interval
    <3> QED BY <3>1, <3>2
  <2> DEFINE f == [i \in DOMAIN list |-> made(i)]
  <2>3. IsFiniteSet({f[i] : i \in DOMAIN list})
    <3>1. f = [i \in DOMAIN list |-> f[i]]
      OBVIOUS
    <3> HIDE DEF f
    <3> QED BY <2>2, <3>1, ImageFinite
  <2>4. {f[i] : i \in DOMAIN list} = {made(i) : i \in DOMAIN list}
    <3> HIDE DEF made, list
    <3> QED BY DEF f
  <2> QED BY <2>3, <2>4
<1>2. ASSUME NEW w \in Workspaces PROVE IsFiniteSet(in(w))
  <2>1. CASE at(w) = {}
    <3>1. in(w) = {}
      BY <2>1
    <3> QED BY <3>1, FS_EmptySet
  <2>2. CASE at(w) # {}
    <3>1. PICK m \in at(w) : TRUE
      BY <2>2
    <3>2. \A n \in at(w) : n = m
      BY <3>1
    <3> HIDE DEF of
    <3>3. in(w) = of(w, m)
      BY <3>1, <3>2
    <3> QED BY <1>1, <3>1, <3>3
  <2> QED BY <2>1, <2>2
<1>3. IsFiniteSet(listed)
  BY FS_Subset DEF AnswersAssumption
<1>4. IsFiniteSet({in(w) : w \in listed})
  <2> HIDE DEF in, listed
  <2> DEFINE f == [w \in listed |-> in(w)]
  <2>1. IsFiniteSet({f[w] : w \in listed})
    <3>1. f = [w \in listed |-> f[w]]
      OBVIOUS
    <3> HIDE DEF f
    <3> QED BY <1>3, <3>1, ImageFinite
  <2>2. {f[w] : w \in listed} = {in(w) : w \in listed}
    OBVIOUS
  <2> QED BY <2>1, <2>2
<1>5. IsFiniteSet(UNION {in(w) : w \in listed})
  <2> HIDE DEF in
  <2> QED BY <1>2, <1>4, FS_UNION
<1> QED BY <1>5 DEF IndexedTests

---------------------------------------------------------------------------
\* What is counted verified.

\* A definition that resolves has no problem, and its test is the one it names.
LEMMA ResolvedDefinition ==
    ASSUME NEW i \in Slots, NEW d, d = definitions[i], ResolvedState(i) \notin {"invalid definition"}
    PROVE  /\ Problems(i) = {} /\ ~Repeats(i) /\ d.object /\ d.id # None /\ d.texts /\ d.test # None /\ d.mutation # None
           /\ ResolvedTest(d) \in Matches(d) /\ Cardinality(Matches(d)) = 1
           /\ Normalised(d.test.module) = <<ResolvedTest(d).module>> /\ NamesTest(d.test, ResolvedTest(d).test.id)
<1>1. Problems(i) = {} /\ ResolvedTest(d) # None
  BY DEF ResolvedState
<1>2. OwnProblems(d) = {} /\ ~Repeats(i)
  BY <1>1 DEF Problems
<1>3. d.object /\ d.id # None /\ d.texts /\ d.test # None /\ d.mutation # None
  BY <1>2 DEF OwnProblems
<1>4. ResolvedTest(d) \in Matches(d) /\ Cardinality(Matches(d)) = 1
  BY <1>1, ResolvedOk
<1>5. /\ ModulePath(d) # None /\ ModulePath(d) = <<ResolvedTest(d).module>> /\ NamesTest(d.test, ResolvedTest(d).test.id)
  BY <1>4, MatchOk
<1>6. ModulePath(d) = Normalised(d.test.module)
  BY <1>3, <1>5 DEF ModulePath, RootRelative
<1> QED BY <1>1, <1>2, <1>3, <1>4, <1>5, <1>6

LEMMA VerifiedIsJudged ==
    ASSUME DefectAssumption, EvidenceInv, NEW i \in Present, Verified(i)
    PROVE  MeansJudged(definitions[i], judged[definitions[i].id]) /\ \A j \in Present \ {i} : definitions[j].id # definitions[i].id
<1> DEFINE d == definitions[i]
<1> DEFINE t == ResolvedTest(d)
<1> DEFINE record == evidence[d.id]
<1> DEFINE j == judged[d.id]
<1>1. i \in Slots /\ d \in DefinitionValues
  BY DEF Present, EvidenceInv
<1>2. DefectStanding(i).state = "detected" /\ DefectStanding(i).freshness = "current"
  BY DEF Verified
<1>3. ResolvedState(i) = "never verified"
  BY <1>2 DEF DefectStanding, ResolvedState
<1>4. record \notin {None, Refused}
  BY <1>2, <1>3 DEF DefectStanding
<1>5. EvidenceFreshness(d, record) = "current"
  BY <1>2, <1>3, <1>4 DEF DefectStanding
<1>6. /\ Problems(i) = {} /\ ~Repeats(i) /\ d.object /\ d.id # None /\ d.texts /\ d.test # None /\ d.mutation # None
      /\ t \in Matches(d) /\ Normalised(d.test.module) = <<t.module>> /\ NamesTest(d.test, t.test.id)
  BY <1>1, <1>3, ResolvedDefinition
<1>7. d.id \in Ids
  BY <1>1, <1>6 DEF Ids
<1>8. EvidenceTrue(d.id, record, j)
  BY <1>4, <1>7 DEF EvidenceInv
<1> HIDE DEF d, t, record, j
<1>9. StaleCauses(d, record) = {} /\ UnknownReasons(d, record) = {}
  BY <1>5 DEF EvidenceFreshness
<1>10. record.digest = Digest(d) /\ record.file = source /\ AssessFreshness(record.print, WorkspacePrint(t.workspace)) # "stale"
  BY <1>9 DEF StaleCauses, t
<1>11. AssessFreshness(record.print, WorkspacePrint(t.workspace)) # "unknown"
  BY <1>9 DEF UnknownReasons, t
<1>12. record.print # None /\ record.print = WorkspacePrint(t.workspace)
  BY <1>10, <1>11, RatedCurrent DEF AssessFreshness
<1>13. PICK w \in Workspaces : \E m \in ModulesOf[w] : \E test, path :
          /\ j.test = <<m, test>> /\ record.digest = <<d.id, <<w, m, test>>, path, j.old, j.new, j.names>>
          /\ record.print # None => record.print[1][m] = j.text
  BY <1>8 DEF EvidenceTrue
<1>14. PICK m \in ModulesOf[w] : \E test, path :
          /\ j.test = <<m, test>> /\ record.digest = <<d.id, <<w, m, test>>, path, j.old, j.new, j.names>>
          /\ record.print # None => record.print[1][m] = j.text
  BY <1>13
<1>15. PICK test, path :
          /\ j.test = <<m, test>> /\ record.digest = <<d.id, <<w, m, test>>, path, j.old, j.new, j.names>>
          /\ record.print # None => record.print[1][m] = j.text
  BY <1>14
<1>16. /\ w = t.workspace /\ m = t.module /\ test = t.test.id /\ j.test[1] = m /\ j.test[2] = test
       /\ j.old = d.mutation.old /\ j.new = d.mutation.new /\ j.names = names
  <2>1. record.digest = <<d.id, <<t.workspace, t.module, t.test.id>>, MutationPath(d), d.mutation.old, d.mutation.new, names>>
    BY <1>10 DEF Digest, t
  <2> QED BY <1>15, <2>1
<1>17. j.source = source /\ j # None
  BY <1>8, <1>10 DEF EvidenceTrue, DefectAssumption
<1>18. j.text = texts[m]
  <2>1. WorkspacePrint(t.workspace) = <<[n \in ModulesOf[w] |-> texts[n]], source>>
    BY <1>16 DEF WorkspacePrint
  <2>2. WorkspacePrint(t.workspace)[1][m] = texts[m]
    BY <2>1
  <2> QED BY <1>12, <1>15, <2>2
<1>19. MeansJudged(d, j)
  BY <1>6, <1>16, <1>17, <1>18 DEF MeansJudged
<1>20. \A k \in Present \ {i} : definitions[k].id # d.id
  BY <1>6 DEF Repeats, d
<1> QED BY <1>19, <1>20 DEF d, j

LEMMA AllCounted ==
    ASSUME AnswersAssumption, AnswersTypeOk, discovery # None
    PROVE  AllVerifiedMeansAll
<1> SUFFICES ASSUME NEW scope, NEW invalid \in {{}, {"entry"}}
             PROVE  LET answer == DefectsAnswer(scope, invalid)
                    IN /\ answer.verified = answer.total => invalid = {} /\ \A i \in Present : InScope(i, scope) => Verified(i)
                       /\ \A s \in answer.gaps, i \in Present :
                             Verified(i) => ~(Normalised(definitions[i].test.module) = <<s.module>> /\ NamesTest(definitions[i].test, s.test.id))
  BY DEF AllVerifiedMeansAll
<1> DEFINE answer == DefectsAnswer(scope, invalid)
<1> DEFINE counted == {i \in Present : InScope(i, scope)}
<1> DEFINE verified == {i \in counted : Verified(i)}
<1> DEFINE covered == {ResolvedTest(definitions[i]) : i \in Present}
<1> DEFINE told(s) == [workspace |-> s.workspace, module |-> s.module, test |-> s.test]
<1> DEFINE gaps == {s \in TestStandings : IsPrefix(scope, <<s.module>>) /\ told(s) \notin covered}
<1>1. /\ answer.total = Cardinality(counted) + Cardinality(invalid) /\ answer.verified = Cardinality(verified)
      /\ answer.gaps = gaps
  BY DEF DefectsAnswer
<1>2. IsFiniteSet(Slots) /\ counted \subseteq Slots /\ verified \subseteq counted
  <2>1. IsFiniteSet(Slots)
    <3>1. \A n \in Nat : IsFiniteSet(1..n)
      BY FS_Interval
    <3> QED BY <3>1 DEF Slots
  <2> QED BY <2>1 DEF Present
<1>3. IsFiniteSet(counted) /\ Cardinality(counted) \in Nat /\ Cardinality(verified) \in Nat
  <2> HIDE DEF counted, verified
  <2> QED BY <1>2, FS_Subset, FS_CardinalityType
<1>4. Cardinality(verified) <= Cardinality(counted) /\ (Cardinality(verified) = Cardinality(counted) => verified = counted)
  <2> HIDE DEF counted, verified
  <2> QED BY <1>2, <1>3, FS_Subset
<1>5. invalid = {} \/ invalid = {"entry"}
  OBVIOUS
<1>6. (invalid = {} => Cardinality(invalid) = 0) /\ (invalid = {"entry"} => Cardinality(invalid) = 1)
  BY FS_EmptySet, FS_Singleton
<1>7. ASSUME answer.verified = answer.total PROVE invalid = {} /\ \A i \in Present : InScope(i, scope) => Verified(i)
  <2>1. invalid = {} /\ Cardinality(verified) = Cardinality(counted)
    <3> HIDE DEF answer, counted, verified
    <3> QED BY <1>1, <1>3, <1>4, <1>5, <1>6, <1>7
  <2>2. verified = counted
    BY <1>4, <2>1
  <2> QED BY <2>1, <2>2
<1>8. ASSUME NEW s \in gaps, NEW i \in Present, Verified(i), Normalised(definitions[i].test.module) = <<s.module>>,
             NamesTest(definitions[i].test, s.test.id)
      PROVE  FALSE
  <2> DEFINE d == definitions[i]
  <2>1. ResolvedState(i) = "never verified"
    <3>1. DefectStanding(i).state = "detected"
      BY <1>8 DEF Verified
    <3> QED BY <3>1 DEF DefectStanding, ResolvedState
  <2>2. /\ ResolvedTest(d) \in Matches(d) /\ Cardinality(Matches(d)) = 1 /\ Normalised(d.test.module) = <<ResolvedTest(d).module>>
    BY <2>1, ResolvedDefinition DEF Present
  <2>3. ModulePath(d) = <<s.module>> /\ ModulePath(d) # None
    BY <1>8, <2>2, MatchOk
  <2>4. told(s) \in IndexedTests(<<s.module>>)
    <3> DEFINE made(v, m, k) == [workspace |-> v, module |-> m, test |-> discovery.entries[v].lists[m][k],
                                standing |-> Standing(v, m, discovery.entries[v].lists[m][k])]
    <3>1. PICK w \in Workspaces : /\ discovery.entries[w].status = "discovered"
                                 /\ s \in UNION {{made(w, m, k) : k \in DOMAIN discovery.entries[w].lists[m]} : m \in ModulesOf[w]}
      BY <1>8 DEF TestStandings
    <3>2. PICK m \in ModulesOf[w] : s \in {made(w, m, k) : k \in DOMAIN discovery.entries[w].lists[m]}
      BY <3>1
    <3>3. PICK k \in DOMAIN discovery.entries[w].lists[m] : s = made(w, m, k)
      BY <3>2
    <3>4. s.workspace = w /\ s.module = m /\ s.test = discovery.entries[w].lists[m][k]
      BY <3>3
    <3> HIDE DEF made
    <3> QED BY <3>1, <3>3, <3>4 DEF IndexedTests
  <2>5. told(s) \in Matches(d)
    BY <1>8, <2>3, <2>4 DEF Matches
  <2>6. IsFiniteSet(Matches(d))
    <3>1. IsFiniteSet(IndexedTests(ModulePath(d)))
      BY IndexFinite
    <3> QED BY <3>1, FS_Subset, FS_EmptySet DEF Matches
  <2>7. told(s) = ResolvedTest(d)
    <3> HIDE DEF told, d
    <3> QED BY <2>2, <2>5, <2>6, FS_Singleton
  <2> QED BY <1>8, <2>7
<1> HIDE DEF answer, counted, verified, gaps
<1> QED BY <1>1, <1>7, <1>8 DEF answer

---------------------------------------------------------------------------
\* Judging, editing, refusing.

LEMMA FalsifyKeeps ==
    ASSUME AnswersAssumption, DefectAssumption, AnswersTypeOk, EvidenceInv, NEW i \in Slots, Falsify(i)
    PROVE  EvidenceInv'
<1> DEFINE d == definitions[i]
<1> DEFINE t == ResolvedTest(d)
<1>1. discovery # None /\ i \in Present /\ Eligible(i) /\ UNCHANGED <<vars, definitions, names>>
  BY DEF Falsify
<1>2. d \in DefinitionValues
  BY <1>1 DEF Present, EvidenceInv
<1>3. ResolvedState(i) = "never verified"
  BY <1>1 DEF Eligible
<1>4. d.id # None /\ d.mutation # None /\ t \in Matches(d)
  BY <1>3, ResolvedDefinition
<1>5. d.id \in Ids
  BY <1>2, <1>4 DEF Ids
<1>6. t.workspace \in Workspaces /\ t.module \in ModulesOf[t.workspace] /\ t.test.id \in TestIds
  <2> HIDE DEF t, d
  <2>1. PICK w \in Workspaces : \E m \in ModulesOf[w] : \E k \in DOMAIN discovery.entries[w].lists[m] :
               discovery.entries[w].status = "discovered" /\ t = [workspace |-> w, module |-> m, test |-> discovery.entries[w].lists[m][k]]
    BY <1>4, MatchOk
  <2>2. PICK m \in ModulesOf[w] : \E k \in DOMAIN discovery.entries[w].lists[m] :
               t = [workspace |-> w, module |-> m, test |-> discovery.entries[w].lists[m][k]]
    BY <2>1
  <2>3. PICK k \in DOMAIN discovery.entries[w].lists[m] : t = [workspace |-> w, module |-> m, test |-> discovery.entries[w].lists[m][k]]
    BY <2>2
  <2>4. t.workspace = w /\ t.module = m /\ t.test = discovery.entries[w].lists[m][k]
    BY <2>3
  <2>5. discovery.entries[w].lists[m] \in Seq(ListItems)
    BY <1>1 DEF AnswersTypeOk, IsDiscovery, EntryRecords
  <2>6. discovery.entries[w].lists[m][k] \in ListItems
    BY <2>5, LenProperties
  <2> QED BY <2>4, <2>6 DEF ListItems
<1>7. texts[t.module] \in Texts /\ t.module \in Modules /\ source \in Outcomes
  BY <1>6 DEF AnswersTypeOk, Modules
<1>8. d.mutation.old \in AnchorTexts /\ d.mutation.new \in AnchorTexts
  BY <1>2, <1>4 DEF AnchorTexts
<1> DEFINE j == [test |-> <<t.module, t.test.id>>, old |-> d.mutation.old, new |-> d.mutation.new, source |-> source, names |-> names,
                 text |-> texts[t.module]]
<1> DEFINE record(v) == [verdict |-> v, digest |-> Digest(d), file |-> source, ours |-> TRUE, print |-> WorkspacePrint(t.workspace)]
<1>9. PICK v \in Verdicts : evidence' = [evidence EXCEPT ![d.id] = record(v)] /\ judged' = [judged EXCEPT ![d.id] = j]
  BY DEF Falsify
<1>10. Digest(d) = <<d.id, <<t.workspace, t.module, t.test.id>>, MutationPath(d), d.mutation.old, d.mutation.new, names>>
  BY DEF Digest
<1>11. WorkspacePrint(t.workspace)[1][t.module] = texts[t.module]
  BY <1>6 DEF WorkspacePrint
<1> HIDE DEF d, t
<1>12. EvidenceTrue(d.id, record(v), j)
  <2>1. j \in JudgedType
    BY <1>6, <1>7, <1>8 DEF JudgedType, EvidenceInv
  <2>2. /\ record(v) = [verdict |-> record(v).verdict, digest |-> record(v).digest, file |-> record(v).file,
                        ours |-> record(v).ours, print |-> record(v).print]
        /\ record(v).file = j.source /\ record(v).digest = Digest(d) /\ record(v).print = WorkspacePrint(t.workspace)
    OBVIOUS
  <2>3. /\ j.old = d.mutation.old /\ j.new = d.mutation.new /\ j.names = names /\ j.test = <<t.module, t.test.id>>
        /\ j.text = texts[t.module]
    OBVIOUS
  <2> HIDE DEF j, record
  <2>4. record(v).digest = <<d.id, <<t.workspace, t.module, t.test.id>>, MutationPath(d), j.old, j.new, j.names>>
    BY <1>10, <2>2, <2>3
  <2> QED BY <1>6, <1>11, <2>1, <2>2, <2>3, <2>4 DEF EvidenceTrue
<1> HIDE DEF j, record
<1>13. /\ evidence' = [id \in Ids |-> evidence'[id]] /\ judged' = [id \in Ids |-> judged'[id]]
       /\ evidence'[d.id] = record(v) /\ judged'[d.id] = j
       /\ \A id \in Ids : id # d.id => evidence'[id] = evidence[id] /\ judged'[id] = judged[id]
  BY <1>5, <1>9 DEF EvidenceInv
<1>14. ASSUME NEW id \in Ids, evidence'[id] \notin {None, Refused} PROVE EvidenceTrue(id, evidence'[id], judged'[id])
  <2>1. CASE id = d.id
    BY <1>12, <1>13, <2>1
  <2>2. CASE id # d.id
    BY <1>13, <1>14, <2>2 DEF EvidenceInv
  <2> QED BY <2>1, <2>2
<1> QED BY <1>1, <1>13, <1>14 DEF EvidenceInv, EvidenceTrue, defectVars, vars

LEMMA EvidenceLeft ==
    ASSUME EvidenceInv, definitions' \in [Slots -> DefinitionValues \cup {None}], names' \in SUBSET ErrorNames, UNCHANGED <<evidence, judged>>
    PROVE  EvidenceInv'
BY DEF EvidenceInv, EvidenceTrue

LEMMA EvidenceRefused ==
    ASSUME EvidenceInv, RefuseEvidence
    PROVE  EvidenceInv'
<1>1. PICK id \in Ids : evidence' = [evidence EXCEPT ![id] = Refused]
  BY DEF RefuseEvidence
<1>2. UNCHANGED <<definitions, names, judged>>
  BY DEF RefuseEvidence
<1>3. /\ evidence' = [k \in Ids |-> evidence'[k]] /\ evidence'[id] = Refused
      /\ \A k \in Ids : k # id => evidence'[k] = evidence[k]
  BY <1>1 DEF EvidenceInv
<1>4. ASSUME NEW k \in Ids, evidence'[k] \notin {None, Refused} PROVE EvidenceTrue(k, evidence'[k], judged'[k])
  BY <1>2, <1>3, <1>4 DEF EvidenceInv
<1> QED BY <1>2, <1>3, <1>4 DEF EvidenceInv, EvidenceTrue

LEMMA EvidenceUpgraded ==
    ASSUME EvidenceInv, DefectUpgrade
    PROVE  EvidenceInv'
<1>1. UNCHANGED <<definitions, names, judged>>
  BY DEF DefectUpgrade
<1>2. /\ evidence' = [k \in Ids |-> evidence'[k]]
      /\ \A k \in Ids : evidence'[k] = IF evidence[k] \in {None, Refused} THEN evidence[k] ELSE [evidence[k] EXCEPT !.ours = FALSE]
  BY DEF DefectUpgrade
<1>3. ASSUME NEW k \in Ids, evidence'[k] \notin {None, Refused} PROVE EvidenceTrue(k, evidence'[k], judged'[k])
  <2> DEFINE record == evidence[k]
  <2> DEFINE new == evidence'[k]
  <2>1. record \notin {None, Refused} /\ new = [record EXCEPT !.ours = FALSE]
    BY <1>2, <1>3
  <2>2. EvidenceTrue(k, record, judged[k])
    BY <2>1 DEF EvidenceInv
  <2> HIDE DEF record, new
  <2>3. record = [verdict |-> record.verdict, digest |-> record.digest, file |-> record.file, ours |-> record.ours, print |-> record.print]
    BY <2>2 DEF EvidenceTrue
  <2>4. /\ new.verdict = record.verdict /\ new.digest = record.digest /\ new.file = record.file /\ new.print = record.print
        /\ new = [verdict |-> new.verdict, digest |-> new.digest, file |-> new.file, ours |-> new.ours, print |-> new.print]
    BY <2>1, <2>3
  <2>5. EvidenceTrue(k, new, judged[k])
    BY <2>2, <2>4 DEF EvidenceTrue
  <2> QED BY <1>1, <2>5 DEF new
<1> QED BY <1>1, <1>2, <1>3 DEF EvidenceInv, EvidenceTrue

LEMMA EvidenceInvHolds ==
    ASSUME AnswersAssumption, DefectAssumption
    PROVE  DefectSpec => []EvidenceInv
<1>1. DefectInit => EvidenceInv
  BY DEF DefectInit, EvidenceInv, DefectAssumption, Slots
<1>2. AnswersInv /\ EvidenceInv /\ [DefectNext]_defectVars => EvidenceInv'
  <2> SUFFICES ASSUME AnswersInv, EvidenceInv, [DefectNext]_defectVars PROVE EvidenceInv'
    OBVIOUS
  <2>1. definitions \in [Slots -> DefinitionValues \cup {None}] /\ names \in SUBSET ErrorNames
    BY DEF EvidenceInv
  <2>2. CASE AnswersStep
    BY <2>1, <2>2, EvidenceLeft DEF AnswersStep
  <2>3. CASE EditDefinition
    <3>1. definitions' \in [Slots -> DefinitionValues \cup {None}] /\ UNCHANGED <<names, evidence, judged>>
      BY <2>1, <2>3 DEF EditDefinition
    <3> QED BY <2>1, <3>1, EvidenceLeft
  <2>4. CASE DeclareNames
    <3>1. names' \in SUBSET ErrorNames /\ UNCHANGED <<definitions, evidence, judged>>
      BY <2>1, <2>4 DEF DeclareNames
    <3> QED BY <2>1, <3>1, EvidenceLeft
  <2>5. CASE RefuseEvidence
    BY <2>5, EvidenceRefused
  <2>6. CASE DefectUpgrade
    BY <2>6, EvidenceUpgraded
  <2>7. ASSUME NEW i \in Slots, Falsify(i) PROVE EvidenceInv'
    BY <2>7, FalsifyKeeps DEF AnswersInv
  <2>8. CASE UNCHANGED defectVars
    BY <2>1, <2>8, EvidenceLeft DEF defectVars
  <2> QED BY <2>2, <2>3, <2>4, <2>5, <2>6, <2>7, <2>8 DEF DefectNext
<1> QED BY <1>1, <1>2, AnswersInvHolds, PTL DEF DefectSpec

\* Whatever the definitions: one counted verified was judged on exactly what there is now, and an answer that counts all verified
\* has verified all (defects/defect-standings.ts, query/defects-answer.ts).
THEOREM VerifiedIsTrue ==
    ASSUME AnswersAssumption, DefectAssumption
    PROVE  DefectSpec => []VerifiedHolds
<1>1. AnswersInv /\ EvidenceInv => VerifiedHolds
  BY AllCounted, VerifiedIsJudged DEF VerifiedHolds, AnswersInv
<1> QED BY <1>1, AnswersInvHolds, EvidenceInvHolds, PTL
=============================================================================
