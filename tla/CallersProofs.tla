---------------------------- MODULE CallersProofs ----------------------------
(***************************************************************************)
(* What a caller of the daemon gets, for any clients, paths, contents,     *)
(* workspaces, builds, bounds and halts that may fail.                     *)
(*                                                                         *)
(* Served connections: every answer a client takes is the one to its own   *)
(* request, a stop leaves no line unanswered and acknowledges the request  *)
(* for it, and the store closes after all that uses it.                    *)
(*                                                                         *)
(* Waits, in the second half: a wait binds to a revision that holds what   *)
(* the caller wrote, and its outcome is true of the stored evidence.       *)
(***************************************************************************)
EXTENDS ServedConnections, Waits, SequenceTheorems, WellFoundedInduction, TLAPS

AnyTurn == [line : Nat, message : Messages \cup {Unready}]
Taken == [line : Nat, ack : BOOLEAN]

Connections == [state : {"awaiting-hello", "ready", "mismatched"}, turns : Seq(AnyTurn), ending : BOOLEAN,
                dropped : BOOLEAN, socket : {"none", "open", "ended", "closed"}]

\* The lines of a sequence are numbered on from n.
Follows(lines, n) == \A i \in 1..Len(lines) : lines[i].line = n + i

\* A connection k, the w lines its client wrote and the answers t it took.  The answers are those to the first lines, the
\* turns those of the lines that follow, and no line taken is missing while the connection answers.
Kept(k, w, t) ==
    /\ k \in Connections /\ w \in Nat /\ t \in Seq(Taken)
    /\ Follows(t, 0) /\ Follows(k.turns, Len(t))
    /\ Len(k.turns) <= MaxUnanswered
    /\ k.socket # "open" => k.turns = <<>>
    /\ k.socket = "none" => w = 0 /\ t = <<>>
    /\ Answering(k) => w = Len(t) + Len(k.turns)

ConnectionsInv ==
    /\ conn \in [Clients -> Connections] /\ written \in [Clients -> Nat] /\ took \in [Clients -> Seq(Taken)]
    /\ \A c \in Clients : Kept(conn[c], written[c], took[c])

\* Once a stop has begun no line is pending and every query is told to end.
StoppedInv ==
    IsStopping => /\ \A c \in Clients : conn[c].turns = <<>>
                  /\ \A w \in work : w.aborted

WorkInv == work \subseteq [client : Clients, line : Nat, aborted : BOOLEAN]

\* Each wait of the stop is for what the later stages need ended.
StageInv ==
    /\ stage \in {"serving", "inputs", "sequence", "builds", "executor", "buildExecutor", "store", "endpoint", "over"}
    /\ working \subseteq {"job", "builds"}
    /\ stage \in {"builds", "executor", "buildExecutor", "store", "endpoint", "over"} => "job" \notin working
    /\ stage \in {"executor", "buildExecutor", "store", "endpoint", "over"} => "builds" \notin working \/ "builds" \in failures

ServedInv == ConnectionsInv /\ StoppedInv /\ WorkInv /\ StageInv

-----------------------------------------------------------------------------
(* The stages *)

\* The stages follow one another in their order.
LEMMA AfterIs ==
    /\ After("inputs") = "sequence" /\ After("sequence") = "builds" /\ After("builds") = "executor"
    /\ After("executor") = "buildExecutor" /\ After("buildExecutor") = "store" /\ After("store") = "endpoint"
<1>1. Len(Stages) = 9
  BY DEF Stages
<1>2. ASSUME NEW n \in 1..8, \A i \in 1..9 : Stages[i] = Stages[n] <=> i = n
      PROVE  After(Stages[n]) = Stages[n + 1]
  <2>1. (CHOOSE i \in 1..Len(Stages) : Stages[i] = Stages[n]) = n
    BY <1>1, <1>2
  <2> QED
    BY <2>1 DEF After
<1>3. \A n \in 1..9 : \A i \in 1..9 : Stages[i] = Stages[n] <=> i = n
  BY DEF Stages
<1>4. \A n \in 1..8 : After(Stages[n]) = Stages[n + 1]
  BY <1>2, <1>3
<1> QED
  BY <1>4 DEF Stages

\* The stop's own steps keep its order.
LEMMA StagesKeep ==
    ASSUME StageInv,
           \/ Await
           \/ Closing
           \/ ~IsStopping /\ BeginHalts
           \/ \E w \in working : WorkEnds(w)
           \/ stage = "endpoint" /\ stage' = "over" /\ UNCHANGED <<failures, working>>
    PROVE  StageInv'
<1>1. CASE Await
  <2>1. CASE stage = "inputs"
    BY <1>1, <2>1, AfterIs DEF Await, StageInv
  <2>2. CASE stage = "sequence"
    BY <1>1, <2>2, AfterIs DEF Await, StageInv
  <2>3. CASE stage = "builds"
    BY <1>1, <2>3, AfterIs DEF Await, StageInv
  <2> QED
    BY <1>1, <2>1, <2>2, <2>3 DEF Await
<1>2. CASE Closing
  <2>1. stage' = After(stage) /\ stage \in {"executor", "buildExecutor", "store"} /\ UNCHANGED <<failures, working>>
    BY <1>2 DEF Closing
  <2>2. stage' \in {"buildExecutor", "store", "endpoint"}
    BY <2>1, AfterIs
  <2> QED
    BY <2>1, <2>2 DEF StageInv
<1>3. CASE ~IsStopping /\ BeginHalts
  BY <1>3 DEF BeginHalts, StageInv
<1>4. CASE \E w \in working : WorkEnds(w)
  BY <1>4 DEF WorkEnds, StageInv
<1>5. CASE stage = "endpoint" /\ stage' = "over" /\ UNCHANGED <<failures, working>>
  BY <1>5 DEF StageInv
<1> QED
  BY <1>1, <1>2, <1>3, <1>4, <1>5
-----------------------------------------------------------------------------
(* One connection *)

\* Every turn before the first one pending is ready, and no other (#flush).
LEMMA ReadyIs ==
    ASSUME NEW turns \in Seq(AnyTurn)
    PROVE  /\ Ready(turns) \in 0..Len(turns)
           /\ \A i \in 1..Ready(turns) : ~Pending(turns[i])
           /\ Ready(turns) < Len(turns) => Pending(turns[Ready(turns) + 1])
<1> DEFINE Unanswered == {i \in 1..Len(turns) : Pending(turns[i])}
<1>1. Ready(turns) = IF Unanswered = {} THEN Len(turns) ELSE Min(Unanswered) - 1
  BY DEF Ready
<1>2. Unanswered \subseteq 1..Len(turns) /\ (\A i \in 1..Len(turns) : i \in Unanswered <=> Pending(turns[i])) /\ Len(turns) \in Nat
  OBVIOUS
<1> HIDE DEF Unanswered
<1>3. CASE Unanswered = {}
  BY <1>1, <1>2, <1>3
<1>4. CASE Unanswered # {}
  <2>1. IsWellFoundedOn(OpToRel(<, Nat), Nat)
    BY NatLessThanWellFounded, Zenon
  <2>2. Unanswered \subseteq Nat
    BY <1>2
  <2>3. PICK n \in Unanswered : \A m \in Unanswered : ~(<<m, n>> \in OpToRel(<, Nat))
    BY <1>4, <2>1, <2>2, WFMin, Zenon
  <2>4. \A m \in Unanswered : ~(m < n)
    BY <2>2, <2>3 DEF OpToRel
  <2>5. \A m \in Unanswered : n <= m
    BY <2>2, <2>4
  <2>6. Min(Unanswered) \in Unanswered /\ \A m \in Unanswered : Min(Unanswered) <= m
    BY <2>5 DEF Min
  <2>7. PICK m \in Unanswered : m = Min(Unanswered)
    BY <2>6
  <2>8. Ready(turns) = m - 1 /\ m \in 1..Len(turns) /\ Pending(turns[m])
    BY <1>1, <1>2, <1>4, <2>7
  <2>9. \A i \in 1..(m - 1) : i \notin Unanswered
    BY <1>2, <2>6, <2>7, <2>8
  <2> QED
    BY <1>2, <2>8, <2>9
<1> QED
  BY <1>3, <1>4

\* What a flush leaves and writes: the turns in their order, cut before the first one pending; a socket told to end is
\* ended only with nothing left (#flush).
LEMMA FlushedIs ==
    ASSUME NEW k \in Connections, NEW n \in Nat, Follows(k.turns, n), k.socket # "open" => k.turns = <<>>
    PROVE  LET f == Flushed(k) IN
           /\ f.conn \in Connections /\ f.out \in Seq(AnyTurn)
           /\ f.conn = [k EXCEPT !.turns = f.conn.turns, !.socket = f.conn.socket]
           /\ f.conn.socket = k.socket \/ (k.ending /\ k.socket = "open" /\ f.conn.socket = "ended")
           /\ f.conn.socket # "open" => f.conn.turns = <<>>
           /\ Len(f.out) + Len(f.conn.turns) = Len(k.turns)
           /\ Follows(f.out, n) /\ Follows(f.conn.turns, n + Len(f.out))
           /\ (\A i \in 1..Len(k.turns) : ~Pending(k.turns[i])) => f.conn.turns = <<>> /\ f.out = k.turns
<1> DEFINE r == Ready(k.turns)
           kept == SubSeq(k.turns, r + 1, Len(k.turns))
           written_ == SubSeq(k.turns, 1, r)
<1>1. k.turns \in Seq(AnyTurn) /\ Len(k.turns) \in Nat /\ \A i \in 1..Len(k.turns) : k.turns[i] \in AnyTurn
  BY DEF Connections
<1>2. r \in 0..Len(k.turns) /\ (r < Len(k.turns) => Pending(k.turns[r + 1]))
  BY <1>1, ReadyIs
<1>3. /\ kept \in Seq(AnyTurn) /\ Len(kept) = Len(k.turns) - r
      /\ \A i \in 1..Len(kept) : kept[i] = k.turns[r + i]
  <2> HIDE DEF r
  <2> QED
    BY <1>1, <1>2, SubSeqProperties
<1>4. /\ written_ \in Seq(AnyTurn) /\ Len(written_) = r
      /\ \A i \in 1..r : written_[i] = k.turns[i]
  <2> HIDE DEF r
  <2> QED
    BY <1>1, <1>2, SubSeqProperties
<1>5. CASE k.socket # "open"
  <2>1. k.turns = <<>> /\ kept = <<>> /\ Len(k.turns) = 0
    BY <1>1, <1>3, <1>2, <1>5
  <2>2. Flushed(k).conn = [k EXCEPT !.turns = <<>>] /\ Flushed(k).out = <<>>
    BY <1>5, <2>1 DEF Flushed, Connections
  <2>3. Flushed(k).conn = k
    BY <2>1, <2>2 DEF Connections
  <2>4. Len(<<>>) = 0 /\ <<>> \in Seq(AnyTurn)
    OBVIOUS
  <2>5. Flushed(k).conn = [k EXCEPT !.turns = Flushed(k).conn.turns, !.socket = Flushed(k).conn.socket]
    BY <2>3 DEF Connections
  <2>6. Follows(<<>>, n) /\ Follows(<<>>, n + 0)
    BY <2>4 DEF Follows
  <2>7. Flushed(k).conn.turns = <<>> /\ Flushed(k).out = <<>> /\ Len(Flushed(k).out) = 0
    BY <2>1, <2>2, <2>3, <2>4
  <2> QED
    BY <1>5, <2>1, <2>3, <2>4, <2>5, <2>6, <2>7
<1>6. CASE k.socket = "open"
  <2> DEFINE s == IF k.ending /\ kept = <<>> THEN "ended" ELSE "open"
  <2>1. Flushed(k).conn = [k EXCEPT !.turns = kept, !.socket = s] /\ Flushed(k).out = written_
    BY <1>6 DEF Flushed, Connections
  <2>2. s \in {"ended", "open"} /\ (s = "ended" => k.ending /\ kept = <<>>)
    OBVIOUS
  <2>3. Follows(written_, n) /\ Follows(kept, n + r)
    <3> HIDE DEF r, kept, written_
    <3>1. \A i \in 1..Len(written_) : written_[i].line = n + i
      <4> TAKE i \in 1..Len(written_)
      <4>1. i \in 1..Len(k.turns) /\ written_[i] = k.turns[i]
        BY <1>1, <1>2, <1>4
      <4> QED
        BY <4>1 DEF Follows
    <3>2. \A i \in 1..Len(kept) : kept[i].line = (n + r) + i
      <4> TAKE i \in 1..Len(kept)
      <4>1. r + i \in 1..Len(k.turns) /\ kept[i] = k.turns[r + i] /\ i \in Nat /\ r \in Nat
        BY <1>1, <1>2, <1>3
      <4> QED
        BY <4>1 DEF Follows
    <3> QED
      BY <3>1, <3>2 DEF Follows
  <2>4. (\A i \in 1..Len(k.turns) : ~Pending(k.turns[i])) => kept = <<>> /\ written_ = k.turns
    <3> SUFFICES ASSUME \A i \in 1..Len(k.turns) : ~Pending(k.turns[i]) PROVE kept = <<>> /\ written_ = k.turns
      OBVIOUS
    <3> HIDE DEF r, kept, written_
    <3>1. r = Len(k.turns)
      BY <1>1, <1>2
    <3>2. kept = <<>>
      BY <3>1, <1>1, <1>3, EmptySeq
    <3> QED
      BY <3>1, <3>2, <1>1, <1>4, SeqEqual
  <2> HIDE DEF r, kept, written_, s
  <2>5. Flushed(k).conn.turns = kept /\ Flushed(k).conn.socket = s /\ Flushed(k).conn \in Connections
    BY <2>1, <2>2, <1>3 DEF Connections
  <2>6. Flushed(k).conn = [k EXCEPT !.turns = Flushed(k).conn.turns, !.socket = Flushed(k).conn.socket]
    BY <2>1, <2>5 DEF Connections
  <2>7. Flushed(k).out \in Seq(AnyTurn) /\ Len(Flushed(k).out) = r /\ Len(Flushed(k).out) + Len(kept) = Len(k.turns)
    BY <1>1, <1>2, <1>3, <1>4, <2>1
  <2>8. Follows(Flushed(k).out, n) /\ Follows(Flushed(k).conn.turns, n + Len(Flushed(k).out))
    BY <2>1, <2>3, <2>5, <2>7
  <2>9. /\ Flushed(k).conn.socket = k.socket \/ (k.ending /\ k.socket = "open" /\ Flushed(k).conn.socket = "ended")
        /\ Flushed(k).conn.socket # "open" => Flushed(k).conn.turns = <<>>
    BY <1>6, <2>2, <2>5
  <2> QED
    BY <2>1, <2>4, <2>5, <2>6, <2>7, <2>8, <2>9
<1> QED
  BY <1>5, <1>6
\* A part of a sum is at most the sum.
LEMMA Sums ==
    ASSUME NEW a \in Nat, NEW b \in Nat, NEW d \in Nat, a + b = d
    PROVE  b <= d
OBVIOUS

\* A position past the first of two sequences is one of the second.
LEMMA Past ==
    ASSUME NEW a \in Nat, NEW b \in Nat, NEW i \in 1..(a + b), ~(i <= a)
    PROVE  i - a \in 1..b /\ i = a + (i - a)
OBVIOUS

\* What an operation leaves of a connection and writes on it, of w lines of which n are answered already.
Sound(r, n, w) ==
    /\ r.conn \in Connections /\ r.out \in Seq(AnyTurn)
    /\ Follows(r.out, n) /\ Follows(r.conn.turns, n + Len(r.out))
    /\ Len(r.conn.turns) <= MaxUnanswered
    /\ r.conn.socket # "open" => r.conn.turns = <<>>
    /\ Answering(r.conn) => w = n + Len(r.out) + Len(r.conn.turns)

\* What a client gets of it is the answers to the lines that follow those answered already.
LEMMA GotKept ==
    ASSUME NEW c \in Clients, NEW r, NEW w \in Nat, took[c] \in Seq(Taken), Follows(took[c], 0),
           Sound(r, Len(took[c]), w), r.conn.socket = "none" => w = 0 /\ Len(took[c]) + Len(r.out) = 0
    PROVE  Kept(r.conn, w, Got(c, r.out))
<1> DEFINE got == [i \in DOMAIN r.out |-> [line |-> r.out[i].line, ack |-> r.out[i].message = "ack"]]
<1>1. r.out \in Seq(AnyTurn) /\ Len(r.out) \in Nat /\ DOMAIN r.out = 1..Len(r.out) /\ \A i \in 1..Len(r.out) : r.out[i] \in AnyTurn
  BY LenProperties, ElementOfSeq DEF Sound
<1>2. got \in Seq(Taken) /\ Len(got) = Len(r.out) /\ \A i \in 1..Len(r.out) : got[i].line = r.out[i].line
  BY <1>1 DEF AnyTurn, Taken
<1>3. Got(c, r.out) = took[c] \o got
  BY DEF Got
<1> HIDE DEF got
<1>4. /\ Got(c, r.out) \in Seq(Taken) /\ Len(Got(c, r.out)) = Len(took[c]) + Len(r.out)
      /\ \A i \in 1..(Len(took[c]) + Len(r.out)) :
            Got(c, r.out)[i] = IF i <= Len(took[c]) THEN took[c][i] ELSE got[i - Len(took[c])]
  <2>1. /\ took[c] \o got \in Seq(Taken) /\ Len(took[c] \o got) = Len(took[c]) + Len(got)
        /\ \A i \in 1..Len(took[c]) + Len(got) :
              (took[c] \o got)[i] = IF i <= Len(took[c]) THEN took[c][i] ELSE got[i - Len(took[c])]
    <3>1. took[c] \in Seq(Taken) /\ got \in Seq(Taken)
      BY <1>2
    <3> QED
      BY <3>1, ConcatProperties
  <2>2. Len(got) = Len(r.out)
    BY <1>2
  <2> QED
    BY <2>1, <2>2, <1>3, Zenon
<1>5. Len(took[c]) \in Nat /\ Len(r.out) \in Nat
  BY <1>1, LenProperties
<1>6. Follows(Got(c, r.out), 0)
  <2> SUFFICES ASSUME NEW i \in 1..(Len(took[c]) + Len(r.out)) PROVE Got(c, r.out)[i].line = 0 + i
    BY <1>4 DEF Follows
  <2>1. CASE i <= Len(took[c])
    <3>1. i \in 1..Len(took[c])
      BY <1>5, <2>1
    <3>2. Got(c, r.out)[i] = took[c][i]
      BY <1>4, <2>1, Zenon
    <3> QED
      BY <3>1, <3>2 DEF Follows
  <2>2. CASE ~(i <= Len(took[c]))
    <3> DEFINE j == i - Len(took[c])
    <3>1. j \in 1..Len(r.out) /\ i = Len(took[c]) + j
      BY <1>5, <2>2, Past, Zenon
    <3>3. Got(c, r.out)[i] = got[j]
      BY <1>4, <2>2, Zenon
    <3> HIDE DEF j
    <3>2. r.out[j].line = Len(took[c]) + j
      BY <3>1 DEF Sound, Follows
    <3> QED
      BY <3>1, <3>2, <3>3, <1>2, <1>5
  <2> QED
    BY <2>1, <2>2
<1>7. Len(took[c]) + Len(r.out) = 0 => Got(c, r.out) = <<>>
  BY <1>4, EmptySeq
<1> QED
  BY <1>1, <1>4, <1>5, <1>6, <1>7 DEF Kept, Sound

\* A flush, after which a connection is as sound as before it.
LEMMA FlushedSound ==
    ASSUME NEW k \in Connections, NEW n \in Nat, NEW w \in Nat, Follows(k.turns, n), k.socket # "open" => k.turns = <<>>,
           Len(k.turns) <= MaxUnanswered, MaxUnanswered \in Nat, Answering(k) => w = n + Len(k.turns)
    PROVE  Sound(Flushed(k), n, w)
<1> DEFINE f == Flushed(k)
<1>1. /\ f.conn \in Connections /\ f.out \in Seq(AnyTurn)
      /\ f.conn = [k EXCEPT !.turns = f.conn.turns, !.socket = f.conn.socket]
      /\ f.conn.socket = k.socket \/ (k.ending /\ k.socket = "open" /\ f.conn.socket = "ended")
      /\ f.conn.socket # "open" => f.conn.turns = <<>>
      /\ Len(f.out) + Len(f.conn.turns) = Len(k.turns)
      /\ Follows(f.out, n) /\ Follows(f.conn.turns, n + Len(f.out))
  BY FlushedIs
<1>2. Len(f.out) \in Nat /\ Len(f.conn.turns) \in Nat /\ Len(k.turns) \in Nat
  BY <1>1 DEF Connections
<1> HIDE DEF f
<1>3. f.conn.ending = k.ending
  BY <1>1 DEF Connections
<1>4. Answering(f.conn) => Answering(k)
  BY <1>1, <1>3 DEF Answering
<1>5. Len(f.conn.turns) <= MaxUnanswered /\ (Answering(f.conn) => w = n + Len(f.out) + Len(f.conn.turns))
  <2>1. Len(f.out) + Len(f.conn.turns) = Len(k.turns)
    BY <1>1
  <2>2. Len(f.conn.turns) <= MaxUnanswered
    <3>1. Len(f.conn.turns) <= Len(k.turns)
      BY <1>2, <2>1, Sums, Zenon
    <3> QED
      BY <1>2, <3>1
  <2>3. ASSUME Answering(f.conn) PROVE w = n + Len(f.out) + Len(f.conn.turns)
    <3>1. w = n + Len(k.turns)
      BY <1>4, <2>3
    <3> QED
      <4>1. \A a, b, d \in Nat : Len(f.out) = a /\ Len(f.conn.turns) = b /\ Len(k.turns) = d =>
                                n + Len(f.out) + Len(f.conn.turns) = n + Len(k.turns)
        BY <2>1
      <4> QED
        BY <1>2, <3>1, <4>1, Zenon
  <2> QED
    BY <2>2, <2>3
<1>6. Sound(f, n, w)
  BY <1>1, <1>5, Zenon DEF Sound
<1> QED
  BY <1>6 DEF f

\* A line queued is the next one; past the bound the connection is closed with nothing more to write (#queue).
LEMMA QueuedSound ==
    ASSUME NEW k \in Connections, NEW n \in Nat, NEW turn \in AnyTurn, Follows(k.turns, n), k.socket = "open",
           MaxUnanswered \in Nat \ {0}, turn.line = n + Len(k.turns) + 1
    PROVE  /\ Sound(Queued(k, turn), n, n + Len(k.turns) + 1)
           /\ Queued(k, turn).conn.socket # "none"
           /\ k.turns = <<>> /\ ~Pending(turn) =>
                 /\ Queued(k, turn).conn.turns = <<>> /\ Queued(k, turn).out = <<turn>>
                 /\ ~k.ending => Queued(k, turn).conn.socket = "open"
<1> DEFINE q == [k EXCEPT !.turns = Append(@, turn)]
           f == Flushed(q)
<1>1. /\ q.turns = Append(k.turns, turn) /\ q \in Connections /\ q.socket = "open" /\ q.ending = k.ending
      /\ Len(k.turns) \in Nat /\ Len(q.turns) = Len(k.turns) + 1
      /\ \A i \in 1..Len(k.turns) : q.turns[i] = k.turns[i]
      /\ q.turns[Len(k.turns) + 1] = turn
  <2>1. k.turns \in Seq(AnyTurn) /\ Len(k.turns) \in Nat
    BY DEF Connections
  <2>2. /\ Append(k.turns, turn) \in Seq(AnyTurn) /\ Len(Append(k.turns, turn)) = Len(k.turns) + 1
        /\ \A i \in 1..Len(k.turns) : Append(k.turns, turn)[i] = k.turns[i]
        /\ Append(k.turns, turn)[Len(k.turns) + 1] = turn
    BY <2>1, AppendProperties
  <2>3. q.turns = Append(k.turns, turn) /\ q.socket = k.socket /\ q.ending = k.ending /\ q \in Connections
    BY <2>2 DEF Connections
  <2> HIDE DEF q
  <2> QED
    BY <2>1, <2>2, <2>3
<1>2. Follows(q.turns, n)
  <2> SUFFICES ASSUME NEW i \in 1..(Len(k.turns) + 1) PROVE q.turns[i].line = n + i
    BY <1>1 DEF Follows
  <2>1. CASE i \in 1..Len(k.turns)
    BY <1>1, <2>1 DEF Follows
  <2>2. CASE i = Len(k.turns) + 1
    BY <1>1, <2>2
  <2> QED
    BY <1>1, <2>1, <2>2
<1> HIDE DEF q
<1>3. /\ f.conn \in Connections /\ f.out \in Seq(AnyTurn)
      /\ f.conn.socket = q.socket \/ (q.ending /\ q.socket = "open" /\ f.conn.socket = "ended")
      /\ f.conn.socket # "open" => f.conn.turns = <<>>
      /\ Len(f.out) + Len(f.conn.turns) = Len(q.turns)
      /\ Follows(f.out, n) /\ Follows(f.conn.turns, n + Len(f.out))
      /\ (\A i \in 1..Len(q.turns) : ~Pending(q.turns[i])) => f.conn.turns = <<>> /\ f.out = q.turns
  BY <1>1, <1>2, FlushedIs
<1>4. Len(f.out) \in Nat /\ Len(f.conn.turns) \in Nat
  BY <1>3 DEF Connections
<1>5. Queued(k, turn) = IF Len(f.conn.turns) > MaxUnanswered
                        THEN [conn |-> [Dropped(f.conn) EXCEPT !.socket = "closed"], out |-> f.out, over |-> TRUE]
                        ELSE [conn |-> f.conn, out |-> f.out, over |-> FALSE]
  BY DEF Queued, q
<1> HIDE DEF f
<1>6. Sound(Queued(k, turn), n, n + Len(k.turns) + 1) /\ Queued(k, turn).conn.socket # "none"
  <2>1. CASE Len(f.conn.turns) > MaxUnanswered
    <3> DEFINE d == [Dropped(f.conn) EXCEPT !.socket = "closed"]
    <3>1. d \in Connections /\ d.turns = <<>> /\ d.socket = "closed"
      <4>1. d = [f.conn EXCEPT !.dropped = TRUE, !.turns = <<>>, !.socket = "closed"]
        BY <1>3 DEF Connections, Dropped
      <4>2. <<>> \in Seq(AnyTurn)
        OBVIOUS
      <4> QED
        BY <4>1, <4>2, <1>3 DEF Connections
    <3>2. Queued(k, turn).conn = d /\ Queued(k, turn).out = f.out
      BY <1>5, <2>1
    <3> HIDE DEF d
    <3>3. Len(<<>>) = 0 /\ Follows(<<>>, n + Len(f.out))
      BY DEF Follows
    <3>4. ~Answering(d) /\ Len(d.turns) <= MaxUnanswered /\ Follows(d.turns, n + Len(f.out))
      BY <3>1, <3>3 DEF Answering
    <3> QED
      BY <1>3, <3>1, <3>2, <3>4 DEF Sound
  <2>2. CASE ~(Len(f.conn.turns) > MaxUnanswered)
    <3>1. Queued(k, turn).conn = f.conn /\ Queued(k, turn).out = f.out
      BY <1>5, <2>2
    <3>2. n + Len(k.turns) + 1 = n + Len(f.out) + Len(f.conn.turns)
      <4>1. Len(f.out) + Len(f.conn.turns) = Len(k.turns) + 1
        BY <1>1, <1>3
      <4> QED
        <5>1. Len(k.turns) + 1 \in Nat /\ n + Len(k.turns) + 1 = n + (Len(k.turns) + 1)
          BY <1>1
        <5>2. \A a, b, d \in Nat : Len(f.out) = a /\ Len(f.conn.turns) = b /\ Len(k.turns) + 1 = d =>
                                  n + Len(f.out) + Len(f.conn.turns) = n + (Len(k.turns) + 1)
          BY <4>1
        <5> QED
          BY <1>4, <5>1, <5>2, Zenon
    <3>3. f.conn.socket # "none"
      BY <1>1, <1>3
    <3>4. Len(f.conn.turns) <= MaxUnanswered
      BY <1>4, <2>2
    <3> QED
      BY <1>3, <3>1, <3>2, <3>3, <3>4 DEF Sound
  <2> QED
    BY <2>1, <2>2
<1>7. ASSUME k.turns = <<>>, ~Pending(turn)
      PROVE  /\ Queued(k, turn).conn.turns = <<>> /\ Queued(k, turn).out = <<turn>>
             /\ ~k.ending => Queued(k, turn).conn.socket = "open"
  <2>1. q.turns = <<turn>> /\ Len(q.turns) = 1 /\ q.turns[1] = turn
    BY <1>1, <1>7
  <2>2. f.conn.turns = <<>> /\ f.out = <<turn>> /\ Len(f.conn.turns) = 0
    BY <1>3, <1>7, <2>1
  <2>3. Queued(k, turn) = [conn |-> f.conn, out |-> f.out, over |-> FALSE]
    BY <1>5, <2>2
  <2> QED
    BY <1>1, <1>3, <2>2, <2>3
<1> QED
  BY <1>6, <1>7
\* Turns answered in their place keep their lines; once none is pending all are written (#settle, answerPendingStopping).
LEMMA AnsweredSound ==
    ASSUME NEW k, NEW w, NEW t, Kept(k, w, t), MaxUnanswered \in Nat,
           NEW turns \in Seq(AnyTurn), Len(turns) = Len(k.turns), \A i \in 1..Len(turns) : turns[i].line = k.turns[i].line
    PROVE  LET f == Flushed([k EXCEPT !.turns = turns]) IN
           /\ Sound(f, Len(t), w)
           /\ f.conn.socket = "none" <=> k.socket = "none"
           /\ k.socket # "open" => f.out = <<>>
           /\ f.conn.ending = k.ending /\ (~k.ending => f.conn.socket = k.socket)
           /\ (\A i \in 1..Len(turns) : ~Pending(turns[i])) => f.conn.turns = <<>>
<1> DEFINE q == [k EXCEPT !.turns = turns]
           f == Flushed(q)
<1>1. k \in Connections /\ w \in Nat /\ Len(t) \in Nat /\ k.turns \in Seq(AnyTurn)
  BY LenProperties DEF Kept, Connections
<1>2. q \in Connections /\ q.turns = turns /\ q.socket = k.socket /\ q.ending = k.ending
  BY <1>1 DEF Connections
<1> HIDE DEF q
<1>3. Follows(turns, Len(t))
  BY DEF Kept, Follows
<1>4. k.socket # "open" => turns = <<>>
  <2>1. k.socket # "open" => Len(turns) = 0
    BY DEF Kept
  <2> QED
    BY <2>1, EmptySeq
<1>5. Len(turns) <= MaxUnanswered /\ (Answering(q) => w = Len(t) + Len(turns))
  <2>1. Answering(q) => Answering(k)
    BY <1>2 DEF Answering
  <2> QED
    BY <2>1 DEF Kept
<1>6. Sound(f, Len(t), w)
  BY <1>1, <1>2, <1>3, <1>4, <1>5, FlushedSound
<1>7. /\ f.conn = [q EXCEPT !.turns = f.conn.turns, !.socket = f.conn.socket]
      /\ f.conn.socket = q.socket \/ (q.ending /\ q.socket = "open" /\ f.conn.socket = "ended")
      /\ f.out \in Seq(AnyTurn) /\ f.conn.turns \in Seq(AnyTurn) /\ Len(f.out) + Len(f.conn.turns) = Len(turns)
      /\ (\A i \in 1..Len(turns) : ~Pending(turns[i])) => f.conn.turns = <<>>
  <2>1. /\ f.conn = [q EXCEPT !.turns = f.conn.turns, !.socket = f.conn.socket]
        /\ f.conn.socket = q.socket \/ (q.ending /\ q.socket = "open" /\ f.conn.socket = "ended")
        /\ f.out \in Seq(AnyTurn) /\ f.conn \in Connections /\ Len(f.out) + Len(f.conn.turns) = Len(q.turns)
        /\ (\A i \in 1..Len(q.turns) : ~Pending(q.turns[i])) => f.conn.turns = <<>>
    <3>1. q \in Connections /\ Len(t) \in Nat /\ Follows(q.turns, Len(t)) /\ (q.socket # "open" => q.turns = <<>>)
      BY <1>1, <1>2, <1>3, <1>4
    <3> QED
      BY <3>1, FlushedIs
  <2>2. f.conn.turns \in Seq(AnyTurn)
    BY <2>1 DEF Connections
  <2> QED
    BY <1>2, <2>1, <2>2
<1> HIDE DEF f
<1>8. f.conn.ending = k.ending /\ (f.conn.socket = "none" <=> k.socket = "none") /\ (~k.ending => f.conn.socket = k.socket)
  <2>1. f.conn.ending = q.ending
    BY <1>2, <1>7 DEF Connections
  <2> QED
    BY <1>2, <1>7, <2>1
<1>9. k.socket # "open" => f.out = <<>>
  <2> SUFFICES ASSUME k.socket # "open" PROVE f.out = <<>>
    OBVIOUS
  <2>1. Len(turns) = 0
    BY <1>4
  <2>2. Len(f.out) \in Nat /\ Len(f.conn.turns) \in Nat
    BY <1>7, LenProperties
  <2>3. Len(f.out) = 0
    <3>1. Len(f.out) + Len(f.conn.turns) = 0
      BY <2>1, <1>7
    <3>2. \A a, b \in Nat : Len(f.out) = a /\ Len(f.conn.turns) = b => Len(f.out) = 0
      BY <3>1
    <3> QED
      BY <2>2, <3>2, Zenon
  <2> QED
    BY <2>3, <1>7, EmptySeq
<1> QED
  BY <1>6, <1>7, <1>8, <1>9 DEF f, q

\* A stop answers what is pending on a connection, and leaves nothing to answer (answerPendingStopping).
LEMMA StoppingSound ==
    ASSUME ServedAssumption, NEW k, NEW w, NEW t, Kept(k, w, t), IsStopping => k.turns = <<>>
    PROVE  /\ Sound(Stopping(k), Len(t), w)
           /\ Stopping(k).conn.turns = <<>>
           /\ Stopping(k).conn.socket = "none" <=> k.socket = "none"
           /\ k.socket # "open" => Stopping(k).out = <<>>
           /\ Stopping(k).conn.ending = k.ending /\ (~k.ending => Stopping(k).conn.socket = k.socket)
<1>1. k \in Connections /\ w \in Nat /\ Len(t) \in Nat /\ k.turns \in Seq(AnyTurn)
  BY LenProperties DEF Kept, Connections
<1>2. MaxUnanswered \in Nat /\ Unready \notin Messages
  BY DEF ServedAssumption
<1>3. CASE IsStopping
  <2>1. Stopping(k) = [conn |-> k, out |-> <<>>] /\ k.turns = <<>>
    BY <1>3 DEF Stopping
  <2>2. Stopping(k).conn = k /\ Stopping(k).out = <<>>
    BY <2>1
  <2>3. Len(<<>>) = 0 /\ <<>> \in Seq(AnyTurn) /\ Follows(<<>>, Len(t)) /\ Follows(<<>>, Len(t) + 0)
    BY DEF Follows
  <2>4. Answering(k) => w = Len(t) + 0 + 0
    BY <1>1, <2>1, <2>3 DEF Kept
  <2>5. Sound(Stopping(k), Len(t), w)
    BY <1>1, <1>2, <2>1, <2>2, <2>3, <2>4 DEF Sound
  <2> QED
    BY <2>1, <2>2, <2>5
<1>4. CASE ~IsStopping
  <2> DEFINE turns == [i \in DOMAIN k.turns |-> IF Pending(k.turns[i]) THEN Turn(k.turns[i].line, "stopping") ELSE k.turns[i]]
  <2>1. /\ turns \in Seq(AnyTurn) /\ Len(turns) = Len(k.turns)
        /\ \A i \in 1..Len(turns) : turns[i].line = k.turns[i].line /\ ~Pending(turns[i])
    <3>1. \A i \in 1..Len(k.turns) : k.turns[i] \in AnyTurn
      BY <1>1, ElementOfSeq
    <3>2. \A i \in 1..Len(k.turns) : Turn(k.turns[i].line, "stopping") \in AnyTurn
      BY <3>1 DEF Turn, AnyTurn, Messages
    <3>3. DOMAIN k.turns = 1..Len(k.turns) /\ Len(k.turns) \in Nat
      BY <1>1, LenProperties
    <3>4. turns \in [1..Len(k.turns) -> AnyTurn]
      BY <3>1, <3>2, <3>3
    <3>5. turns \in Seq(AnyTurn) /\ Len(turns) = Len(k.turns)
      <4> HIDE DEF turns
      <4> QED
        BY <3>3, <3>4
    <3>6. "stopping" # Unready
      BY <1>2 DEF Messages
    <3> QED
      BY <3>3, <3>5, <3>6 DEF Turn, Pending
  <2>2. Stopping(k) = Flushed([k EXCEPT !.turns = turns])
    BY <1>4 DEF Stopping, AnsweredStopping
  <2> HIDE DEF turns
  <2> QED
    BY <1>2, <2>1, <2>2, AnsweredSound
<1> QED
  BY <1>3, <1>4
-----------------------------------------------------------------------------
(* The actions *)

\* A line is answered at once unless it is a late query, and always so while a stop is under way.
LEMMA AnswerIs ==
    ASSUME ServedAssumption, NEW state \in {"awaiting-hello", "ready", "mismatched"}, NEW kind \in Kinds
    PROVE  /\ Answer(state, kind) \in Messages \cup {Unready}
           /\ IsStopping => Answer(state, kind) # Unready
           /\ StateAfter(state, kind) \in {"awaiting-hello", "ready", "mismatched"}
<1>1. Unready \notin Messages /\ Kinds \subseteq Messages
  BY DEF ServedAssumption, Messages
<1>2. {"stopping", "mismatch", "helloRequired", "status"} \subseteq Messages
  BY DEF Messages, Kinds
<1>3. Answer(state, kind) \in Messages \cup {Unready} /\ (IsStopping => Answer(state, kind) \in Messages)
  BY <1>1, <1>2 DEF Answer
<1>4. IsStopping => Answer(state, kind) # Unready
  BY <1>1, <1>3
<1> QED
  BY <1>3, <1>4 DEF StateAfter

\* What one line does to the connection that answers it.
LEMMA ServedSound ==
    ASSUME ServedAssumption, NEW k, NEW w, NEW t, Kept(k, w, t), Answering(k), NEW kind \in Kinds,
           IsStopping => k.turns = <<>>
    PROVE  LET r == Served(k, kind, w + 1) IN
           /\ Sound(r, Len(t), w + 1)
           /\ r.conn.socket # "none"
           /\ IsStopping => r.conn.turns = <<>>
<1>1. /\ k \in Connections /\ w \in Nat /\ Len(t) \in Nat /\ k.turns \in Seq(AnyTurn) /\ Len(k.turns) \in Nat
      /\ k.socket = "open" /\ ~k.ending /\ w = Len(t) + Len(k.turns) /\ Follows(k.turns, Len(t))
  BY LenProperties DEF Kept, Connections, Answering
<1>2. MaxUnanswered \in Nat \ {0} /\ Unready \notin Messages
  BY DEF ServedAssumption
<1>3. CASE k.state = "mismatched"
  <2> DEFINE q == [k EXCEPT !.ending = TRUE]
             f == Flushed(q)
  <2>1. q \in Connections /\ q.turns = k.turns /\ q.socket = "open" /\ q.ending
    BY <1>1 DEF Connections
  <2> HIDE DEF q
  <2>2. Len(q.turns) <= MaxUnanswered /\ ~Answering(q)
    BY <2>1 DEF Kept, Answering
  <2>3. Sound(f, Len(t), w + 1)
    <3>1. w + 1 \in Nat /\ MaxUnanswered \in Nat
      BY <1>1, <1>2
    <3> QED
      BY <1>1, <2>1, <2>2, <3>1, FlushedSound
  <2>4. /\ f.conn.socket = q.socket \/ f.conn.socket = "ended"
        /\ (\A i \in 1..Len(q.turns) : ~Pending(q.turns[i])) => f.conn.turns = <<>>
    BY <1>1, <2>1, FlushedIs
  <2>5. k.turns = <<>> => f.conn.turns = <<>>
    <3>1. k.turns = <<>> => Len(q.turns) = 0
      BY <2>1
    <3> QED
      BY <2>4, <3>1
  <2> HIDE DEF f
  <2>6. Served(k, kind, w + 1) = [conn |-> f.conn, out |-> f.out, over |-> FALSE]
    BY <1>3 DEF Served, f, q
  <2>7. Served(k, kind, w + 1).conn = f.conn /\ Served(k, kind, w + 1).out = f.out
    BY <2>6
  <2> QED
    BY <2>1, <2>3, <2>4, <2>5, <2>7 DEF Sound
<1>4. CASE k.state # "mismatched"
  <2> DEFINE q == [k EXCEPT !.state = StateAfter(k.state, kind)]
             turn == Turn(w + 1, Answer(k.state, kind))
  <2>1. /\ Answer(k.state, kind) \in Messages \cup {Unready}
        /\ IsStopping => Answer(k.state, kind) # Unready
        /\ StateAfter(k.state, kind) \in {"awaiting-hello", "ready", "mismatched"}
    BY <1>1, AnswerIs DEF Connections
  <2>2. turn \in AnyTurn /\ turn.line = Len(t) + Len(k.turns) + 1 /\ (IsStopping => ~Pending(turn))
    BY <1>1, <2>1 DEF AnyTurn, Turn, Pending
  <2>3. q \in Connections /\ q.turns = k.turns /\ q.socket = "open" /\ ~q.ending
    BY <1>1, <2>1 DEF Connections
  <2>4. Served(k, kind, w + 1) = Queued(q, turn)
    BY <1>4 DEF Served
  <2> HIDE DEF q, turn
  <2>5. /\ Sound(Queued(q, turn), Len(t), Len(t) + Len(q.turns) + 1)
        /\ Queued(q, turn).conn.socket # "none"
        /\ q.turns = <<>> /\ ~Pending(turn) => Queued(q, turn).conn.turns = <<>>
    <3>1. /\ q \in Connections /\ Len(t) \in Nat /\ turn \in AnyTurn /\ Follows(q.turns, Len(t))
          /\ q.socket = "open" /\ ~q.ending /\ MaxUnanswered \in Nat \ {0} /\ turn.line = Len(t) + Len(q.turns) + 1
      BY <1>1, <1>2, <2>2, <2>3
    <3> QED
      BY <3>1, QueuedSound
  <2>6. Len(t) + Len(q.turns) + 1 = w + 1
    BY <1>1, <2>3
  <2> QED
    BY <2>2, <2>3, <2>4, <2>5, <2>6
<1> QED
  BY <1>3, <1>4
\* Queries told to end are queries still, and each one told before is told still.
LEMMA AbortedIs ==
    ASSUME NEW works, works \subseteq [client : Clients, line : Nat, aborted : BOOLEAN], NEW cs
    PROVE  /\ Aborted(works, cs) \subseteq [client : Clients, line : Nat, aborted : BOOLEAN]
           /\ (\A w \in works : w.aborted) => \A w \in Aborted(works, cs) : w.aborted
           /\ cs = Clients => \A w \in Aborted(works, cs) : w.aborted
<1> DEFINE Told(w) == IF w.client \in cs THEN [w EXCEPT !.aborted = TRUE] ELSE w
<1>1. \A w \in works : /\ Told(w) \in [client : Clients, line : Nat, aborted : BOOLEAN]
                       /\ w.aborted => Told(w).aborted
                       /\ cs = Clients => Told(w).aborted
  OBVIOUS
<1>2. Aborted(works, cs) = {Told(w) : w \in works}
  BY DEF Aborted
<1> HIDE DEF Told
<1> QED
  BY <1>1, <1>2

\* Nothing the invariant says of connections changes with the other variables.
LEMMA OthersKeep ==
    ASSUME ConnectionsInv, UNCHANGED <<conn, written, took>>
    PROVE  ConnectionsInv'
BY DEF ConnectionsInv, Kept, Answering, Follows, Connections

\* A connection that an operation leaves sound keeps the invariant with those it leaves alone.
LEMMA OneKeeps ==
    ASSUME ConnectionsInv, NEW c \in Clients, NEW k, NEW w, NEW t, Kept(k, w, t),
           conn' = [conn EXCEPT ![c] = k], written' = [written EXCEPT ![c] = w], took' = [took EXCEPT ![c] = t]
    PROVE  ConnectionsInv'
<1>1. conn' \in [Clients -> Connections] /\ written' \in [Clients -> Nat] /\ took' \in [Clients -> Seq(Taken)]
  BY DEF ConnectionsInv, Kept
<1>2. ASSUME NEW x \in Clients PROVE Kept(conn'[x], written'[x], took'[x])
  <2>1. CASE x = c
    BY <2>1 DEF ConnectionsInv
  <2>2. CASE x # c
    <3>1. conn'[x] = conn[x] /\ written'[x] = written[x] /\ took'[x] = took[x]
      BY <2>2 DEF ConnectionsInv
    <3> QED
      BY <3>1 DEF ConnectionsInv
  <2> QED
    BY <2>1, <2>2
<1> QED
  BY <1>1, <1>2 DEF ConnectionsInv

\* A line is taken, or left unread by a connection that answers no more.
LEMMA TakeLineKeeps ==
    ASSUME ServedAssumption, ServedInv, NEW c \in Clients, NEW kind \in Kinds, TakeLine(c, kind)
    PROVE  ServedInv'
<1> DEFINE k == conn[c]
           n == written[c] + 1
           served == Served(k, kind, n)
<1>1. /\ Kept(k, written[c], took[c]) /\ (IsStopping => k.turns = <<>>) /\ k.socket \in {"open", "ended"}
      /\ written' = [written EXCEPT ![c] = n] /\ written'[c] = n /\ UNCHANGED stopVars
  BY DEF TakeLine, Writes, ServedInv, ConnectionsInv, StoppedInv
<1>2. StageInv' /\ IsStopping' = IsStopping
  BY <1>1 DEF stopVars, StageInv, ServedInv, IsStopping
<1>3. CASE ~Answering(k)
  <2>1. UNCHANGED <<conn, work, took>>
    BY <1>3, <1>1 DEF TakeLine
  <2>2. Kept(k, n, took[c])
    <3>1. k.socket # "none" /\ n \in Nat
      BY <1>1 DEF Kept
    <3> HIDE DEF n, k
    <3> QED
      BY <1>1, <1>3, <3>1, Zenon DEF Kept
  <2>3. conn' = [conn EXCEPT ![c] = k] /\ took' = [took EXCEPT ![c] = took[c]]
    BY <2>1 DEF ServedInv, ConnectionsInv
  <2>4. ConnectionsInv'
    BY <1>1, <2>2, <2>3, OneKeeps DEF ServedInv
  <2> QED
    BY <1>2, <2>1, <2>4 DEF ServedInv, StoppedInv, WorkInv
<1>4. CASE Answering(k)
  <2> DEFINE late == k.state # "mismatched" /\ Answer(k.state, kind) = Unready
             begun == work \cup IF late THEN {[client |-> c, line |-> n, aborted |-> FALSE]} ELSE {}
  <2>1. /\ conn' = [conn EXCEPT ![c] = served.conn]
        /\ work' = IF served.over THEN Aborted(begun, {c}) ELSE begun
        /\ took' = [took EXCEPT ![c] = Got(c, served.out)]
    BY <1>1, <1>4 DEF TakeLine
  <2>2. /\ Sound(served, Len(took[c]), n)
        /\ served.conn.socket # "none"
        /\ IsStopping => served.conn.turns = <<>>
    BY <1>1, <1>4, ServedSound
  <2>3. k.state \in {"awaiting-hello", "ready", "mismatched"} /\ n \in Nat /\ took[c] \in Seq(Taken) /\ Follows(took[c], 0)
    BY <1>1 DEF Kept, Connections
  <2>4. begun \subseteq [client : Clients, line : Nat, aborted : BOOLEAN] /\ (IsStopping => \A w \in begun : w.aborted)
    <3>1. IsStopping => ~late
      BY <2>3, AnswerIs
    <3>2. begun \subseteq [client : Clients, line : Nat, aborted : BOOLEAN]
      <4>1. [client |-> c, line |-> n, aborted |-> FALSE] \in [client : Clients, line : Nat, aborted : BOOLEAN]
        BY <2>3
      <4> HIDE DEF late, n
      <4> QED
        BY <4>1 DEF ServedInv, WorkInv
    <3>3. IsStopping => begun = work
      BY <3>1
    <3> QED
      BY <3>2, <3>3 DEF ServedInv, StoppedInv
  <2> HIDE DEF served, begun, late, n
  <2>5. Kept(served.conn, n, Got(c, served.out))
    BY <2>2, <2>3, GotKept
  <2>6. ConnectionsInv'
    BY <1>1, <2>1, <2>5, OneKeeps DEF ServedInv
  <2>7. work' \subseteq [client : Clients, line : Nat, aborted : BOOLEAN] /\ (IsStopping => \A w \in work' : w.aborted)
    BY <2>1, <2>4, AbortedIs
  <2>8. IsStopping => \A x \in Clients : conn'[x].turns = <<>>
    BY <2>1, <2>2 DEF ServedInv, StoppedInv, ConnectionsInv
  <2> QED
    BY <1>2, <2>6, <2>7, <2>8 DEF ServedInv, StoppedInv, WorkInv
<1> QED
  BY <1>3, <1>4

\* A stop that begins answers every line pending; one under way finds none.
LEMMA StoppingKept ==
    ASSUME ServedAssumption, ServedInv, NEW x \in Clients
    PROVE  /\ Kept(conn[x], written[x], took[x]) /\ took[x] \in Seq(Taken) /\ Follows(took[x], 0) /\ written[x] \in Nat
           /\ Sound(Stopping(conn[x]), Len(took[x]), written[x])
           /\ Kept(Stopping(conn[x]).conn, written[x], Got(x, Stopping(conn[x]).out))
           /\ Stopping(conn[x]).conn.turns = <<>>
           /\ Stopping(conn[x]).conn.ending = conn[x].ending
           /\ ~conn[x].ending => Stopping(conn[x]).conn.socket = conn[x].socket
<1> DEFINE s == Stopping(conn[x])
<1>1. /\ Kept(conn[x], written[x], took[x]) /\ took[x] \in Seq(Taken) /\ Follows(took[x], 0) /\ written[x] \in Nat
      /\ IsStopping => conn[x].turns = <<>>
  BY DEF ServedInv, ConnectionsInv, StoppedInv, Kept
<1>2. /\ Sound(s, Len(took[x]), written[x]) /\ s.conn.turns = <<>>
      /\ s.conn.socket = "none" <=> conn[x].socket = "none"
      /\ conn[x].socket # "open" => s.out = <<>>
      /\ s.conn.ending = conn[x].ending /\ (~conn[x].ending => s.conn.socket = conn[x].socket)
  BY <1>1, StoppingSound
<1> HIDE DEF s
<1>3. s.conn.socket = "none" => written[x] = 0 /\ Len(took[x]) + Len(s.out) = 0
  <2> SUFFICES ASSUME s.conn.socket = "none" PROVE written[x] = 0 /\ Len(took[x]) + Len(s.out) = 0
    OBVIOUS
  <2>1. s.out = <<>> /\ took[x] = <<>> /\ written[x] = 0
    BY <1>1, <1>2 DEF Kept
  <2>2. Len(s.out) = 0 /\ Len(took[x]) = 0
    BY <2>1
  <2> QED
    BY <2>1, <2>2
<1>4. Kept(s.conn, written[x], Got(x, s.out))
  BY <1>1, <1>2, <1>3, GotKept
<1> QED
  BY <1>1, <1>2, <1>4 DEF s

\* Once a stop has begun, by a line or a signal, all queries are told to end and the stages are in order.
LEMMA BeginsKeeps ==
    ASSUME ServedInv, Begins
    PROVE  StageInv' /\ WorkInv' /\ IsStopping' /\ \A w \in work' : w.aborted
<1>1. CASE IsStopping
  BY <1>1 DEF Begins, stopVars, StageInv, ServedInv, IsStopping, WorkInv, StoppedInv
<1>2. CASE ~IsStopping
  <2>1. BeginHalts /\ work' = Aborted(work, Clients)
    BY <1>2 DEF Begins
  <2>2. StageInv'
    BY <1>2, <2>1, StagesKeep DEF ServedInv
  <2>3. IsStopping'
    BY <2>1 DEF BeginHalts, IsStopping
  <2> QED
    BY <2>1, <2>2, <2>3, AbortedIs DEF ServedInv, WorkInv
<1> QED
  BY <1>1, <1>2
\* A stop is begun, then acknowledged to whoever asked for it.
LEMMA TakeStopSound ==
    ASSUME ServedAssumption, ServedInv, NEW c \in Clients, TakeStop(c)
    PROVE  LET s == Stopping(conn[c])
               q == Queued(s.conn, Turn(written[c] + 1, "ack"))
               out == s.out \o q.out IN
           /\ Kept(q.conn, written[c] + 1, Got(c, out))
           /\ q.conn.turns = <<>> /\ q.conn.socket = "open"
           /\ q.out = <<Turn(written[c] + 1, "ack")>> /\ s.out \in Seq(AnyTurn)
<1> DEFINE s == Stopping(conn[c])
           turn == Turn(written[c] + 1, "ack")
           q == Queued(s.conn, turn)
           n == Len(took[c]) + Len(s.out)
<1>1. /\ Kept(conn[c], written[c], took[c]) /\ took[c] \in Seq(Taken) /\ Follows(took[c], 0) /\ written[c] \in Nat
      /\ Sound(s, Len(took[c]), written[c])
      /\ s.conn.turns = <<>> /\ s.conn.ending = conn[c].ending
      /\ ~conn[c].ending => s.conn.socket = conn[c].socket
  BY StoppingKept
<1>2. conn[c].socket = "open" /\ ~conn[c].ending
  BY DEF TakeStop, Answering
<1>3. MaxUnanswered \in Nat \ {0} /\ Unready \notin Messages
  BY DEF ServedAssumption
<1> HIDE DEF s
<1>4. /\ s.conn \in Connections /\ s.out \in Seq(AnyTurn) /\ Follows(s.out, Len(took[c]))
      /\ s.conn.socket = "open" /\ ~s.conn.ending
      /\ written[c] = Len(took[c]) + Len(s.out) + Len(s.conn.turns)
  BY <1>1, <1>2 DEF Sound, Answering
<1>5. Len(took[c]) \in Nat /\ Len(s.out) \in Nat /\ Len(s.conn.turns) = 0
  BY <1>1, <1>4, LenProperties
<1>6. n \in Nat /\ written[c] = n /\ Follows(s.conn.turns, n)
  <2>1. \A a, b \in Nat : Len(took[c]) = a /\ Len(s.out) = b =>
           n \in Nat /\ Len(took[c]) + Len(s.out) + Len(s.conn.turns) = n
    BY <1>5
  <2>2. n \in Nat /\ written[c] = n
    BY <1>4, <1>5, <2>1, Zenon
  <2>3. \A i \in 1..Len(s.conn.turns) : FALSE
    BY <1>5
  <2> QED
    BY <2>2, <2>3, Zenon DEF Follows
<1>7. turn \in AnyTurn /\ turn.line = n + Len(s.conn.turns) + 1 /\ ~Pending(turn)
  <2>1. turn.line = written[c] + 1 /\ turn.message = "ack" /\ "ack" \in Messages
    BY DEF Turn, Messages
  <2>2. turn \in AnyTurn
    BY <1>1 DEF Turn, Messages, AnyTurn
  <2> HIDE DEF turn, n
  <2>3. n + Len(s.conn.turns) + 1 = n + 1
    BY <1>5, <1>6
  <2> QED
    BY <2>1, <2>2, <2>3, <1>3, <1>6 DEF Pending
<1> HIDE DEF n, turn, q
<1>8. q.conn.turns = <<>> /\ q.out = <<turn>> /\ q.conn.socket = "open" /\ Sound(q, n, n + Len(s.conn.turns) + 1)
  BY <1>1, <1>3, <1>4, <1>6, <1>7, QueuedSound DEF q
<1> DEFINE out == s.out \o q.out
           r == [conn |-> q.conn, out |-> out]
<1>9. /\ out \in Seq(AnyTurn) /\ Len(out) = Len(s.out) + 1
      /\ \A i \in 1..Len(s.out) : out[i] = s.out[i]
      /\ out[Len(s.out) + 1] = turn
  <2>1. out = Append(s.out, turn)
    BY <1>4, <1>7, <1>8, AppendIsConcat
  <2> HIDE DEF out
  <2> QED
    BY <2>1, <1>4, <1>7, AppendProperties
<1> HIDE DEF out
<1>10. Follows(out, Len(took[c]))
  <2> SUFFICES ASSUME NEW i \in 1..(Len(s.out) + 1) PROVE out[i].line = Len(took[c]) + i
    BY <1>9 DEF Follows
  <2>1. CASE i \in 1..Len(s.out)
    BY <1>4, <1>9, <2>1 DEF Follows
  <2>2. CASE i = Len(s.out) + 1
    <3>1. out[i] = turn /\ turn.line = n + Len(s.conn.turns) + 1
      BY <1>7, <1>9, <2>2
    <3>2. \A a, b \in Nat : Len(took[c]) = a /\ Len(s.out) = b => turn.line = Len(took[c]) + i
      BY <1>5, <2>2, <3>1 DEF n
    <3> QED
      BY <1>5, <3>1, <3>2, Zenon
  <2> QED
    BY <1>5, <2>1, <2>2
<1>11. Sound(r, Len(took[c]), written[c] + 1)
  <2>1. q.conn \in Connections /\ Len(<<>>) = 0 /\ Follows(<<>>, Len(took[c]) + Len(out))
    BY <1>8 DEF Sound, Follows
  <2>2. written[c] + 1 = Len(took[c]) + Len(out) + 0
    <3>1. \A a, b \in Nat : Len(took[c]) = a /\ Len(s.out) = b => written[c] + 1 = Len(took[c]) + Len(out) + 0
      BY <1>6, <1>9 DEF n
    <3> QED
      BY <1>5, <3>1, Zenon
  <2> QED
    BY <1>3, <1>8, <1>9, <1>10, <2>1, <2>2 DEF Sound
<1>12. Kept(q.conn, written[c] + 1, Got(c, out))
  <2>1. r.conn = q.conn /\ r.out = out
    OBVIOUS
  <2> HIDE DEF r
  <2> QED
    <3>1. written[c] + 1 \in Nat /\ r.conn.socket # "none"
      BY <1>1, <1>8, <2>1
    <3> QED
      BY <1>1, <1>11, <2>1, <3>1, GotKept
<1> QED
  BY <1>4, <1>8, <1>12 DEF out, q, s, turn
\* A stop line begins the stop, or joins it.
LEMMA TakeStopKeeps ==
    ASSUME ServedAssumption, ServedInv, NEW c \in Clients, TakeStop(c)
    PROVE  ServedInv'
<1> DEFINE S(x) == Stopping(conn[x])
           q == Queued(S(c).conn, Turn(written[c] + 1, "ack"))
<1>1. /\ written' = [written EXCEPT ![c] = written[c] + 1] /\ written'[c] = written[c] + 1 /\ Begins
      /\ conn' = [x \in Clients |-> IF x = c THEN q.conn ELSE S(x).conn]
      /\ took' = [x \in Clients |-> Got(x, S(x).out \o IF x = c THEN q.out ELSE <<>>)]
  BY DEF TakeStop, Writes, ServedInv, ConnectionsInv
<1>2. Kept(q.conn, written[c] + 1, Got(c, S(c).out \o q.out)) /\ q.conn.turns = <<>>
  BY TakeStopSound
<1>3. ASSUME NEW x \in Clients PROVE Kept(conn'[x], written'[x], took'[x]) /\ conn'[x].turns = <<>>
  <2>1. CASE x = c
    <3> HIDE DEF q, S
    <3> QED
      BY <1>1, <1>2, <2>1
  <2>2. CASE x # c
    <3>1. Kept(S(x).conn, written[x], Got(x, S(x).out)) /\ S(x).conn.turns = <<>> /\ S(x).out \in Seq(AnyTurn)
      BY StoppingKept DEF Sound
    <3> HIDE DEF q, S
    <3>2. conn'[x] = S(x).conn /\ took'[x] = Got(x, S(x).out \o <<>>)
      BY <1>1, <2>2
    <3>3. S(x).out \o <<>> = S(x).out
      BY <3>1, ConcatEmptySeq
    <3>4. written'[x] = written[x]
      BY <1>1, <2>2 DEF ServedInv, ConnectionsInv
    <3> QED
      BY <3>1, <3>2, <3>3, <3>4
  <2> QED
    BY <2>1, <2>2
<1>4. ConnectionsInv'
  <2>1. \A x \in Clients : conn'[x] \in Connections /\ written'[x] \in Nat /\ took'[x] \in Seq(Taken)
    BY <1>3 DEF Kept
  <2> HIDE DEF q, S
  <2>2. conn' \in [Clients -> Connections] /\ took' \in [Clients -> Seq(Taken)]
    BY <1>1, <2>1
  <2>3. written' \in [Clients -> Nat]
    BY <1>1, <2>1 DEF ServedInv, ConnectionsInv
  <2> QED
    BY <1>3, <2>2, <2>3 DEF ConnectionsInv
<1> QED
  BY <1>1, <1>3, <1>4, BeginsKeeps DEF ServedInv, StoppedInv

\* A signal begins the same stop.
LEMMA StopSignalKeeps ==
    ASSUME ServedAssumption, ServedInv, StopSignal
    PROVE  ServedInv'
<1>1. /\ Begins /\ written' = written
      /\ conn' = [c \in Clients |-> Stopping(conn[c]).conn]
      /\ took' = [c \in Clients |-> Got(c, Stopping(conn[c]).out)]
  BY DEF StopSignal
<1>2. ASSUME NEW x \in Clients PROVE Kept(conn'[x], written'[x], took'[x]) /\ conn'[x].turns = <<>>
  BY <1>1, StoppingKept
<1>3. ConnectionsInv'
  <2>1. \A x \in Clients : conn'[x] \in Connections /\ took'[x] \in Seq(Taken)
    BY <1>2 DEF Kept
  <2>2. conn' \in [Clients -> Connections] /\ took' \in [Clients -> Seq(Taken)] /\ written' \in [Clients -> Nat]
    BY <1>1, <2>1 DEF ServedInv, ConnectionsInv
  <2> QED
    BY <1>2, <2>2 DEF ConnectionsInv
<1> QED
  BY <1>1, <1>2, <1>3, BeginsKeeps DEF ServedInv, StoppedInv

\* An answer that was late takes its own place, whatever was answered before it.
LEMMA QueryEndsKeeps ==
    ASSUME ServedAssumption, ServedInv, NEW w \in work, QueryEnds(w)
    PROVE  ServedInv'
<1> DEFINE c == w.client
           k == conn[c]
           turn == Turn(w.line, CheckedAnswer)
           settled == Settled(k, turn)
<1>1. c \in Clients /\ w.line \in Nat
  BY DEF ServedInv, WorkInv
<1>2. /\ work' = work \ {w} /\ UNCHANGED <<stage, failures, working, written>>
      /\ UNCHANGED <<conn, took>> \/ /\ ~w.aborted
                                     /\ conn' = [conn EXCEPT ![c] = settled.conn]
                                     /\ took' = [took EXCEPT ![c] = Got(c, settled.out)]
  BY DEF QueryEnds, stopVars
<1>3. StageInv' /\ WorkInv' /\ IsStopping' = IsStopping
  BY <1>2 DEF ServedInv, StageInv, WorkInv, IsStopping
<1>4. CASE UNCHANGED <<conn, took>>
  <2>1. ConnectionsInv'
    BY <1>2, <1>4, OthersKeep DEF ServedInv
  <2> QED
    BY <1>2, <1>3, <1>4, <2>1 DEF ServedInv, StoppedInv
<1>5. CASE /\ ~w.aborted
           /\ conn' = [conn EXCEPT ![c] = settled.conn]
           /\ took' = [took EXCEPT ![c] = Got(c, settled.out)]
  <2>1. ~IsStopping
    BY <1>5 DEF ServedInv, StoppedInv
  <2>2. /\ Kept(k, written[c], took[c]) /\ k \in Connections /\ k.turns \in Seq(AnyTurn) /\ written[c] \in Nat
        /\ took[c] \in Seq(Taken) /\ Follows(took[c], 0)
    BY <1>1 DEF ServedInv, ConnectionsInv, Kept, Connections
  <2> DEFINE turns == [i \in DOMAIN k.turns |-> IF k.turns[i].line = turn.line /\ Pending(k.turns[i]) THEN turn ELSE k.turns[i]]
  <2>3. turns \in Seq(AnyTurn) /\ Len(turns) = Len(k.turns) /\ \A i \in 1..Len(turns) : turns[i].line = k.turns[i].line
    <3>1. \A i \in 1..Len(k.turns) : k.turns[i] \in AnyTurn
      BY <2>2, ElementOfSeq
    <3>2. turn \in AnyTurn
      BY <1>1 DEF Turn, AnyTurn, Messages, CheckedAnswer
    <3>3. DOMAIN k.turns = 1..Len(k.turns) /\ Len(k.turns) \in Nat
      BY <2>2, LenProperties
    <3> HIDE DEF k, turn
    <3>4. turns \in [1..Len(k.turns) -> AnyTurn]
      BY <3>1, <3>2, <3>3
    <3>5. turns \in Seq(AnyTurn) /\ Len(turns) = Len(k.turns)
      <4> HIDE DEF turns
      <4> QED
        BY <3>3, <3>4
    <3>6. \A i \in 1..Len(k.turns) : turns[i].line = k.turns[i].line
      BY <3>3
    <3> QED
      BY <3>5, <3>6
  <2>4. settled = Flushed([k EXCEPT !.turns = turns])
    BY DEF Settled
  <2>5. MaxUnanswered \in Nat
    BY DEF ServedAssumption
  <2> HIDE DEF turns, settled, turn
  <2>6. /\ Sound(settled, Len(took[c]), written[c])
        /\ settled.conn.socket = "none" <=> k.socket = "none"
        /\ k.socket # "open" => settled.out = <<>>
    BY <2>2, <2>3, <2>4, <2>5, AnsweredSound
  <2>7. settled.conn.socket = "none" => written[c] = 0 /\ Len(took[c]) + Len(settled.out) = 0
    <3> SUFFICES ASSUME settled.conn.socket = "none" PROVE written[c] = 0 /\ Len(took[c]) + Len(settled.out) = 0
      OBVIOUS
    <3>1. settled.out = <<>> /\ took[c] = <<>> /\ written[c] = 0
      BY <2>2, <2>6 DEF Kept
    <3>2. Len(settled.out) = 0 /\ Len(took[c]) = 0
      BY <3>1
    <3> QED
      BY <3>1, <3>2
  <2>8. Kept(settled.conn, written[c], Got(c, settled.out))
    BY <1>1, <2>2, <2>6, <2>7, GotKept
  <2>9. written' = [written EXCEPT ![c] = written[c]]
    BY <1>2 DEF ServedInv, ConnectionsInv
  <2> HIDE DEF c
  <2>10. ConnectionsInv'
    BY <1>1, <1>5, <2>8, <2>9, OneKeeps DEF ServedInv
  <2> QED
    BY <1>3, <2>1, <2>10 DEF ServedInv, StoppedInv
<1> QED
  BY <1>2, <1>4, <1>5
\* A connection that is dropped owes nothing more.
LEMMA DropsKeeps ==
    ASSUME ServedAssumption, ServedInv, NEW c \in Clients, SocketCloses(c) \/ TimesOut(c)
    PROVE  ServedInv'
<1> DEFINE d == [Dropped(conn[c]) EXCEPT !.socket = "closed"]
<1>1. /\ conn' = [conn EXCEPT ![c] = d] /\ work' = Aborted(work, {c})
      /\ UNCHANGED <<stage, failures, working>>
  BY DEF SocketCloses, TimesOut, Drops, stopVars, ServedInv, ConnectionsInv
<1>2. Kept(conn[c], written[c], took[c]) /\ conn[c] \in Connections /\ conn[c].socket # "none"
  BY DEF SocketCloses, TimesOut, ServedInv, ConnectionsInv, Kept
<1>3. d \in Connections /\ d.turns = <<>> /\ d.socket = "closed"
  <2>1. d = [conn[c] EXCEPT !.dropped = TRUE, !.turns = <<>>, !.socket = "closed"]
    BY <1>2 DEF Connections, Dropped
  <2>2. <<>> \in Seq(AnyTurn)
    OBVIOUS
  <2> QED
    BY <2>1, <2>2, <1>2 DEF Connections
<1> HIDE DEF d
<1>4. Kept(d, written[c], took[c])
  <2>1. Len(<<>>) = 0 /\ MaxUnanswered \in Nat
    BY DEF ServedAssumption
  <2>2. Follows(d.turns, Len(took[c])) /\ Len(d.turns) <= MaxUnanswered /\ ~Answering(d)
    BY <1>3, <2>1 DEF Follows, Answering
  <2> QED
    BY <1>2, <1>3, <2>2 DEF Kept
<1>5. written' = [written EXCEPT ![c] = written[c]] /\ took' = [took EXCEPT ![c] = took[c]]
  BY DEF SocketCloses, TimesOut, ServedInv, ConnectionsInv
<1>6. ConnectionsInv'
  <2>1. ConnectionsInv
    BY DEF ServedInv
  <2> QED
    BY <1>1, <1>4, <1>5, <2>1, OneKeeps, Zenon
<1>7. WorkInv' /\ (IsStopping => \A w \in work' : w.aborted)
  BY <1>1, AbortedIs DEF ServedInv, WorkInv, StoppedInv
<1>8. IsStopping => \A x \in Clients : conn'[x].turns = <<>>
  BY <1>1, <1>3 DEF ServedInv, StoppedInv, ConnectionsInv
<1>9. StageInv' /\ IsStopping' = IsStopping
  BY <1>1 DEF ServedInv, StageInv, IsStopping
<1> QED
  BY <1>6, <1>7, <1>8, <1>9 DEF ServedInv, StoppedInv

\* A new connection has no line yet.
LEMMA ConnectKeeps ==
    ASSUME ServedAssumption, ServedInv, NEW c \in Clients, Connect(c)
    PROVE  ServedInv'
<1>1. /\ conn' = [conn EXCEPT ![c] = NewConnection] /\ conn[c].socket = "none"
      /\ UNCHANGED <<stage, failures, working, work>>
  BY DEF Connect, stopVars
<1>2. Kept(NewConnection, written[c], took[c])
  <2>1. Kept(conn[c], written[c], took[c])
    BY DEF ServedInv, ConnectionsInv
  <2>2. written[c] = 0 /\ took[c] = <<>> /\ Len(<<>>) = 0 /\ <<>> \in Seq(AnyTurn) /\ took[c] \in Seq(Taken)
    BY <1>1, <2>1 DEF Kept
  <2>3. NewConnection \in Connections /\ NewConnection.turns = <<>> /\ NewConnection.socket = "open"
    BY <2>2 DEF NewConnection, Connections
  <2>4. \A n \in Nat : Follows(<<>>, n)
    BY DEF Follows
  <2>5. MaxUnanswered \in Nat
    BY DEF ServedAssumption
  <2> QED
    BY <2>1, <2>2, <2>3, <2>4, <2>5 DEF Kept
<1>3. written' = [written EXCEPT ![c] = written[c]] /\ took' = [took EXCEPT ![c] = took[c]]
  BY DEF Connect, ServedInv, ConnectionsInv
<1>4. ConnectionsInv'
  <2>1. ConnectionsInv
    BY DEF ServedInv
  <2> QED
    BY <1>1, <1>2, <1>3, <2>1, OneKeeps, Zenon
<1>5. IsStopping => \A x \in Clients : conn'[x].turns = <<>>
  BY <1>1 DEF ServedInv, StoppedInv, ConnectionsInv, NewConnection
<1>6. StageInv' /\ WorkInv' /\ IsStopping' = IsStopping
  BY <1>1 DEF ServedInv, StageInv, IsStopping, WorkInv
<1> QED
  BY <1>1, <1>4, <1>5, <1>6 DEF ServedInv, StoppedInv

\* The endpoint closes its connections once none is owed an answer.
LEMMA CloseConnectionsKeeps ==
    ASSUME ServedAssumption, ServedInv, CloseConnections
    PROVE  ServedInv'
<1>1. /\ conn' = [c \in Clients |-> [conn[c] EXCEPT !.socket = IF conn[c].socket = "open" THEN "ended" ELSE conn[c].socket]]
      /\ stage = "endpoint" /\ UNCHANGED <<stage, failures, working, work, written, took>>
  BY DEF CloseConnections, stopVars
<1>2. IsStopping /\ IsStopping'
  BY <1>1 DEF IsStopping
<1>3. ASSUME NEW c \in Clients PROVE Kept(conn'[c], written[c], took[c]) /\ conn'[c].turns = <<>>
  <2> DEFINE s == IF conn[c].socket = "open" THEN "ended" ELSE conn[c].socket
             k == [conn[c] EXCEPT !.socket = s]
  <2>1. Kept(conn[c], written[c], took[c]) /\ conn[c].turns = <<>> /\ conn[c] \in Connections
    BY <1>2 DEF ServedInv, ConnectionsInv, StoppedInv, Kept
  <2>2. conn'[c] = k
    BY <1>1
  <2>3. s \in {"none", "ended", "closed"} /\ (s = "none" => conn[c].socket = "none")
    BY <2>1 DEF Connections
  <2> HIDE DEF s
  <2>4. k \in Connections /\ k.turns = <<>> /\ k.socket = s
    BY <2>1, <2>3 DEF Connections
  <2> HIDE DEF k
  <2>5. ~Answering(k)
    BY <2>3, <2>4 DEF Answering
  <2> QED
    BY <2>1, <2>2, <2>3, <2>4, <2>5 DEF Kept
<1>4. ConnectionsInv'
  <2>1. \A c \in Clients : conn'[c] \in Connections
    BY <1>3 DEF Kept
  <2>2. conn' \in [Clients -> Connections]
    BY <1>1, <2>1
  <2> QED
    BY <1>1, <1>3, <2>2 DEF ServedInv, ConnectionsInv
<1>5. StageInv' /\ WorkInv'
  BY <1>1 DEF ServedInv, StageInv, WorkInv
<1> QED
  BY <1>1, <1>2, <1>3, <1>4, <1>5 DEF ServedInv, StoppedInv

\* The stop goes on, and what it waits for ends, without the connections.
LEMMA StopKeeps ==
    ASSUME ServedInv, UNCHANGED <<connVars, written, took>>,
           Await \/ Closing \/ (\E w \in working : WorkEnds(w)) \/ EndpointCloses
    PROVE  ServedInv'
<1>1. UNCHANGED <<conn, work, written, took>>
  BY DEF connVars
<1>2. StageInv'
  BY StagesKeep DEF ServedInv, EndpointCloses
<1>3. ConnectionsInv'
  BY <1>1, OthersKeep DEF ServedInv
<1>4. IsStopping' => IsStopping
  BY DEF Await, Closing, WorkEnds, EndpointCloses, IsStopping
<1> QED
  BY <1>1, <1>2, <1>3, <1>4 DEF ServedInv, StoppedInv, WorkInv

-----------------------------------------------------------------------------
(* The theorems *)

\* The initial state has no connection, and nothing stops.
LEMMA InitHolds == ASSUME ServedAssumption, ServedInit PROVE ServedInv
<1> DEFINE k == [NewConnection EXCEPT !.socket = "none"]
<1>1. <<>> \in Seq(AnyTurn) /\ <<>> \in Seq(Taken) /\ Len(<<>>) = 0 /\ MaxUnanswered \in Nat
  BY DEF ServedAssumption
<1>2. k \in Connections /\ k.turns = <<>> /\ k.socket = "none"
  BY <1>1 DEF NewConnection, Connections
<1> HIDE DEF k
<1>3. Kept(k, 0, <<>>)
  <2>1. \A n \in Nat : Follows(<<>>, n)
    BY DEF Follows
  <2>2. ~Answering(k)
    BY <1>2 DEF Answering
  <2> QED
    BY <1>1, <1>2, <2>1, <2>2 DEF Kept
<1>4. ConnectionsInv
  BY <1>1, <1>2, <1>3 DEF ServedInit, ConnectionsInv, k
<1> QED
  BY <1>4 DEF ServedInit, StopInit, ServedInv, StageInv, StoppedInv, WorkInv, IsStopping

\* Every step keeps the invariant.
LEMMA StepKeeps == ASSUME ServedAssumption, ServedInv, [ServedNext]_servedVars PROVE ServedInv'
<1>1. CASE \E c \in Clients : Connect(c)
  BY <1>1, ConnectKeeps
<1>2. CASE \E c \in Clients : TakeStop(c)
  BY <1>2, TakeStopKeeps
<1>3. CASE \E c \in Clients : SocketCloses(c) \/ TimesOut(c)
  BY <1>3, DropsKeeps
<1>4. CASE \E c \in Clients : \E kind \in Kinds : TakeLine(c, kind)
  BY <1>4, TakeLineKeeps
<1>5. CASE \E w \in work : QueryEnds(w)
  BY <1>5, QueryEndsKeeps
<1>6. CASE StopSignal
  BY <1>6, StopSignalKeeps
<1>7. CASE CloseConnections
  BY <1>7, CloseConnectionsKeeps
<1>8. CASE StopProceeds \/ EndpointCloses \/ \E w \in working : WorkEnds(w) /\ UNCHANGED <<connVars, written, took>>
  BY <1>8, StopKeeps DEF StopProceeds, EndpointCloses
<1>9. CASE UNCHANGED servedVars
  <2>1. UNCHANGED <<stage, failures, working, conn, work, written, took>>
    BY <1>9 DEF servedVars, stopVars, connVars
  <2> QED
    BY <2>1, OthersKeep DEF ServedInv, StageInv, WorkInv, StoppedInv, IsStopping
<1> QED
  BY <1>1, <1>2, <1>3, <1>4, <1>5, <1>6, <1>7, <1>8, <1>9 DEF ServedNext

\* The invariant holds in every reachable state.
THEOREM ServedInvariant == ASSUME ServedAssumption PROVE ServedSpec => []ServedInv
<1>1. ServedInit => ServedInv
  BY InitHolds
<1>2. ServedInv /\ [ServedNext]_servedVars => ServedInv'
  BY StepKeeps
<1> QED
  BY <1>1, <1>2, PTL DEF ServedSpec

\* A connection, its turns and the queries keep their types, and no more lines wait than the bound on unanswered requests.
THEOREM ServedTypeCorrect == ASSUME ServedAssumption PROVE ServedSpec => []ServedTypeOK
<1>1. ServedInv => ServedTypeOK
  BY DEF ServedInv, ConnectionsInv, WorkInv, Kept, Connections, AnyTurn, ServedTypeOK
<1> QED
  BY <1>1, ServedInvariant, PTL

\* For any clients and bounds, each answer taken is the one to its own request and none is owed once a stop has begun
\* (ServedConnection, DaemonConnection.request, answerPendingStopping).
THEOREM EachItsOwnAnswer == ASSUME ServedAssumption PROVE ServedSpec => []AnswersMatch
<1>1. ServedInv => AnswersMatch
  <2> SUFFICES ASSUME ServedInv PROVE AnswersMatch
    OBVIOUS
  <2>1. ASSUME NEW c \in Clients, NEW i \in DOMAIN took[c] PROVE took[c][i].line = i
    <3>1. took[c] \in Seq(Taken) /\ Follows(took[c], 0)
      BY DEF ServedInv, ConnectionsInv, Kept
    <3>2. i \in 1..Len(took[c])
      BY <3>1, LenProperties
    <3> QED
      BY <3>1, <3>2 DEF Follows
  <2> QED
    BY <2>1 DEF ServedInv, StoppedInv, AnswersMatch, TakenInOrder, NothingPending
<1> QED
  BY <1>1, ServedInvariant, PTL

\* Whichever halts fail, no query that may still read outlives the store, nor does the job or a build whose stop did not
\* fail (StopSequence.run).
THEOREM StoreClosesAfterItsUsers == ASSUME ServedAssumption PROVE ServedSpec => []StoreClosesLast
<1>1. ServedInv => StoreClosesLast
  BY DEF ServedInv, StageInv, StoppedInv, StoreOpen, IsStopping, StoreClosesLast
<1> QED
  BY <1>1, ServedInvariant, PTL

\* A stop line on a connection that answers gets its acknowledgement in that very step, as the last of its answers, and
\* leaves the connection open (answer).
THEOREM StopsAreAcknowledged == ASSUME ServedAssumption PROVE ServedSpec => StopAcknowledged
<1> DEFINE Acknowledged(c) == conn'[c].socket = "open" /\ Last(took'[c]) = [line |-> written'[c], ack |-> TRUE]
<1>1. ASSUME ServedInv, NEW c \in Clients, TakeStop(c) PROVE Acknowledged(c)
  <2> DEFINE s == Stopping(conn[c])
             turn == Turn(written[c] + 1, "ack")
             q == Queued(s.conn, turn)
             out == s.out \o q.out
  <2>1. written'[c] = written[c] + 1 /\ conn'[c] = q.conn /\ took'[c] = Got(c, out)
    BY <1>1 DEF TakeStop, Writes, ServedInv, ConnectionsInv
  <2>2. q.conn.socket = "open" /\ q.out = <<turn>> /\ s.out \in Seq(AnyTurn)
    BY <1>1, TakeStopSound
  <2>3. turn \in AnyTurn /\ turn.line = written'[c] /\ turn.message = "ack"
    <3>1. written[c] + 1 \in Nat
      BY <1>1 DEF ServedInv, ConnectionsInv
    <3> QED
      BY <1>1, <2>1, <3>1 DEF Turn, AnyTurn, Messages
  <2>4. took[c] \in Seq(Taken)
    BY <1>1 DEF ServedInv, ConnectionsInv
  <2> HIDE DEF s, turn, q
  <2>5. /\ out \in Seq(AnyTurn) /\ Len(out) = Len(s.out) + 1 /\ Len(s.out) \in Nat /\ out[Len(s.out) + 1] = turn
    <3>1. out = Append(s.out, turn)
      BY <2>2, <2>3, AppendIsConcat
    <3> HIDE DEF out
    <3> QED
      BY <2>2, <2>3, <3>1, AppendProperties, LenProperties
  <2> HIDE DEF out
  <2>6. Last(Got(c, out)) = [line |-> turn.line, ack |-> turn.message = "ack"]
    <3> DEFINE got == [i \in DOMAIN out |-> [line |-> out[i].line, ack |-> out[i].message = "ack"]]
               n == Len(s.out) + 1
    <3>1. DOMAIN out = 1..n /\ n \in Nat \ {0} /\ Len(out) = n /\ \A i \in 1..n : out[i] \in AnyTurn
      BY <2>5, LenProperties, ElementOfSeq
    <3>2. got \in Seq(Taken) /\ Len(got) = n /\ got[n] = [line |-> turn.line, ack |-> turn.message = "ack"]
      <4> HIDE DEF n
      <4>1. \A i \in 1..n : [line |-> out[i].line, ack |-> out[i].message = "ack"] \in Taken
        BY <3>1 DEF AnyTurn, Taken
      <4>2. got \in [1..n -> Taken] /\ n \in 1..n /\ out[n] = turn
        BY <2>5, <3>1, <4>1 DEF n
      <4> QED
        BY <3>1, <4>1, <4>2
    <3>3. Got(c, out) = took[c] \o got
      BY DEF Got
    <3> HIDE DEF got, n
    <3>4. /\ Len(Got(c, out)) = Len(took[c]) + Len(got) /\ Len(took[c]) \in Nat
          /\ \A i \in 1..Len(took[c]) + Len(got) :
                Got(c, out)[i] = IF i <= Len(took[c]) THEN took[c][i] ELSE got[i - Len(took[c])]
      <4>1. Len(took[c]) \in Nat
        BY <2>4, LenProperties
      <4>2. /\ Len(took[c] \o got) = Len(took[c]) + Len(got)
            /\ \A i \in 1..Len(took[c]) + Len(got) :
                  (took[c] \o got)[i] = IF i <= Len(took[c]) THEN took[c][i] ELSE got[i - Len(took[c])]
        BY <2>4, <3>2, ConcatProperties
      <4> QED
        BY <3>3, <4>1, <4>2, Zenon
    <3>5. \A a \in Nat : Len(took[c]) = a =>
              /\ Len(took[c]) + n \in 1..Len(took[c]) + Len(got)
              /\ ~(Len(took[c]) + n <= Len(took[c])) /\ (Len(took[c]) + n) - Len(took[c]) = n
      BY <3>1, <3>2
    <3>6. Got(c, out)[Len(took[c]) + n] = got[n]
      BY <3>4, <3>5, Zenon
    <3> QED
      BY <3>2, <3>4, <3>6, Zenon DEF Last
  <2> QED
    BY <2>1, <2>2, <2>3, <2>6
<1>2. ServedInv /\ [ServedNext]_servedVars
         => [\A c \in Clients : TakeStop(c) => /\ conn'[c].socket = "open"
                                               /\ Last(took'[c]) = [line |-> written'[c], ack |-> TRUE]]_servedVars
  BY <1>1
<1> QED
  BY <1>2, ServedInvariant, PTL DEF ServedSpec, StopAcknowledged

-----------------------------------------------------------------------------
(* The waits of callers. *)

Covers == {None} \cup Coverages

-----------------------------------------------------------------------------
(* What a judgment gives *)

LEMMA WalksAreNoNone ==
    ASSUME WaitsAssumption
    PROVE  \A read \in Partial(Contents) : read # None /\ read \in Partial(Contents \cup {Absent})
<1>1. ASSUME NEW read \in Partial(Contents) PROVE read \in Partial(Contents \cup {Absent})
  BY DEF Partial
<1> QED
  BY <1>1 DEF WaitsAssumption

\* The inputs a build places, and a wait's coverage at a revision.
LEMMA CoverageAtType ==
    ASSUME TypeOK, NEW known \in Covers, NEW r \in Nat
    PROVE  /\ InsideAt(r) # None => InsideAt(r) \in Graphs \cup {Widened}
           /\ CoverageAt(known, r) \in Covers
           /\ CoverageAt(known, r) # None => CoverageAt(known, r).revision = r /\ CoverageAt(known, r).discovery = discovery
<1>1. InsideAt(r) # None => InsideAt(r) \in Graphs \cup {Widened}
  BY DEF InsideAt, TypeOK, Builds
<1>2. CASE known # None /\ known.revision = r /\ known.discovery = discovery
  BY <1>1, <1>2 DEF CoverageAt
<1>3. CASE ~(known # None /\ known.revision = r /\ known.discovery = discovery) /\ InsideAt(r) = None
  BY <1>1, <1>3 DEF CoverageAt, Covers
<1>4. CASE ~(known # None /\ known.revision = r /\ known.discovery = discovery) /\ InsideAt(r) # None
  <2>1. CoverageAt(known, r) = [revision |-> r, discovery |-> discovery, inside |-> InsideAt(r)]
    BY <1>4 DEF CoverageAt
  <2>2. CoverageAt(known, r) \in Coverages
    BY <2>1, <1>1, <1>4 DEF Coverages, TypeOK
  <2> QED
    BY <1>1, <2>1, <2>2 DEF Covers
<1> QED
  BY <1>2, <1>3, <1>4

LEMMA JudgedParts ==
    ASSUME TypeOK, NEW wt \in Waiting
    PROVE  /\ BoundOf(wt) \in Bounds
           /\ CoverageNow(wt) \in Covers /\ CoverageAtBound(wt) \in Covers
           /\ FirstOf(CoverageNow(wt), wt.coverage, CoverageAtBound(wt)) \in Covers
<1>1. wt.bound \in {None} \cup Bounds /\ wt.coverage \in Covers /\ wt.boundCoverage \in Covers
  BY DEF Waiting, Covers
<1>2. BoundOf(wt) \in Bounds
  BY <1>1 DEF BoundOf, Bounds, TypeOK
<1>3. BoundOf(wt).revision \in Nat /\ revision \in Nat
  BY <1>2 DEF Bounds, TypeOK
<1>4. CoverageNow(wt) \in Covers
  BY <1>1, <1>3, CoverageAtType DEF CoverageNow
<1>5. CoverageAt(wt.coverage, BoundOf(wt).revision) \in Covers
  BY <1>1, <1>3, CoverageAtType
<1>6. CoverageAtBound(wt) \in Covers
  BY <1>1, <1>4, <1>5 DEF CoverageAtBound
<1> QED
  BY <1>1, <1>2, <1>4, <1>6 DEF FirstOf

\* A wait answered holds nothing but its outcome.
LEMMA AnsweredIs ==
    ASSUME NEW outcome \in {"superseded", "settled", "unsettled", "no answer"}
    PROVE  /\ Answered(outcome) \in Waiting
           /\ Answered(outcome).state = "over" /\ Answered(outcome).outcome = outcome
           /\ Answered(outcome).bound = None /\ Answered(outcome).coverage = None /\ Answered(outcome).boundCoverage = None
  BY DEF Answered, NoWait, Waiting

\* A wait stays one when it reads, is bound or is told what covers it.
LEMMA StateIn ==
    ASSUME NEW wt \in Waiting, NEW state \in {"none", "reading", "reading again", "read", "over"}, NEW unread \in BOOLEAN
    PROVE  [wt EXCEPT !.state = state] \in Waiting /\ [wt EXCEPT !.state = state, !.unread = unread] \in Waiting
  BY DEF Waiting

LEMMA BoundIn == ASSUME NEW wt \in Waiting, NEW bound \in Bounds PROVE [wt EXCEPT !.bound = bound] \in Waiting
  BY DEF Waiting

LEMMA PlacedIn ==
    ASSUME NEW wt \in Waiting, NEW bound \in Bounds, NEW atBound \in Covers, NEW now \in Covers
    PROVE  [wt EXCEPT !.bound = bound, !.boundCoverage = atBound, !.coverage = now] \in Waiting
  BY DEF Waiting, Covers

\* A judgment leaves a wait as it was, binds it, or answers it.
LEMMA JudgedIs ==
    ASSUME TypeOK, NEW wt \in Waiting
    PROVE  /\ Judged(wt) \in Waiting
           /\ Unavailable => Judged(wt) = wt
           /\ \/ Judged(wt) = wt /\ Unavailable
              \/ Judged(wt) = [wt EXCEPT !.bound = BoundOf(wt)] /\ ~Unavailable
              \/ Judged(wt) = Answered("superseded") /\ Superseded(wt) /\ ~Unavailable /\ discovery # 0
              \/ Judged(wt) = Answered("settled") /\ ~Superseded(wt) /\ CoverageSettles(wt) /\ ~Unavailable /\ discovery # 0
              \/ /\ Judged(wt) = [wt EXCEPT !.bound = BoundOf(wt), !.boundCoverage = CoverageAtBound(wt),
                                            !.coverage = FirstOf(CoverageNow(wt), wt.coverage, CoverageAtBound(wt))]
                 /\ ~Unavailable
<1>1. \/ Judged(wt) = wt /\ Unavailable
      \/ Judged(wt) = [wt EXCEPT !.bound = BoundOf(wt)] /\ ~Unavailable
      \/ Judged(wt) = Answered("superseded") /\ Superseded(wt) /\ ~Unavailable /\ discovery # 0
      \/ Judged(wt) = Answered("settled") /\ ~Superseded(wt) /\ CoverageSettles(wt) /\ ~Unavailable /\ discovery # 0
      \/ /\ Judged(wt) = [wt EXCEPT !.bound = BoundOf(wt), !.boundCoverage = CoverageAtBound(wt),
                                    !.coverage = FirstOf(CoverageNow(wt), wt.coverage, CoverageAtBound(wt))]
         /\ ~Unavailable
  BY DEF Judged
<1>2. Judged(wt) \in Waiting
  <2>1. /\ Answered("superseded") \in Waiting /\ Answered("settled") \in Waiting
        /\ [wt EXCEPT !.bound = BoundOf(wt)] \in Waiting
    BY JudgedParts, AnsweredIs, BoundIn
  <2>2. [wt EXCEPT !.bound = BoundOf(wt), !.boundCoverage = CoverageAtBound(wt),
                   !.coverage = FirstOf(CoverageNow(wt), wt.coverage, CoverageAtBound(wt))] \in Waiting
    BY JudgedParts, PlacedIn
  <2> QED
    BY <1>1, <2>1, <2>2
<1> QED
  BY <1>1, <1>2

-----------------------------------------------------------------------------
(* Types *)

\* The type invariant by what an action changes together.
TrackerOK ==
    /\ disk \in [Paths -> Contents] /\ digests \in Snapshot /\ revision \in Nat /\ established \in BOOLEAN
    /\ walked \in {None} \cup Partial(Contents)
    /\ queued \in BOOLEAN /\ unreadNamed \in BOOLEAN

BuildOK == discovery \in Nat /\ build \in {None} \cup Builds /\ buildsEnded \in BOOLEAN

Rounds == [state : {"pending", "planned", "held"}, revision : Nat, due : SUBSET Workspaces]

Runs == [Workspaces -> {None} \cup Partial(Contents \cup {Absent})]

ScheduleOK ==
    /\ phase \in {"quiet", "running", "idle", "failed"} /\ round \in Rounds
    /\ running \in {None} \cup Jobs /\ stirred \in BOOLEAN
    /\ latest \in Runs /\ tried \subseteq Workspaces \cup {Discovery}

WatchOK == armed \subseteq Sources /\ watching \in {"off", "waiting", "woken"}

WaitsOK == wait \in [Waiters -> Waiting]

AskedOK == since \in [Waiters -> SUBSET Contents]

LEMMA TypeParts == TypeOK => TrackerOK /\ BuildOK /\ ScheduleOK /\ WaitsOK /\ WatchOK /\ AskedOK /\ disturbed \in Nat
  BY DEF TypeOK, TrackerOK, BuildOK, ScheduleOK, Rounds, Runs, WaitsOK, WatchOK, AskedOK

LEMMA TypeOfParts ==
    ASSUME TrackerOK', BuildOK', ScheduleOK', WaitsOK', WatchOK', AskedOK', disturbed' \in Nat
    PROVE  TypeOK'
  BY DEF TypeOK, TrackerOK, BuildOK, ScheduleOK, Rounds, Runs, WaitsOK, WatchOK, AskedOK

\* What is left alone stays typed.
LEMMA PartsKept ==
    ASSUME TypeOK
    PROVE  /\ UNCHANGED trackerVars => TrackerOK'
           /\ UNCHANGED buildVars => BuildOK'
           /\ UNCHANGED scheduleVars => ScheduleOK'
           /\ UNCHANGED wait => WaitsOK'
           /\ UNCHANGED watchVars => WatchOK'
           /\ UNCHANGED since => AskedOK'
           /\ UNCHANGED disturbed => disturbed' \in Nat
<1>1. UNCHANGED trackerVars => TrackerOK'
  BY TypeParts DEF TrackerOK, trackerVars
<1>2. UNCHANGED buildVars => BuildOK'
  BY TypeParts DEF BuildOK, buildVars
<1>3. UNCHANGED scheduleVars => ScheduleOK'
  BY TypeParts DEF ScheduleOK, scheduleVars
<1>4. /\ UNCHANGED wait => WaitsOK'
      /\ UNCHANGED watchVars => WatchOK'
      /\ UNCHANGED since => AskedOK'
      /\ UNCHANGED disturbed => disturbed' \in Nat
  BY TypeParts DEF WaitsOK, WatchOK, AskedOK, watchVars
<1> QED
  BY <1>1, <1>2, <1>3, <1>4

LEMMA WaitIn ==
    ASSUME TypeOK, NEW w \in Waiters, NEW wt \in Waiting, wait' = [wait EXCEPT ![w] = wt]
    PROVE  WaitsOK'
  BY TypeParts DEF WaitsOK

\* The parts of an action that several share.
LEMMA MovedType == ASSUME TypeOK, NEW sources, Moved(sources) PROVE WatchOK'
  BY TypeParts DEF Moved, WatchOK

LEMMA ArmedType == ASSUME TypeOK PROVE Armed \subseteq Sources /\ "inputs" \in Armed
  BY TypeParts DEF Armed, WatchOK, Sources

LEMMA DisturbsType == ASSUME TypeOK PROVE Disturbs => disturbed' \in Nat
  BY TypeParts DEF Disturbs

LEMMA CommitType ==
    ASSUME TypeOK, NEW read \in Snapshot, Commit(read)
    PROVE  digests' \in Snapshot /\ revision' \in Nat /\ tried' \subseteq Workspaces \cup {Discovery}
  BY TypeParts DEF Commit, TrackerOK, ScheduleOK

LEMMA ReadAgainType == ASSUME TypeOK, NEW w \in Waiters, ReadAgain(w) PROVE TypeOK'
<1>1. WaitsOK'
  <2>1. [wait[w] EXCEPT !.state = "reading again"] \in Waiting
    BY TypeParts, StateIn DEF WaitsOK
  <2>2. wait' = [wait EXCEPT ![w] = [wait[w] EXCEPT !.state = "reading again"]]
    BY DEF ReadAgain
  <2> QED
    BY <2>1, <2>2, WaitIn
<1>2. TrackerOK'
  BY TypeParts DEF TrackerOK, ReadAgain, QueuesNamed
<1>3. BuildOK' /\ ScheduleOK' /\ WatchOK' /\ AskedOK' /\ disturbed' \in Nat
  BY PartsKept DEF ReadAgain, watchVars
<1> QED
  BY <1>1, <1>2, <1>3, TypeOfParts

LEMMA ReadWait ==
    ASSUME TypeOK, NEW w \in Waiters
    PROVE  [wait[w] EXCEPT !.state = "read", !.unread = unreadNamed] \in Waiting
<1>1. wait[w] \in Waiting /\ unreadNamed \in BOOLEAN
  BY TypeParts DEF WaitsOK, TrackerOK
<1> QED
  BY <1>1, StateIn

LEMMA HasReadType == ASSUME TypeOK, NEW w \in Waiters, HasRead(w) PROVE TypeOK'
<1> DEFINE wt == [wait[w] EXCEPT !.state = "read", !.unread = unreadNamed]
<1>1. Judged(wt) \in Waiting
  BY ReadWait, JudgedIs
<1>2. wait' = [wait EXCEPT ![w] = Judged(wt)]
  BY DEF HasRead
<1>3. WaitsOK'
  <2> HIDE DEF wt
  <2> QED
    BY <1>1, <1>2, WaitIn
<1>4. TrackerOK' /\ BuildOK' /\ ScheduleOK' /\ WatchOK' /\ AskedOK' /\ disturbed' \in Nat
  BY PartsKept DEF HasRead, watchVars
<1> QED
  BY <1>3, <1>4, TypeOfParts

LEMMA WatchType == ASSUME WaitsAssumption, TypeOK, NEW fails \in BOOLEAN, Watch(fails) PROVE TypeOK'
<1>1. WaitsOK'
  <2>1. ASSUME NEW w \in Waiters PROVE Judged(wait[w]) \in Waiting /\ wait[w] \in Waiting /\ Answered("no answer") \in Waiting
    BY TypeParts, JudgedIs, AnsweredIs DEF WaitsOK
  <2> QED
    BY <2>1 DEF Watch, WaitsOK
<1>2. WatchOK'
  BY TypeParts, ArmedType DEF Watch, WatchOK
<1>3. disturbed' \in Nat
  BY TypeParts, DisturbsType DEF Watch
<1>4. TrackerOK' /\ BuildOK' /\ ScheduleOK' /\ AskedOK'
  BY PartsKept DEF Watch
<1> QED
  BY <1>1, <1>2, <1>3, <1>4, TypeOfParts

LEMMA AskType == ASSUME WaitsAssumption, TypeOK, NEW w \in Waiters, Ask(w) PROVE TypeOK'
<1>1. WaitsOK'
  <2>1. [wait[w] EXCEPT !.state = "reading"] \in Waiting
    BY TypeParts, StateIn DEF WaitsOK
  <2>2. wait' = [wait EXCEPT ![w] = [wait[w] EXCEPT !.state = "reading"]]
    BY DEF Ask
  <2> QED
    BY <2>1, <2>2, WaitIn
<1>2. TrackerOK'
  BY TypeParts DEF TrackerOK, Ask, QueuesNamed
<1>3. AskedOK'
  BY TypeParts DEF AskedOK, TrackerOK, Ask, WaitsAssumption
<1>4. WatchOK'
  BY TypeParts, ArmedType DEF Ask, WatchOK, NothingMoved, watchVars
<1>5. BuildOK' /\ ScheduleOK' /\ disturbed' \in Nat
  BY PartsKept DEF Ask
<1> QED
  BY <1>1, <1>2, <1>3, <1>4, <1>5, TypeOfParts

LEMMA EndsType ==
    ASSUME TypeOK, NEW w \in Waiters, NEW outcome \in {"unsettled", "no answer"}, Ends(w, outcome) PROVE TypeOK'
<1>1. WaitsOK'
  BY AnsweredIs, WaitIn DEF Ends
<1>2. TrackerOK' /\ BuildOK' /\ ScheduleOK' /\ WatchOK' /\ AskedOK' /\ disturbed' \in Nat
  BY PartsKept DEF Ends, watchVars
<1> QED
  BY <1>1, <1>2, TypeOfParts

LEMMA WriteType == ASSUME WaitsAssumption, TypeOK, NEW p \in Paths, Write(p) PROVE TypeOK'
<1>1. PICK c \in Contents \ {disk[p]} : disk' = [disk EXCEPT ![p] = c]
  BY DEF Write
<1>2. disk' \in [Paths -> Contents]
  BY <1>1, TypeParts DEF TrackerOK
<1>3. AskedOK'
  BY <1>2, TypeParts DEF AskedOK, Write, WaitsAssumption
<1>4. disturbed' \in Nat
  BY DisturbsType DEF Write
<1>5. TrackerOK'
  BY <1>2, TypeParts DEF TrackerOK, Write
<1>6. BuildOK' /\ ScheduleOK' /\ WaitsOK' /\ WatchOK'
  BY PartsKept DEF Write
<1> QED
  BY <1>3, <1>4, <1>5, <1>6, TypeOfParts

LEMMA InputsMovedType == ASSUME TypeOK, InputsMoved PROVE WatchOK' /\ stirred' \in BOOLEAN
  BY MovedType DEF InputsMoved

\* What a commit of the tracker leaves of the schedule.
LEMMA CommittedType ==
    ASSUME TypeOK, tried' \subseteq Workspaces \cup {Discovery}, stirred' \in BOOLEAN,
           UNCHANGED <<phase, round, running, latest>>
    PROVE  ScheduleOK'
  BY TypeParts DEF ScheduleOK

LEMMA EventReadType == ASSUME TypeOK, NEW p \in Paths, EventRead(p) PROVE TypeOK'
<1>1. [digests EXCEPT ![p] = disk[p]] \in Snapshot
  BY TypeParts DEF TrackerOK, Snapshot
<1>2. digests' \in Snapshot /\ revision' \in Nat /\ tried' \subseteq Workspaces \cup {Discovery}
  BY <1>1, CommitType DEF EventRead
<1>3. WatchOK' /\ stirred' \in BOOLEAN
  BY InputsMovedType DEF EventRead
<1>4. TrackerOK'
  BY <1>2, TypeParts DEF TrackerOK, EventRead
<1>5. ScheduleOK'
  BY <1>2, <1>3, CommittedType DEF EventRead
<1>6. BuildOK' /\ WaitsOK' /\ AskedOK' /\ disturbed' \in Nat
  BY PartsKept DEF EventRead
<1> QED
  BY <1>3, <1>4, <1>5, <1>6, TypeOfParts

LEMMA DrainNamedType == ASSUME WaitsAssumption, TypeOK, NEW readable \in BOOLEAN, DrainNamed(readable) PROVE TypeOK'
<1>1. [digests EXCEPT ![Named] = IF readable THEN disk[Named] ELSE Absent] \in Snapshot
  BY TypeParts DEF TrackerOK, Snapshot, WaitsAssumption
<1>2. digests' \in Snapshot /\ revision' \in Nat /\ tried' \subseteq Workspaces \cup {Discovery}
  BY <1>1, CommitType DEF DrainNamed
<1>3. WatchOK' /\ stirred' \in BOOLEAN
  BY InputsMovedType DEF DrainNamed
<1>4. TrackerOK'
  BY <1>2, TypeParts DEF TrackerOK, DrainNamed
<1>5. disturbed' \in Nat
  BY TypeParts, DisturbsType DEF DrainNamed
<1>6. ScheduleOK'
  BY <1>2, <1>3, CommittedType DEF DrainNamed
<1>7. BuildOK' /\ WaitsOK' /\ AskedOK'
  BY PartsKept DEF DrainNamed
<1> QED
  BY <1>3, <1>4, <1>5, <1>6, <1>7, TypeOfParts

LEMMA ReconcileStartsType == ASSUME WaitsAssumption, TypeOK, NEW lost \in BOOLEAN, ReconcileStarts(lost) PROVE TypeOK'
<1>1. walked' \in Partial(Contents)
  <2>1. walked' = [p \in {} |-> Absent] /\ {} \in SUBSET Paths
    BY DEF ReconcileStarts
  <2>2. walked' \in [{} -> Contents]
    BY <2>1
  <2> QED
    BY <2>1, <2>2 DEF Partial
<1>2. disturbed' \in Nat
  BY DisturbsType DEF ReconcileStarts
<1>3. TrackerOK'
  BY <1>1, TypeParts DEF TrackerOK, ReconcileStarts
<1>4. BuildOK' /\ ScheduleOK' /\ WaitsOK' /\ WatchOK' /\ AskedOK'
  BY PartsKept DEF ReconcileStarts
<1> QED
  BY <1>2, <1>3, <1>4, TypeOfParts

\* While a walk is under way it is a function on some of the paths.
LEMMA WalkedType ==
    ASSUME TypeOK, Reconciling
    PROVE  walked \in [DOMAIN walked -> Contents] /\ DOMAIN walked \subseteq Paths
  BY TypeParts DEF TrackerOK, Reconciling, Partial

LEMMA WalkReadsType == ASSUME TypeOK, NEW p \in Paths, WalkReads(p) PROVE TypeOK'
<1>1. walked' \in [DOMAIN walked \cup {p} -> Contents] /\ DOMAIN walked \cup {p} \subseteq Paths
  BY TypeParts, WalkedType DEF WalkReads, TrackerOK
<1>2. walked' \in Partial(Contents)
  BY <1>1 DEF Partial
<1>3. TrackerOK'
  BY <1>2, TypeParts DEF TrackerOK, WalkReads
<1>4. BuildOK' /\ ScheduleOK' /\ WaitsOK' /\ WatchOK' /\ AskedOK' /\ disturbed' \in Nat
  BY PartsKept DEF WalkReads
<1> QED
  BY <1>3, <1>4, TypeOfParts

LEMMA ReconcileEndsType == ASSUME TypeOK, ReconcileEnds PROVE TypeOK'
<1>1. walked \in Snapshot
  BY WalkedType DEF ReconcileEnds, Snapshot
<1>2. digests' \in Snapshot /\ revision' \in Nat /\ tried' \subseteq Workspaces \cup {Discovery}
  BY <1>1, CommitType DEF ReconcileEnds
<1>3. WatchOK' /\ stirred' \in BOOLEAN
  BY InputsMovedType DEF ReconcileEnds
<1>4. TrackerOK'
  BY <1>2, TypeParts DEF TrackerOK, ReconcileEnds
<1>5. ScheduleOK'
  BY <1>2, <1>3, CommittedType DEF ReconcileEnds
<1>6. BuildOK' /\ WaitsOK' /\ AskedOK' /\ disturbed' \in Nat
  BY PartsKept DEF ReconcileEnds
<1> QED
  BY <1>3, <1>4, <1>5, <1>6, TypeOfParts

LEMMA BuildEndsType == ASSUME WaitsAssumption, TypeOK, NEW built \in BOOLEAN, BuildEnds(built) PROVE TypeOK'
<1>1. build' \in Builds
  BY TypeParts DEF BuildEnds, Builds, TrackerOK
<1>2. BuildOK'
  BY <1>1, TypeParts DEF BuildOK, BuildEnds
<1>3. WatchOK'
  BY MovedType DEF BuildEnds
<1>4. disturbed' \in Nat
  BY TypeParts, DisturbsType DEF BuildEnds
<1>5. TrackerOK' /\ ScheduleOK' /\ WaitsOK' /\ AskedOK'
  BY PartsKept DEF BuildEnds
<1> QED
  BY <1>2, <1>3, <1>4, <1>5, TypeOfParts

LEMMA BuildsThrowType == ASSUME TypeOK, BuildsThrow PROVE TypeOK'
<1>1. BuildOK'
  BY TypeParts DEF BuildOK, BuildsThrow
<1>2. WatchOK'
  BY MovedType DEF BuildsThrow
<1>3. disturbed' \in Nat
  BY DisturbsType DEF BuildsThrow
<1>4. TrackerOK' /\ ScheduleOK' /\ WaitsOK' /\ AskedOK'
  BY PartsKept DEF BuildsThrow
<1> QED
  BY <1>1, <1>2, <1>3, <1>4, TypeOfParts

LEMMA PlanDiscoveryType == ASSUME TypeOK, PlanDiscovery PROVE TypeOK'
<1>1. running' \in Jobs
  BY TypeParts DEF PlanDiscovery, Jobs, TrackerOK
<1>2. WatchOK'
  BY MovedType DEF PlanDiscovery
<1>3. disturbed' \in Nat
  BY TypeParts, DisturbsType DEF PlanDiscovery
<1>4. round' \in Rounds
  BY DEF PlanDiscovery, Rounds
<1>5. ScheduleOK'
  BY <1>1, <1>4, TypeParts DEF ScheduleOK, PlanDiscovery
<1>6. TrackerOK' /\ BuildOK' /\ WaitsOK' /\ AskedOK'
  BY PartsKept DEF PlanDiscovery
<1> QED
  BY <1>2, <1>3, <1>5, <1>6, TypeOfParts

LEMMA DueNowType == DueNow \subseteq Workspaces
  BY DEF DueNow

LEMMA PlanRunType == ASSUME TypeOK, NEW w \in Workspaces, PlanRun(w) PROVE TypeOK'
<1>1. running' \in Jobs
  BY TypeParts DEF PlanRun, Jobs, TrackerOK
<1>2. WatchOK'
  BY MovedType DEF PlanRun
<1>3. round' \in Rounds
  BY TypeParts, DueNowType DEF PlanRun, Rounds, TrackerOK
<1>4. ScheduleOK'
  BY <1>1, <1>3, TypeParts DEF ScheduleOK, PlanRun
<1>5. TrackerOK' /\ BuildOK' /\ WaitsOK' /\ AskedOK' /\ disturbed' \in Nat
  BY PartsKept DEF PlanRun
<1> QED
  BY <1>2, <1>4, <1>5, TypeOfParts

LEMMA PlanIdleType == ASSUME TypeOK, PlanIdle PROVE TypeOK'
<1>1. WatchOK'
  BY MovedType DEF PlanIdle
<1>2. round' \in Rounds
  BY TypeParts DEF PlanIdle, Rounds, TrackerOK
<1>3. ScheduleOK'
  BY <1>2, TypeParts DEF ScheduleOK, PlanIdle
<1>4. TrackerOK' /\ BuildOK' /\ WaitsOK' /\ AskedOK' /\ disturbed' \in Nat
  BY PartsKept DEF PlanIdle
<1> QED
  BY <1>1, <1>3, <1>4, TypeOfParts

LEMMA PlanFailsType == ASSUME TypeOK, PlanFails PROVE TypeOK'
<1>1. WatchOK'
  BY MovedType DEF PlanFails
<1>2. disturbed' \in Nat
  BY DisturbsType DEF PlanFails
<1>3. round' \in Rounds
  BY DEF PlanFails, Rounds
<1>4. ScheduleOK'
  BY <1>3, TypeParts DEF ScheduleOK, PlanFails
<1>5. TrackerOK' /\ BuildOK' /\ WaitsOK' /\ AskedOK'
  BY PartsKept DEF PlanFails
<1> QED
  BY <1>1, <1>2, <1>4, <1>5, TypeOfParts

LEMMA WakesType == ASSUME TypeOK, Wakes PROVE TypeOK'
<1>1. round' \in Rounds
  BY TypeParts DEF Wakes, ScheduleOK, Rounds
<1>2. WatchOK'
  BY MovedType, PartsKept DEF Wakes, NothingMoved
<1>3. ScheduleOK'
  BY <1>1, TypeParts DEF ScheduleOK, Wakes
<1>4. TrackerOK' /\ BuildOK' /\ WaitsOK' /\ AskedOK' /\ disturbed' \in Nat
  BY PartsKept DEF Wakes
<1> QED
  BY <1>2, <1>3, <1>4, TypeOfParts

LEMMA FingerprintType ==
    ASSUME WaitsAssumption, TypeOK, NEW w \in Workspaces
    PROVE  Fingerprint(w) \in {None} \cup Partial(Contents \cup {Absent})
<1>1. CASE Unavailable \/ InsideAt(revision) = None
  BY <1>1 DEF Fingerprint
<1>2. CASE ~(Unavailable \/ InsideAt(revision) = None)
  <2>1. InsideAt(revision) \in [Workspaces -> SUBSET Paths]
    BY <1>2 DEF InsideAt, TypeOK, Builds, Widened, WaitsAssumption
  <2>2. InsideAt(revision)[w] \in SUBSET Paths
    BY <2>1
  <2>3. Fingerprint(w) \in [InsideAt(revision)[w] -> Contents \cup {Absent}]
    BY <1>2, <2>2 DEF Fingerprint, TypeOK, Snapshot
  <2> QED
    BY <2>2, <2>3 DEF Partial
<1> QED
  BY <1>1, <1>2

\* What a job stores: a discovery, or the fingerprint of its workspace's run.
LEMMA JobStoresType == ASSUME WaitsAssumption, TypeOK, phase = "running" => running # None, NEW keeps \in BOOLEAN, JobStores(keeps) PROVE TypeOK'
<1>1. running \in Jobs
  BY TypeParts DEF JobStores, ScheduleOK
<1>2. running' \in Jobs
  BY <1>1 DEF JobStores, Jobs
<1>3. latest' \in Runs
  <2>1. CASE running.job = Discovery \/ ~keeps
    BY <2>1, TypeParts DEF JobStores, ScheduleOK
  <2>2. CASE running.job # Discovery /\ keeps
    <3>1. running.job \in Workspaces
      BY <1>1, <2>2 DEF Jobs
    <3>2. latest' = [latest EXCEPT ![running.job] = IF running.revision = revision THEN Fingerprint(running.job) ELSE None]
      BY <2>2 DEF JobStores
    <3>3. Fingerprint(running.job) \in {None} \cup Partial(Contents \cup {Absent})
      BY <3>1, FingerprintType
    <3> QED
      BY <3>1, <3>2, <3>3, TypeParts DEF ScheduleOK, Runs
  <2> QED
    BY <2>1, <2>2
<1>4. BuildOK'
  BY TypeParts DEF JobStores, BuildOK
<1>5. ScheduleOK'
  BY <1>2, <1>3, TypeParts DEF JobStores, ScheduleOK
<1>6. WatchOK' /\ disturbed' \in Nat
  BY TypeParts, MovedType, DisturbsType DEF JobStores
<1>7. TrackerOK' /\ WaitsOK' /\ AskedOK'
  BY PartsKept DEF JobStores
<1> QED
  BY <1>4, <1>5, <1>6, <1>7, TypeOfParts

LEMMA JobOverType == ASSUME TypeOK, phase = "running" => running # None, JobOver PROVE TypeOK'
<1>1. running \in Jobs
  BY TypeParts DEF JobOver, ScheduleOK
<1>2. tried' \subseteq Workspaces \cup {Discovery}
  BY <1>1, TypeParts DEF JobOver, ScheduleOK, Jobs
<1>3. round' \in Rounds
  BY TypeParts DEF JobOver, ScheduleOK, Rounds
<1>4. ScheduleOK'
  BY <1>2, <1>3, TypeParts DEF JobOver, ScheduleOK
<1>5. WatchOK'
  BY MovedType DEF JobOver
<1>6. TrackerOK' /\ BuildOK' /\ WaitsOK' /\ AskedOK' /\ disturbed' \in Nat
  BY PartsKept DEF JobOver
<1> QED
  BY <1>4, <1>5, <1>6, TypeOfParts

-----------------------------------------------------------------------------
(* What a wait is bound to holds the caller's edit *)

\* What is said of one wait whose second read is asked for, or over: it holds a moment since the wait was asked, and so
\* will the walk under way.
Awaiting(w) == wait[w].state \notin {"none", "over"}
Unbound(w) == wait[w].state = "reading again" \/ (wait[w].state = "read" /\ wait[w].bound = None)

SeesEdit(w) ==
    /\ Awaiting(w) => disk[Named] \in since[w] /\ watching # "off"
    /\ Unbound(w) /\ Reconciling /\ Named \in DOMAIN walked => walked[Named] \in since[w]
    /\ wait[w].state = "reading again" => queued \/ Unavailable \/ unreadNamed \/ digests[Named] \in since[w]
    /\ wait[w].state = "read" /\ wait[w].bound = None =>
           ~established \/ (watching = "woken" /\ ~Reconciling /\ digests[Named] \in since[w])
    /\ wait[w].bound # None => wait[w].state = "read"
    /\ wait[w].bound # None /\ ~wait[w].unread => wait[w].bound.digests[Named] \in since[w]

SightInv == (watching = "waiting" => "inputs" \in armed) /\ \A w \in Waiters : SeesEdit(w)

\* A move of another source wakes the watch and changes nothing else here.
LEMMA MovedSight ==
    ASSUME TypeOK, SightInv, UNCHANGED <<disk, digests, established, walked, queued, unreadNamed, wait, since>>,
           (\E sources \in SUBSET Sources : Moved(sources)) \/ NothingMoved
    PROVE  SightInv'
<1>1. /\ watching' = "waiting" => "inputs" \in armed'
      /\ watching # "off" => watching' # "off"
      /\ watching = "woken" => watching' = "woken"
  <2>1. CASE NothingMoved
    BY <2>1 DEF SightInv, NothingMoved, watchVars
  <2>2. CASE \E sources \in SUBSET Sources : Moved(sources)
    BY <2>2 DEF SightInv, Moved
  <2> QED
    BY <2>1, <2>2
<1>2. ASSUME NEW w \in Waiters PROVE SeesEdit(w)'
  <2>1. SeesEdit(w)
    BY DEF SightInv
  <2> QED
    BY <2>1, <1>1 DEF SeesEdit, Awaiting, Unbound, Reconciling, Unavailable
<1> QED
  BY <1>1, <1>2 DEF SightInv

\* A wait the step leaves alone sees what it saw when only the queue grows.
LEMMA SeesStays ==
    ASSUME NEW w \in Waiters, SeesEdit(w), wait'[w] = wait[w], since'[w] = since[w],
           UNCHANGED <<disk, digests, established, walked, unreadNamed>>, queued => queued',
           watching # "off" => watching' = watching
    PROVE  SeesEdit(w)'
<1>1. (Reconciling' <=> Reconciling) /\ (Unavailable' <=> Unavailable) /\ (Awaiting(w)' <=> Awaiting(w)) /\ (Unbound(w)' <=> Unbound(w))
  BY DEF Reconciling, Unavailable, Awaiting, Unbound
<1>2. CASE Awaiting(w)
  <2>1. watching' = watching
    BY <1>2 DEF SeesEdit
  <2> QED
    BY <1>1, <1>2, <2>1 DEF SeesEdit
<1>3. CASE ~Awaiting(w)
  <2>1. wait[w].state \notin {"reading again", "read"} /\ ~Unbound(w)
    BY <1>3 DEF Awaiting, Unbound
  <2> QED
    BY <1>1, <1>3, <2>1 DEF SeesEdit
<1> QED
  BY <1>2, <1>3

LEMMA ReadAgainSight == ASSUME TypeOK, SightInv, NEW w \in Waiters, ReadAgain(w) PROVE SightInv'
<1>1. wait' = [wait EXCEPT ![w].state = "reading again"] /\ wait \in [Waiters -> Waiting]
  BY DEF ReadAgain, TypeOK
<1>2. ASSUME NEW x \in Waiters PROVE SeesEdit(x)'
  <2>1. SeesEdit(x)
    BY DEF SightInv
  <2>2. CASE x # w
    BY <1>1, <2>1, <2>2, SeesStays DEF ReadAgain, QueuesNamed
  <2>3. CASE x = w
    <3>1. wait'[w].state = "reading again" /\ wait'[w].bound = wait[w].bound /\ wait[w].state = "reading"
      BY <1>1 DEF ReadAgain, Waiting
    <3>2. ~Reconciling' /\ (queued' \/ Unavailable')
      BY DEF ReadAgain, QueuesNamed, Reconciling, Unavailable
    <3>3. disk'[Named] \in since'[w] /\ watching' # "off" /\ wait[w].bound = None
      BY <2>1, <2>3, <3>1 DEF ReadAgain, SeesEdit, Awaiting
    <3> QED
      BY <2>3, <3>1, <3>2, <3>3 DEF SeesEdit, Awaiting, Unbound
  <2> QED
    BY <2>2, <2>3
<1> QED
  BY <1>2 DEF SightInv, ReadAgain

LEMMA HasReadSight == ASSUME WaitsAssumption, TypeOK, SightInv, NEW w \in Waiters, HasRead(w) PROVE SightInv'
<1> DEFINE wt == [wait[w] EXCEPT !.state = "read", !.unread = unreadNamed]
<1>1. wait' = [wait EXCEPT ![w] = Judged(wt)] /\ wait \in [Waiters -> Waiting] /\ wt \in Waiting
  BY ReadWait DEF HasRead, TypeOK
<1>2. /\ wait[w].state = "reading again" /\ wt.state = "read" /\ wt.unread = unreadNamed /\ wt.bound = wait[w].bound
      /\ ~queued /\ ~Reconciling
  BY <1>1 DEF HasRead, Waiting
<1>3. UNCHANGED <<disk, digests, established, walked, queued, unreadNamed, armed, watching, since>>
  BY DEF HasRead, trackerVars
<1>4. ASSUME NEW x \in Waiters PROVE SeesEdit(x)'
  <2>1. SeesEdit(x)
    BY DEF SightInv
  <2>2. CASE x # w
    BY <1>1, <1>3, <2>1, <2>2, SeesStays
  <2>3. CASE x = w
    <3>1. wait'[w] = Judged(wt) /\ wt.bound = None /\ ~Reconciling'
      BY <1>1, <1>2, <1>3, <2>1, <2>3 DEF SeesEdit, Reconciling
    <3>2. disk'[Named] \in since'[w] /\ watching' # "off" /\ (unreadNamed \/ Unavailable \/ digests[Named] \in since[w])
      BY <1>2, <1>3, <2>1, <2>3 DEF SeesEdit, Awaiting
    <3>3. CASE Judged(wt) = wt /\ Unavailable
      BY <1>2, <1>3, <2>3, <3>1, <3>2, <3>3 DEF SeesEdit, Awaiting, Unbound, Reconciling, Unavailable
    <3>4. ASSUME Judged(wt).state = "read", Judged(wt).bound = BoundOf(wt), Judged(wt).unread = wt.unread, ~Unavailable
          PROVE  SeesEdit(w)'
      <4>1. wait'[w].bound.digests = digests
        BY <3>1, <3>4 DEF BoundOf
      <4>2. ~wait'[w].unread => wait'[w].bound.digests[Named] \in since'[w]
        BY <4>1, <1>2, <1>3, <3>1, <3>2, <3>4
      <4>3. ~Unavailable' /\ wait'[w].state = "read" /\ ~Reconciling'
        BY <1>3, <3>1, <3>4 DEF Unavailable, Reconciling
      <4>4. wait'[w].bound # None
        BY <1>1, <3>1, <3>4, JudgedParts DEF WaitsAssumption
      <4> QED
        BY <4>2, <4>3, <4>4, <1>3, <3>2 DEF SeesEdit, Awaiting, Unbound
    <3>5. CASE Judged(wt) = Answered("superseded") \/ Judged(wt) = Answered("settled")
      BY <2>3, <3>1, <3>5, AnsweredIs DEF SeesEdit, Awaiting, Unbound
    <3>6. CASE Judged(wt) = [wt EXCEPT !.bound = BoundOf(wt)] /\ ~Unavailable
      BY <1>1, <1>2, <2>3, <3>4, <3>6 DEF Waiting
    <3>7. CASE /\ Judged(wt) = [wt EXCEPT !.bound = BoundOf(wt), !.boundCoverage = CoverageAtBound(wt),
                                          !.coverage = FirstOf(CoverageNow(wt), wt.coverage, CoverageAtBound(wt))]
               /\ ~Unavailable
      BY <1>1, <1>2, <2>3, <3>4, <3>7 DEF Waiting
    <3> HIDE DEF wt
    <3> QED
      BY <1>1, <2>3, <3>3, <3>5, <3>6, <3>7, JudgedIs
  <2> QED
    BY <2>2, <2>3
<1> QED
  BY <1>3, <1>4 DEF SightInv

LEMMA WatchSight == ASSUME WaitsAssumption, TypeOK, SightInv, NEW fails \in BOOLEAN, Watch(fails) PROVE SightInv'
<1>1. UNCHANGED <<disk, digests, established, walked, queued, unreadNamed, since>> /\ watching = "woken"
  BY DEF Watch, trackerVars
<1>2. (Reconciling' <=> Reconciling) /\ (Unavailable' <=> Unavailable)
  BY <1>1 DEF Reconciling, Unavailable
<1>3. ASSUME NEW x \in Waiters, Awaiting(x)' PROVE watching' # "off"
  <2>1. x \in PendingIn(wait')
    BY <1>3 DEF Awaiting, PendingIn
  <2> QED
    BY <2>1 DEF Watch
<1>4. watching' = "waiting" => "inputs" \in armed'
  BY ArmedType DEF Watch
<1>5. ASSUME NEW x \in Waiters PROVE SeesEdit(x)'
  <2>1. SeesEdit(x) /\ wait[x] \in Waiting
    BY DEF SightInv, TypeOK
  <2>2. CASE wait[x].state # "read"
    <3>1. wait'[x] = wait[x] /\ (Awaiting(x)' <=> Awaiting(x))
      BY <2>2 DEF Watch, Awaiting
    <3> QED
      BY <1>1, <1>2, <1>3, <2>1, <2>2, <3>1 DEF SeesEdit, Unbound, Awaiting
  <2>3. CASE wait[x].state = "read" /\ fails
    <3>1. wait'[x] = Answered("no answer")
      BY <2>3 DEF Watch
    <3> QED
      BY <3>1, AnsweredIs DEF SeesEdit, Unbound, Awaiting
  <2>4. CASE wait[x].state = "read" /\ ~fails
    <3>1. wait'[x] = Judged(wait[x])
      BY <2>4 DEF Watch
    <3>2. disk'[Named] \in since'[x]
      BY <1>1, <2>1, <2>4 DEF SeesEdit, Awaiting
    <3>3. CASE Judged(wait[x]) = wait[x] /\ Unavailable
      <4>1. wait[x].bound = None => ~established
        BY <2>1, <2>4, <3>3 DEF SeesEdit, Unavailable
      <4> QED
        BY <1>1, <1>2, <1>3, <2>1, <2>4, <3>1, <3>2, <3>3, <4>1 DEF SeesEdit, Unbound, Awaiting
    <3>4. ASSUME Judged(wait[x]).state = "read", Judged(wait[x]).bound = BoundOf(wait[x]),
                 Judged(wait[x]).unread = wait[x].unread, ~Unavailable
          PROVE  SeesEdit(x)'
      <4>1. wait'[x].bound # None
        BY <2>1, <3>1, <3>4, JudgedParts DEF WaitsAssumption
      <4>2. CASE wait[x].bound = None
        <5>1. wait'[x].bound.digests = digests /\ digests[Named] \in since[x]
          BY <2>1, <2>4, <3>1, <3>4, <4>2 DEF BoundOf, SeesEdit, Unavailable
        <5> QED
          BY <1>1, <1>3, <3>1, <3>2, <3>4, <4>1, <5>1 DEF SeesEdit, Unbound, Awaiting
      <4>3. CASE wait[x].bound # None
        <5>1. wait'[x].bound = wait[x].bound
          BY <3>1, <3>4, <4>3 DEF BoundOf
        <5> QED
          BY <1>1, <1>3, <2>1, <3>1, <3>2, <3>4, <4>1, <5>1 DEF SeesEdit, Unbound, Awaiting
      <4> QED
        BY <4>2, <4>3
    <3>5. CASE Judged(wait[x]) = Answered("superseded") \/ Judged(wait[x]) = Answered("settled")
      BY <3>1, <3>5, AnsweredIs DEF SeesEdit, Awaiting, Unbound
    <3>6. CASE Judged(wait[x]) = [wait[x] EXCEPT !.bound = BoundOf(wait[x])] /\ ~Unavailable
      BY <2>1, <2>4, <3>4, <3>6 DEF Waiting
    <3>7. CASE /\ Judged(wait[x]) = [wait[x] EXCEPT !.bound = BoundOf(wait[x]), !.boundCoverage = CoverageAtBound(wait[x]),
                     !.coverage = FirstOf(CoverageNow(wait[x]), wait[x].coverage, CoverageAtBound(wait[x]))]
               /\ ~Unavailable
      BY <2>1, <2>4, <3>4, <3>7 DEF Waiting
    <3> QED
      BY <2>1, <3>3, <3>5, <3>6, <3>7, JudgedIs
  <2> QED
    BY <2>2, <2>3, <2>4
<1> QED
  BY <1>4, <1>5 DEF SightInv

LEMMA AskSight == ASSUME TypeOK, SightInv, NEW w \in Waiters, Ask(w) PROVE SightInv'
<1>1. /\ wait' = [wait EXCEPT ![w].state = "reading"] /\ wait \in [Waiters -> Waiting]
      /\ since' = [since EXCEPT ![w] = {disk[Named]}] /\ since \in [Waiters -> SUBSET Contents]
      /\ wait[w].state = "none"
      /\ UNCHANGED <<disk, digests, established, walked, unreadNamed>> /\ (queued => queued')
  BY DEF Ask, TypeOK, QueuesNamed
<1>2. watching' # "off" /\ (watching # "off" => watching' = watching) /\ (watching' = "waiting" => "inputs" \in armed')
  BY ArmedType DEF Ask, NothingMoved, watchVars, SightInv
<1>3. ASSUME NEW x \in Waiters PROVE SeesEdit(x)'
  <2>1. SeesEdit(x)
    BY DEF SightInv
  <2>2. CASE x # w
    <3>1. wait'[x] = wait[x] /\ since'[x] = since[x]
      BY <1>1, <2>2
    <3> QED
      BY <1>1, <1>2, <2>1, <3>1, SeesStays
  <2>3. CASE x = w
    <3>1. wait'[w].state = "reading" /\ wait'[w].bound = wait[w].bound /\ since'[w] = {disk[Named]}
      BY <1>1 DEF Waiting
    <3>2. wait[w].bound = None
      BY <1>1, <2>1, <2>3 DEF SeesEdit
    <3> QED
      BY <1>1, <1>2, <2>3, <3>1, <3>2 DEF SeesEdit, Awaiting, Unbound
  <2> QED
    BY <2>2, <2>3
<1> QED
  BY <1>2, <1>3 DEF SightInv

LEMMA EndsSight ==
    ASSUME TypeOK, SightInv, NEW w \in Waiters, NEW outcome \in {"unsettled", "no answer"}, Ends(w, outcome) PROVE SightInv'
<1>1. /\ wait' = [wait EXCEPT ![w] = Answered(outcome)] /\ wait \in [Waiters -> Waiting]
      /\ UNCHANGED <<disk, digests, established, walked, unreadNamed, queued>> /\ UNCHANGED <<since, armed, watching>>
  BY DEF Ends, TypeOK, trackerVars
<1>2. ASSUME NEW x \in Waiters PROVE SeesEdit(x)'
  <2>1. SeesEdit(x)
    BY DEF SightInv
  <2>2. CASE x # w
    BY <1>1, <2>1, <2>2, SeesStays
  <2>3. CASE x = w
    BY <1>1, <2>3, AnsweredIs DEF SeesEdit, Awaiting, Unbound
  <2> QED
    BY <2>2, <2>3
<1> QED
  BY <1>1, <1>2 DEF SightInv

LEMMA WriteSight == ASSUME TypeOK, SightInv, NEW p \in Paths, Write(p) PROVE SightInv'
<1>1. UNCHANGED <<digests, established, walked, queued, unreadNamed, wait, armed, watching>>
  BY DEF Write, watchVars
<1>2. since' = [x \in Waiters |-> IF x \in PendingIn(wait) THEN since[x] \cup {disk'[Named]} ELSE since[x]]
  BY DEF Write
<1>3. (Reconciling' <=> Reconciling) /\ (Unavailable' <=> Unavailable)
  BY <1>1 DEF Reconciling, Unavailable
<1>4. ASSUME NEW x \in Waiters PROVE SeesEdit(x)'
  <2>1. SeesEdit(x) /\ (Awaiting(x)' <=> Awaiting(x)) /\ (Unbound(x)' <=> Unbound(x)) /\ since[x] \subseteq since'[x]
    BY <1>1, <1>2 DEF SightInv, Awaiting, Unbound
  <2>2. Awaiting(x) => disk'[Named] \in since'[x]
    BY <1>2 DEF Awaiting, PendingIn
  <2> QED
    BY <1>1, <1>3, <2>1, <2>2 DEF SeesEdit
<1> QED
  BY <1>1, <1>4 DEF SightInv

\* An input moves in a turn of its own: no wait is judged between, and the watch wakes if any is pending.
LEMMA InputsWake ==
    ASSUME TypeOK, SightInv, OwnTask, InputsMoved
    PROVE  /\ watching' = IF watching = "waiting" THEN "woken" ELSE "off"
           /\ \A x \in Waiters : Awaiting(x) => watching' = "woken"
           /\ \A x \in Waiters : wait[x].state = "read" /\ wait[x].bound = None => ~established
<1>1. watching \in {"off", "waiting"}
  BY DEF TypeOK, OwnTask
<1>2. watching' = IF watching = "waiting" THEN "woken" ELSE "off"
  BY <1>1 DEF InputsMoved, Moved, SightInv
<1> QED
  BY <1>1, <1>2 DEF SightInv, SeesEdit, Awaiting

LEMMA EventReadSight == ASSUME TypeOK, SightInv, NEW p \in Paths, EventRead(p) PROVE SightInv'
<1>1. /\ digests' = [digests EXCEPT ![p] = disk[p]] /\ digests \in Snapshot /\ disk \in [Paths -> Contents]
      /\ UNCHANGED <<disk, established, walked, queued, wait, since>>
      /\ (unreadNamed' <=> unreadNamed /\ p # Named) /\ ~Unavailable /\ OwnTask /\ InputsMoved
  BY DEF EventRead, Commit, TypeOK
<1>2. (Reconciling' <=> Reconciling) /\ (Unavailable' <=> Unavailable) /\ ~Reconciling /\ established
  BY <1>1 DEF Reconciling, Unavailable
<1>3. /\ watching' = IF watching = "waiting" THEN "woken" ELSE "off"
      /\ \A x \in Waiters : Awaiting(x) => watching' = "woken"
      /\ \A x \in Waiters : wait[x].state = "read" /\ wait[x].bound = None => ~established
  BY <1>1, InputsWake
<1>4. ASSUME NEW x \in Waiters PROVE SeesEdit(x)'
  <2>1. SeesEdit(x) /\ wait'[x] = wait[x] /\ since'[x] = since[x] /\ disk'[Named] = disk[Named]
    BY <1>1 DEF SightInv
  <2>2. p # Named => digests'[Named] = digests[Named]
    BY <1>1 DEF Snapshot
  <2>3. p = Named => digests'[Named] = disk[Named]
    BY <1>1 DEF Snapshot
  <2>4. wait[x].state = "reading again" => queued' \/ unreadNamed' \/ digests'[Named] \in since[x]
    BY <1>1, <1>2, <2>1, <2>2, <2>3 DEF SeesEdit, Awaiting
  <2>5. (Awaiting(x)' <=> Awaiting(x)) /\ (Unbound(x)' <=> Unbound(x))
    BY <2>1 DEF Awaiting, Unbound
  <2> QED
    BY <1>2, <1>3, <2>1, <2>4, <2>5 DEF SeesEdit
<1> QED
  BY <1>3, <1>4 DEF SightInv

LEMMA DrainNamedSight ==
    ASSUME WaitsAssumption, TypeOK, SightInv, NEW readable \in BOOLEAN, DrainNamed(readable) PROVE SightInv'
<1>1. /\ digests' = [digests EXCEPT ![Named] = IF readable THEN disk[Named] ELSE Absent] /\ digests \in Snapshot
      /\ UNCHANGED <<disk, established, walked, wait, since>>
      /\ (unreadNamed' <=> ~readable) /\ ~Unavailable /\ OwnTask /\ InputsMoved
  BY DEF DrainNamed, Commit, TypeOK
<1>2. (Reconciling' <=> Reconciling) /\ (Unavailable' <=> Unavailable) /\ ~Reconciling /\ established
  BY <1>1 DEF Reconciling, Unavailable
<1>3. /\ watching' = IF watching = "waiting" THEN "woken" ELSE "off"
      /\ \A x \in Waiters : Awaiting(x) => watching' = "woken"
      /\ \A x \in Waiters : wait[x].state = "read" /\ wait[x].bound = None => ~established
  BY <1>1, InputsWake
<1>4. readable => digests'[Named] = disk[Named]
  BY <1>1 DEF Snapshot, WaitsAssumption
<1>5. ASSUME NEW x \in Waiters PROVE SeesEdit(x)'
  <2>1. SeesEdit(x) /\ wait'[x] = wait[x] /\ since'[x] = since[x] /\ disk'[Named] = disk[Named]
    BY <1>1 DEF SightInv
  <2>2. wait[x].state = "reading again" => unreadNamed' \/ digests'[Named] \in since[x]
    BY <1>1, <1>4, <2>1 DEF SeesEdit, Awaiting
  <2>3. (Awaiting(x)' <=> Awaiting(x)) /\ (Unbound(x)' <=> Unbound(x))
    BY <2>1 DEF Awaiting, Unbound
  <2> QED
    BY <1>2, <1>3, <2>1, <2>2, <2>3 DEF SeesEdit
<1> QED
  BY <1>3, <1>5 DEF SightInv

\* A walk begins: it has read nothing, so what it finds will be of this moment or later.
LEMMA ReconcileStartsSight ==
    ASSUME WaitsAssumption, TypeOK, SightInv, NEW lost \in BOOLEAN, ReconcileStarts(lost) PROVE SightInv'
<1>1. /\ DOMAIN walked' = {} /\ walked' \in Partial(Contents)
      /\ UNCHANGED <<disk, digests, queued, unreadNamed, wait, since>> /\ UNCHANGED <<armed, watching>>
      /\ (established' => established) /\ OwnTask
  <2>1. walked' = [q \in {} |-> Absent] /\ {} \in SUBSET Paths
    BY DEF ReconcileStarts
  <2>2. walked' \in [{} -> Contents]
    BY <2>1
  <2>3. walked' \in Partial(Contents)
    BY <2>1, <2>2 DEF Partial
  <2> QED
    BY <2>1, <2>3 DEF ReconcileStarts, watchVars
<1>2. Reconciling' /\ Unavailable'
  BY <1>1, WalksAreNoNone DEF Reconciling, Unavailable
<1>3. ASSUME NEW x \in Waiters PROVE SeesEdit(x)'
  <2>1. SeesEdit(x) /\ wait'[x] = wait[x] /\ since'[x] = since[x]
    BY <1>1 DEF SightInv
  <2>2. wait[x].state = "read" /\ wait[x].bound = None => ~established'
    BY <1>1, <2>1 DEF SeesEdit, OwnTask
  <2>3. (Awaiting(x)' <=> Awaiting(x)) /\ (Unbound(x)' <=> Unbound(x))
    BY <2>1 DEF Awaiting, Unbound
  <2> QED
    BY <1>1, <1>2, <2>1, <2>2, <2>3 DEF SeesEdit
<1> QED
  BY <1>1, <1>3 DEF SightInv

LEMMA WalkReadsSight == ASSUME WaitsAssumption, TypeOK, SightInv, NEW p \in Paths, WalkReads(p) PROVE SightInv'
<1>1. /\ walked' = [q \in DOMAIN walked \cup {p} |-> IF q = p THEN disk[p] ELSE walked[q]] /\ Reconciling
      /\ UNCHANGED <<disk, digests, established, queued, unreadNamed, wait, since>> /\ UNCHANGED <<armed, watching>>
      /\ OwnTask
  BY DEF WalkReads, watchVars
<1>2. TypeOK'
  BY WalkReadsType
<1>3. Reconciling' /\ Unavailable' /\ Unavailable
  <2>1. walked' \in [DOMAIN walked \cup {p} -> Contents] /\ DOMAIN walked \cup {p} \in SUBSET Paths
    BY <1>1, WalkedType DEF TypeOK
  <2>2. walked' \in Partial(Contents)
    BY <2>1 DEF Partial
  <2> QED
    BY <1>1, <2>2, WalksAreNoNone DEF Reconciling, Unavailable
<1>4. ASSUME NEW x \in Waiters PROVE SeesEdit(x)'
  <2>1. SeesEdit(x) /\ wait'[x] = wait[x] /\ since'[x] = since[x]
    BY <1>1 DEF SightInv
  <2>2. wait[x].state = "read" /\ wait[x].bound = None => ~established'
    BY <1>1, <2>1 DEF SeesEdit, OwnTask
  <2>3. (Awaiting(x)' <=> Awaiting(x)) /\ (Unbound(x)' <=> Unbound(x)) /\ (Unbound(x) => Awaiting(x))
    BY <2>1 DEF Awaiting, Unbound
  <2>4. Unbound(x) /\ Named \in DOMAIN walked' => walked'[Named] \in since[x]
    BY <1>1, <2>1, <2>3 DEF SeesEdit
  <2> QED
    BY <1>1, <1>3, <2>1, <2>2, <2>3, <2>4 DEF SeesEdit
<1> QED
  BY <1>1, <1>4 DEF SightInv

LEMMA ReconcileEndsSight == ASSUME WaitsAssumption, TypeOK, SightInv, ReconcileEnds PROVE SightInv'
<1>1. /\ digests' = walked /\ DOMAIN walked = Paths /\ walked' = None /\ established' = TRUE /\ Reconciling
      /\ UNCHANGED <<disk, queued, unreadNamed, wait, since>> /\ OwnTask /\ InputsMoved
  BY DEF ReconcileEnds, Commit
<1>2. ~Reconciling' /\ ~Unavailable'
  BY <1>1 DEF Reconciling, Unavailable
<1>3. /\ watching' = IF watching = "waiting" THEN "woken" ELSE "off"
      /\ \A x \in Waiters : Awaiting(x) => watching' = "woken"
  BY <1>1, InputsWake
<1>4. ASSUME NEW x \in Waiters PROVE SeesEdit(x)'
  <2>1. SeesEdit(x) /\ wait'[x] = wait[x] /\ since'[x] = since[x]
    BY <1>1 DEF SightInv
  <2>2. (Awaiting(x)' <=> Awaiting(x)) /\ (Unbound(x)' <=> Unbound(x)) /\ (Unbound(x) => Awaiting(x))
    BY <2>1 DEF Awaiting, Unbound
  <2>3. Unbound(x) => digests'[Named] \in since[x]
    BY <1>1, <2>1 DEF SeesEdit, WaitsAssumption
  <2> QED
    BY <1>1, <1>2, <1>3, <2>1, <2>2, <2>3 DEF SeesEdit, Unbound
<1> QED
  BY <1>3, <1>4 DEF SightInv
-----------------------------------------------------------------------------
(* What a wait is answered with is so *)

\* A coverage known of this revision and discovery is what the build ended at it placed.
KnownRight(c) ==
    c # None =>
        /\ c.revision <= revision /\ c.discovery <= discovery
        /\ c.revision = revision /\ c.discovery = discovery /\ ~buildsEnded =>
               build # None /\ build.revision = revision /\ build.inside = c.inside

JudgedOk(wt) ==
    /\ wt.bound # None => wt.bound.revision <= revision /\ (wt.bound.revision = revision => wt.bound.digests = digests)
    /\ KnownRight(wt.coverage) /\ KnownRight(wt.boundCoverage)

JudgedInv == \A w \in Waiters : JudgedOk(wait[w])

\* A workspace that a plan of this revision left out ended its run at it, or has a run of these inputs.
Decided(v) ==
    \/ v \in round.due \/ v \in tried \/ buildsEnded
    \/ running # None /\ running.job = v
    \/ build # None /\ build.revision = revision /\ RunOf(v, build.inside[v])

PhaseInv ==
    /\ phase = "running" <=> running # None
    /\ phase = "running" => IF running.job = Discovery THEN round.state = "pending"
                            ELSE round.state = "planned" /\ round.revision = running.revision

RoundInv ==
    /\ build # None => build.revision <= revision
    /\ round.revision <= revision
    /\ round.state = "planned" /\ round.revision = revision /\ discovery # 0 => \A v \in Workspaces : Decided(v)

\* What a judgment keeps of a wait is right.
LEMMA CoverageRight ==
    ASSUME TypeOK, RoundInv, NEW known \in Covers, KnownRight(known), NEW r \in Nat, r <= revision
    PROVE  KnownRight(CoverageAt(known, r))
<1>1. CASE known # None /\ known.revision = r /\ known.discovery = discovery
  BY <1>1 DEF CoverageAt
<1>2. CASE ~(known # None /\ known.revision = r /\ known.discovery = discovery) /\ InsideAt(r) = None
  BY <1>2 DEF CoverageAt, KnownRight
<1>3. CASE ~(known # None /\ known.revision = r /\ known.discovery = discovery) /\ InsideAt(r) # None
  <2>1. CoverageAt(known, r) = [revision |-> r, discovery |-> discovery, inside |-> InsideAt(r)]
    BY <1>3 DEF CoverageAt
  <2>2. discovery \in Nat /\ discovery <= discovery
    BY DEF TypeOK
  <2>3. ~buildsEnded => build # None /\ build.revision = r /\ InsideAt(r) = build.inside
    BY <1>3 DEF InsideAt
  <2> QED
    BY <2>1, <2>2, <2>3 DEF KnownRight
<1> QED
  BY <1>1, <1>2, <1>3

LEMMA JudgedPartsRight ==
    ASSUME WaitsAssumption, TypeOK, RoundInv, NEW wt \in Waiting, JudgedOk(wt)
    PROVE  /\ BoundOf(wt).revision <= revision /\ (BoundOf(wt).revision = revision => BoundOf(wt).digests = digests)
           /\ KnownRight(CoverageNow(wt)) /\ KnownRight(CoverageAtBound(wt))
<1>1. revision \in Nat /\ revision <= revision /\ wt.coverage \in Covers /\ wt.boundCoverage \in Covers
  <2>1. revision \in Nat
    BY DEF TypeOK
  <2>2. revision <= revision
    BY <2>1
  <2> QED
    BY <2>1, <2>2 DEF Waiting, Covers
<1>2. BoundOf(wt).revision <= revision /\ (BoundOf(wt).revision = revision => BoundOf(wt).digests = digests)
  BY <1>1 DEF BoundOf, JudgedOk
<1>3. BoundOf(wt).revision \in Nat
  BY JudgedParts DEF Bounds
<1>4. KnownRight(wt.coverage) /\ KnownRight(wt.boundCoverage)
  BY DEF JudgedOk
<1>5. KnownRight(CoverageNow(wt))
  BY <1>1, <1>4, CoverageRight DEF CoverageNow
<1>6. KnownRight(CoverageAt(wt.coverage, BoundOf(wt).revision))
  BY <1>1, <1>2, <1>3, <1>4, CoverageRight
<1>7. KnownRight(CoverageAtBound(wt))
  BY <1>4, <1>5, <1>6 DEF CoverageAtBound
<1> QED
  BY <1>2, <1>5, <1>7

LEMMA AnsweredOk == ASSUME NEW outcome \in {"superseded", "settled", "unsettled", "no answer"} PROVE JudgedOk(Answered(outcome))
  BY AnsweredIs DEF JudgedOk, KnownRight

LEMMA JudgedKeepsOk ==
    ASSUME WaitsAssumption, TypeOK, RoundInv, NEW wt \in Waiting, JudgedOk(wt)
    PROVE  JudgedOk(Judged(wt))
<1> DEFINE first == FirstOf(CoverageNow(wt), wt.coverage, CoverageAtBound(wt))
<1>1. /\ BoundOf(wt).revision <= revision /\ (BoundOf(wt).revision = revision => BoundOf(wt).digests = digests)
      /\ KnownRight(CoverageNow(wt)) /\ KnownRight(CoverageAtBound(wt)) /\ KnownRight(wt.coverage) /\ KnownRight(wt.boundCoverage)
  BY JudgedPartsRight DEF JudgedOk
<1>2. KnownRight(first)
  BY <1>1 DEF FirstOf
<1>3. CASE Judged(wt) = wt
  BY <1>3
<1>4. CASE Judged(wt) = [wt EXCEPT !.bound = BoundOf(wt)]
  <2>1. Judged(wt).bound = BoundOf(wt) /\ Judged(wt).coverage = wt.coverage /\ Judged(wt).boundCoverage = wt.boundCoverage
    BY <1>4 DEF Waiting
  <2> QED
    BY <1>1, <2>1 DEF JudgedOk
<1>5. CASE Judged(wt) = Answered("superseded") \/ Judged(wt) = Answered("settled")
  BY <1>5, AnsweredOk
<1>6. CASE Judged(wt) = [wt EXCEPT !.bound = BoundOf(wt), !.boundCoverage = CoverageAtBound(wt), !.coverage = first]
  <2>1. Judged(wt).bound = BoundOf(wt) /\ Judged(wt).coverage = first /\ Judged(wt).boundCoverage = CoverageAtBound(wt)
    BY <1>6 DEF Waiting
  <2> HIDE DEF first
  <2> QED
    BY <1>1, <1>2, <2>1 DEF JudgedOk
<1> QED
  BY <1>3, <1>4, <1>5, <1>6, JudgedIs

\* A step that moves neither the inputs nor the schedule nor the builds leaves what is known of them right.
LEMMA JudgedOkStays ==
    ASSUME NEW wt, JudgedOk(wt), UNCHANGED <<digests, revision, discovery, build, buildsEnded>>
    PROVE  JudgedOk(wt)'
  BY DEF JudgedOk, KnownRight

LEMMA WaitsStay ==
    ASSUME JudgedInv, UNCHANGED <<digests, revision, discovery, build, buildsEnded>>,
           \A x \in Waiters : JudgedOk(wait'[x])
    PROVE  JudgedInv'
<1>1. ASSUME NEW x \in Waiters PROVE JudgedOk(wait[x])'
  <2>1. PICK wt : wt = wait'[x]
    OBVIOUS
  <2>2. JudgedOk(wt)'
    BY <2>1, JudgedOkStays
  <2> QED
    BY <2>1, <2>2 DEF JudgedOk, KnownRight
<1> QED
  BY <1>1 DEF JudgedInv

LEMMA ReadAgainJudged == ASSUME TypeOK, JudgedInv, NEW w \in Waiters, ReadAgain(w) PROVE JudgedInv'
<1>1. wait' = [wait EXCEPT ![w].state = "reading again"] /\ wait \in [Waiters -> Waiting]
  BY DEF ReadAgain, TypeOK
<1>2. ASSUME NEW x \in Waiters PROVE JudgedOk(wait'[x])
  <2>1. wait'[x].bound = wait[x].bound /\ wait'[x].coverage = wait[x].coverage /\ wait'[x].boundCoverage = wait[x].boundCoverage
    BY <1>1 DEF Waiting
  <2> QED
    BY <2>1 DEF JudgedInv, JudgedOk
<1> QED
  BY <1>2, WaitsStay DEF ReadAgain, buildVars

LEMMA AskJudged == ASSUME TypeOK, JudgedInv, NEW w \in Waiters, Ask(w) PROVE JudgedInv'
<1>1. wait' = [wait EXCEPT ![w].state = "reading"] /\ wait \in [Waiters -> Waiting]
  BY DEF Ask, TypeOK
<1>2. ASSUME NEW x \in Waiters PROVE JudgedOk(wait'[x])
  <2>1. wait'[x].bound = wait[x].bound /\ wait'[x].coverage = wait[x].coverage /\ wait'[x].boundCoverage = wait[x].boundCoverage
    BY <1>1 DEF Waiting
  <2> QED
    BY <2>1 DEF JudgedInv, JudgedOk
<1> QED
  BY <1>2, WaitsStay DEF Ask, buildVars

LEMMA ReadWaitOk ==
    ASSUME TypeOK, JudgedInv, NEW w \in Waiters
    PROVE  LET wt == [wait[w] EXCEPT !.state = "read", !.unread = unreadNamed]
           IN  /\ JudgedOk(wt) /\ wt.bound = wait[w].bound /\ wt.coverage = wait[w].coverage
               /\ wt.outcome = wait[w].outcome
<1> DEFINE wt == [wait[w] EXCEPT !.state = "read", !.unread = unreadNamed]
<1>1. /\ wt.bound = wait[w].bound /\ wt.coverage = wait[w].coverage /\ wt.boundCoverage = wait[w].boundCoverage
      /\ wt.outcome = wait[w].outcome
  BY DEF TypeOK, Waiting
<1> HIDE DEF wt
<1>2. JudgedOk(wt)
  BY <1>1 DEF JudgedInv, JudgedOk
<1> QED
  BY <1>1, <1>2 DEF wt

LEMMA HasReadJudged ==
    ASSUME WaitsAssumption, TypeOK, RoundInv, JudgedInv, NEW w \in Waiters, HasRead(w) PROVE JudgedInv'
<1> DEFINE wt == [wait[w] EXCEPT !.state = "read", !.unread = unreadNamed]
<1>1. wait' = [wait EXCEPT ![w] = Judged(wt)] /\ wait \in [Waiters -> Waiting] /\ wt \in Waiting /\ JudgedOk(wt)
  BY ReadWait, ReadWaitOk DEF HasRead, TypeOK
<1> HIDE DEF wt
<1>2. JudgedOk(Judged(wt))
  BY <1>1, JudgedKeepsOk
<1>3. ASSUME NEW x \in Waiters PROVE JudgedOk(wait'[x])
  <2>1. wait'[x] = IF x = w THEN Judged(wt) ELSE wait[x]
    BY <1>1
  <2> QED
    BY <1>2, <2>1 DEF JudgedInv
<1> QED
  BY <1>3, WaitsStay DEF HasRead, trackerVars, buildVars

LEMMA WatchJudged ==
    ASSUME WaitsAssumption, TypeOK, RoundInv, JudgedInv, NEW fails \in BOOLEAN, Watch(fails) PROVE JudgedInv'
<1>1. ASSUME NEW x \in Waiters PROVE JudgedOk(wait'[x])
  <2>1. wait'[x] = wait[x] \/ wait'[x] = Answered("no answer") \/ wait'[x] = Judged(wait[x])
    BY DEF Watch
  <2>2. wait[x] \in Waiting /\ JudgedOk(wait[x])
    BY DEF TypeOK, JudgedInv
  <2>3. JudgedOk(Judged(wait[x])) /\ JudgedOk(Answered("no answer"))
    BY <2>2, JudgedKeepsOk, AnsweredOk
  <2> QED
    BY <2>1, <2>2, <2>3
<1> QED
  BY <1>1, WaitsStay DEF Watch, trackerVars, buildVars

LEMMA EndsJudged ==
    ASSUME TypeOK, JudgedInv, NEW w \in Waiters, NEW outcome \in {"unsettled", "no answer"}, Ends(w, outcome) PROVE JudgedInv'
<1>1. ASSUME NEW x \in Waiters PROVE JudgedOk(wait'[x])
  <2>1. wait'[x] = IF x = w THEN Answered(outcome) ELSE wait[x]
    BY DEF Ends, TypeOK
  <2> QED
    BY <2>1, AnsweredOk DEF JudgedInv
<1> QED
  BY <1>1, WaitsStay DEF Ends, trackerVars, buildVars

\* What only the waits' own turns and the disk change.
LEMMA NoMoveJudged ==
    ASSUME JudgedInv, UNCHANGED <<digests, revision, discovery, build, buildsEnded, wait>>
    PROVE  JudgedInv'
  BY WaitsStay DEF JudgedInv

LEMMA CommitJudged ==
    ASSUME TypeOK, JudgedInv, RoundInv, NEW read, Commit(read), UNCHANGED <<discovery, build, buildsEnded, wait, round, running, latest>>
    PROVE  JudgedInv' /\ RoundInv'
<1>1. CASE read = digests
  <2>1. UNCHANGED <<digests, revision, tried>>
    BY <1>1 DEF Commit
  <2> QED
    BY <2>1, NoMoveJudged DEF RoundInv, Decided, RunOf
<1>2. CASE read # digests
  <2>1. revision' = revision + 1 /\ revision \in Nat
    BY <1>2 DEF Commit, TypeOK
  <2>2. ASSUME NEW c \in Covers, KnownRight(c) PROVE KnownRight(c)'
    <3>1. c # None => c.revision \in Nat /\ c.discovery \in Nat
      BY DEF Covers, Coverages
    <3> QED
      BY <2>1, <2>2, <3>1 DEF KnownRight
  <2>3. ASSUME NEW x \in Waiters PROVE JudgedOk(wait[x])'
    <3>1. PICK wt \in Waiting : wt = wait[x] /\ wt = wait'[x]
      BY DEF TypeOK
    <3>2. wt.coverage \in Covers /\ wt.boundCoverage \in Covers /\ wt.bound \in {None} \cup Bounds
      BY DEF Waiting, Covers
    <3>3. JudgedOk(wt)
      BY <3>1 DEF JudgedInv
    <3>4. KnownRight(wt.coverage)' /\ KnownRight(wt.boundCoverage)'
      BY <2>2, <3>2, <3>3 DEF JudgedOk
    <3>5. wt.bound # None => wt.bound.revision <= revision' /\ wt.bound.revision # revision'
      <4>1. wt.bound # None => wt.bound.revision \in Nat /\ wt.bound.revision <= revision
        BY <3>2, <3>3 DEF JudgedOk, Bounds
      <4> QED
        BY <2>1, <4>1
    <3> QED
      BY <3>1, <3>4, <3>5 DEF JudgedOk, KnownRight
  <2>4. build # None => build.revision <= revision'
    <3>1. build # None => build.revision \in Nat /\ build.revision <= revision
      BY DEF RoundInv, TypeOK, Builds
    <3> QED
      BY <2>1, <3>1
  <2>5. round.revision <= revision' /\ round.revision # revision'
    <3>1. round.revision \in Nat /\ round.revision <= revision
      BY DEF RoundInv, TypeOK
    <3> QED
      BY <2>1, <3>1
  <2> QED
    BY <2>3, <2>4, <2>5 DEF JudgedInv, RoundInv
<1> QED
  BY <1>1, <1>2

\* A step of the builds or the scheduler, which ends no build of this revision twice.
LEMMA BuildJudged ==
    ASSUME TypeOK, JudgedInv, RoundInv, UNCHANGED <<digests, revision, wait>>,
           \/ UNCHANGED discovery /\ (UNCHANGED build \/ BuildPending) /\ (buildsEnded => buildsEnded')
           \/ discovery' = discovery + 1
    PROVE  JudgedInv'
<1>1. ASSUME NEW c \in Covers, KnownRight(c) PROVE KnownRight(c)'
  <2>1. c # None => c.revision \in Nat /\ c.discovery \in Nat
    BY DEF Covers, Coverages
  <2>2. discovery \in Nat
    BY DEF TypeOK
  <2>3. CASE UNCHANGED discovery /\ (UNCHANGED build \/ BuildPending) /\ (buildsEnded => buildsEnded')
    BY <1>1, <2>3 DEF KnownRight, BuildPending
  <2>4. CASE discovery' = discovery + 1
    BY <1>1, <2>1, <2>2, <2>4 DEF KnownRight
  <2> QED
    BY <2>3, <2>4
<1>2. ASSUME NEW x \in Waiters PROVE JudgedOk(wait[x])'
  <2>1. PICK wt \in Waiting : wt = wait[x] /\ wt = wait'[x]
    BY DEF TypeOK
  <2>2. wt.coverage \in Covers /\ wt.boundCoverage \in Covers
    BY DEF Waiting, Covers
  <2>3. JudgedOk(wt)
    BY <2>1 DEF JudgedInv
  <2>4. KnownRight(wt.coverage)' /\ KnownRight(wt.boundCoverage)'
    BY <1>1, <2>2, <2>3 DEF JudgedOk
  <2> QED
    BY <2>1, <2>3, <2>4 DEF JudgedOk, KnownRight
<1> QED
  BY <1>2 DEF JudgedInv
-----------------------------------------------------------------------------
(* What a plan left out stays decided while its revision lasts *)

\* A step that moves no input, ends no build and no run, and plans nothing.
LEMMA RoundStays ==
    ASSUME RoundInv, UNCHANGED <<digests, revision, discovery, build, buildsEnded, round, running, latest, tried>>
    PROVE  RoundInv'
  BY DEF RoundInv, Decided, RunOf

LEMMA BuildEndsRound == ASSUME WaitsAssumption, TypeOK, RoundInv, NEW built \in BOOLEAN, BuildEnds(built) PROVE RoundInv'
<1>1. /\ UNCHANGED <<digests, revision, discovery, buildsEnded, round, running, latest, tried>>
      /\ build' # None /\ build'.revision = revision /\ BuildPending
  <2>1. build' \in Builds /\ build'.revision = revision
    BY DEF BuildEnds, Builds, TypeOK
  <2> QED
    BY <2>1 DEF BuildEnds, trackerVars, scheduleVars, WaitsAssumption
<1>2. revision <= revision
  BY DEF TypeOK
<1>3. ASSUME NEW v \in Workspaces, Decided(v) PROVE Decided(v)'
  BY <1>1, <1>3 DEF Decided, BuildPending
<1> QED
  BY <1>1, <1>2, <1>3 DEF RoundInv

LEMMA BuildsThrowRound == ASSUME RoundInv, BuildsThrow PROVE RoundInv'
<1>1. UNCHANGED <<digests, revision, discovery, build, round, running, latest, tried>> /\ buildsEnded' = TRUE
  BY DEF BuildsThrow, trackerVars, scheduleVars
<1> QED
  BY <1>1 DEF RoundInv, Decided

\* A plan of this revision left out the workspaces that ended their run at it, or hold a run of the build's inputs.
LEMMA PlanDecides ==
    ASSUME WaitsAssumption, TypeOK, Plans, discovery # 0, NEW v \in Workspaces, v \notin DueNow
    PROVE  v \in tried \/ buildsEnded \/ (build # None /\ build.revision = revision /\ RunOf(v, build.inside[v]))
<1> SUFFICES ASSUME v \notin tried, ~buildsEnded
             PROVE  build # None /\ build.revision = revision /\ RunOf(v, build.inside[v])
  OBVIOUS
<1>1. build # None /\ build.revision = revision /\ ~Unavailable
  BY DEF Plans, BuildPending
<1>2. latest[v] # None /\ latest[v] = Fingerprint(v)
  BY DEF DueNow
<1>3. latest[v] = [p \in build.inside[v] |-> digests[p]]
  BY <1>1, <1>2 DEF Fingerprint, InsideAt
<1> QED
  BY <1>1, <1>2, <1>3 DEF RunOf

LEMMA PlanDiscoveryRound == ASSUME TypeOK, RoundInv, PlanDiscovery PROVE RoundInv'
<1>1. UNCHANGED <<revision, build>> /\ round' = [state |-> "pending", revision |-> 0, due |-> {}] /\ 0 <= revision
  BY DEF PlanDiscovery, trackerVars, buildVars, TypeOK
<1> QED
  BY <1>1 DEF RoundInv

LEMMA PlanFailsRound == ASSUME TypeOK, RoundInv, PlanFails PROVE RoundInv'
<1>1. UNCHANGED <<revision, build>> /\ round' = [state |-> "held", revision |-> 0, due |-> {}] /\ 0 <= revision
  BY DEF PlanFails, trackerVars, buildVars, TypeOK
<1> QED
  BY <1>1 DEF RoundInv

LEMMA PlanRunRound == ASSUME WaitsAssumption, TypeOK, RoundInv, NEW w \in Workspaces, PlanRun(w) PROVE RoundInv'
<1>1. /\ UNCHANGED <<digests, revision, discovery, build, buildsEnded, latest, tried>> /\ Plans
      /\ round' = [state |-> "planned", revision |-> revision, due |-> DueNow]
  BY DEF PlanRun, trackerVars, buildVars
<1>2. revision <= revision
  BY DEF TypeOK
<1>3. ASSUME discovery # 0, NEW v \in Workspaces PROVE Decided(v)'
  <2>1. v \in DueNow \/ v \in tried \/ buildsEnded \/ (build # None /\ build.revision = revision /\ RunOf(v, build.inside[v]))
    BY <1>1, <1>3, PlanDecides
  <2> QED
    BY <1>1, <2>1 DEF Decided, RunOf
<1> QED
  BY <1>1, <1>2, <1>3 DEF RoundInv

LEMMA PlanIdleRound == ASSUME WaitsAssumption, TypeOK, RoundInv, PlanIdle PROVE RoundInv'
<1>1. /\ UNCHANGED <<digests, revision, discovery, build, buildsEnded, latest, tried>> /\ Plans /\ DueNow = {}
      /\ round' = [state |-> "planned", revision |-> revision, due |-> {}]
  BY DEF PlanIdle, trackerVars, buildVars
<1>2. revision <= revision
  BY DEF TypeOK
<1>3. ASSUME discovery # 0, NEW v \in Workspaces PROVE Decided(v)'
  <2>1. v \in tried \/ buildsEnded \/ (build # None /\ build.revision = revision /\ RunOf(v, build.inside[v]))
    BY <1>1, <1>3, PlanDecides
  <2> QED
    BY <1>1, <2>1 DEF Decided, RunOf
<1> QED
  BY <1>1, <1>2, <1>3 DEF RoundInv

LEMMA WakesRound == ASSUME TypeOK, RoundInv, Wakes PROVE RoundInv'
<1>1. UNCHANGED <<digests, revision, discovery, build, buildsEnded, running, latest, tried>>
  BY DEF Wakes, trackerVars, buildVars
<1>2. CASE round.state = "held"
  <2>1. round' = [state |-> "pending", revision |-> 0, due |-> {}] /\ 0 <= revision
    BY <1>2 DEF Wakes, TypeOK
  <2> QED
    BY <1>1, <2>1 DEF RoundInv
<1>3. CASE round.state # "held"
  BY <1>1, <1>3, RoundStays DEF Wakes
<1> QED
  BY <1>2, <1>3

LEMMA JobStoresRound ==
    ASSUME WaitsAssumption, TypeOK, PhaseInv, RoundInv, NEW keeps \in BOOLEAN, JobStores(keeps) PROVE RoundInv'
<1>1. /\ UNCHANGED <<digests, revision, buildsEnded, round, tried>> /\ phase = "running" /\ running # None
      /\ running \in Jobs /\ running' = [running EXCEPT !.stored = TRUE]
  BY DEF JobStores, trackerVars, PhaseInv, TypeOK
<1>2. running'.job = running.job /\ running' # None
  BY <1>1 DEF Jobs, WaitsAssumption
<1>3. CASE running.job = Discovery
  <2>1. round.state = "pending"
    BY <1>1, <1>3 DEF PhaseInv
  <2>2. build' = None \/ build' = build
    BY <1>3 DEF JobStores
  <2> QED
    BY <1>1, <2>1, <2>2 DEF RoundInv
<1>4. CASE running.job # Discovery
  <2>1. /\ UNCHANGED <<discovery, build>>
        /\ \A v \in Workspaces : v # running.job => latest'[v] = latest[v]
    BY <1>4 DEF JobStores, TypeOK
  <2>2. ASSUME NEW v \in Workspaces, Decided(v) PROVE Decided(v)'
    <3>1. CASE v = running.job
      BY <1>2, <3>1 DEF Decided
    <3>2. CASE v # running.job
      BY <1>1, <1>2, <2>1, <2>2, <3>2 DEF Decided, RunOf
    <3> QED
      BY <3>1, <3>2
  <2> QED
    BY <1>1, <2>1, <2>2 DEF RoundInv
<1> QED
  BY <1>3, <1>4

LEMMA JobOverRound == ASSUME WaitsAssumption, TypeOK, PhaseInv, RoundInv, JobOver PROVE RoundInv'
<1>1. /\ UNCHANGED <<digests, revision, discovery, build, buildsEnded, latest>> /\ phase = "running" /\ running # None
      /\ running' = None /\ round' = [round EXCEPT !.due = @ \ {running.job}]
      /\ tried' = IF running.revision = revision THEN tried \cup {running.job} ELSE tried
  BY DEF JobOver, trackerVars, buildVars, PhaseInv
<1>2. round'.state = round.state /\ round'.revision = round.revision /\ round'.due = round.due \ {running.job}
  BY <1>1 DEF TypeOK
<1>3. ASSUME round.state = "planned", round.revision = revision, discovery # 0, NEW v \in Workspaces PROVE Decided(v)'
  <2>1. Decided(v)
    BY <1>3 DEF RoundInv
  <2>2. tried' = tried \cup {running.job}
    BY <1>1, <1>3 DEF PhaseInv
  <2>3. CASE v = running.job
    BY <2>2, <2>3 DEF Decided
  <2>4. CASE v # running.job
    BY <1>1, <1>2, <2>1, <2>2, <2>4 DEF Decided, RunOf
  <2> QED
    BY <2>3, <2>4
<1> QED
  BY <1>1, <1>2, <1>3 DEF RoundInv

LEMMA PhaseStays == ASSUME PhaseInv, UNCHANGED <<phase, round, running>> PROVE PhaseInv'
  BY DEF PhaseInv

LEMMA PlansPhase ==
    ASSUME WaitsAssumption, TypeOK, PhaseInv, PlanDiscovery \/ (\E w \in Workspaces : PlanRun(w)) \/ PlanIdle \/ PlanFails
    PROVE  PhaseInv'
<1>1. CASE PlanDiscovery
  <2>1. running' \in Jobs
    BY <1>1 DEF PlanDiscovery, Jobs, TypeOK
  <2> QED
    BY <1>1, <2>1 DEF PlanDiscovery, PhaseInv, WaitsAssumption
<1>2. ASSUME NEW w \in Workspaces, PlanRun(w) PROVE PhaseInv'
  <2>1. running' \in Jobs
    BY <1>2 DEF PlanRun, Jobs, TypeOK
  <2>2. phase' = "running" /\ running'.revision = round'.revision /\ round'.state = "planned" /\ running'.job # Discovery
    BY <1>2 DEF PlanRun, WaitsAssumption
  <2>3. running' # None
    BY <2>1 DEF WaitsAssumption
  <2> QED
    BY <2>2, <2>3 DEF PhaseInv
<1>3. CASE PlanIdle
  BY <1>3 DEF PlanIdle, Plans, PhaseInv
<1>4. CASE PlanFails
  BY <1>4 DEF PlanFails, Plans, PhaseInv
<1> QED
  BY <1>1, <1>2, <1>3, <1>4

LEMMA JobsPhase ==
    ASSUME WaitsAssumption, TypeOK, PhaseInv, Wakes \/ (\E keeps \in BOOLEAN : JobStores(keeps)) \/ JobOver
    PROVE  PhaseInv'
<1>1. CASE Wakes
  BY <1>1 DEF Wakes, PhaseInv
<1>2. ASSUME NEW keeps \in BOOLEAN, JobStores(keeps) PROVE PhaseInv'
  <2>1. running \in Jobs /\ running' = [running EXCEPT !.stored = TRUE] /\ UNCHANGED <<phase, round>>
    BY <1>2 DEF JobStores, PhaseInv, TypeOK
  <2>2. running' \in Jobs /\ running'.job = running.job /\ running'.revision = running.revision
    BY <2>1 DEF Jobs
  <2> QED
    BY <2>1, <2>2 DEF PhaseInv, WaitsAssumption
<1>3. CASE JobOver
  BY <1>3 DEF JobOver, PhaseInv
<1> QED
  BY <1>1, <1>2, <1>3
-----------------------------------------------------------------------------
(* What an outcome says *)

OutcomeTrueOf(wt, outcome) ==
    LET bound == IF wt.bound = None THEN digests ELSE wt.bound.digests
        now == CoverageAt(wt.coverage, revision)
    IN  /\ outcome = "superseded" => Differing(bound) # {}
        /\ outcome = "settled" =>
               /\ now # None
               /\ \A v \in Covering(now) :
                      /\ Differing(bound) \cap now.inside[v] = {}
                      /\ v \in tried \/ RunOf(v, now.inside[v]) \/ round.state = "held" \/ buildsEnded

LEMMA SupersededTrue ==
    ASSUME NEW wt, Superseded(wt)
    PROVE  Differing(BoundOf(wt).digests) # {}
  BY DEF Superseded, ChangedSince

LEMMA SettledTrue ==
    ASSUME WaitsAssumption, TypeOK, RoundInv, NEW wt \in Waiting, JudgedOk(wt), ~Superseded(wt), CoverageSettles(wt), discovery # 0
    PROVE  LET now == CoverageAt(wt.coverage, revision)
           IN  /\ now # None
               /\ \A v \in Covering(now) :
                      /\ Differing(BoundOf(wt).digests) \cap now.inside[v] = {}
                      /\ v \in tried \/ RunOf(v, now.inside[v]) \/ round.state = "held" \/ buildsEnded
<1> DEFINE now == CoverageNow(wt)
<1>1. now # None /\ RoundState # "pending" /\ \A v \in Covering(now) : ~Executing(v)
  BY DEF CoverageSettles, Settles
<1>2. now.revision = revision /\ now.discovery = discovery /\ KnownRight(now)
  <2>1. wt.coverage \in Covers
    BY DEF Waiting, Covers
  <2>2. revision \in Nat
    BY DEF TypeOK
  <2> QED
    BY <1>1, <2>1, <2>2, CoverageAtType, JudgedPartsRight DEF CoverageNow
<1>3. ASSUME NEW v \in Covering(now) PROVE Differing(BoundOf(wt).digests) \cap now.inside[v] = {}
  <2>1. CASE BoundOf(wt).revision = revision
    <3>1. BoundOf(wt).digests = digests
      BY <2>1, JudgedPartsRight
    <3> QED
      BY <3>1 DEF Differing
  <2>2. CASE BoundOf(wt).revision # revision
    <3>1. ChangedSince(CoverageAtBound(wt), BoundOf(wt), now) = {}
      BY <2>2 DEF Superseded
    <3>2. CASE CoverageAtBound(wt) = None
      BY <3>1, <3>2 DEF ChangedSince
    <3>3. CASE CoverageAtBound(wt) # None
      BY <1>1, <1>3, <3>1, <3>3 DEF ChangedSince, InputsOf
    <3> QED
      BY <3>2, <3>3
  <2> QED
    BY <2>1, <2>2
<1>4. ASSUME NEW v \in Covering(now), round.state # "held", ~buildsEnded PROVE v \in tried \/ RunOf(v, now.inside[v])
  <2>1. RoundState = "planned" /\ round.state = "planned" /\ round.revision = revision
    BY <1>1, <1>4 DEF RoundState, TypeOK
  <2>2. v \in Workspaces /\ v \notin round.due /\ ~(running # None /\ running.job = v)
    BY <1>1, <1>4, <2>1 DEF Executing, Covering
  <2>3. Decided(v)
    BY <2>1, <2>2 DEF RoundInv
  <2>4. build.inside = now.inside
    BY <1>1, <1>2, <1>4 DEF KnownRight
  <2> QED
    BY <1>4, <2>2, <2>3, <2>4 DEF Decided
<1> QED
  BY <1>1, <1>3, <1>4 DEF CoverageNow

LEMMA JudgedTrue ==
    ASSUME WaitsAssumption, TypeOK, RoundInv, NEW wt \in Waiting, JudgedOk(wt), wt.outcome = "none"
    PROVE  OutcomeTrueOf(wt, Judged(wt).outcome)
<1>1. BoundOf(wt).digests = IF wt.bound = None THEN digests ELSE wt.bound.digests
  BY DEF BoundOf
<1>2. CASE Judged(wt).outcome = "none"
  BY <1>2 DEF OutcomeTrueOf
<1>3. CASE Judged(wt) = Answered("superseded") /\ Superseded(wt)
  <2>1. Judged(wt).outcome = "superseded"
    BY <1>3, AnsweredIs
  <2> QED
    BY <1>1, <1>3, <2>1, SupersededTrue DEF OutcomeTrueOf
<1>4. CASE Judged(wt) = Answered("settled") /\ ~Superseded(wt) /\ CoverageSettles(wt) /\ discovery # 0
  <2>1. Judged(wt).outcome = "settled"
    BY <1>4, AnsweredIs
  <2> QED
    BY <1>1, <1>4, <2>1, SettledTrue DEF OutcomeTrueOf
<1>5. ASSUME NEW c, NEW d, NEW b, Judged(wt) = [wt EXCEPT !.bound = b, !.boundCoverage = c, !.coverage = d] PROVE Judged(wt).outcome = "none"
  BY <1>5 DEF Waiting
<1>6. ASSUME NEW b, Judged(wt) = [wt EXCEPT !.bound = b] PROVE Judged(wt).outcome = "none"
  BY <1>6 DEF Waiting
<1> QED
  BY <1>2, <1>3, <1>4, <1>5, <1>6, JudgedIs

LEMMA HasReadOutcome ==
    ASSUME WaitsAssumption, TypeOK, RoundInv, JudgedInv, NEW w \in Waiters, HasRead(w) PROVE OutcomeStep
<1> DEFINE wt == [wait[w] EXCEPT !.state = "read", !.unread = unreadNamed]
<1>1. /\ wait' = [wait EXCEPT ![w] = Judged(wt)] /\ wait \in [Waiters -> Waiting] /\ wt \in Waiting /\ JudgedOk(wt)
      /\ wt.bound = wait[w].bound /\ wt.coverage = wait[w].coverage /\ wt.outcome = wait[w].outcome
  BY ReadWait, ReadWaitOk DEF HasRead, TypeOK
<1> HIDE DEF wt
<1>2. ASSUME wait[w].outcome = "none" PROVE OutcomeTrueOf(wt, wait'[w].outcome)
  BY <1>1, <1>2, JudgedTrue
<1>3. ASSUME NEW x \in Waiters, wait[x].outcome = "none" PROVE OutcomeTrueOf(wait[x], wait'[x].outcome)
  <2>1. CASE x = w
    BY <1>1, <1>2, <1>3, <2>1 DEF OutcomeTrueOf
  <2>2. CASE x # w
    BY <1>1, <1>3, <2>2 DEF OutcomeTrueOf
  <2> QED
    BY <2>1, <2>2
<1> QED
  BY <1>3 DEF OutcomeStep, OutcomeTrueOf

LEMMA WatchOutcome ==
    ASSUME WaitsAssumption, TypeOK, RoundInv, JudgedInv, NEW fails \in BOOLEAN, Watch(fails) PROVE OutcomeStep
<1>1. ASSUME NEW x \in Waiters, wait[x].outcome = "none" PROVE OutcomeTrueOf(wait[x], wait'[x].outcome)
  <2>1. wait'[x] = wait[x] \/ wait'[x] = Answered("no answer") \/ wait'[x] = Judged(wait[x])
    BY DEF Watch
  <2>2. wait[x] \in Waiting /\ JudgedOk(wait[x])
    BY DEF TypeOK, JudgedInv
  <2>3. CASE wait'[x] = wait[x]
    BY <1>1, <2>3 DEF OutcomeTrueOf
  <2>4. CASE wait'[x] = Answered("no answer")
    BY <2>4, AnsweredIs DEF OutcomeTrueOf
  <2>5. CASE wait'[x] = Judged(wait[x])
    BY <1>1, <2>2, <2>5, JudgedTrue
  <2> QED
    BY <2>1, <2>3, <2>4, <2>5
<1> QED
  BY <1>1 DEF OutcomeStep, OutcomeTrueOf

\* Every other step answers no wait but as expired or with no answer.
LEMMA OtherOutcome ==
    ASSUME TypeOK, \A w \in Waiters : wait'[w].outcome \in {wait[w].outcome, "unsettled", "no answer"} PROVE OutcomeStep
  BY DEF OutcomeStep

-----------------------------------------------------------------------------
(* The theorems *)

WaitsInv == TypeOK /\ PhaseInv /\ SightInv /\ RoundInv /\ JudgedInv

LEMMA WaitsInit == WaitsAssumption /\ Init => WaitsInv
<1> SUFFICES ASSUME WaitsAssumption, Init PROVE WaitsInv
  OBVIOUS
<1>1. NoWait \in Waiting /\ NoWait.state = "none" /\ NoWait.bound = None /\ NoWait.coverage = None /\ NoWait.boundCoverage = None
  BY DEF NoWait, Waiting
<1>2. disk \in [Paths -> Contents] /\ digests \in Snapshot
  BY DEF Init, WaitsAssumption, Snapshot
<1>3. \A w \in Waiters : wait[w] = NoWait
  BY DEF Init
<1>4. TypeOK
  <2>1. /\ revision \in Nat /\ walked \in {None} \cup Partial(Contents)
        /\ established \in BOOLEAN /\ queued \in BOOLEAN /\ unreadNamed \in BOOLEAN
    BY DEF Init
  <2>2. /\ discovery \in Nat /\ build \in {None} \cup Builds /\ buildsEnded \in BOOLEAN
        /\ phase \in {"quiet", "running", "idle", "failed"}
        /\ round \in [state : {"pending", "planned", "held"}, revision : Nat, due : SUBSET Workspaces]
        /\ running \in {None} \cup Jobs /\ stirred \in BOOLEAN
        /\ latest \in [Workspaces -> {None} \cup Partial(Contents \cup {Absent})]
        /\ tried \subseteq Workspaces \cup {Discovery}
    <3>1. round \in [state : {"pending", "planned", "held"}, revision : Nat, due : SUBSET Workspaces]
      BY DEF Init
    <3>2. latest \in [Workspaces -> {None} \cup Partial(Contents \cup {Absent})]
      BY DEF Init
    <3>3. discovery \in Nat /\ phase \in {"quiet", "running", "idle", "failed"} /\ tried \subseteq Workspaces \cup {Discovery}
      BY DEF Init
    <3>4. build \in {None} \cup Builds /\ running \in {None} \cup Jobs /\ buildsEnded \in BOOLEAN /\ stirred \in BOOLEAN
      BY DEF Init
    <3> QED
      BY <3>1, <3>2, <3>3, <3>4
  <2>3. wait \in [Waiters -> Waiting] /\ armed \subseteq Sources /\ watching \in {"off", "waiting", "woken"} /\ disturbed \in Nat
        /\ since \in [Waiters -> SUBSET Contents]
    BY <1>1 DEF Init
  <2> QED
    BY <1>2, <2>1, <2>2, <2>3 DEF TypeOK
<1>5. PhaseInv
  BY DEF Init, PhaseInv
<1>6. SightInv
  BY <1>1, <1>3 DEF Init, SightInv, SeesEdit, Awaiting, Unbound
<1>7. RoundInv
  BY DEF Init, RoundInv
<1>8. JudgedInv
  BY <1>1, <1>3 DEF JudgedInv, JudgedOk, KnownRight
<1> QED
  BY <1>4, <1>5, <1>6, <1>7, <1>8 DEF WaitsInv

\* What the waits' own turns, the disk and a walk do.
LEMMA OwnTurnsKeep ==
    ASSUME WaitsAssumption, WaitsInv,
           \/ \E w \in Waiters : ReadAgain(w) \/ HasRead(w) \/ Ask(w) \/ Expire(w) \/ Forget(w)
           \/ \E fails \in BOOLEAN : Watch(fails)
           \/ \E p \in Paths : Write(p) \/ WalkReads(p)
           \/ \E lost \in BOOLEAN : ReconcileStarts(lost)
    PROVE  WaitsInv' /\ OutcomeStep
<1> USE DEF WaitsInv
<1>1. ASSUME NEW w \in Waiters, ReadAgain(w) PROVE WaitsInv' /\ OutcomeStep
  <2>1. PhaseInv' /\ RoundInv'
    BY <1>1, PhaseStays, RoundStays DEF ReadAgain, buildVars, scheduleVars
  <2>2. \A x \in Waiters : wait'[x].outcome = wait[x].outcome
    <3>1. wait \in [Waiters -> Waiting] /\ wait' = [wait EXCEPT ![w] = [wait[w] EXCEPT !.state = "reading again"]]
      BY <1>1, TypeParts DEF ReadAgain, WaitsOK
    <3>2. [wait[w] EXCEPT !.state = "reading again"].outcome = wait[w].outcome
      BY <3>1 DEF Waiting
    <3> QED
      BY <3>1, <3>2
  <2> QED
    BY <1>1, <2>1, <2>2, ReadAgainType, ReadAgainSight, ReadAgainJudged, OtherOutcome
<1>2. ASSUME NEW w \in Waiters, HasRead(w) PROVE WaitsInv' /\ OutcomeStep
  <2>1. PhaseInv' /\ RoundInv'
    BY <1>2, PhaseStays, RoundStays DEF HasRead, trackerVars, buildVars, scheduleVars
  <2> QED
    BY <1>2, <2>1, HasReadType, HasReadSight, HasReadJudged, HasReadOutcome
<1>3. ASSUME NEW w \in Waiters, Ask(w) PROVE WaitsInv' /\ OutcomeStep
  <2>1. PhaseInv' /\ RoundInv'
    BY <1>3, PhaseStays, RoundStays DEF Ask, buildVars, scheduleVars
  <2>2. wait' = [wait EXCEPT ![w].state = "reading"] /\ wait \in [Waiters -> Waiting]
    BY <1>3 DEF Ask, TypeOK
  <2>3. \A x \in Waiters : wait'[x].outcome = wait[x].outcome
    BY <2>2 DEF Waiting
  <2> QED
    BY <1>3, <2>1, <2>3, AskType, AskSight, AskJudged, OtherOutcome
<1>4. ASSUME NEW w \in Waiters, Expire(w) \/ Forget(w) PROVE WaitsInv' /\ OutcomeStep
  <2>1. PICK outcome \in {"unsettled", "no answer"} : Ends(w, outcome)
    BY <1>4 DEF Expire, Forget
  <2>2. PhaseInv' /\ RoundInv'
    BY <2>1, PhaseStays, RoundStays DEF Ends, trackerVars, buildVars, scheduleVars
  <2>3. \A x \in Waiters : wait'[x] = IF x = w THEN Answered(outcome) ELSE wait[x]
    BY <2>1 DEF Ends, TypeOK
  <2>4. \A x \in Waiters : wait'[x].outcome \in {wait[x].outcome, "unsettled", "no answer"}
    BY <2>3, AnsweredIs
  <2> QED
    BY <2>1, <2>2, <2>4, EndsType, EndsSight, EndsJudged, OtherOutcome
<1>5. ASSUME NEW fails \in BOOLEAN, Watch(fails) PROVE WaitsInv' /\ OutcomeStep
  <2>1. PhaseInv' /\ RoundInv'
    BY <1>5, PhaseStays, RoundStays DEF Watch, trackerVars, buildVars, scheduleVars
  <2> QED
    BY <1>5, <2>1, WatchType, WatchSight, WatchJudged, WatchOutcome
<1>6. ASSUME NEW p \in Paths, Write(p) PROVE WaitsInv' /\ OutcomeStep
  <2>1. PhaseInv' /\ RoundInv' /\ JudgedInv'
    BY <1>6, PhaseStays, RoundStays, NoMoveJudged DEF Write, buildVars, scheduleVars
  <2>2. wait' = wait
    BY <1>6 DEF Write
  <2> QED
    BY <1>6, <2>1, <2>2, WriteType, WriteSight, OtherOutcome
<1>7. ASSUME NEW p \in Paths, WalkReads(p) PROVE WaitsInv' /\ OutcomeStep
  <2>1. PhaseInv' /\ RoundInv' /\ JudgedInv'
    BY <1>7, PhaseStays, RoundStays, NoMoveJudged DEF WalkReads, buildVars, scheduleVars
  <2>2. wait' = wait
    BY <1>7 DEF WalkReads
  <2> QED
    BY <1>7, <2>1, <2>2, WalkReadsType, WalkReadsSight, OtherOutcome
<1>8. ASSUME NEW lost \in BOOLEAN, ReconcileStarts(lost) PROVE WaitsInv' /\ OutcomeStep
  <2>1. PhaseInv' /\ RoundInv' /\ JudgedInv'
    BY <1>8, PhaseStays, RoundStays, NoMoveJudged DEF ReconcileStarts, buildVars, scheduleVars
  <2>2. wait' = wait
    BY <1>8 DEF ReconcileStarts
  <2> QED
    BY <1>8, <2>1, <2>2, ReconcileStartsType, ReconcileStartsSight, OtherOutcome
<1> QED
  BY <1>1, <1>2, <1>3, <1>4, <1>5, <1>6, <1>7, <1>8

\* What moves the inputs.
LEMMA CommitsKeep ==
    ASSUME WaitsAssumption, WaitsInv,
           (\E p \in Paths : EventRead(p)) \/ (\E readable \in BOOLEAN : DrainNamed(readable)) \/ ReconcileEnds
    PROVE  WaitsInv' /\ OutcomeStep
<1> USE DEF WaitsInv
<1>1. ASSUME NEW p \in Paths, EventRead(p) PROVE WaitsInv' /\ OutcomeStep
  <2>1. /\ Commit([digests EXCEPT ![p] = disk[p]])
        /\ UNCHANGED <<discovery, build, buildsEnded, wait, round, running, latest>> /\ UNCHANGED phase
    BY <1>1 DEF EventRead, buildVars
  <2> QED
    BY <1>1, <2>1, EventReadType, EventReadSight, CommitJudged, PhaseStays, OtherOutcome
<1>2. ASSUME NEW readable \in BOOLEAN, DrainNamed(readable) PROVE WaitsInv' /\ OutcomeStep
  <2>1. /\ Commit([digests EXCEPT ![Named] = IF readable THEN disk[Named] ELSE Absent])
        /\ UNCHANGED <<discovery, build, buildsEnded, wait, round, running, latest>> /\ UNCHANGED phase
    BY <1>2 DEF DrainNamed, buildVars
  <2> QED
    BY <1>2, <2>1, DrainNamedType, DrainNamedSight, CommitJudged, PhaseStays, OtherOutcome
<1>3. CASE ReconcileEnds
  <2>1. /\ Commit(walked)
        /\ UNCHANGED <<discovery, build, buildsEnded, wait, round, running, latest>> /\ UNCHANGED phase
    BY <1>3 DEF ReconcileEnds, buildVars
  <2> QED
    BY <1>3, <2>1, ReconcileEndsType, ReconcileEndsSight, CommitJudged, PhaseStays, OtherOutcome
<1> QED
  BY <1>1, <1>2, <1>3

\* What the builds and the scheduler do.
LEMMA ScheduleKeeps ==
    ASSUME WaitsAssumption, WaitsInv,
           \/ (\E built \in BOOLEAN : BuildEnds(built)) \/ BuildsThrow
           \/ PlanDiscovery \/ (\E w \in Workspaces : PlanRun(w)) \/ PlanIdle \/ PlanFails \/ Wakes
           \/ (\E keeps \in BOOLEAN : JobStores(keeps)) \/ JobOver
    PROVE  WaitsInv' /\ OutcomeStep
<1> USE DEF WaitsInv
<1>0. Sources \in SUBSET Sources /\ {"builds"} \in SUBSET Sources /\ {"schedule"} \in SUBSET Sources /\ {"store"} \in SUBSET Sources
  BY DEF Sources
<1>1. UNCHANGED <<disk, digests, established, walked, queued, unreadNamed, wait, since>> /\ UNCHANGED revision
  BY DEF BuildEnds, BuildsThrow, PlanDiscovery, PlanRun, PlanIdle, PlanFails, Wakes, JobStores, JobOver, trackerVars
<1>2. (\E sources \in SUBSET Sources : Moved(sources)) \/ NothingMoved
  BY <1>0 DEF BuildEnds, BuildsThrow, PlanDiscovery, PlanRun, PlanIdle, PlanFails, Wakes, JobStores, JobOver
<1>3. SightInv' /\ OutcomeStep
  BY <1>1, <1>2, MovedSight, OtherOutcome
<1>4. phase = "running" => running # None
  BY DEF PhaseInv
<1>5. ASSUME NEW built \in BOOLEAN, BuildEnds(built) PROVE WaitsInv'
  <2>1. UNCHANGED <<phase, round, running>> /\ UNCHANGED <<discovery, buildsEnded>> /\ BuildPending
    BY <1>5 DEF BuildEnds, scheduleVars
  <2> QED
    BY <1>1, <1>3, <1>5, <2>1, BuildEndsType, BuildEndsRound, BuildJudged, PhaseStays
<1>6. CASE BuildsThrow
  <2>1. UNCHANGED <<phase, round, running>> /\ UNCHANGED <<discovery, build>> /\ buildsEnded'
    BY <1>6 DEF BuildsThrow, scheduleVars
  <2> QED
    BY <1>1, <1>3, <1>6, <2>1, BuildsThrowType, BuildsThrowRound, BuildJudged, PhaseStays
<1>7. ASSUME UNCHANGED <<discovery, build, buildsEnded>> PROVE JudgedInv'
  BY <1>1, <1>7, NoMoveJudged
<1>8. CASE PlanDiscovery
  BY <1>3, <1>7, <1>8, PlanDiscoveryType, PlanDiscoveryRound, PlansPhase DEF PlanDiscovery, buildVars
<1>9. ASSUME NEW w \in Workspaces, PlanRun(w) PROVE WaitsInv'
  BY <1>3, <1>7, <1>9, PlanRunType, PlanRunRound, PlansPhase DEF PlanRun, buildVars
<1>10. CASE PlanIdle
  BY <1>3, <1>7, <1>10, PlanIdleType, PlanIdleRound, PlansPhase DEF PlanIdle, buildVars
<1>11. CASE PlanFails
  BY <1>3, <1>7, <1>11, PlanFailsType, PlanFailsRound, PlansPhase DEF PlanFails, buildVars
<1>12. CASE Wakes
  BY <1>3, <1>7, <1>12, WakesType, WakesRound, JobsPhase DEF Wakes, buildVars
<1>13. ASSUME NEW keeps \in BOOLEAN, JobStores(keeps) PROVE WaitsInv'
  <2>1. (UNCHANGED discovery /\ UNCHANGED build /\ (buildsEnded => buildsEnded')) \/ discovery' = discovery + 1
    BY <1>13 DEF JobStores
  <2> QED
    BY <1>1, <1>3, <1>4, <1>13, <2>1, JobStoresType, JobStoresRound, JobsPhase, BuildJudged
<1>14. CASE JobOver
  BY <1>3, <1>4, <1>7, <1>14, JobOverType, JobOverRound, JobsPhase DEF JobOver, buildVars
<1> QED
  BY <1>3, <1>5, <1>6, <1>8, <1>9, <1>10, <1>11, <1>12, <1>13, <1>14

LEMMA WaitsNext == WaitsAssumption /\ WaitsInv /\ [Next]_vars => WaitsInv' /\ [OutcomeStep]_vars
<1> SUFFICES ASSUME WaitsAssumption, WaitsInv, [Next]_vars PROVE WaitsInv' /\ [OutcomeStep]_vars
  OBVIOUS
<1>1. CASE Next
  BY <1>1, OwnTurnsKeep, CommitsKeep, ScheduleKeeps DEF Next, Work, Disturbance
<1>2. CASE UNCHANGED vars
  <2>1. UNCHANGED trackerVars /\ UNCHANGED buildVars /\ UNCHANGED scheduleVars /\ UNCHANGED <<wait, watchVars, disturbed, since>>
    BY <1>2 DEF vars
  <2>2. TypeOK'
    <3>1. /\ disk' \in [Paths -> Contents] /\ digests' \in Snapshot /\ revision' \in Nat /\ established' \in BOOLEAN
          /\ walked' \in {None} \cup Partial(Contents) /\ queued' \in BOOLEAN /\ unreadNamed' \in BOOLEAN
      BY <2>1 DEF WaitsInv, TypeOK, trackerVars
    <3>2. /\ discovery' \in Nat /\ build' \in {None} \cup Builds /\ buildsEnded' \in BOOLEAN
          /\ phase' \in {"quiet", "running", "idle", "failed"}
          /\ round' \in [state : {"pending", "planned", "held"}, revision : Nat, due : SUBSET Workspaces]
          /\ running' \in {None} \cup Jobs /\ stirred' \in BOOLEAN
          /\ latest' \in [Workspaces -> {None} \cup Partial(Contents \cup {Absent})]
          /\ tried' \subseteq Workspaces \cup {Discovery}
      BY <2>1 DEF WaitsInv, TypeOK, buildVars, scheduleVars
    <3>3. wait' \in [Waiters -> Waiting] /\ armed' \subseteq Sources /\ watching' \in {"off", "waiting", "woken"}
          /\ disturbed' \in Nat /\ since' \in [Waiters -> SUBSET Contents]
      BY <2>1 DEF WaitsInv, TypeOK, watchVars
    <3> QED
      BY <3>1, <3>2, <3>3 DEF TypeOK
  <2>3. PhaseInv' /\ RoundInv'
    BY <2>1, PhaseStays, RoundStays DEF WaitsInv, trackerVars, buildVars, scheduleVars
  <2>4. SightInv'
    BY <2>1, MovedSight DEF WaitsInv, trackerVars, NothingMoved
  <2>5. JudgedInv'
    BY <2>1, NoMoveJudged DEF WaitsInv, trackerVars, buildVars
  <2> QED
    BY <1>2, <2>2, <2>3, <2>4, <2>5 DEF WaitsInv
<1> QED
  BY <1>1, <1>2

\* Every variable keeps its type, and in every state a wait that could read its file is bound to an input revision that
\* holds the file as it was at some moment since the wait was asked (Waits.#read, #judgeOne, InputTracker.readNamed).
THEOREM WaitsSeeEdits == Spec => [](TypeOK /\ BoundSeesEdit)
<1>1. Init => WaitsInv
  BY WaitsInit, WaitsAssumption
<1>2. WaitsInv /\ [Next]_vars => WaitsInv'
  BY WaitsNext, WaitsAssumption
<1>3. WaitsInv => TypeOK /\ BoundSeesEdit
  BY DEF WaitsInv, SightInv, SeesEdit, BoundSeesEdit
<1> QED
  BY <1>1, <1>2, <1>3, PTL DEF Spec

\* A wait is answered as superseded only over an input that differs from the bound one, and as settled only over runs of
\* the very inputs it was bound to, in every workspace covering the file (Waits.#judgeOne, changedSince, settles).
THEOREM OutcomesAreTrue == Spec => OutcomeIsTrue
<1>1. Init => WaitsInv
  BY WaitsInit, WaitsAssumption
<1>2. WaitsInv /\ [Next]_vars => WaitsInv' /\ [OutcomeStep]_vars
  BY WaitsNext, WaitsAssumption
<1> QED
  BY <1>1, <1>2, PTL DEF Spec, OutcomeIsTrue
=============================================================================
