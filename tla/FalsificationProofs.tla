------------------------ MODULE FalsificationProofs ------------------------
(***************************************************************************)
(* Evidence is of the inputs it names, and no waiting definition is left   *)
(* in silence, for any definitions, workspaces, installs, bounds and       *)
(* edits.  The inductive invariant has four parts:                         *)
(*   - JobInv: while the revision is the one a job was planned at, the     *)
(*     tracker's count is still the fingerprint read before it was sent,   *)
(*     and all a job's runs read lies between that fingerprint and the     *)
(*     contents of now;                                                    *)
(*   - MarksInv: no mark and no wait is of a revision still to come, and   *)
(*     none is of one after the plan of a job in progress;                 *)
(*   - ToldInv: what is held at the revision is told, or its workspace     *)
(*     waits, or its evidence is current;                                  *)
(*   - ClosingInv: a look that took nothing left each told.                *)
(***************************************************************************)
EXTENDS Falsification, FiniteSetTheorems, WellFoundedInduction, TLAPS

Outcomes ==
    [ran : {FALSE}]
    \cup [ran : {TRUE}, interrupted : BOOLEAN, running : Digests \cup {None}, judged : SUBSET Digests]

Jobs == [canary : BOOLEAN, defs : SUBSET Digests, read : SUBSET Nat, aborted : BOOLEAN, reply : {None} \cup Outcomes]

Revisions == Nat \cup {None}

\* The revision a digest is held at, and whether a reason is told, by the marks m.
HeldAt(m, d) == MarkOf(m, d).heldAt
ToldBy(m, d) == MarkOf(m, d).told

\* Every mark and wait is of a revision up to r.
UpTo(m, w, r) ==
    /\ \A d \in Digests : HeldAt(m, d) \in 0..r \cup {None}
    /\ \A x \in Workspaces : w[x] \in 0..r \cup {None}

Current(ev, d, v) == \E e \in ev : e.digest = d /\ e.fingerprint = v

\* What is held at revision r is told, waits with its workspace, or has evidence of the inputs v.
HeldIsTold(m, w, ev, r, v) ==
    \A d \in Digests : HeldAt(m, d) = r => w[WorkspaceOf(d)] = r \/ ToldBy(m, d) \/ Current(ev, d, v)

TypeInv ==
    /\ content \in Nat /\ view \in Nat /\ rev \in Nat /\ view <= content
    /\ edition \in [Definitions -> Editions]
    /\ marks \in [Digests -> Mark \cup {None}] /\ waits \in [Workspaces -> Revisions]
    /\ look.at \in {"idle", "settling", "reading", "closing", "job"}
    /\ look.at # "idle" => look.planned \in Nat /\ look.planned <= rev
    /\ look.at = "reading" => look.standing \subseteq Digests
    /\ look.at = "closing" /\ look.then = "canary" => look.defs \subseteq Digests

JobInv ==
    job # None =>
        /\ job \in Jobs /\ look.at = "job" /\ look.defs \subseteq Digests /\ job.defs = look.defs
        /\ job.reply # None /\ job.reply.ran => job.read # {} /\ job.reply.judged \subseteq look.defs
        /\ ~job.canary => /\ look.mark = look.planned /\ look.fingerprint \in Nat /\ look.fingerprint <= view
                          /\ rev = look.planned => view = look.fingerprint
                          /\ job.read \subseteq look.fingerprint..content

MarksInv ==
    /\ UpTo(marks, waits, rev)
    /\ job # None => UpTo(marks, waits, look.planned)

ToldInv == HeldIsTold(marks, waits, evidence, rev, view)

ClosingInv == WaitingIsTold

FalsificationInv == TypeInv /\ JobInv /\ MarksInv /\ ToldInv /\ ClosingInv /\ EvidenceSound

-----------------------------------------------------------------------------
(* The plan *)

\* A set of numbers that is not empty has a least one.
LEMMA LeastNumber ==
    ASSUME NEW T, T \subseteq Nat, T # {}
    PROVE  \E n \in T : \A m \in T : n <= m
  <1> DEFINE Below(n) == 0..n
             U == {Below(n) : n \in T}
  <1>1. \A n \in Nat : IsFiniteSet(Below(n))
    BY FS_Interval
  <1>2. U \subseteq FiniteSubsetsOf(Nat) /\ U # {}
    <2>1. \A n \in Nat : Below(n) \in SUBSET Nat
      OBVIOUS
    <2> HIDE DEF Below
    <2> QED
      BY <1>1, <2>1 DEF FiniteSubsetsOf
  <1>3. IsWellFoundedOn(StrictSubsetOrdering(Nat), FiniteSubsetsOf(Nat))
    BY FS_StrictSubsetOrderingWellFounded
  <1> HIDE DEF U
  <1>4. PICK x \in U : \A y \in U : ~(<<y, x>> \in StrictSubsetOrdering(Nat))
    BY <1>2, <1>3, WFMin
  <1>5. PICK n \in T : x = Below(n)
    BY <1>4 DEF U
  <1>6. ASSUME NEW m \in T, ~(n <= m) PROVE FALSE
    <2>1. m \in Nat /\ n \in Nat /\ m < n
      BY <1>6
    <2>2. Below(m) \in U /\ Below(m) \subseteq Below(n) /\ n \in Below(n) /\ n \notin Below(m)
      BY <2>1 DEF U
    <2>3. <<Below(m), Below(n)>> \in StrictSubsetOrdering(Nat)
      <3>1. Below(m) \in SUBSET Nat /\ Below(n) \in SUBSET Nat
        OBVIOUS
      <3> HIDE DEF Below
      <3> QED
        BY <2>2, <3>1 DEF StrictSubsetOrdering
    <2> QED
      BY <1>4, <1>5, <2>2, <2>3
  <1> QED
    BY <1>6

\* A mark is one of a DefinitionMark's shape, whether it is kept or not.
LEMMA MarkType ==
    ASSUME NEW m \in [Digests -> Mark \cup {None}], NEW d \in Digests
    PROVE  MarkOf(m, d) \in Mark
  BY DEF MarkOf, Mark

\* Ending streaks, but for one definition or none, changes what is held and told of none.
LEMMA StreaksKeep ==
    ASSUME NEW m \in [Digests -> Mark \cup {None}], NEW defs, NEW except
    PROVE  /\ StreaksEnded(m, defs, except) \in [Digests -> Mark \cup {None}]
           /\ \A d \in Digests : /\ HeldAt(StreaksEnded(m, defs, except), d) = HeldAt(m, d)
                                 /\ ToldBy(StreaksEnded(m, defs, except), d) = ToldBy(m, d)
  <1> DEFINE n == StreaksEnded(m, defs, except)
  <1>1. n \in [Digests -> Mark \cup {None}]
    BY DEF StreaksEnded, Mark
  <1>2. ASSUME NEW d \in Digests PROVE HeldAt(n, d) = HeldAt(m, d) /\ ToldBy(n, d) = ToldBy(m, d)
    <2>1. CASE m[d] = None
      BY <2>1 DEF StreaksEnded, HeldAt, ToldBy, MarkOf
    <2>2. CASE m[d] # None
      <3>1. m[d] \in Mark
        BY <2>2
      <3>2. n[d] \in Mark /\ n[d].heldAt = m[d].heldAt /\ n[d].told = m[d].told
        BY <2>2, <3>1 DEF StreaksEnded, Mark
      <3>3. n[d] # None
        BY <3>2, PlanAssumption
      <3> HIDE DEF n
      <3> QED
        BY <2>2, <3>2, <3>3 DEF HeldAt, ToldBy, MarkOf
    <2> QED
      BY <2>1, <2>2
  <1> QED
    BY <1>1, <1>2

\* #forget drops marks, and adds none.
LEMMA KnownKeep ==
    ASSUME TypeInv, NEW standing
    PROVE  /\ KnownMarks(standing) \in [Digests -> Mark \cup {None}]
           /\ \A d \in Digests : \/ HeldAt(KnownMarks(standing), d) = None
                                 \/ /\ HeldAt(KnownMarks(standing), d) = HeldAt(marks, d)
                                    /\ ToldBy(KnownMarks(standing), d) = ToldBy(marks, d)
           /\ \A d \in Digests \cap standing : /\ HeldAt(KnownMarks(standing), d) = HeldAt(marks, d)
                                               /\ ToldBy(KnownMarks(standing), d) = ToldBy(marks, d)
  BY DEF TypeInv, KnownMarks, HeldAt, ToldBy, MarkOf

\* It keeps the waits of the revision.
LEMMA CurrentKeep ==
    ASSUME TypeInv, NEW r \in Nat
    PROVE  /\ CurrentWaits(r) \in [Workspaces -> Revisions]
           /\ \A x \in Workspaces : /\ CurrentWaits(r)[x] \in {r, None}
                                    /\ (CurrentWaits(r)[x] = r) <=> (waits[x] = r)
  BY PlanAssumption DEF TypeInv, CurrentWaits, Revisions

\* A job is taken unless each definition that waits is held at the revision or waits with its workspace.
LEMMA NoneTaken ==
    ASSUME TypeInv, NEW waiting \in SUBSET Digests, NEW r, NextJob(waiting, r) = {}
    PROVE  \A d \in waiting : ~MayTake(d, r)
  <1> DEFINE takeable == {d \in waiting : MayTake(d, r)}
             first == CHOOSE d \in takeable : \A x \in takeable : Key(d) <= Key(x)
             own == {d \in takeable : WorkspaceOf(d) = WorkspaceOf(first)}
  <1> SUFFICES ASSUME takeable # {} PROVE FALSE
    OBVIOUS
  <1>1. \A d \in takeable : Key(d) \in Nat
    <2>1. IsFiniteSet(Digests)
      BY FS_Product, PlanAssumption DEF Digests
    <2>2. Cardinality(Digests) \in Nat
      BY <2>1, FS_CardinalityType
    <2> QED
      BY <2>2, PlanAssumption DEF Key, Digests
  <1> DEFINE keys == {Key(d) : d \in takeable}
  <1>2. PICK n \in keys : \A m \in keys : n <= m
    <2>1. keys \subseteq Nat /\ keys # {}
      BY <1>1
    <2> HIDE DEF keys
    <2> QED
      BY <2>1, LeastNumber
  <1> HIDE DEF takeable
  <1>3. \E d \in takeable : \A x \in takeable : Key(d) <= Key(x)
    BY <1>2
  <1>4. first \in takeable /\ \A x \in takeable : Key(first) <= Key(x)
    BY <1>3
  <1> HIDE DEF first
  <1>5. first \in own
    BY <1>4
  <1>6. {x \in own : Key(x) < Key(first)} = {}
    BY <1>1, <1>4
  <1>7. Cardinality({x \in own : Key(x) < Key(first)}) < MaxJobDefinitions
    BY <1>6, FS_EmptySet, PlanAssumption
  <1>8. first \in NextJob(waiting, r)
    BY <1>5, <1>7 DEF NextJob, own, first, takeable
  <1> QED
    BY <1>8
\* What #forget leaves is bounded and told as before.
LEMMA ForgetHolds ==
    ASSUME TypeInv, MarksInv, ToldInv, NEW standing
    PROVE  /\ UpTo(KnownMarks(standing), CurrentWaits(rev), rev)
           /\ HeldIsTold(KnownMarks(standing), CurrentWaits(rev), evidence, rev, view)
  <1> DEFINE m == KnownMarks(standing)
             w == CurrentWaits(rev)
  <1>1. rev \in Nat /\ rev # None
    BY PlanAssumption DEF TypeInv
  <1>2. \A d \in Digests : \/ HeldAt(m, d) = None
                           \/ HeldAt(m, d) = HeldAt(marks, d) /\ ToldBy(m, d) = ToldBy(marks, d)
    BY KnownKeep
  <1>3. \A x \in Workspaces : w[x] \in {rev, None} /\ ((w[x] = rev) <=> (waits[x] = rev))
    BY <1>1, CurrentKeep
  <1>4. \A d \in Digests : WorkspaceOf(d) \in Workspaces
    BY PlanAssumption DEF Digests, WorkspaceOf
  <1> HIDE DEF m, w
  <1>5. UpTo(m, w, rev)
    BY <1>1, <1>2, <1>3 DEF UpTo, MarksInv
  <1>6. HeldIsTold(m, w, evidence, rev, view)
    BY <1>1, <1>2, <1>3, <1>4 DEF HeldIsTold, ToldInv
  <1> QED
    BY <1>5, <1>6 DEF m, w

\* A workspace that waits at a revision p leaves what is held at r told, when nothing held is of a revision between.
LEMMA WaitsHold ==
    ASSUME NEW w \in [Workspaces -> Revisions], NEW m, NEW defs, NEW p \in Nat, NEW r \in Nat, p <= r,
           NEW ev, NEW v, UpTo(m, w, p), HeldIsTold(m, w, ev, r, v), Waits(w, defs, p)
    PROVE  waits' \in [Workspaces -> Revisions] /\ UpTo(m, waits', p) /\ HeldIsTold(m, waits', ev, r, v)
  <1>1. \A x \in Workspaces : waits'[x] = p \/ waits'[x] = w[x]
    BY DEF Waits
  <1>2. waits' \in [Workspaces -> Revisions]
    BY DEF Waits, Revisions
  <1>3. UpTo(m, waits', p)
    BY <1>1 DEF UpTo
  <1>4. \A d \in Digests : WorkspaceOf(d) \in Workspaces
    BY PlanAssumption DEF Digests, WorkspaceOf
  <1>5. HeldIsTold(m, waits', ev, r, v)
    <2>1. CASE p = r
      BY <1>1, <1>4, <2>1 DEF HeldIsTold
    <2>2. CASE p # r
      <3>1. \A d \in Digests : HeldAt(m, d) # r
        BY <2>2, PlanAssumption DEF UpTo
      <3> QED
        BY <3>1 DEF HeldIsTold
    <2> QED
      BY <2>1, <2>2
  <1> QED
    BY <1>2, <1>3, <1>5

\* Marks that hold and tell the same as others are bounded and told as they are.
LEMMA SameHeld ==
    ASSUME NEW m, NEW n, NEW w, NEW p, NEW r, NEW ev, NEW v,
           \A d \in Digests : HeldAt(n, d) = HeldAt(m, d) /\ ToldBy(n, d) = ToldBy(m, d)
    PROVE  /\ UpTo(m, w, p) => UpTo(n, w, p)
           /\ HeldIsTold(m, w, ev, r, v) => HeldIsTold(n, w, ev, r, v)
  BY DEF UpTo, HeldIsTold

\* workspaceWaits, from the marks m and the waits w.
LEMMA WorkspaceWaitsHolds ==
    ASSUME NEW w \in [Workspaces -> Revisions], NEW m \in [Digests -> Mark \cup {None}], NEW defs,
           NEW p \in Nat, NEW r \in Nat, p <= r, NEW ev, NEW v,
           UpTo(m, w, p), HeldIsTold(m, w, ev, r, v), WorkspaceWaits(m, w, defs, p)
    PROVE  /\ marks' \in [Digests -> Mark \cup {None}] /\ waits' \in [Workspaces -> Revisions]
           /\ UpTo(marks', waits', p) /\ HeldIsTold(marks', waits', ev, r, v)
  <1>1. Waits(w, defs, p) /\ marks' = StreaksEnded(m, defs, None)
    BY DEF WorkspaceWaits
  <1>2. waits' \in [Workspaces -> Revisions] /\ UpTo(m, waits', p) /\ HeldIsTold(m, waits', ev, r, v)
    BY <1>1, WaitsHold
  <1>3. /\ marks' \in [Digests -> Mark \cup {None}]
        /\ \A d \in Digests : HeldAt(marks', d) = HeldAt(m, d) /\ ToldBy(marks', d) = ToldBy(m, d)
    BY <1>1, StreaksKeep
  <1> QED
    BY <1>2, <1>3, SameHeld

\* Nothing changes what is bounded but a later bound, which is weaker.
LEMMA UpToLater ==
    ASSUME NEW m, NEW w, NEW p \in Nat, NEW r \in Nat, p <= r, UpTo(m, w, p)
    PROVE  UpTo(m, w, r)
  BY DEF UpTo

\* The tracker's count either finds the inputs as it has them or makes a new revision.
LEMMA CountedStep ==
    ASSUME TypeInv, Counted
    PROVE  /\ content' = content /\ view' = content /\ view' \in Nat /\ rev' \in Nat /\ rev <= rev' /\ view <= view'
           /\ rev' = rev => view = content
           /\ rev' # rev => rev < rev'
  BY DEF TypeInv, Counted

\* At a new revision nothing is held yet.
LEMMA ToldLater ==
    ASSUME TypeInv, MarksInv, ToldInv, Counted
    PROVE  UpTo(marks, waits, rev') /\ HeldIsTold(marks, waits, evidence, rev', view')
  <1>1. /\ rev \in Nat /\ rev' \in Nat /\ rev <= rev' /\ (rev' = rev => view' = view) /\ (rev' # rev => rev < rev')
    BY CountedStep DEF TypeInv
  <1>2. UpTo(marks, waits, rev')
    BY <1>1, UpToLater DEF MarksInv
  <1>3. CASE rev' = rev
    BY <1>1, <1>2, <1>3 DEF ToldInv
  <1>4. CASE rev' # rev
    <2>1. \A d \in Digests : HeldAt(marks, d) # rev'
      BY <1>1, <1>4, PlanAssumption DEF MarksInv, UpTo
    <2> QED
      BY <1>2, <2>1 DEF HeldIsTold
  <1> QED
    BY <1>3, <1>4
\* ranToEnd holds each definition at the revision p; those judged have evidence, or their workspace waits.
LEMMA RanToEndHolds ==
    ASSUME marks \in [Digests -> Mark \cup {None}], NEW defs \in SUBSET Digests, NEW judged,
           NEW p \in Nat, NEW r \in Nat, p <= r, NEW ev, NEW v, NEW w,
           UpTo(marks, w, p), HeldIsTold(marks, w, ev, r, v), RanToEnd(defs, p, judged),
           p = r => \A d \in defs \cap judged : w[WorkspaceOf(d)] = r \/ Current(ev, d, v)
    PROVE  marks' \in [Digests -> Mark \cup {None}] /\ UpTo(marks', w, p) /\ HeldIsTold(marks', w, ev, r, v)
  <1> DEFINE put(d) == [MarkOf(marks, d) EXCEPT !.heldAt = p, !.told = d \notin judged, !.endedRunning = FALSE]
  <1>1. marks' = [d \in Digests |-> IF d \in defs THEN put(d) ELSE marks[d]]
    BY DEF RanToEnd
  <1>2. \A d \in Digests : put(d) \in Mark /\ put(d).heldAt = p /\ put(d).told = (d \notin judged)
    <2>1. \A d \in Digests : MarkOf(marks, d) \in Mark
      BY MarkType
    <2> QED
      BY <2>1 DEF Mark
  <1> HIDE DEF put
  <1>3. marks' \in [Digests -> Mark \cup {None}]
    BY <1>1, <1>2
  <1>4. \A d \in defs : HeldAt(marks', d) = p /\ ToldBy(marks', d) = (d \notin judged)
    <2> SUFFICES ASSUME NEW d \in defs PROVE HeldAt(marks', d) = p /\ ToldBy(marks', d) = (d \notin judged)
      OBVIOUS
    <2>1. marks'[d] = put(d) /\ put(d) # None
      BY <1>1, <1>2, PlanAssumption
    <2> QED
      BY <1>2, <2>1 DEF HeldAt, ToldBy, MarkOf
  <1>5. \A d \in Digests \ defs : HeldAt(marks', d) = HeldAt(marks, d) /\ ToldBy(marks', d) = ToldBy(marks, d)
    BY <1>1 DEF HeldAt, ToldBy, MarkOf
  <1>6. UpTo(marks', w, p)
    BY <1>4, <1>5 DEF UpTo
  <1>7. HeldIsTold(marks', w, ev, r, v)
    <2> SUFFICES ASSUME NEW d \in Digests, HeldAt(marks', d) = r
                 PROVE  w[WorkspaceOf(d)] = r \/ ToldBy(marks', d) \/ Current(ev, d, v)
      BY DEF HeldIsTold
    <2>1. CASE d \in defs
      BY <1>4, <2>1
    <2>2. CASE d \notin defs
      BY <1>5, <2>2 DEF HeldIsTold
    <2> QED
      BY <2>1, <2>2
  <1> QED
    BY <1>3, <1>6, <1>7

\* The marks n are the marks m but for d's, k, which is of a revision up to q and is told, or says what m's did.
Leaves(k, m, n, d, q) ==
    /\ n = [m EXCEPT ![d] = k]
    /\ k \in Mark /\ k.heldAt \in 0..q \cup {None}
    /\ k.told = TRUE \/ (k.heldAt = HeldAt(m, d) /\ k.told = ToldBy(m, d))

\* A definition left at a revision is told, and the others are as they were.
LEMMA LeftHolds ==
    ASSUME NEW m \in [Digests -> Mark \cup {None}], NEW d \in Digests, NEW k, NEW n, NEW q, Leaves(k, m, n, d, q),
           NEW r, NEW ev, NEW v, NEW w, UpTo(m, w, q), HeldIsTold(m, w, ev, r, v)
    PROVE  n \in [Digests -> Mark \cup {None}] /\ UpTo(n, w, q) /\ HeldIsTold(n, w, ev, r, v)
  <1>0. /\ n = [m EXCEPT ![d] = k]
        /\ k \in Mark /\ k.heldAt \in 0..q \cup {None}
        /\ k.told = TRUE \/ (k.heldAt = HeldAt(m, d) /\ k.told = ToldBy(m, d))
    BY DEF Leaves
  <1>1. /\ n \in [Digests -> Mark \cup {None}]
        /\ HeldAt(n, d) = k.heldAt /\ ToldBy(n, d) = k.told
        /\ \A x \in Digests \ {d} : HeldAt(n, x) = HeldAt(m, x) /\ ToldBy(n, x) = ToldBy(m, x)
    <2>1. n \in [Digests -> Mark \cup {None}] /\ n[d] = k /\ \A x \in Digests \ {d} : n[x] = m[x]
      BY <1>0
    <2>2. k # None
      BY <1>0, PlanAssumption
    <2> QED
      BY <2>1, <2>2 DEF HeldAt, ToldBy, MarkOf
  <1>3. UpTo(n, w, q)
    BY <1>0, <1>1 DEF UpTo
  <1>4. HeldIsTold(n, w, ev, r, v)
    <2> SUFFICES ASSUME NEW x \in Digests, HeldAt(n, x) = r
                 PROVE  w[WorkspaceOf(x)] = r \/ ToldBy(n, x) \/ Current(ev, x, v)
      BY DEF HeldIsTold
    <2>1. CASE x = d
      BY <1>0, <1>1, <2>1 DEF HeldIsTold
    <2>2. CASE x # d
      BY <1>1, <2>2 DEF HeldIsTold
    <2> QED
      BY <2>1, <2>2
  <1> QED
    BY <1>1, <1>3, <1>4

\* endedByBound leaves the definition that was running, at the revision the job was planned at.
LEMMA EndedByBoundHolds ==
    ASSUME marks \in [Digests -> Mark \cup {None}], NEW defs, NEW running \in Digests,
           NEW p \in Nat, NEW r \in Nat, NEW ev, NEW v, NEW w,
           UpTo(marks, w, p), HeldIsTold(marks, w, ev, r, v), EndedByBound(defs, p, running)
    PROVE  marks' \in [Digests -> Mark \cup {None}] /\ UpTo(marks', w, p) /\ HeldIsTold(marks', w, ev, r, v)
  <1> DEFINE m == StreaksEnded(marks, defs, None)
             k == Left(p, FALSE)
  <1>1. /\ m \in [Digests -> Mark \cup {None}]
        /\ \A d \in Digests : HeldAt(m, d) = HeldAt(marks, d) /\ ToldBy(m, d) = ToldBy(marks, d)
    BY StreaksKeep
  <1>2. k \in Mark /\ k.told = TRUE /\ k.heldAt = p
    BY DEF Left, Mark
  <1>3. marks' = [m EXCEPT ![running] = k]
    BY DEF EndedByBound
  <1> HIDE DEF m, k
  <1>4. UpTo(m, w, p) /\ HeldIsTold(m, w, ev, r, v)
    BY <1>1, SameHeld
  <1>5. Leaves(k, m, marks', running, p)
    BY <1>2, <1>3 DEF Leaves
  <1> QED
    BY <1>1, <1>4, <1>5, LeftHolds

\* endedByChange leaves the definition that was running, the second time in a row, at the revision there is now.
LEMMA EndedByChangeHolds ==
    ASSUME marks \in [Digests -> Mark \cup {None}], NEW defs, NEW running \in Digests \cup {None},
           NEW p \in Nat, NEW r \in Nat, p <= r, NEW ev, NEW v, NEW w,
           UpTo(marks, w, p), HeldIsTold(marks, w, ev, r, v), EndedByChange(defs, r, running)
    PROVE  marks' \in [Digests -> Mark \cup {None}] /\ UpTo(marks', w, r) /\ HeldIsTold(marks', w, ev, r, v)
  <1> DEFINE m == StreaksEnded(marks, defs, running)
             k == IF MarkOf(marks, running).endedRunning THEN Left(r, TRUE)
                  ELSE [MarkOf(marks, running) EXCEPT !.endedRunning = TRUE]
  <1>1. /\ m \in [Digests -> Mark \cup {None}]
        /\ \A d \in Digests : HeldAt(m, d) = HeldAt(marks, d) /\ ToldBy(m, d) = ToldBy(marks, d)
    BY StreaksKeep
  <1>2. UpTo(m, w, p) /\ HeldIsTold(m, w, ev, r, v)
    BY <1>1, SameHeld
  <1>3. CASE running = None
    <2>1. marks' = m
      BY <1>3 DEF EndedByChange
    <2> HIDE DEF m
    <2> QED
      BY <1>1, <1>2, <2>1, UpToLater
  <1>4. CASE running # None
    <2>1. running \in Digests /\ marks' = [m EXCEPT ![running] = k]
      BY <1>4 DEF EndedByChange
    <2>2. MarkOf(marks, running) \in Mark
      BY <2>1, MarkType
    <2>3. /\ k \in Mark
          /\ k.told = TRUE \/ (k.heldAt = HeldAt(marks, running) /\ k.told = ToldBy(marks, running))
          /\ k.heldAt = r \/ k.heldAt = HeldAt(marks, running)
      <3>1. CASE MarkOf(marks, running).endedRunning
        BY <3>1 DEF Left, Mark
      <3>2. CASE ~MarkOf(marks, running).endedRunning
        BY <2>2, <3>2 DEF Mark, HeldAt, ToldBy
      <3> QED
        BY <3>1, <3>2
    <2> HIDE DEF m, k
    <2>4. k.heldAt \in 0..r \cup {None}
      BY <2>1, <2>3 DEF UpTo
    <2>5. k.told = TRUE \/ (k.heldAt = HeldAt(m, running) /\ k.told = ToldBy(m, running))
      BY <1>1, <2>1, <2>3
    <2>6. Leaves(k, m, marks', running, r)
      BY <2>1, <2>3, <2>4, <2>5 DEF Leaves
    <2>7. UpTo(m, w, r)
      BY <1>2, UpToLater
    <2> QED
      BY <1>1, <1>2, <2>1, <2>6, <2>7, LeftHolds
  <1> QED
    BY <1>3, <1>4
-----------------------------------------------------------------------------
(* The steps *)

\* The parts of the invariant about marks and evidence survive a step that touches neither them nor the inputs.
LEMMA PlanKept ==
    ASSUME FalsificationInv, UNCHANGED <<marks, waits, evidence, rev, view>>
    PROVE  UpTo(marks', waits', rev') /\ ToldInv' /\ EvidenceSound'
  BY DEF FalsificationInv, MarksInv, ToldInv, EvidenceSound

\* A look that is not at its end after a take of nothing owes nothing.
LEMMA NothingOwed ==
    ASSUME look'.at # "closing" \/ look'.then # "none taken" \/ rev' # look'.planned
    PROVE  ClosingInv'
  BY DEF ClosingInv, WaitingIsTold

LEMMA EditStep ==
    ASSUME FalsificationInv, Edit PROVE FalsificationInv'
  <1> USE DEF Edit
  <1>1. UNCHANGED <<view, rev, edition, evidence, look, job, marks, waits>> /\ content' = content + 1
    BY DEF planVars
  <1>2. TypeInv'
    BY <1>1 DEF FalsificationInv, TypeInv
  <1>3. JobInv'
    <2> SUFFICES ASSUME job' # None PROVE JobInv'
      BY DEF JobInv
    <2>1. \A f \in Nat : f..content \subseteq f..content'
      BY <1>1 DEF FalsificationInv, TypeInv
    <2> QED
      BY <1>1, <2>1 DEF FalsificationInv, JobInv
  <1>4. MarksInv' /\ ToldInv' /\ EvidenceSound'
    BY <1>1, PlanKept DEF FalsificationInv, MarksInv
  <1>5. ClosingInv'
    BY <1>1 DEF FalsificationInv, ClosingInv, WaitingIsTold, Waiting, Told
  <1> QED
    BY <1>2, <1>3, <1>4, <1>5 DEF FalsificationInv

LEMMA NoticeStep ==
    ASSUME FalsificationInv, Notice PROVE FalsificationInv'
  <1>1. UNCHANGED <<edition, evidence, look, job, marks, waits>> /\ Counted
    BY DEF Notice, planVars
  <1>2. /\ content' = content /\ view' = content /\ view' \in Nat /\ rev' \in Nat /\ rev < rev' /\ view <= view'
        /\ rev \in Nat /\ view \in Nat
    BY <1>1, CountedStep DEF Notice, FalsificationInv, TypeInv, Counted
  <1>3. TypeInv'
    BY <1>1, <1>2 DEF FalsificationInv, TypeInv
  <1>4. JobInv'
    <2> SUFFICES ASSUME job' # None PROVE JobInv'
      BY DEF JobInv
    <2>1. rev' # look.planned
      BY <1>1, <1>2 DEF FalsificationInv, JobInv, TypeInv
    <2> QED
      BY <1>1, <1>2, <2>1 DEF FalsificationInv, JobInv
  <1>5. UpTo(marks, waits, rev') /\ HeldIsTold(marks, waits, evidence, rev', view')
    BY <1>1, ToldLater DEF FalsificationInv
  <1>6. MarksInv' /\ ToldInv' /\ EvidenceSound'
    BY <1>1, <1>5 DEF FalsificationInv, MarksInv, ToldInv, EvidenceSound
  <1>7. ClosingInv'
    <2>1. look'.at = "closing" => rev' # look'.planned
      BY <1>1, <1>2 DEF FalsificationInv, TypeInv
    <2> QED
      BY <2>1, NothingOwed
  <1> QED
    BY <1>3, <1>4, <1>6, <1>7 DEF FalsificationInv

LEMMA EditDefinitionStep ==
    ASSUME FalsificationInv, NEW d \in Definitions, EditDefinition(d) PROVE FalsificationInv'
  <1>1. UNCHANGED <<content, view, rev, evidence, look, job, marks, waits>>
    BY DEF EditDefinition, planVars, inputVars
  <1>2. edition' \in [Definitions -> Editions]
    BY DEF EditDefinition, FalsificationInv, TypeInv
  <1>3. TypeInv' /\ JobInv'
    BY <1>1, <1>2 DEF FalsificationInv, TypeInv, JobInv
  <1>4. MarksInv' /\ ToldInv' /\ EvidenceSound'
    BY <1>1, PlanKept DEF FalsificationInv, MarksInv
  <1>5. ClosingInv'
    BY <1>1 DEF FalsificationInv, ClosingInv, WaitingIsTold, Waiting, Told
  <1> QED
    BY <1>3, <1>4, <1>5 DEF FalsificationInv

\* A stop, an ask of the watch, a run's read and the job's reply change the job in progress and nothing else here.
LEMMA JobStep ==
    ASSUME FalsificationInv, UNCHANGED <<content, view, rev, edition, evidence, look, marks, waits>>,
           job' # None => /\ job # None /\ job' \in Jobs
                          /\ job'.defs = job.defs /\ job'.canary = job.canary
                          /\ job'.read \subseteq job.read \cup {content}
                          /\ job'.reply # None /\ job'.reply.ran => /\ job'.read # {}
                                                                    /\ job'.reply.judged \subseteq job.defs
    PROVE  FalsificationInv'
  <1>1. TypeInv'
    BY DEF FalsificationInv, TypeInv
  <1>2. JobInv'
    <2> SUFFICES ASSUME job' # None PROVE JobInv'
      BY DEF JobInv
    <2>1. /\ job # None /\ look.at = "job" /\ look.defs \subseteq Digests /\ job.defs = look.defs
          /\ ~job.canary => /\ look.mark = look.planned /\ look.fingerprint \in Nat /\ look.fingerprint <= view
                            /\ rev = look.planned => view = look.fingerprint
                            /\ job.read \subseteq look.fingerprint..content
      BY DEF FalsificationInv, JobInv
    <2>2. ~job.canary => content \in look.fingerprint..content
      BY <2>1 DEF FalsificationInv, TypeInv
    <2> QED
      BY <2>1, <2>2 DEF JobInv
  <1>3. MarksInv' /\ ToldInv' /\ EvidenceSound'
    BY PlanKept DEF FalsificationInv, MarksInv
  <1>4. ClosingInv'
    BY DEF FalsificationInv, ClosingInv, WaitingIsTold, Waiting, Told
  <1> QED
    BY <1>1, <1>2, <1>3, <1>4 DEF FalsificationInv
\* A job asked to end is the same but for that.
LEMMA AbortedJob ==
    ASSUME NEW j \in Jobs
    PROVE  LET k == [j EXCEPT !.aborted = TRUE]
           IN  k \in Jobs /\ k.defs = j.defs /\ k.canary = j.canary /\ k.read = j.read /\ k.reply = j.reply
  BY DEF Jobs

LEMMA AbortStep ==
    ASSUME FalsificationInv, UNCHANGED <<content, view, rev, edition, evidence, look, marks, waits>>,
           job' = IF job = None THEN None ELSE [job EXCEPT !.aborted = TRUE]
    PROVE  FalsificationInv'
  <1>1. CASE job = None
    BY <1>1, JobStep
  <1>2. CASE job # None
    <2>1. /\ job \in Jobs
          /\ job.reply # None /\ job.reply.ran => job.read # {} /\ job.reply.judged \subseteq look.defs
          /\ job.defs = look.defs
      BY <1>2 DEF FalsificationInv, JobInv
    <2>2. job' \in Jobs /\ job'.defs = job.defs /\ job'.canary = job.canary /\ job'.read = job.read /\ job'.reply = job.reply
      BY <1>2, <2>1, AbortedJob
    <2> QED
      BY <1>2, <2>1, <2>2, JobStep
  <1> QED
    BY <1>1, <1>2

LEMMA JobReadsStep ==
    ASSUME FalsificationInv, JobReads PROVE FalsificationInv'
  <1>1. /\ UNCHANGED <<content, view, rev, edition, evidence, look, marks, waits>>
        /\ job # None /\ job.reply = None /\ job' = [job EXCEPT !.read = @ \cup {content}]
    BY DEF JobReads, InProgress, inputVars, planVars
  <1>2. job \in Jobs /\ content \in Nat
    BY <1>1 DEF FalsificationInv, JobInv, TypeInv
  <1>3. /\ job' \in Jobs /\ job'.defs = job.defs /\ job'.canary = job.canary /\ job'.read = job.read \cup {content}
        /\ job'.reply = None
    BY <1>1, <1>2 DEF Jobs
  <1> QED
    BY <1>1, <1>3, JobStep

LEMMA JobEndsStep ==
    ASSUME FalsificationInv, JobEnds PROVE FalsificationInv'
  <1>1. PICK reply \in Replies :
            /\ reply.ran => job.read # {}
            /\ job' = [job EXCEPT !.reply = reply]
            /\ UNCHANGED <<content, view, rev, edition, evidence, look, marks, waits>>
            /\ job # None
    BY DEF JobEnds, InProgress, inputVars, planVars
  <1>2. job \in Jobs /\ job.defs \subseteq Digests
    BY <1>1 DEF FalsificationInv, JobInv, Jobs
  <1>3. reply \in Outcomes /\ (reply.ran => reply.judged \subseteq job.defs)
    <2>1. CASE reply \in [ran : {FALSE}]
      BY <2>1 DEF Outcomes
    <2>2. CASE reply \notin [ran : {FALSE}]
      BY <1>2, <2>2 DEF Replies, Outcomes
    <2> QED
      BY <2>1, <2>2
  <1>4. /\ job' \in Jobs /\ job'.defs = job.defs /\ job'.canary = job.canary /\ job'.read = job.read
        /\ job'.reply = reply
    BY <1>1, <1>2, <1>3 DEF Jobs
  <1> QED
    BY <1>1, <1>3, <1>4, JobStep

\* A step that gives a look up, or begins one, leaves what the marks and the evidence hold.
LEMMA LookStep ==
    ASSUME FalsificationInv, UNCHANGED <<content, view, rev, edition, evidence, marks, waits>>, job' = None, job = None,
           look'.at \in {"idle", "settling", "reading"},
           look'.at # "idle" => look'.planned \in Nat /\ look'.planned <= rev,
           look'.at = "reading" => look'.standing \subseteq Digests
    PROVE  FalsificationInv'
  <1>1. TypeInv'
    BY DEF FalsificationInv, TypeInv
  <1>2. JobInv'
    BY DEF JobInv
  <1>3. MarksInv' /\ ToldInv' /\ EvidenceSound'
    BY PlanKept DEF FalsificationInv, MarksInv
  <1>4. ClosingInv'
    BY NothingOwed
  <1> QED
    BY <1>1, <1>2, <1>3, <1>4 DEF FalsificationInv

LEMMA PlanStep ==
    ASSUME FalsificationInv, Plan PROVE FalsificationInv'
  <1>1. /\ UNCHANGED <<content, view, rev, edition, evidence, job, marks, waits>>
        /\ look = Idle /\ look' = [at |-> "settling", planned |-> rev]
    BY DEF Plan, inputVars, planVars
  <1>2. job = None
    BY <1>1 DEF FalsificationInv, JobInv, Idle
  <1>3. rev \in Nat /\ rev <= rev
    BY DEF FalsificationInv, TypeInv
  <1> QED
    BY <1>1, <1>2, <1>3, LookStep

LEMMA SettledStep ==
    ASSUME FalsificationInv, Settled PROVE FalsificationInv'
  <1>1. /\ UNCHANGED <<content, view, rev, edition, evidence, job, marks, waits>> /\ look.at = "settling"
        /\ \/ look' = Idle
           \/ look' = [at |-> "reading", planned |-> look.planned, standing |-> {Digest(d) : d \in Definitions}]
    BY DEF Settled, Returns, inputVars, planVars
  <1>2. job = None
    BY <1>1 DEF FalsificationInv, JobInv
  <1>3. {Digest(d) : d \in Definitions} \subseteq Digests
    BY DEF FalsificationInv, TypeInv, Digest, Digests
  <1>4. look.planned \in Nat /\ look.planned <= rev
    BY <1>1 DEF FalsificationInv, TypeInv
  <1>5. CASE look' = Idle
    BY <1>1, <1>2, <1>5, LookStep DEF Idle
  <1>6. CASE look' = [at |-> "reading", planned |-> look.planned, standing |-> {Digest(d) : d \in Definitions}]
    <2>1. look'.at = "reading" /\ look'.planned = look.planned /\ look'.standing \subseteq Digests
      BY <1>3, <1>6
    <2> QED
      BY <1>1, <1>2, <1>4, <2>1, LookStep
  <1> QED
    BY <1>1, <1>5, <1>6

\* A look whose take is over and is to close, with the marks and waits it took from.
LEMMA ClosingStep ==
    ASSUME FalsificationInv, UNCHANGED <<content, view, rev, edition, evidence, job>>, look.at = "reading",
           look'.at = "closing", look'.planned = look.planned, look'.then = "canary" => look'.defs \subseteq Digests,
           marks' \in [Digests -> Mark \cup {None}], waits' \in [Workspaces -> Revisions],
           UpTo(marks', waits', rev), HeldIsTold(marks', waits', evidence, rev, view), ClosingInv'
    PROVE  FalsificationInv'
  <1>1. job = None /\ job' = None
    BY DEF FalsificationInv, JobInv
  <1>2. look.planned \in Nat /\ look.planned <= rev
    BY DEF FalsificationInv, TypeInv
  <1>3. TypeInv'
    BY <1>2 DEF FalsificationInv, TypeInv
  <1>4. JobInv'
    BY <1>1 DEF JobInv
  <1>5. MarksInv' /\ ToldInv' /\ EvidenceSound'
    BY <1>1 DEF MarksInv, ToldInv, FalsificationInv, EvidenceSound
  <1> QED
    BY <1>3, <1>4, <1>5 DEF FalsificationInv
\* The definitions a job takes are digests that wait.
LEMMA NextJobType ==
    ASSUME NEW waiting \in SUBSET Digests, NEW r PROVE NextJob(waiting, r) \subseteq Digests
  BY DEF NextJob

LEMMA BeginStep ==
    ASSUME FalsificationInv, Begin PROVE FalsificationInv'
  <1> DEFINE waiting == Waiting(look.standing)
             defs == NextJob(waiting, rev)
             m == KnownMarks(look.standing)
             w == CurrentWaits(rev)
  <1>1. UNCHANGED <<content, view, rev, edition, evidence>> /\ look.at = "reading"
    BY DEF Begin, inputVars
  <1>2. waiting \subseteq Digests /\ waiting \subseteq look.standing /\ look.standing \subseteq Digests
    BY <1>1 DEF FalsificationInv, TypeInv, Waiting
  <1>3. /\ rev \in Nat /\ rev # None /\ view \in Nat /\ content \in Nat /\ view <= content
        /\ marks \in [Digests -> Mark \cup {None}] /\ waits \in [Workspaces -> Revisions] /\ job = None
    BY <1>1, PlanAssumption DEF FalsificationInv, TypeInv, JobInv
  <1>4. defs \subseteq Digests
    BY <1>2, NextJobType
  <1>5. /\ m \in [Digests -> Mark \cup {None}] /\ w \in [Workspaces -> Revisions]
        /\ UpTo(m, w, rev) /\ HeldIsTold(m, w, evidence, rev, view)
    BY <1>3, KnownKeep, CurrentKeep, ForgetHolds DEF FalsificationInv
  <1>6. UpTo(marks, waits, rev) /\ HeldIsTold(marks, waits, evidence, rev, view)
    BY DEF FalsificationInv, MarksInv, ToldInv
  <1>7. ASSUME Closing("nothing"), UNCHANGED planVars PROVE FalsificationInv'
    <2>1. look'.at = "closing" /\ look'.planned = look.planned /\ look'.then = "nothing" /\ job' = job
      BY <1>7 DEF Closing
    <2>2. marks' = marks /\ waits' = waits
      BY <1>7 DEF planVars
    <2> QED
      BY <1>1, <1>3, <1>6, <2>1, <2>2, ClosingStep, NothingOwed
  <1>8. ASSUME Returns(FALSE), UNCHANGED <<job, asked, bounded, planVars>> PROVE FalsificationInv'
    <2>1. look' = Idle /\ job' = None /\ marks' = marks /\ waits' = waits
      BY <1>3, <1>8 DEF Returns, planVars
    <2> QED
      BY <1>1, <1>3, <2>1, LookStep DEF Idle
  <1>9. ASSUME rev = look.planned, defs = {}, marks' = m, waits' = w, Closing("none taken") PROVE FalsificationInv'
    <2>1. /\ look'.at = "closing" /\ look'.planned = look.planned /\ look'.then = "none taken" /\ job' = job
          /\ look'.standing = look.standing
      BY <1>9 DEF Closing
    <2>2. \A d \in waiting : ~MayTake(d, rev)
      BY <1>2, <1>9, NoneTaken DEF FalsificationInv
    <2>3. \A d \in waiting : waits[WorkspaceOf(d)] = rev \/ (HeldAt(marks, d) = rev /\ ToldBy(marks, d))
      <3>1. \A d \in waiting : ~Current(evidence, d, view)
        BY DEF Waiting, Current
      <3>2. \A d \in waiting : waits[WorkspaceOf(d)] = rev \/ HeldAt(marks, d) = rev
        BY <2>2 DEF MayTake, HeldAt
      <3> QED
        BY <1>2, <1>6, <3>1, <3>2 DEF HeldIsTold
    <2>4. \A d \in waiting : w[WorkspaceOf(d)] = rev \/ (HeldAt(m, d) = rev /\ ToldBy(m, d))
      <3>1. \A d \in waiting : HeldAt(m, d) = HeldAt(marks, d) /\ ToldBy(m, d) = ToldBy(marks, d)
        BY <1>2, KnownKeep DEF FalsificationInv
      <3>2. \A d \in waiting : WorkspaceOf(d) \in Workspaces
        BY <1>2, PlanAssumption DEF Digests, WorkspaceOf
      <3>3. \A x \in Workspaces : (w[x] = rev) <=> (waits[x] = rev)
        BY <1>3, CurrentKeep DEF FalsificationInv
      <3> QED
        BY <2>3, <3>1, <3>2, <3>3
    <2>5. Waiting(look.standing)' = waiting
      BY <1>1, <2>1 DEF Waiting
    <2>6. ClosingInv'
      BY <1>1, <1>9, <2>4, <2>5 DEF ClosingInv, WaitingIsTold, Told, HeldAt, ToldBy
    <2> QED
      BY <1>1, <1>5, <1>9, <2>1, <2>6, ClosingStep
  <1>10. ASSUME rev = look.planned, Send(defs, m, w) PROVE FalsificationInv'
    <2>1. CASE WorkspaceWaits(m, w, defs, rev) /\ Closing("again")
      <3>1. look'.at = "closing" /\ look'.planned = look.planned /\ look'.then = "again" /\ job' = job
        BY <2>1 DEF Closing
      <3>2. rev <= rev /\ WorkspaceWaits(m, w, defs, rev)
        BY <1>3, <2>1
      <3> HIDE DEF m, w, defs
      <3>3. /\ marks' \in [Digests -> Mark \cup {None}] /\ waits' \in [Workspaces -> Revisions]
            /\ UpTo(marks', waits', rev) /\ HeldIsTold(marks', waits', evidence, rev, view)
        BY <1>3, <1>5, <3>2, WorkspaceWaitsHolds
      <3> QED
        BY <1>1, <3>1, <3>3, ClosingStep, NothingOwed
    <2>2. ASSUME NEW i, marks' = m, waits' = w, UNCHANGED <<job, asked, bounded, rested>>,
                 look' = [at |-> "closing", planned |-> look.planned, then |-> "canary", defs |-> defs, install |-> i]
          PROVE  FalsificationInv'
      <3>1. /\ look'.at = "closing" /\ look'.planned = look.planned /\ look'.then = "canary" /\ look'.defs = defs
            /\ job' = job
        BY <2>2
      <3> HIDE DEF m, w, defs
      <3> QED
        BY <1>1, <1>4, <1>5, <2>2, <3>1, ClosingStep, NothingOwed
    <2>3. ASSUME marks' = m, waits' = w, job' = NewJob(FALSE, defs),
                 look' = [at |-> "job", planned |-> look.planned, defs |-> defs, fingerprint |-> view, mark |-> rev]
          PROVE  FalsificationInv'
      <3>1. /\ look'.at = "job" /\ look'.planned = look.planned /\ look'.defs = defs /\ look'.fingerprint = view
            /\ look'.mark = rev
        BY <2>3
      <3>2. job' \in Jobs /\ job'.defs = defs /\ job'.canary = FALSE /\ job'.read = {} /\ job'.reply = None
        BY <1>4, <2>3 DEF NewJob, Jobs
      <3> HIDE DEF m, w, defs
      <3>3. TypeInv'
        BY <1>1, <1>3, <1>5, <1>10, <2>3, <3>1 DEF FalsificationInv, TypeInv
      <3>4. JobInv'
        BY <1>1, <1>3, <1>4, <1>10, <3>1, <3>2 DEF JobInv
      <3>5. MarksInv' /\ ToldInv' /\ EvidenceSound'
        BY <1>1, <1>5, <1>10, <2>3, <3>1 DEF MarksInv, ToldInv, FalsificationInv, EvidenceSound
      <3>6. ClosingInv'
        BY <3>1, NothingOwed
      <3> QED
        BY <3>3, <3>4, <3>5, <3>6 DEF FalsificationInv
    <2> HIDE DEF m, w, defs
    <2> QED
      BY <1>10, <2>1, <2>2, <2>3 DEF Send
  <1> HIDE DEF m, w, defs
  <1>11. \/ UNCHANGED planVars /\ Closing("nothing")
         \/ Returns(FALSE) /\ UNCHANGED <<job, asked, bounded, planVars>>
         \/ /\ rev = look.planned
            /\ \/ defs = {} /\ marks' = m /\ waits' = w /\ Closing("none taken")
               \/ Send(defs, m, w)
    BY DEF Begin, m, w, defs
  <1> QED
    BY <1>7, <1>8, <1>9, <1>10, <1>11

LEMMA CloseStep ==
    ASSUME FalsificationInv, Close PROVE FalsificationInv'
  <1>1. UNCHANGED <<edition, evidence, marks, waits>> /\ Counted /\ look.at = "closing"
    BY DEF Close, planVars
  <1>2. /\ content' = content /\ view' = content /\ view' \in Nat /\ rev' \in Nat /\ content \in Nat
        /\ job = None /\ look.planned \in Nat /\ look.planned <= rev /\ rev <= rev'
    BY <1>1, CountedStep DEF FalsificationInv, TypeInv, JobInv
  <1>3. UpTo(marks, waits, rev') /\ HeldIsTold(marks, waits, evidence, rev', view')
    BY <1>1, ToldLater DEF FalsificationInv
  <1>4. CASE Returns(look.then = "again") /\ UNCHANGED <<job, asked, bounded>>
    <2>1. look' = Idle /\ job' = None
      BY <1>2, <1>4 DEF Returns
    <2>2. TypeInv'
      BY <1>1, <1>2, <2>1 DEF FalsificationInv, TypeInv, Idle
    <2>3. JobInv' /\ MarksInv' /\ ToldInv' /\ EvidenceSound'
      BY <1>1, <1>3, <2>1 DEF FalsificationInv, JobInv, MarksInv, ToldInv, EvidenceSound
    <2>4. ClosingInv'
      BY <2>1, NothingOwed DEF Idle
    <2> QED
      BY <2>2, <2>3, <2>4 DEF FalsificationInv
  <1>5. CASE /\ look.then = "canary" /\ rev' = look.planned /\ job' = NewJob(TRUE, look.defs)
             /\ look' = [at |-> "job", planned |-> look.planned, defs |-> look.defs, install |-> look.install]
    <2>1. look'.at = "job" /\ look'.planned = look.planned /\ look'.defs = look.defs
      BY <1>5
    <2>2. look.defs \subseteq Digests
      BY <1>1, <1>5 DEF FalsificationInv, TypeInv
    <2>3. job' \in Jobs /\ job'.defs = look.defs /\ job'.canary = TRUE /\ job'.reply = None
      BY <1>5, <2>2 DEF NewJob, Jobs
    <2>4. TypeInv'
      BY <1>1, <1>2, <1>5, <2>1 DEF FalsificationInv, TypeInv
    <2>5. JobInv'
      BY <2>1, <2>2, <2>3 DEF JobInv
    <2>6. MarksInv' /\ ToldInv' /\ EvidenceSound'
      BY <1>1, <1>3, <1>5, <2>1 DEF FalsificationInv, MarksInv, ToldInv, EvidenceSound
    <2>7. ClosingInv'
      BY <2>1, NothingOwed
    <2> QED
      BY <2>4, <2>5, <2>6, <2>7 DEF FalsificationInv
  <1> QED
    BY <1>4, <1>5 DEF Close
\* What is stored after a job is of the inputs its runs read, and no evidence is taken away.
LEMMA StoredHolds ==
    ASSUME FalsificationInv, job # None, ~job.canary, job.reply # None, job.reply.ran, Counted,
           NEW vouched \in IF rev' = look.mark THEN BOOLEAN ELSE {FALSE}, NEW fails \in BOOLEAN, Stored(vouched, fails)
    PROVE  /\ EvidenceSound'
           /\ evidence \subseteq evidence'
           /\ rev' = look.planned /\ ~StoreWaits(vouched, fails) =>
                  \A d \in job.reply.judged : Current(evidence', d, view')
  <1>1. /\ look.mark = look.planned /\ look.fingerprint \in Nat /\ look.fingerprint <= view /\ job.read # {}
        /\ rev = look.planned => view = look.fingerprint
        /\ job.read \subseteq look.fingerprint..content
        /\ look.planned \in Nat /\ look.planned <= rev /\ rev \in Nat /\ view \in Nat /\ content \in Nat
    BY DEF FalsificationInv, JobInv, TypeInv
  <1>2. view' = content /\ rev <= rev' /\ (rev' = rev => view = content) /\ rev' \in Nat
    BY CountedStep DEF FalsificationInv
  <1>3. rev' = look.planned => content = look.fingerprint /\ view' = look.fingerprint
    BY <1>1, <1>2
  <1>4. vouched => rev' = look.planned
    BY <1>1
  <1> DEFINE new == {[digest |-> d, fingerprint |-> look.fingerprint, read |-> job.read] : d \in job.reply.judged}
  <1>5. /\ Storable(vouched) /\ ~fails => evidence' = evidence \cup new
        /\ ~(Storable(vouched) /\ ~fails) => evidence' = evidence
    BY DEF Stored
  <1>6. EvidenceSound'
    <2>1. CASE Storable(vouched) /\ ~fails
      <3>1. vouched
        BY <2>1 DEF Storable
      <3>2. job.read = {look.fingerprint}
        <4>1. content = look.fingerprint
          BY <1>3, <1>4, <3>1
        <4>2. \A x \in look.fingerprint..content : x = look.fingerprint
          BY <1>1, <4>1
        <4> QED
          BY <1>1, <4>2
      <3>3. \A e \in new : e.read = {e.fingerprint}
        BY <3>2
      <3> HIDE DEF new
      <3> QED
        BY <1>5, <2>1, <3>3 DEF FalsificationInv, EvidenceSound
    <2>2. CASE ~(Storable(vouched) /\ ~fails)
      BY <1>5, <2>2 DEF FalsificationInv, EvidenceSound
    <2> QED
      BY <2>1, <2>2
  <1>7. evidence \subseteq evidence'
    BY <1>5
  <1>8. ASSUME rev' = look.planned, ~StoreWaits(vouched, fails), NEW d \in job.reply.judged
        PROVE  Current(evidence', d, view')
    <2>1. Storable(vouched) /\ ~fails
      BY <1>8 DEF StoreWaits, Storable
    <2>2. [digest |-> d, fingerprint |-> look.fingerprint, read |-> job.read] \in evidence'
      BY <1>5, <2>1
    <2>3. view' = look.fingerprint
      BY <1>3, <1>8
    <2> QED
      BY <2>2, <2>3 DEF Current
  <1> QED
    BY <1>6, <1>7, <1>8

\* More evidence tells no less.
LEMMA MoreEvidence ==
    ASSUME NEW m, NEW w, NEW ev, NEW more, ev \subseteq more, NEW r, NEW v, HeldIsTold(m, w, ev, r, v)
    PROVE  HeldIsTold(m, w, more, r, v)
  BY DEF HeldIsTold, Current

\* What #settle leaves of the marks, the waits and the evidence.
LEMMA SettleHolds ==
    ASSUME FalsificationInv, Settle
    PROVE  /\ marks' \in [Digests -> Mark \cup {None}] /\ waits' \in [Workspaces -> Revisions]
           /\ UpTo(marks', waits', rev') /\ HeldIsTold(marks', waits', evidence', rev', view') /\ EvidenceSound'
  <1> DEFINE p == look.planned
             M == [Digests -> Mark \cup {None}]
             W == [Workspaces -> Revisions]
  <1>1. job # None /\ ~job.canary /\ job.reply # None /\ Counted
    BY DEF Settle
  <1>2. /\ job.reply \in Outcomes /\ look.defs \subseteq Digests /\ p \in Nat /\ p <= rev
        /\ marks \in M /\ waits \in W /\ UpTo(marks, waits, p)
        /\ job.reply.ran => job.reply.judged \subseteq look.defs
    BY <1>1 DEF FalsificationInv, JobInv, TypeInv, MarksInv, Jobs
  <1>3. rev' \in Nat /\ rev <= rev' /\ rev \in Nat
    BY <1>1, CountedStep DEF FalsificationInv, TypeInv
  <1>4. p <= rev'
    BY <1>2, <1>3
  <1>5. UpTo(marks, waits, rev') /\ HeldIsTold(marks, waits, evidence, rev', view')
    BY <1>1, ToldLater DEF FalsificationInv
  <1>6. EvidenceSound
    BY DEF FalsificationInv
  <1>7. job.reply.ran => job.reply.running \in Digests \cup {None}
    BY <1>2 DEF Outcomes
  <1> DEFINE Goal == /\ marks' \in M /\ waits' \in W
                     /\ UpTo(marks', waits', rev') /\ HeldIsTold(marks', waits', evidence', rev', view')
                     /\ EvidenceSound'
  <1> SUFFICES Goal
    OBVIOUS
  <1> HIDE DEF p, M, W
  <1>8. ASSUME UNCHANGED <<evidence, planVars>> PROVE Goal
    BY <1>2, <1>5, <1>6, <1>8 DEF planVars, EvidenceSound
  <1>9. ASSUME UNCHANGED <<evidence, waits>>, NEW running \in Digests \cup {None}, EndedByChange(look.defs, rev', running)
        PROVE  Goal
    <2>1. marks' \in M /\ UpTo(marks', waits, rev') /\ HeldIsTold(marks', waits, evidence, rev', view')
      BY <1>2, <1>3, <1>4, <1>5, <1>9, EndedByChangeHolds DEF M
    <2> QED
      BY <1>2, <1>6, <1>9, <2>1 DEF EvidenceSound
  <1>10. ASSUME WorkspaceWaits(marks, waits, look.defs, p), UNCHANGED evidence PROVE Goal
    <2>1. /\ marks' \in M /\ waits' \in W
          /\ UpTo(marks', waits', p) /\ HeldIsTold(marks', waits', evidence, rev', view')
      BY <1>2, <1>3, <1>4, <1>5, <1>10, WorkspaceWaitsHolds DEF M, W
    <2>2. UpTo(marks', waits', rev')
      BY <1>2, <1>3, <1>4, <2>1, UpToLater
    <2> QED
      BY <1>6, <1>10, <2>1, <2>2 DEF EvidenceSound
  <1>11. ASSUME NEW vouched \in IF rev' = look.mark THEN BOOLEAN ELSE {FALSE}, NEW fails \in BOOLEAN,
                job.reply.ran, Stored(vouched, fails),
                IF StoreWaits(vouched, fails) THEN Waits(waits, look.defs, p) ELSE UNCHANGED waits,
                \/ job.reply.running \in Digests /\ EndedByBound(look.defs, p, job.reply.running)
                \/ RanToEnd(look.defs, p, job.reply.judged)
         PROVE  Goal
    <2>1. /\ EvidenceSound' /\ evidence \subseteq evidence'
          /\ rev' = p /\ ~StoreWaits(vouched, fails) => \A d \in job.reply.judged : Current(evidence', d, view')
      BY <1>1, <1>11, StoredHolds DEF p
    <2>2. HeldIsTold(marks, waits, evidence', rev', view')
      BY <1>5, <2>1, MoreEvidence
    <2>3. waits' \in W /\ UpTo(marks, waits', p) /\ HeldIsTold(marks, waits', evidence', rev', view')
      <3>1. CASE StoreWaits(vouched, fails)
        BY <1>2, <1>3, <1>4, <1>11, <2>2, <3>1, WaitsHold DEF W
      <3>2. CASE ~StoreWaits(vouched, fails)
        BY <1>2, <1>11, <2>2, <3>2
      <3> QED
        BY <3>1, <3>2
    <2>4. marks' \in M /\ UpTo(marks', waits', p) /\ HeldIsTold(marks', waits', evidence', rev', view')
      <3>1. CASE job.reply.running \in Digests /\ EndedByBound(look.defs, p, job.reply.running)
        BY <1>2, <1>3, <2>3, <3>1, EndedByBoundHolds DEF M
      <3>2. CASE RanToEnd(look.defs, p, job.reply.judged)
        <4>1. p = rev' => \A d \in look.defs \cap job.reply.judged :
                              waits'[WorkspaceOf(d)] = rev' \/ Current(evidence', d, view')
          <5>1. CASE StoreWaits(vouched, fails)
            <6>1. \A d \in look.defs : waits'[WorkspaceOf(d)] = p
              BY <1>2, <1>11, <5>1, PlanAssumption DEF Waits, Digests, WorkspaceOf
            <6> QED
              BY <6>1
          <5>2. CASE ~StoreWaits(vouched, fails)
            BY <2>1, <5>2
          <5> QED
            BY <5>1, <5>2
        <4> QED
          BY <1>2, <1>3, <1>4, <2>3, <3>2, <4>1, RanToEndHolds DEF M
      <3> QED
        BY <1>11, <3>1, <3>2
    <2>5. UpTo(marks', waits', rev')
      BY <1>2, <1>3, <1>4, <2>4, UpToLater
    <2> QED
      BY <2>1, <2>3, <2>4, <2>5
  <1>12. PICK vouched \in (IF rev' = look.mark THEN BOOLEAN ELSE {FALSE}), fails \in BOOLEAN :
             \/ UNCHANGED <<evidence, planVars>>
             \/ /\ UNCHANGED <<evidence, waits>>
                /\ EndedByChange(look.defs, rev', IF job.reply.ran THEN job.reply.running ELSE None)
             \/ AfterBound(vouched, fails)
             \/ AfterReturn(vouched, fails)
    BY DEF Settle
  <1>13. (IF job.reply.ran THEN job.reply.running ELSE None) \in Digests \cup {None}
    BY <1>7
  <1>14. CASE AfterBound(vouched, fails)
    <2>1. CASE ~job.reply.ran \/ job.reply.running = None
      BY <1>10, <1>14, <2>1 DEF AfterBound, p
    <2>2. CASE job.reply.ran /\ job.reply.running # None
      <3>1. job.reply.running \in Digests
        BY <1>7, <2>2
      <3> HIDE DEF Goal
      <3> QED
        BY <1>11, <1>14, <2>2, <3>1 DEF AfterBound, p
    <2> QED
      BY <2>1, <2>2
  <1>15. CASE AfterReturn(vouched, fails)
    <2> HIDE DEF Goal
    <2> QED
      BY <1>10, <1>11, <1>15 DEF AfterReturn, p
  <1> HIDE DEF Goal
  <1> QED
    BY <1>8, <1>9, <1>12, <1>13, <1>14, <1>15

\* A job that is over leaves the look idle.
LEMMA SettledJob ==
    ASSUME FalsificationInv, job' = None, look' = Idle, edition' = edition,
           content' \in Nat, view' \in Nat, rev' \in Nat, view' <= content',
           marks' \in [Digests -> Mark \cup {None}], waits' \in [Workspaces -> Revisions],
           UpTo(marks', waits', rev'), HeldIsTold(marks', waits', evidence', rev', view'), EvidenceSound'
    PROVE  FalsificationInv'
  <1>1. TypeInv'
    BY DEF FalsificationInv, TypeInv, Idle
  <1>2. JobInv' /\ MarksInv' /\ ToldInv'
    BY DEF JobInv, MarksInv, ToldInv
  <1>3. ClosingInv'
    BY NothingOwed DEF Idle
  <1> QED
    BY <1>1, <1>2, <1>3 DEF FalsificationInv

LEMMA SettleStep ==
    ASSUME FalsificationInv, Settle PROVE FalsificationInv'
  <1>1. job' = None /\ look' = Idle /\ edition' = edition /\ Counted
    BY DEF Settle, Returns
  <1>2. content' \in Nat /\ view' \in Nat /\ rev' \in Nat /\ view' <= content'
    BY <1>1, CountedStep DEF FalsificationInv, TypeInv
  <1> QED
    BY <1>1, <1>2, SettleHolds, SettledJob

LEMMA ReadCanariesStep ==
    ASSUME FalsificationInv, ReadCanaries PROVE FalsificationInv'
  <1>1. /\ job' = None /\ look' = Idle /\ UNCHANGED <<content, view, rev, edition, evidence>> /\ job # None
        /\ UNCHANGED planVars \/ (rev = look.planned /\ WorkspaceWaits(marks, waits, look.defs, look.planned))
    BY DEF ReadCanaries, Returns, inputVars
  <1>2. /\ content \in Nat /\ view \in Nat /\ rev \in Nat /\ view <= content /\ rev <= rev
        /\ marks \in [Digests -> Mark \cup {None}] /\ waits \in [Workspaces -> Revisions]
        /\ UpTo(marks, waits, rev) /\ HeldIsTold(marks, waits, evidence, rev, view) /\ EvidenceSound
    BY DEF FalsificationInv, TypeInv, MarksInv, ToldInv
  <1>3. EvidenceSound'
    BY <1>1, <1>2 DEF EvidenceSound
  <1>4. /\ marks' \in [Digests -> Mark \cup {None}] /\ waits' \in [Workspaces -> Revisions]
        /\ UpTo(marks', waits', rev) /\ HeldIsTold(marks', waits', evidence, rev, view)
    <2>1. CASE UNCHANGED planVars
      BY <1>2, <2>1 DEF planVars
    <2>2. CASE WorkspaceWaits(marks, waits, look.defs, rev)
      BY <1>2, <2>2, WorkspaceWaitsHolds
    <2> QED
      BY <1>1, <2>1, <2>2
  <1> QED
    BY <1>1, <1>2, <1>3, <1>4, SettledJob

-----------------------------------------------------------------------------
\* The invariant holds before anything is looked at.
LEMMA InitFalsification == Init => FalsificationInv
  <1> SUFFICES ASSUME Init PROVE FalsificationInv
    OBVIOUS
  <1>1. TypeInv
    BY PlanAssumption DEF Init, PlanInit, TypeInv, Idle, Revisions
  <1>2. JobInv /\ EvidenceSound
    BY DEF Init, JobInv, EvidenceSound
  <1>3. \A d \in Digests : HeldAt(marks, d) = None
    BY DEF Init, PlanInit, HeldAt, MarkOf
  <1>4. \A x \in Workspaces : waits[x] = None
    BY DEF Init, PlanInit
  <1>5. MarksInv
    BY <1>3, <1>4 DEF Init, MarksInv, UpTo
  <1>6. ToldInv
    BY <1>1, <1>3, PlanAssumption DEF ToldInv, HeldIsTold, TypeInv
  <1>7. ClosingInv
    BY DEF Init, ClosingInv, WaitingIsTold, Idle
  <1> QED
    BY <1>1, <1>2, <1>5, <1>6, <1>7 DEF FalsificationInv

\* Every step keeps it.
LEMMA NextFalsification == FalsificationInv /\ [Next]_vars => FalsificationInv'
  <1> SUFFICES ASSUME FalsificationInv, [Next]_vars PROVE FalsificationInv'
    OBVIOUS
  <1>1. CASE Edit
    BY <1>1, EditStep
  <1>2. CASE Notice
    BY <1>2, NoticeStep
  <1>3. ASSUME NEW d \in Definitions, EditDefinition(d) PROVE FalsificationInv'
    BY <1>3, EditDefinitionStep
  <1>4. CASE Stop
    BY <1>4, AbortStep DEF Stop, inputVars, planVars
  <1>5. CASE Plan
    BY <1>5, PlanStep
  <1>6. CASE Settled
    BY <1>6, SettledStep
  <1>7. CASE Begin
    BY <1>7, BeginStep
  <1>8. CASE Close
    BY <1>8, CloseStep
  <1>9. CASE JobReads
    BY <1>9, JobReadsStep
  <1>10. CASE JobEnds
    BY <1>10, JobEndsStep
  <1>11. CASE WatchChange \/ TimeBound
    BY <1>11, AbortStep DEF WatchChange, TimeBound, Ask, InProgress, inputVars, planVars
  <1>12. CASE Settle
    BY <1>12, SettleStep
  <1>13. CASE ReadCanaries
    BY <1>13, ReadCanariesStep
  <1>14. CASE UNCHANGED vars
    <2>1. UNCHANGED <<content, view, rev, edition, evidence, look, marks, waits, job>>
      BY <1>14 DEF vars, planVars
    <2>2. TypeInv' /\ JobInv' /\ ClosingInv'
      BY <2>1 DEF FalsificationInv, TypeInv, JobInv, ClosingInv, WaitingIsTold, Waiting, Told
    <2>3. MarksInv' /\ ToldInv' /\ EvidenceSound'
      BY <2>1, PlanKept DEF FalsificationInv, MarksInv
    <2> QED
      BY <2>2, <2>3 DEF FalsificationInv
  <1> QED
    BY <1>1, <1>2, <1>3, <1>4, <1>5, <1>6, <1>7, <1>8, <1>9, <1>10, <1>11, <1>12, <1>13, <1>14 DEF Next

\* The invariant, over every look, job, edit and stop.
THEOREM FalsificationInvariant == Spec => []FalsificationInv
  BY InitFalsification, NextFalsification, PTL DEF Spec

\* Falsification.#store writes evidence only of the inputs all its runs read, whatever is edited, and seen late, between
\* the standings' read and the write.
THEOREM EvidenceIsSound == Spec => []EvidenceSound
<1>1. FalsificationInv => EvidenceSound
  BY DEF FalsificationInv
<1> QED
  BY <1>1, FalsificationInvariant, PTL

\* When a look takes nothing, each definition that still waits is told, by its own mark or with its workspace
\* (FalsificationPlan.next and entries), whatever ended the jobs before it and whichever writes failed.
THEOREM NoneWaitsInSilence == Spec => []WaitingIsTold
<1>1. FalsificationInv => WaitingIsTold
  BY DEF FalsificationInv, ClosingInv
<1> QED
  BY <1>1, FalsificationInvariant, PTL
=============================================================================
