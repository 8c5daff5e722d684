-------------------------- MODULE FalsificationPlan --------------------------
(***************************************************************************)
(* Which waiting definitions the daemon takes next, and what it remembers  *)
(* of those it took (falsification-plan.ts). A definition is remembered by *)
(* its digest, so an edited one has had no experiment. Marks are kept in   *)
(* memory for one daemon life.                                             *)
(***************************************************************************)
EXTENDS Naturals, FiniteSets, NoValue

CONSTANTS Workspaces,
    Definitions, Editions,      \* a definition's editions are 0.. as it is edited
    Home, Order,                \* a definition's workspace, and its place in the order of the standings
    MaxJobDefinitions

Digests == Definitions \X Editions
WorkspaceOf(d) == Home[d[1]]

\* DefinitionMark: the revision it waits at and whether a reason is told, and what decides its place.
Mark == [heldAt : Nat \cup {None}, told : BOOLEAN, takenLast : BOOLEAN, endedRunning : BOOLEAN]

ASSUME PlanAssumption ==
    /\ IsFiniteSet(Definitions) /\ IsFiniteSet(Editions) /\ 0 \in Editions /\ Editions \subseteq Nat
    /\ Home \in [Definitions -> Workspaces] /\ Order \in [Definitions -> Nat]
    /\ MaxJobDefinitions \in Nat \ {0}
    /\ None \notin Nat \cup Digests \cup Mark

VARIABLES marks, waits      \* a digest's mark, and the revision a workspace waits at; None for none

planVars == <<marks, waits>>

PlanInit == marks = [d \in Digests |-> None] /\ waits = [w \in Workspaces |-> None]

\* The plan's operations take the marks m and the waits w they start from.
MarkOf(m, d) == IF m[d] = None THEN [heldAt |-> None, told |-> FALSE, takenLast |-> FALSE, endedRunning |-> FALSE] ELSE m[d]

\* #forget: a digest no standing holds has changed or gone, and a workspace waits at one revision.
KnownMarks(standing) == [d \in Digests |-> IF d \in standing THEN marks[d] ELSE None]
CurrentWaits(revision) == [w \in Workspaces |-> IF waits[w] = revision THEN revision ELSE None]

MayTake(d, revision) == waits[WorkspaceOf(d)] # revision /\ MarkOf(marks, d).heldAt # revision

\* The order they are taken in: those a job was ended on last, then the standings'.
Key(d) == Order[d[1]] + IF MarkOf(marks, d).takenLast THEN Cardinality(Digests) ELSE 0

\* next: the waiting definitions of the first one's workspace, up to the bound; empty when none is taken.
NextJob(waiting, revision) ==
    LET takeable == {d \in waiting : MayTake(d, revision)}
        first == CHOOSE d \in takeable : \A x \in takeable : Key(d) <= Key(x)
        own == {d \in takeable : WorkspaceOf(d) = WorkspaceOf(first)}
    IN  IF takeable = {} THEN {} ELSE {d \in own : Cardinality({x \in own : Key(x) < Key(d)}) < MaxJobDefinitions}

\* #endStreaks, but for one definition.
StreaksEnded(m, job, except) ==
    [d \in Digests |-> IF d \in job /\ d # except /\ m[d] # None THEN [m[d] EXCEPT !.endedRunning = FALSE] ELSE m[d]]

\* workspaceWaits
Waits(w, job, revision) == waits' = [x \in Workspaces |-> IF \E d \in job : WorkspaceOf(d) = x THEN revision ELSE w[x]]
WorkspaceWaits(m, w, job, revision) == Waits(w, job, revision) /\ marks' = StreaksEnded(m, job, None)

\* #leave: held at the revision, with its reason told, and taken last from now on.
Left(revision, streak) == [heldAt |-> revision, told |-> TRUE, takenLast |-> TRUE, endedRunning |-> streak]

\* ranToEnd: each is held, with a reason when it got no verdict.
RanToEnd(job, revision, judged) ==
    marks' = [d \in Digests |-> IF d \in job
                                THEN [MarkOf(marks, d) EXCEPT !.heldAt = revision, !.told = d \notin judged, !.endedRunning = FALSE]
                                ELSE marks[d]]

\* Mutant of EndedByBound: the definition that was running is not left.
EndedByBoundFree(job, revision, running) == marks' = StreaksEnded(marks, job, None)

EndedByBound(job, revision, running) ==
    marks' = [StreaksEnded(marks, job, None) EXCEPT ![running] = Left(revision, FALSE)]

\* endedByChange: the second time in a row that it was the one running, it waits at the new revision.
EndedByChange(job, revisionNow, running) ==
    IF running = None THEN marks' = StreaksEnded(marks, job, None)
    ELSE marks' = [StreaksEnded(marks, job, running) EXCEPT ![running] =
                      IF MarkOf(marks, running).endedRunning THEN Left(revisionNow, TRUE)
                      ELSE [MarkOf(marks, running) EXCEPT !.endedRunning = TRUE]]

\* entries: the waits told at a revision.
Told(d, revision) == waits[WorkspaceOf(d)] = revision \/ (MarkOf(marks, d).heldAt = revision /\ MarkOf(marks, d).told)
=============================================================================
