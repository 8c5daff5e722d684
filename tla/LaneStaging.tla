---------------------------- MODULE LaneStaging -----------------------------
(***************************************************************************)
(* What stage-lane puts in the index for one lane                          *)
(* (scripts/lib/orchestration/stage.mjs): the whole changes at or under    *)
(* its claims and the files named by --also, and of the files named by     *)
(* --hunk only the hunks that hold a given text, moved to where they land  *)
(* without the hunks left out.                                             *)
(***************************************************************************)
EXTENDS Integers, Sequences, SequencesExt, FiniteSets

---------------------------------------------------------------------------
\* The plan. A request has a path and says whether only --also names it; a change says whether it is fully staged.

Covers(covered, outer, inner) == inner = outer \/ <<outer, inner>> \in covered

\* planLane: the claims come first, so a path both claimed and named counts as claimed.
Requested(claims, also) == {[path |-> p, also |-> FALSE] : p \in claims} \cup {[path |-> p, also |-> TRUE] : p \in also \ claims}

ChangesAtOrUnder(covered, changes, p) == {c \in changes : Covers(covered, p, c.path)}
IsDirectoryChange(p, under) == \E c \in under : c.path # p

\* What each request is refused for: --also naming a file --hunk names, a directory, or nothing changed.
RequestErrors(covered, changes, hunkPaths, w) ==
    LET under == ChangesAtOrUnder(covered, changes, w.path)
    IN  /\ w.also
        /\ w.path \in hunkPaths \/ IsDirectoryChange(w.path, under) \/ under = {}

\* planWhole: what a request brings, less the files --hunk names.
Found(covered, changes, hunkPaths, w) ==
    IF w.path \in hunkPaths THEN {} ELSE {c \in ChangesAtOrUnder(covered, changes, w.path) : c.path \notin hunkPaths}

\* planHunks: refused for a file without an unstaged change and for a text in none of the file's hunks.
HunkErrors(changes, specs) == \E s \in specs : s.hits = {} \/ ~\E c \in changes : c.path = s.path /\ ~c.staged

\* planLane. A spec is a path and the hunks of it that hold its text.
PlanLane(covered, changes, claims, also, specs) ==
    LET requested == Requested(claims, also)
        hunkPaths == {s.path : s \in specs}
        found == UNION {Found(covered, changes, hunkPaths, w) : w \in requested}
    IN  [refused |-> HunkErrors(changes, specs) \/ \E w \in requested : RequestErrors(covered, changes, hunkPaths, w),
         whole |-> {c.path : c \in {d \in found : ~d.staged}},
         alreadyStaged |-> {c.path : c \in {d \in found : d.staged}},
         unchanged |-> {w.path : w \in {v \in requested : ~v.also /\ ChangesAtOrUnder(covered, changes, v.path) = {}}},
         hunks |-> [p \in hunkPaths |-> UNION {s.hits : s \in {t \in specs : t.path = p}}]]

---------------------------------------------------------------------------
\* The patch of one file. A hunk replaces `old` lines from `start` by `new` lines, or puts them after line `start`
\* when it has no old ones.

FirstOld(h) == IF h.old = 0 THEN h.start + 1 ELSE h.start

\* Mutant of Delta: the hunks above count with all their new lines.
DeltaNew(hunks, i) == FoldLeft(LAMBDA d, h : d + h.new, 0, SubSeq(hunks, 1, i - 1))

\* How far the selected hunks above have moved the line.
Delta(hunks, i) == FoldLeft(LAMBDA d, h : d + h.new - h.old, 0, SubSeq(hunks, 1, i - 1))

\* rebaseHeaders: the old side is kept and the new side counted from the selected hunks alone.
RebaseHeaders(hunks) ==
    [i \in DOMAIN hunks |->
        LET firstLine == FirstOld(hunks[i]) + Delta(hunks, i)
        IN  [hunks[i] EXCEPT !.newStart = IF hunks[i].new = 0 THEN firstLine - 1 ELSE firstLine]]

OldLine(n) == <<"old", n>>
NewLines(h) == [k \in 1..h.new |-> <<"new", h.start, k>>]

\* git apply --unidiff-zero: a hunk with no old lines goes where its new side says; any other is sought by its lines.
GitApply(image, h) ==
    LET at == IF h.old = 0 THEN h.newStart ELSE CHOOSE i \in 1..Len(image) : image[i] = OldLine(h.start)
    IN  SubSeq(image, 1, at - 1) \o NewLines(h) \o SubSeq(image, at + h.old, Len(image))

\* The image git apply leaves of the first n lines.
Staged(n, selected) == FoldLeft(GitApply, [k \in 1..n |-> OldLine(k)], RebaseHeaders(selected))

\* The lines as the file would have them with only those hunks changed.
After(hunks, k) == FlattenSeq([i \in DOMAIN hunks |-> IF hunks[i].old = 0 /\ hunks[i].start = k THEN NewLines(hunks[i]) ELSE <<>>])
InPlaceOf(hunks, k) ==
    LET over == {i \in DOMAIN hunks : hunks[i].old > 0 /\ k \in hunks[i].start..(hunks[i].start + hunks[i].old - 1)}
    IN  IF over = {} THEN <<OldLine(k)>> ELSE LET h == hunks[CHOOSE i \in over : TRUE] IN IF h.start = k THEN NewLines(h) ELSE <<>>
Wanted(n, selected) == After(selected, 0) \o FlattenSeq([k \in 1..n |-> InPlaceOf(selected, k) \o After(selected, k)])

---------------------------------------------------------------------------
\* A plan that is not refused takes each change at or under what was asked exactly one way: whole, by its hunks, or as
\* already staged.
TakesOnce(covered, changes, claims, also, specs) ==
    LET plan == PlanLane(covered, changes, claims, also, specs)
        asked == {c.path : c \in UNION {ChangesAtOrUnder(covered, changes, p) : p \in claims \cup also}}
        byHunks == DOMAIN plan.hunks
    IN  ~plan.refused => /\ plan.whole \cup plan.alreadyStaged = asked \ byHunks
                         /\ plan.whole \cap plan.alreadyStaged = {}

\* The hunks of a diff, in order and with an unchanged line between two.
DiffOf(hunks) == \A i \in 1..(Len(hunks) - 1) :
                    FirstOld(hunks[i]) + hunks[i].old < FirstOld(hunks[i + 1])

\* The selected hunks land where they stand in the working file's diff, whatever was left out above them.
LandInPlace(n, hunks, chosen) ==
    LET selected == [i \in 1..Cardinality(chosen) |-> hunks[SetToSortSeq(chosen, <)[i]]] IN Staged(n, selected) = Wanted(n, selected)
=============================================================================
