---------------------------- MODULE MCScheduler -----------------------------
(***************************************************************************)
(* Instances of Scheduler for TLC: the source input p that the workspace   *)
(* a reads, and q that only b, where there is a b, reads with it.          *)
(***************************************************************************)
EXTENDS Scheduler

CONSTANTS p, q, a, b, c, l1

\* a reads p; b reads p and q.
InsideOf == [w \in Workspaces |-> IF w = a THEN {p} ELSE {p, q} \cap Paths]

\* Only a's own runs write p.
RunsOfAWrite == [s \in Subjects |-> IF s = a THEN {p} ELSE {}]

\* Every run and every discovery writes p.
AllWrite == [s \in Subjects |-> {p}]

\* A loop of the daemon's own runs is held in time, the scheduler idles again and again, and a hold that an edit or a report
\* reached is released (see RunsBeforeHold, Settles and HoldReleased in Scheduler).
HoldsEnd == []RunsBeforeHold /\ Settles /\ HoldReleased
=============================================================================
