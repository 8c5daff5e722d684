------------------------------ MODULE MCWaits -------------------------------
(***************************************************************************)
(* Waits on two files and two workspaces, one that reads both files and    *)
(* one that a build may place outside the named file.                      *)
(***************************************************************************)
EXTENDS Waits, TLC

CONSTANTS a, b, w1, w2, x

MCGraphs == IF w2 \in Workspaces THEN {(w1 :> {a} @@ w2 :> {b})} ELSE {(w1 :> {a})}
=============================================================================
