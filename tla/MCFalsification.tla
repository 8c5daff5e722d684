--------------------------- MODULE MCFalsification ---------------------------
(* The bounds under which TLC checks Falsification: two definitions of one *)
(* workspace, each edited once at most.                                    *)
EXTENDS Falsification, TLC

CONSTANTS d1, d2, w1, i1
MCHome == (d1 :> w1) @@ (d2 :> w1)
MCOrder == (d1 :> 1) @@ (d2 :> 2)
MCInstallOf == [w \in Workspaces |-> i1]
=============================================================================
