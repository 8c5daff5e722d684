----------------------------- MODULE MCOneOwner ------------------------------
(* Four places where processes race for a file only one may own: the       *)
(* daemon's start, the store, the machine's run lease and the lanes'       *)
(* claims.  They share no state here, and a behaviour is one's, the others *)
(* staying at their initial state, so TLC explores the sum of the four.    *)
EXTENDS Store, RunLease, LaneClaims, DaemonStart

CONSTANT Parts

VARIABLE part

---------------------------------------------------------------------------
\* Another program's file, a store of an older version, and a new file, which processes of two versions race to create.
OldFiles == {ForeignFile, OldFile(1, "w1", "p"), EmptyFile}

\* Two processes of two versions of RT Test.
MCVersion == [c \in Conns |-> IF c = "c1" THEN 2 ELSE 3]

\* Two runs, and a hold by hand for the lane of the second.
MCLaneOf == [p \in Wrappers |-> IF p = 1 THEN "a" ELSE "b"]
MCBudgets == {[kills |-> 0, suspensions |-> 1, releases |-> 0], [kills |-> 1, suspensions |-> 0, releases |-> 1]}

\* One path covers another and is the orchestrator's to release.
MCCovered == {<<"docs", "docs/a">>}

ASSUME StoreAssumption /\ StartAssumption /\ LeaseAssumption /\ ClaimsAssumption

PartsInit ==
    /\ part \in Parts
    /\ Init /\ StoreInit /\ LeaseInit /\ ClaimsInit
    /\ part # "start" => socket = None /\ key = None /\ \A l \in Locks : fileLock[l] = None
    /\ part = "lease" <=> budget.suspensions = 0
    /\ part # "store" => db = CHOOSE file \in InitialFiles : TRUE

\* Reads of two connections touch nothing they share, so MaxReads bounds the two's together. A lease is stale, and one taken
\* late taken over, a tick before the bound, which only a run that outlives the orphans' limit needs.
PartsNext ==
    \/ part = "start" /\ Next /\ UNCHANGED <<part, storeVars, leaseVars, claimVars>>
    \/ /\ part = "store" /\ StoreNext /\ UNCHANGED <<part, vars, leaseVars, claimVars>>
       /\ \A c, d \in Conns : c # d => reads'[c] + reads'[d] <= MaxReads
    \/ /\ part \in {"lease", "suspension"} /\ LeaseNext /\ UNCHANGED <<part, vars, storeVars, claimVars>>
       /\ part = "suspension" => now' < MaxTime
    \/ part = "claims" /\ ClaimsNext /\ UNCHANGED <<part, vars, storeVars, leaseVars>>

PartsSpec == PartsInit /\ [][PartsNext]_<<part, vars, storeVars, leaseVars, claimVars>>
=============================================================================
