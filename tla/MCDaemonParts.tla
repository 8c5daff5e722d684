---------------------------- MODULE MCDaemonParts ----------------------------
(* Three parts of the daemon that share no state: the executor, the        *)
(* dependency builds, and the served connections with the stop sequence.   *)
(* A behaviour is one part's, the others staying at their initial state,   *)
(* so TLC explores the sum of the three.                                   *)
EXTENDS Executor, DependencyBuilds, ServedConnections

CONSTANT Parts

VARIABLE part

\* One client pipelines past the bound on unanswered requests, the other waits for each answer.
MCMaxLines == [c \in Clients |-> IF c \in Pipelining THEN 3 ELSE 1]

ASSUME BuildsAssumption /\ ServedAssumption

PartsInit == part \in Parts /\ Init /\ BuildsInit /\ ServedInit /\ (part # "builds" => discovery = 0)

PartsNext ==
    \/ part = "executor" /\ Next /\ UNCHANGED <<part, buildsVars, servedVars>>
    \/ part = "builds" /\ BuildsNext /\ UNCHANGED <<part, vars, servedVars>>
    \/ part = "served" /\ ServedNext /\ UNCHANGED <<part, vars, buildsVars>>

\* The fairness of each part (see FairSpec, BuildsFairSpec and ServedFairSpec there), of the part that runs.
ExecutorFairness ==
    /\ WF_vars(part = "executor" /\ Daemon)
    /\ \A c \in Jobs : WF_vars(part = "executor" /\ process[c] = "killed" /\ Dies(c)) /\ WF_vars(part = "executor" /\ ExitArrives(c))

BuildsFairness ==
    /\ WF_buildsVars(part = "builds" /\ Rounds) /\ WF_buildsVars(part = "builds" /\ Returns)
    /\ WF_buildsVars(part = "builds" /\ Judged) /\ WF_buildsVars(part = "builds" /\ WatchLoops)
    /\ WF_buildsVars(part = "builds" /\ (AwaitBuildLoops \/ AwaitBuildSettled))

ServedFairness ==
    /\ WF_servedVars(part = "served" /\ StopProceeds) /\ WF_servedVars(part = "served" /\ CloseConnections)
    /\ WF_servedVars(part = "served" /\ EndpointCloses)
    /\ \A w \in {"job", "builds"} : WF_servedVars(part = "served" /\ WorkEnds(w) /\ UNCHANGED <<conn, work, written, took>>)
    /\ \A c \in Clients : WF_servedVars(part = "served" /\ conn[c].socket = "ended" /\ SocketCloses(c))

PartsSpec == PartsInit /\ [][PartsNext]_<<part, vars, buildsVars, servedVars>> /\ ExecutorFairness /\ BuildsFairness /\ ServedFairness

---------------------------------------------------------------------------
\* Whoever waits is answered, and none is turned away early: an aborted job ends, a wait for a build ends and gives up only
\* after enough discards in a row, and a stop is acknowledged and ends (see AbortedJobEnds in Executor, AwaitBuildEnds and
\* GivesUpAfterDiscards in DependencyBuilds, StopAcknowledged and StopEnds in ServedConnections).
WaitsEnd == AbortedJobEnds /\ AwaitBuildEnds /\ GivesUpAfterDiscards /\ StopAcknowledged /\ StopEnds
=============================================================================
