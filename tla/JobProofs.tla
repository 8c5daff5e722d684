----------------------------- MODULE JobProofs ------------------------------
(***************************************************************************)
(* For any number of jobs, and any bounds: the executor's state keeps its  *)
(* type, no process outlives its job, and every job ends by what happened  *)
(* to its own process; a build narrows only for the discovery and the      *)
(* inputs it was made over, a run's watch misses no build recorded while   *)
(* the run runs, and a wait gives up a pending build only after enough     *)
(* discards; and a falsification job's verdicts are true of its tests.     *)
(***************************************************************************)
EXTENDS Executor, DependencyBuilds, FalsifyJob, NaturalsInduction, WellFoundedInduction, TLAPS


\* The process the executor takes events from is the latest job's, and only while that job can still be aborted; a job
\* that was sent still has it.
ChildInv ==
    /\ child # 0 => job.state \in {"containing", "aborted", "sent"} /\ child = job.id
    /\ job.state = "sent" => child = job.id
    /\ job.state # "idle" => job.id \in Jobs

\* Only the latest job's process can run, and what it started only from the job's sending until its tree is ended.
ProcessInv ==
    /\ \A c \in Jobs : c < job.id => process[c] = "exited" /\ tree[c] # "running"
    /\ \A c \in Jobs : job.id < c => tree[c] = "none"
    /\ job.id \in Jobs /\ job.state \notin {"sent", "settled"} => tree[job.id] # "running"
    /\ job.id \in Jobs /\ job.state = "idle" => process[job.id] = "exited"

\* What the flags remember of the aborts that reached the job, before it is sent and after.
AbortInv ==
    /\ job.state \in {"containing", "aborted"} =>
          /\ flags.abortBeforeSend = "none" => asked = {}
          /\ flags.abortBeforeSend # "none" => flags.abortBeforeSend \in asked
          /\ "stop" \in asked => flags.abortBeforeSend = "stop"
    /\ job.state = "aborted" => flags.abortBeforeSend # "none"
    /\ job.state = "sent" /\ ~flags.stopAsked => asked = {}

\* What a job ended with, which stays as it was since no abort reaches a job that has ended.
ReplyInv ==
    /\ job.state \in {"containing", "gone", "aborted", "sent"} => job.reply = NoReply
    /\ job.reply # NoReply =>
          /\ job.reply.type \in {"reply", "exited"} => job.reply.from = job.id
          /\ job.reply.type = "exited" => asked = {}
          /\ job.reply.type \in Purposes => job.reply.type \in asked
          /\ job.reply.type = "interruption" => "stop" \notin asked

\* The inductive invariant.
ExecutorInv == TypeOK /\ ChildInv /\ ProcessInv /\ AbortInv /\ ReplyInv

\* The initial state satisfies the invariant.
LEMMA InitInv == Init => ExecutorInv
<1> SUFFICES ASSUME Init PROVE ExecutorInv
  OBVIOUS
<1>1. JobTypeOK /\ ProcessTypeOK
  BY BoundsAssumption DEF Init, JobTypeOK, ProcessTypeOK, Jobs, JobKinds
<1>2. FlagsTypeOK
  BY DEF Init, FlagsTypeOK, Unflagged, Purposes
<1>3. mail \subseteq Jobs /\ errors \in 0..MaxErrors
  BY BoundsAssumption DEF Init
<1>4. stopping \in BOOLEAN
  BY DEF Init
<1>5. ChildInv /\ ProcessInv
  BY BoundsAssumption DEF Init, ChildInv, ProcessInv, Jobs
<1>6. AbortInv /\ ReplyInv
  BY DEF Init, AbortInv, ReplyInv
<1> QED
  BY <1>1, <1>2, <1>3, <1>4, <1>5, <1>6 DEF ExecutorInv, TypeOK

\* Ending a tree keeps what is known of the processes well typed.
LEMMA TreeEndedType == ASSUME ProcessTypeOK, NEW c \in Jobs, TreeEnded(c) PROVE ProcessTypeOK'
  BY DEF ProcessTypeOK, TreeEnded

\* What Settle makes of a job that was sent.
LEMMA SettleJob ==
  ASSUME JobTypeOK, ChildInv, job.state = "sent",
         NEW type \in {"reply", "lost", "exited"}, NEW c \in Jobs, Settle(Reply(type, c))
  PROVE  /\ JobTypeOK' /\ child' = 0
         /\ job'.id = job.id /\ job'.state = "settled" /\ job'.reply = [type |-> type, from |-> c]
<1>1. [type |-> type, from |-> c] \in Outcomes
  BY DEF Outcomes, Jobs
<1> QED
  BY <1>1 DEF JobTypeOK, ChildInv, Settle, Reply

\* What Unsent makes of a job that was not sent.
LEMMA UnsentJob ==
  ASSUME JobTypeOK, ChildInv, job.state # "idle",
         NEW type \in {"unsent", "stop", "interruption"}, Unsent(type)
  PROVE  /\ JobTypeOK' /\ child' = 0
         /\ job'.id = job.id /\ job'.state = "exiting" /\ job'.reply = [type |-> type, from |-> 0]
<1>1. [type |-> type, from |-> 0] \in Outcomes
  BY BoundsAssumption DEF Outcomes
<1> QED
  BY <1>1 DEF JobTypeOK, ChildInv, Unsent, Reply

\* A job that begins keeps the invariant.
LEMMA BeginKeeps == ASSUME ExecutorInv, NEW kind \in JobKinds, NEW started \in BOOLEAN, Begin(kind, started) PROVE ExecutorInv'
<1>a. /\ JobTypeOK /\ FlagsTypeOK /\ ProcessTypeOK /\ ChildInv /\ ProcessInv /\ AbortInv /\ ReplyInv
      /\ mail \subseteq Jobs /\ stopping \in BOOLEAN /\ errors \in 0..MaxErrors
  BY DEF ExecutorInv, TypeOK
<1>1. JobTypeOK'
  BY <1>a, BoundsAssumption DEF JobTypeOK, Outcomes, JobKinds, Jobs, Reply, Purposes, ChildInv, FlagsTypeOK, Begin
<1>2. FlagsTypeOK'
  BY <1>a, BoundsAssumption DEF FlagsTypeOK, Purposes, Unflagged, Begin
<1>3. ProcessTypeOK'
  BY <1>a, BoundsAssumption DEF ProcessTypeOK, JobTypeOK, Jobs, Begin
<1>4. (mail \subseteq Jobs /\ stopping \in BOOLEAN /\ errors \in 0..MaxErrors)'
  BY <1>a, BoundsAssumption DEF Jobs, ChildInv, Begin
<1>5. ChildInv'
  BY <1>a, BoundsAssumption DEF ChildInv, JobTypeOK, Jobs, Begin
<1>6. ProcessInv'
  <2>1. job'.id = job.id + 1 /\ job'.state # "idle" /\ job.state = "idle" /\ tree' = tree
    BY <1>a DEF JobTypeOK, Begin
  <2>2. \A c \in Jobs : c < job.id + 1 => process'[c] = process[c] /\ (c < job.id \/ c = job.id)
    BY <1>a DEF JobTypeOK, ProcessTypeOK, Begin, Jobs
  <2>3. \A c \in Jobs : c < job'.id => process'[c] = "exited" /\ tree'[c] # "running"
    BY <1>a, <2>1, <2>2 DEF ProcessInv
  <2>4. \A c \in Jobs : job'.id < c => tree'[c] = "none"
    BY <1>a, <2>1 DEF ProcessInv, JobTypeOK, Jobs
  <2>5. job'.id \in Jobs => tree'[job'.id] # "running"
    BY <1>a, <2>1 DEF ProcessInv, JobTypeOK, Jobs
  <2> QED
    BY <2>1, <2>3, <2>4, <2>5 DEF ProcessInv
<1>7. AbortInv'
  BY <1>a, BoundsAssumption DEF AbortInv, ChildInv, JobTypeOK, FlagsTypeOK, Purposes, Unflagged, Begin
<1>8. ReplyInv'
  BY <1>a, BoundsAssumption DEF ReplyInv, AbortInv, ChildInv, JobTypeOK, Reply, Purposes, Begin
<1> QED
  BY <1>1, <1>2, <1>3, <1>4, <1>5, <1>6, <1>7, <1>8 DEF ExecutorInv, TypeOK

\* A containment that fails keeps the invariant.
LEMMA ContainFailsKeeps == ASSUME ExecutorInv, ContainFails PROVE ExecutorInv'
<1>a. /\ JobTypeOK /\ FlagsTypeOK /\ ProcessTypeOK /\ ChildInv /\ ProcessInv /\ AbortInv /\ ReplyInv
      /\ mail \subseteq Jobs /\ stopping \in BOOLEAN /\ errors \in 0..MaxErrors
  BY DEF ExecutorInv, TypeOK
<1>1. JobTypeOK'
  BY <1>a, UnsentJob DEF ContainFails
<1>2. FlagsTypeOK'
  BY <1>a, BoundsAssumption DEF FlagsTypeOK, Purposes, Unflagged, ContainFails, Unsent, TreeEnded
<1>3. ProcessTypeOK'
  BY <1>a, BoundsAssumption DEF ProcessTypeOK, JobTypeOK, Jobs, ContainFails, Unsent, TreeEnded
<1>4. (mail \subseteq Jobs /\ stopping \in BOOLEAN /\ errors \in 0..MaxErrors)'
  BY <1>a, BoundsAssumption DEF Jobs, ChildInv, ContainFails, Unsent, TreeEnded
<1>5. ChildInv'
  BY <1>a, BoundsAssumption DEF ChildInv, JobTypeOK, Jobs, ContainFails, Unsent, TreeEnded
<1>6. ProcessInv'
  BY <1>a, BoundsAssumption DEF ProcessInv, ProcessTypeOK, JobTypeOK, ChildInv, Jobs, ContainFails, Unsent, TreeEnded
<1>7. AbortInv'
  BY <1>a, BoundsAssumption DEF AbortInv, ChildInv, JobTypeOK, FlagsTypeOK, Purposes, Unflagged, ContainFails, Unsent, TreeEnded
<1>8. ReplyInv'
  BY <1>a, BoundsAssumption DEF ReplyInv, AbortInv, ChildInv, JobTypeOK, Reply, Purposes, ContainFails, Unsent, TreeEnded
<1> QED
  BY <1>1, <1>2, <1>3, <1>4, <1>5, <1>6, <1>7, <1>8 DEF ExecutorInv, TypeOK

\* A contained process keeps the invariant.
LEMMA ContainedKeeps == ASSUME ExecutorInv, Contained PROVE ExecutorInv'
<1>a. /\ JobTypeOK /\ FlagsTypeOK /\ ProcessTypeOK /\ ChildInv /\ ProcessInv /\ AbortInv /\ ReplyInv
      /\ mail \subseteq Jobs /\ stopping \in BOOLEAN /\ errors \in 0..MaxErrors
  BY DEF ExecutorInv, TypeOK
<1>1. JobTypeOK'
  BY <1>a, BoundsAssumption DEF JobTypeOK, Outcomes, JobKinds, Jobs, Reply, Purposes, ChildInv, FlagsTypeOK, Contained, TreeEnded
<1>2. FlagsTypeOK'
  BY <1>a, BoundsAssumption DEF FlagsTypeOK, Purposes, Unflagged, Contained, TreeEnded
<1>3. ProcessTypeOK'
  <2>1. job.id \in Jobs
    BY <1>a DEF ChildInv, Contained
  <2>2. TreeEnded(job.id) \/ UNCHANGED <<process, tree>>
    BY DEF Contained
  <2> QED
    BY <1>a, <2>1, <2>2, TreeEndedType DEF ProcessTypeOK
<1>4. (mail \subseteq Jobs /\ stopping \in BOOLEAN /\ errors \in 0..MaxErrors)'
  BY <1>a, BoundsAssumption DEF Jobs, ChildInv, Contained, TreeEnded
<1>5. ChildInv'
  BY <1>a, BoundsAssumption DEF ChildInv, JobTypeOK, Jobs, Contained, TreeEnded
<1>6. ProcessInv'
  BY <1>a, BoundsAssumption DEF ProcessInv, ProcessTypeOK, JobTypeOK, ChildInv, Jobs, Contained, TreeEnded
<1>7. AbortInv'
  BY <1>a, BoundsAssumption DEF AbortInv, ChildInv, JobTypeOK, FlagsTypeOK, Purposes, Unflagged, Contained, TreeEnded
<1>8. ReplyInv'
  BY <1>a, BoundsAssumption DEF ReplyInv, AbortInv, ChildInv, JobTypeOK, Reply, Purposes, Contained, TreeEnded
<1> QED
  BY <1>1, <1>2, <1>3, <1>4, <1>5, <1>6, <1>7, <1>8 DEF ExecutorInv, TypeOK

\* An unsent job's end keeps the invariant.
LEMMA RefusedKeeps == ASSUME ExecutorInv, Refused PROVE ExecutorInv'
<1>a. /\ JobTypeOK /\ FlagsTypeOK /\ ProcessTypeOK /\ ChildInv /\ ProcessInv /\ AbortInv /\ ReplyInv
      /\ mail \subseteq Jobs /\ stopping \in BOOLEAN /\ errors \in 0..MaxErrors
  BY DEF ExecutorInv, TypeOK
<1>1. JobTypeOK'
  <2>1. (IF job.state = "aborted" THEN flags.abortBeforeSend ELSE "unsent") \in {"unsent", "stop", "interruption"}
    BY <1>a DEF FlagsTypeOK, AbortInv, Purposes, Refused
  <2> QED
    BY <1>a, <2>1, UnsentJob DEF Refused
<1>2. FlagsTypeOK'
  BY <1>a, BoundsAssumption DEF FlagsTypeOK, Purposes, Unflagged, Refused, Unsent, TreeEnded
<1>3. ProcessTypeOK'
  BY <1>a, BoundsAssumption DEF ProcessTypeOK, JobTypeOK, Jobs, Refused, Unsent, TreeEnded
<1>4. (mail \subseteq Jobs /\ stopping \in BOOLEAN /\ errors \in 0..MaxErrors)'
  BY <1>a, BoundsAssumption DEF Jobs, ChildInv, Refused, Unsent, TreeEnded
<1>5. ChildInv'
  BY <1>a, BoundsAssumption DEF ChildInv, JobTypeOK, Jobs, Refused, Unsent, TreeEnded
<1>6. ProcessInv'
  BY <1>a, BoundsAssumption DEF ProcessInv, ProcessTypeOK, JobTypeOK, ChildInv, Jobs, Refused, Unsent, TreeEnded
<1>7. AbortInv'
  BY <1>a, BoundsAssumption DEF AbortInv, ChildInv, JobTypeOK, FlagsTypeOK, Purposes, Unflagged, Refused, Unsent, TreeEnded
<1>8. ReplyInv'
  <2> DEFINE type == IF job.state = "aborted" THEN flags.abortBeforeSend ELSE "unsent"
  <2>1. type \in {"unsent", "stop", "interruption"}
    BY <1>a DEF FlagsTypeOK, AbortInv, Purposes, Refused
  <2>2. job'.state = "exiting" /\ job'.reply.type = type /\ asked' = asked
    BY <1>a, <2>1, UnsentJob DEF Refused
  <2>3. type \in Purposes => type \in asked
    BY <1>a DEF AbortInv, Purposes, Refused
  <2>4. type = "interruption" => "stop" \notin asked
    BY <1>a DEF AbortInv, Refused
  <2> QED
    BY <2>1, <2>2, <2>3, <2>4 DEF ReplyInv
<1> QED
  BY <1>1, <1>2, <1>3, <1>4, <1>5, <1>6, <1>7, <1>8 DEF ExecutorInv, TypeOK

\* The end of a settled job's tree keeps the invariant.
LEMMA EndTreeKeeps == ASSUME ExecutorInv, EndTree PROVE ExecutorInv'
<1>a. /\ JobTypeOK /\ FlagsTypeOK /\ ProcessTypeOK /\ ChildInv /\ ProcessInv /\ AbortInv /\ ReplyInv
      /\ mail \subseteq Jobs /\ stopping \in BOOLEAN /\ errors \in 0..MaxErrors
  BY DEF ExecutorInv, TypeOK
<1>1. JobTypeOK'
  BY <1>a, BoundsAssumption DEF JobTypeOK, Outcomes, JobKinds, Jobs, Reply, Purposes, ChildInv, FlagsTypeOK, EndTree, TreeEnded
<1>2. FlagsTypeOK'
  BY <1>a, BoundsAssumption DEF FlagsTypeOK, Purposes, Unflagged, EndTree, TreeEnded
<1>3. ProcessTypeOK'
  BY <1>a, BoundsAssumption DEF ProcessTypeOK, JobTypeOK, Jobs, EndTree, TreeEnded
<1>4. (mail \subseteq Jobs /\ stopping \in BOOLEAN /\ errors \in 0..MaxErrors)'
  BY <1>a, BoundsAssumption DEF Jobs, ChildInv, EndTree, TreeEnded
<1>5. ChildInv'
  BY <1>a, BoundsAssumption DEF ChildInv, JobTypeOK, Jobs, EndTree, TreeEnded
<1>6. ProcessInv'
  BY <1>a, BoundsAssumption DEF ProcessInv, ProcessTypeOK, JobTypeOK, ChildInv, Jobs, EndTree, TreeEnded
<1>7. AbortInv'
  BY <1>a, BoundsAssumption DEF AbortInv, ChildInv, JobTypeOK, FlagsTypeOK, Purposes, Unflagged, EndTree, TreeEnded
<1>8. ReplyInv'
  BY <1>a, BoundsAssumption DEF ReplyInv, AbortInv, ChildInv, JobTypeOK, Reply, Purposes, EndTree, TreeEnded
<1> QED
  BY <1>1, <1>2, <1>3, <1>4, <1>5, <1>6, <1>7, <1>8 DEF ExecutorInv, TypeOK

\* A job's promise resolving keeps the invariant.
LEMMA ResolveKeeps == ASSUME ExecutorInv, Resolve PROVE ExecutorInv'
<1>a. /\ JobTypeOK /\ FlagsTypeOK /\ ProcessTypeOK /\ ChildInv /\ ProcessInv /\ AbortInv /\ ReplyInv
      /\ mail \subseteq Jobs /\ stopping \in BOOLEAN /\ errors \in 0..MaxErrors
  BY DEF ExecutorInv, TypeOK
<1>1. JobTypeOK'
  BY <1>a, BoundsAssumption DEF JobTypeOK, Outcomes, JobKinds, Jobs, Reply, Purposes, ChildInv, FlagsTypeOK, Resolve
<1>2. FlagsTypeOK'
  BY <1>a, BoundsAssumption DEF FlagsTypeOK, Purposes, Unflagged, Resolve
<1>3. ProcessTypeOK'
  BY <1>a, BoundsAssumption DEF ProcessTypeOK, JobTypeOK, Jobs, Resolve
<1>4. (mail \subseteq Jobs /\ stopping \in BOOLEAN /\ errors \in 0..MaxErrors)'
  BY <1>a, BoundsAssumption DEF Jobs, ChildInv, Resolve
<1>5. ChildInv'
  BY <1>a, BoundsAssumption DEF ChildInv, JobTypeOK, Jobs, Resolve
<1>6. ProcessInv'
  BY <1>a, BoundsAssumption DEF ProcessInv, ProcessTypeOK, JobTypeOK, ChildInv, Jobs, Resolve
<1>7. AbortInv'
  BY <1>a, BoundsAssumption DEF AbortInv, ChildInv, JobTypeOK, FlagsTypeOK, Purposes, Unflagged, Resolve
<1>8. ReplyInv'
  BY <1>a, BoundsAssumption DEF ReplyInv, AbortInv, ChildInv, JobTypeOK, Reply, Purposes, Resolve
<1> QED
  BY <1>1, <1>2, <1>3, <1>4, <1>5, <1>6, <1>7, <1>8 DEF ExecutorInv, TypeOK

\* The bound of an abort keeps the invariant.
LEMMA BoundPassesKeeps == ASSUME ExecutorInv, BoundPasses PROVE ExecutorInv'
<1>a. /\ JobTypeOK /\ FlagsTypeOK /\ ProcessTypeOK /\ ChildInv /\ ProcessInv /\ AbortInv /\ ReplyInv
      /\ mail \subseteq Jobs /\ stopping \in BOOLEAN /\ errors \in 0..MaxErrors
  BY DEF ExecutorInv, TypeOK
<1>1. JobTypeOK'
  BY <1>a, BoundsAssumption DEF JobTypeOK, Outcomes, JobKinds, Jobs, Reply, Purposes, ChildInv, FlagsTypeOK, BoundPasses, TreeEnded, Settleable
<1>2. FlagsTypeOK'
  BY <1>a, BoundsAssumption DEF FlagsTypeOK, Purposes, Unflagged, BoundPasses, TreeEnded, Settleable
<1>3. ProcessTypeOK'
  BY <1>a, BoundsAssumption DEF ProcessTypeOK, JobTypeOK, Jobs, BoundPasses, TreeEnded, Settleable
<1>4. (mail \subseteq Jobs /\ stopping \in BOOLEAN /\ errors \in 0..MaxErrors)'
  BY <1>a, BoundsAssumption DEF Jobs, ChildInv, BoundPasses, TreeEnded, Settleable
<1>5. ChildInv'
  BY <1>a, BoundsAssumption DEF ChildInv, JobTypeOK, Jobs, BoundPasses, TreeEnded, Settleable
<1>6. ProcessInv'
  BY <1>a, BoundsAssumption DEF ProcessInv, ProcessTypeOK, JobTypeOK, ChildInv, Jobs, BoundPasses, TreeEnded, Settleable
<1>7. AbortInv'
  BY <1>a, BoundsAssumption DEF AbortInv, ChildInv, JobTypeOK, FlagsTypeOK, Purposes, Unflagged, BoundPasses, TreeEnded, Settleable
<1>8. ReplyInv'
  BY <1>a, BoundsAssumption DEF ReplyInv, AbortInv, ChildInv, JobTypeOK, Reply, Purposes, BoundPasses, TreeEnded, Settleable
<1> QED
  BY <1>1, <1>2, <1>3, <1>4, <1>5, <1>6, <1>7, <1>8 DEF ExecutorInv, TypeOK

\* An abort marks a job that is not yet sent by its purpose, and stops or times one that is.
LEMMA AbortMarks ==
    ASSUME FlagsTypeOK, AbortInv, ChildInv, JobTypeOK, NEW purpose \in Purposes, Abort(purpose), UNCHANGED job,
           asked = {} \/ purpose = "stop"
    PROVE  FlagsTypeOK' /\ AbortInv'
<1>1. CASE child = 0
  <2>1. UNCHANGED <<flags, asked>>
    BY <1>1 DEF Abort
  <2> QED
    BY <2>1 DEF FlagsTypeOK, AbortInv
<1>2. CASE child # 0 /\ ~Settleable
  <2>1. /\ asked' = asked \cup {purpose}
        /\ flags' = [flags EXCEPT !.abortBeforeSend = IF flags.abortBeforeSend = "stop" THEN flags.abortBeforeSend ELSE purpose]
    BY <1>2 DEF Abort
  <2>2. purpose # "none" /\ job'.state = job.state /\ job.state # "sent"
    BY <1>2 DEF Purposes, Settleable
  <2>3. FlagsTypeOK'
    BY <2>1 DEF FlagsTypeOK
  <2>4. flags'.abortBeforeSend = (IF flags.abortBeforeSend = "stop" THEN flags.abortBeforeSend ELSE purpose)
    BY <2>1 DEF FlagsTypeOK
  <2> QED
    BY <2>1, <2>2, <2>3, <2>4 DEF AbortInv
<1>3. CASE child # 0 /\ Settleable
  <2>1. /\ asked' = asked \cup {purpose}
        /\ \/ flags' = [flags EXCEPT !.stopAsked = TRUE]
           \/ flags' = [flags EXCEPT !.stopAsked = TRUE, !.timer = TRUE]
    BY <1>3 DEF Abort
  <2>2. FlagsTypeOK' /\ flags'.stopAsked
    BY <2>1 DEF FlagsTypeOK
  <2>3. job'.state = "sent"
    BY <1>3 DEF Settleable
  <2> QED
    BY <2>2, <2>3 DEF AbortInv
<1> QED
  BY <1>1, <1>2, <1>3

\* An interruption or a build's bound keeps the invariant.
LEMMA AbortJobKeeps == ASSUME ExecutorInv, AbortJob PROVE ExecutorInv'
<1>a. /\ JobTypeOK /\ FlagsTypeOK /\ ProcessTypeOK /\ ChildInv /\ ProcessInv /\ AbortInv /\ ReplyInv
      /\ mail \subseteq Jobs /\ stopping \in BOOLEAN /\ errors \in 0..MaxErrors
  BY DEF ExecutorInv, TypeOK
<1>1. JobTypeOK'
  BY <1>a, BoundsAssumption DEF JobTypeOK, Outcomes, JobKinds, Jobs, Reply, Purposes, ChildInv, FlagsTypeOK, AbortJob, Abort, TreeEnded, Settleable
<1>2. FlagsTypeOK' /\ AbortInv'
  BY <1>a, AbortMarks DEF AbortJob, Purposes
<1>3. ProcessTypeOK'
  <2>1. child \in Jobs => UNCHANGED <<process, tree>> \/ TreeEnded(child)
    BY DEF AbortJob, Abort
  <2>2. child \notin Jobs => UNCHANGED <<process, tree>>
    BY <1>a DEF AbortJob, Abort, ChildInv
  <2> QED
    BY <1>a, <2>1, <2>2, TreeEndedType DEF ProcessTypeOK
<1>4. (mail \subseteq Jobs /\ stopping \in BOOLEAN /\ errors \in 0..MaxErrors)'
  BY <1>a, BoundsAssumption DEF Jobs, ChildInv, AbortJob, Abort, TreeEnded, Settleable
<1>5. ChildInv'
  BY <1>a, BoundsAssumption DEF ChildInv, JobTypeOK, Jobs, AbortJob, Abort, TreeEnded, Settleable
<1>6. ProcessInv'
  BY <1>a, BoundsAssumption DEF ProcessInv, ProcessTypeOK, JobTypeOK, ChildInv, Jobs, AbortJob, Abort, TreeEnded, Settleable
<1>8. ReplyInv'
  BY <1>a, BoundsAssumption DEF ReplyInv, AbortInv, ChildInv, JobTypeOK, Reply, Purposes, AbortJob, Abort, TreeEnded, Settleable
<1> QED
  BY <1>1, <1>2, <1>3, <1>4, <1>5, <1>6, <1>8 DEF ExecutorInv, TypeOK

\* A stop keeps the invariant.
LEMMA StopKeeps == ASSUME ExecutorInv, Stop PROVE ExecutorInv'
<1>a. /\ JobTypeOK /\ FlagsTypeOK /\ ProcessTypeOK /\ ChildInv /\ ProcessInv /\ AbortInv /\ ReplyInv
      /\ mail \subseteq Jobs /\ stopping \in BOOLEAN /\ errors \in 0..MaxErrors
  BY DEF ExecutorInv, TypeOK
<1>1. JobTypeOK'
  BY <1>a, BoundsAssumption DEF JobTypeOK, Outcomes, JobKinds, Jobs, Reply, Purposes, ChildInv, FlagsTypeOK, Stop, Abort, TreeEnded, Settleable
<1>2. FlagsTypeOK' /\ AbortInv'
  BY <1>a, AbortMarks DEF Stop, Purposes
<1>3. ProcessTypeOK'
  <2>1. child \in Jobs => UNCHANGED <<process, tree>> \/ TreeEnded(child)
    BY DEF Stop, Abort
  <2>2. child \notin Jobs => UNCHANGED <<process, tree>>
    BY <1>a DEF Stop, Abort, ChildInv
  <2> QED
    BY <1>a, <2>1, <2>2, TreeEndedType DEF ProcessTypeOK
<1>4. (mail \subseteq Jobs /\ stopping \in BOOLEAN /\ errors \in 0..MaxErrors)'
  BY <1>a, BoundsAssumption DEF Jobs, ChildInv, Stop, Abort, TreeEnded, Settleable
<1>5. ChildInv'
  BY <1>a, BoundsAssumption DEF ChildInv, JobTypeOK, Jobs, Stop, Abort, TreeEnded, Settleable
<1>6. ProcessInv'
  BY <1>a, BoundsAssumption DEF ProcessInv, ProcessTypeOK, JobTypeOK, ChildInv, Jobs, Stop, Abort, TreeEnded, Settleable
<1>8. ReplyInv'
  BY <1>a, BoundsAssumption DEF ReplyInv, AbortInv, ChildInv, JobTypeOK, Reply, Purposes, Stop, Abort, TreeEnded, Settleable
<1> QED
  BY <1>1, <1>2, <1>3, <1>4, <1>5, <1>6, <1>8 DEF ExecutorInv, TypeOK

\* A process the job starts keeps the invariant.
LEMMA StartsProcessKeeps == ASSUME ExecutorInv, StartsProcess PROVE ExecutorInv'
<1>a. /\ JobTypeOK /\ FlagsTypeOK /\ ProcessTypeOK /\ ChildInv /\ ProcessInv /\ AbortInv /\ ReplyInv
      /\ mail \subseteq Jobs /\ stopping \in BOOLEAN /\ errors \in 0..MaxErrors
  BY DEF ExecutorInv, TypeOK
<1>1. JobTypeOK'
  BY <1>a, BoundsAssumption DEF JobTypeOK, Outcomes, JobKinds, Jobs, Reply, Purposes, ChildInv, FlagsTypeOK, StartsProcess, Settleable
<1>2. FlagsTypeOK'
  BY <1>a, BoundsAssumption DEF FlagsTypeOK, Purposes, Unflagged, StartsProcess, Settleable
<1>3. ProcessTypeOK'
  BY <1>a, BoundsAssumption DEF ProcessTypeOK, JobTypeOK, Jobs, StartsProcess, Settleable
<1>4. (mail \subseteq Jobs /\ stopping \in BOOLEAN /\ errors \in 0..MaxErrors)'
  BY <1>a, BoundsAssumption DEF Jobs, ChildInv, StartsProcess, Settleable
<1>5. ChildInv'
  BY <1>a, BoundsAssumption DEF ChildInv, JobTypeOK, Jobs, StartsProcess, Settleable
<1>6. ProcessInv'
  BY <1>a, BoundsAssumption DEF ProcessInv, ProcessTypeOK, JobTypeOK, ChildInv, Jobs, StartsProcess, Settleable
<1>7. AbortInv'
  BY <1>a, BoundsAssumption DEF AbortInv, ChildInv, JobTypeOK, FlagsTypeOK, Purposes, Unflagged, StartsProcess, Settleable
<1>8. ReplyInv'
  BY <1>a, BoundsAssumption DEF ReplyInv, AbortInv, ChildInv, JobTypeOK, Reply, Purposes, StartsProcess, Settleable
<1> QED
  BY <1>1, <1>2, <1>3, <1>4, <1>5, <1>6, <1>7, <1>8 DEF ExecutorInv, TypeOK

\* A reply sent keeps the invariant.
LEMMA RepliesKeeps == ASSUME ExecutorInv, Replies PROVE ExecutorInv'
<1>a. /\ JobTypeOK /\ FlagsTypeOK /\ ProcessTypeOK /\ ChildInv /\ ProcessInv /\ AbortInv /\ ReplyInv
      /\ mail \subseteq Jobs /\ stopping \in BOOLEAN /\ errors \in 0..MaxErrors
  BY DEF ExecutorInv, TypeOK
<1>1. JobTypeOK'
  BY <1>a, BoundsAssumption DEF JobTypeOK, Outcomes, JobKinds, Jobs, Reply, Purposes, ChildInv, FlagsTypeOK, Replies, Settleable
<1>2. FlagsTypeOK'
  BY <1>a, BoundsAssumption DEF FlagsTypeOK, Purposes, Unflagged, Replies, Settleable
<1>3. ProcessTypeOK'
  BY <1>a, BoundsAssumption DEF ProcessTypeOK, JobTypeOK, Jobs, Replies, Settleable
<1>4. (mail \subseteq Jobs /\ stopping \in BOOLEAN /\ errors \in 0..MaxErrors)'
  BY <1>a, BoundsAssumption DEF Jobs, ChildInv, Replies, Settleable
<1>5. ChildInv'
  BY <1>a, BoundsAssumption DEF ChildInv, JobTypeOK, Jobs, Replies, Settleable
<1>6. ProcessInv'
  BY <1>a, BoundsAssumption DEF ProcessInv, ProcessTypeOK, JobTypeOK, ChildInv, Jobs, Replies, Settleable
<1>7. AbortInv'
  BY <1>a, BoundsAssumption DEF AbortInv, ChildInv, JobTypeOK, FlagsTypeOK, Purposes, Unflagged, Replies, Settleable
<1>8. ReplyInv'
  BY <1>a, BoundsAssumption DEF ReplyInv, AbortInv, ChildInv, JobTypeOK, Reply, Purposes, Replies, Settleable
<1> QED
  BY <1>1, <1>2, <1>3, <1>4, <1>5, <1>6, <1>7, <1>8 DEF ExecutorInv, TypeOK

\* A process's end keeps the invariant.
LEMMA DiesKeeps == ASSUME ExecutorInv, NEW c \in Jobs, Dies(c) PROVE ExecutorInv'
<1>a. /\ JobTypeOK /\ FlagsTypeOK /\ ProcessTypeOK /\ ChildInv /\ ProcessInv /\ AbortInv /\ ReplyInv
      /\ mail \subseteq Jobs /\ stopping \in BOOLEAN /\ errors \in 0..MaxErrors
  BY DEF ExecutorInv, TypeOK
<1>1. JobTypeOK'
  BY <1>a, BoundsAssumption DEF JobTypeOK, Outcomes, JobKinds, Jobs, Reply, Purposes, ChildInv, FlagsTypeOK, Dies
<1>2. FlagsTypeOK'
  BY <1>a, BoundsAssumption DEF FlagsTypeOK, Purposes, Unflagged, Dies
<1>3. ProcessTypeOK'
  BY <1>a, BoundsAssumption DEF ProcessTypeOK, JobTypeOK, Jobs, Dies
<1>4. (mail \subseteq Jobs /\ stopping \in BOOLEAN /\ errors \in 0..MaxErrors)'
  BY <1>a, BoundsAssumption DEF Jobs, ChildInv, Dies
<1>5. ChildInv'
  BY <1>a, BoundsAssumption DEF ChildInv, JobTypeOK, Jobs, Dies
<1>6. ProcessInv'
  BY <1>a, BoundsAssumption DEF ProcessInv, ProcessTypeOK, JobTypeOK, ChildInv, Jobs, Dies
<1>7. AbortInv'
  BY <1>a, BoundsAssumption DEF AbortInv, ChildInv, JobTypeOK, FlagsTypeOK, Purposes, Unflagged, Dies
<1>8. ReplyInv'
  BY <1>a, BoundsAssumption DEF ReplyInv, AbortInv, ChildInv, JobTypeOK, Reply, Purposes, Dies
<1> QED
  BY <1>1, <1>2, <1>3, <1>4, <1>5, <1>6, <1>7, <1>8 DEF ExecutorInv, TypeOK

\* A reply's arrival keeps the invariant.
LEMMA ReplyArrivesKeeps == ASSUME ExecutorInv, NEW c \in Jobs, ReplyArrives(c) PROVE ExecutorInv'
<1>a. /\ JobTypeOK /\ FlagsTypeOK /\ ProcessTypeOK /\ ChildInv /\ ProcessInv /\ AbortInv /\ ReplyInv
      /\ mail \subseteq Jobs /\ stopping \in BOOLEAN /\ errors \in 0..MaxErrors
  BY DEF ExecutorInv, TypeOK
<1>1. JobTypeOK'
  <2>1. CASE child = c /\ job.state = "sent"
    <3>1. "reply" \in {"reply", "lost", "exited"}
      OBVIOUS
    <3> QED
      BY <1>a, <2>1, <3>1, SettleJob DEF ReplyArrives, Settleable
  <2>2. CASE ~(child = c /\ job.state = "sent")
    BY <1>a, <2>2 DEF ReplyArrives, Settleable, JobTypeOK
  <2> QED
    BY <2>1, <2>2
<1>2. FlagsTypeOK'
  BY <1>a, BoundsAssumption DEF FlagsTypeOK, Purposes, Unflagged, ReplyArrives, Settle, Settleable
<1>3. ProcessTypeOK'
  BY <1>a, BoundsAssumption DEF ProcessTypeOK, JobTypeOK, Jobs, ReplyArrives, Settle, Settleable
<1>4. (mail \subseteq Jobs /\ stopping \in BOOLEAN /\ errors \in 0..MaxErrors)'
  BY <1>a, BoundsAssumption DEF Jobs, ChildInv, ReplyArrives, Settle, Settleable
<1>5. ChildInv'
  BY <1>a, BoundsAssumption DEF ChildInv, JobTypeOK, Jobs, ReplyArrives, Settle, Settleable
<1>6. ProcessInv'
  BY <1>a, BoundsAssumption DEF ProcessInv, ProcessTypeOK, JobTypeOK, ChildInv, Jobs, ReplyArrives, Settle, Settleable
<1>7. AbortInv'
  BY <1>a, BoundsAssumption DEF AbortInv, ChildInv, JobTypeOK, FlagsTypeOK, Purposes, Unflagged, ReplyArrives, Settle, Settleable
<1>8. ReplyInv'
  <2>1. CASE child = c /\ job.state = "sent"
    <3> DEFINE type == "reply"
    <3>1. type \in {"reply", "lost", "exited"} /\ (type = "exited" => asked = {})
      BY <1>a, <2>1 DEF AbortInv
    <3>2. job'.state = "settled" /\ job'.id = job.id /\ job'.reply = [type |-> type, from |-> c]
      BY <1>a, <2>1, <3>1, SettleJob DEF ReplyArrives, Settleable
    <3>3. job'.reply.type = type /\ job'.reply.from = c /\ asked' = asked
      BY <3>2 DEF ReplyArrives
    <3>4. job.id = c
      BY <1>a, <2>1 DEF ChildInv
    <3> QED
      BY <3>1, <3>2, <3>3, <3>4 DEF ReplyInv, Purposes
  <2>2. CASE ~(child = c /\ job.state = "sent")
    <3>1. job' = job /\ asked' = asked
      BY <2>2 DEF ReplyArrives, Settleable
    <3> QED
      BY <1>a, <3>1 DEF ReplyInv
  <2> QED
    BY <2>1, <2>2
<1> QED
  BY <1>1, <1>2, <1>3, <1>4, <1>5, <1>6, <1>7, <1>8 DEF ExecutorInv, TypeOK

\* An exit's arrival keeps the invariant.
LEMMA ExitArrivesKeeps == ASSUME ExecutorInv, NEW c \in Jobs, ExitArrives(c) PROVE ExecutorInv'
<1>a. /\ JobTypeOK /\ FlagsTypeOK /\ ProcessTypeOK /\ ChildInv /\ ProcessInv /\ AbortInv /\ ReplyInv
      /\ mail \subseteq Jobs /\ stopping \in BOOLEAN /\ errors \in 0..MaxErrors
  BY DEF ExecutorInv, TypeOK
<1>1. JobTypeOK'
  <2>1. CASE child = c /\ job.state = "sent"
    <3>1. (IF flags.stopAsked THEN "lost" ELSE "exited") \in {"reply", "lost", "exited"}
      OBVIOUS
    <3> QED
      BY <1>a, <2>1, <3>1, SettleJob DEF ExitArrives, Settleable
  <2>2. CASE ~(child = c /\ job.state = "sent")
    BY <1>a, <2>2 DEF ExitArrives, Settleable, JobTypeOK
  <2> QED
    BY <2>1, <2>2
<1>2. FlagsTypeOK'
  BY <1>a, BoundsAssumption DEF FlagsTypeOK, Purposes, Unflagged, ExitArrives, Settle, Settleable
<1>3. ProcessTypeOK'
  BY <1>a, BoundsAssumption DEF ProcessTypeOK, JobTypeOK, Jobs, ExitArrives, Settle, Settleable
<1>4. (mail \subseteq Jobs /\ stopping \in BOOLEAN /\ errors \in 0..MaxErrors)'
  BY <1>a, BoundsAssumption DEF Jobs, ChildInv, ExitArrives, Settle, Settleable
<1>5. ChildInv'
  BY <1>a, BoundsAssumption DEF ChildInv, JobTypeOK, Jobs, ExitArrives, Settle, Settleable
<1>6. ProcessInv'
  <2>1. /\ job'.id = job.id /\ tree' = tree
        /\ job'.state = job.state \/ (job.state = "sent" /\ job'.state = "settled")
    BY <1>a DEF ExitArrives, Settleable, Settle, JobTypeOK
  <2>2. \A d \in Jobs : process'[d] = process[d] \/ process'[d] = "exited"
    BY <1>a DEF ExitArrives, ProcessTypeOK
  <2> QED
    BY <1>a, <2>1, <2>2 DEF ProcessInv
<1>7. AbortInv'
  <2>1. CASE child = c /\ job.state = "sent"
    <3>1. job'.state = "settled"
      BY <1>a, <2>1 DEF ExitArrives, Settleable, Settle, JobTypeOK
    <3> QED
      BY <3>1 DEF AbortInv
  <2>2. CASE ~(child = c /\ job.state = "sent")
    BY <1>a, <2>2 DEF ExitArrives, Settleable, AbortInv
  <2> QED
    BY <2>1, <2>2
<1>8. ReplyInv'
  <2>1. CASE child = c /\ job.state = "sent"
    <3> DEFINE type == (IF flags.stopAsked THEN "lost" ELSE "exited")
    <3>1. type \in {"reply", "lost", "exited"} /\ (type = "exited" => asked = {})
      BY <1>a, <2>1 DEF AbortInv
    <3>2. job'.state = "settled" /\ job'.id = job.id /\ job'.reply = [type |-> type, from |-> c]
      BY <1>a, <2>1, <3>1, SettleJob DEF ExitArrives, Settleable
    <3>3. job'.reply.type = type /\ job'.reply.from = c /\ asked' = asked
      BY <3>2 DEF ExitArrives
    <3>4. job.id = c
      BY <1>a, <2>1 DEF ChildInv
    <3> QED
      BY <3>1, <3>2, <3>3, <3>4 DEF ReplyInv, Purposes
  <2>2. CASE ~(child = c /\ job.state = "sent")
    <3>1. job' = job /\ asked' = asked
      BY <2>2 DEF ExitArrives, Settleable
    <3> QED
      BY <1>a, <3>1 DEF ReplyInv
  <2> QED
    BY <2>1, <2>2
<1> QED
  BY <1>1, <1>2, <1>3, <1>4, <1>5, <1>6, <1>7, <1>8 DEF ExecutorInv, TypeOK

\* An error of a process keeps the invariant.
LEMMA LostKeeps == ASSUME ExecutorInv, NEW c \in Jobs, Lost(c) PROVE ExecutorInv'
<1>a. /\ JobTypeOK /\ FlagsTypeOK /\ ProcessTypeOK /\ ChildInv /\ ProcessInv /\ AbortInv /\ ReplyInv
      /\ mail \subseteq Jobs /\ stopping \in BOOLEAN /\ errors \in 0..MaxErrors
  BY DEF ExecutorInv, TypeOK
<1>1. JobTypeOK'
  <2>1. CASE child = c /\ job.state = "sent"
    <3>1. "lost" \in {"reply", "lost", "exited"}
      OBVIOUS
    <3> QED
      BY <1>a, <2>1, <3>1, SettleJob DEF Lost, Settleable
  <2>2. CASE ~(child = c /\ job.state = "sent")
    BY <1>a, <2>2 DEF Lost, Settleable, JobTypeOK
  <2> QED
    BY <2>1, <2>2
<1>2. FlagsTypeOK'
  BY <1>a, BoundsAssumption DEF FlagsTypeOK, Purposes, Unflagged, Lost, Settle, Settleable, TreeEnded
<1>3. ProcessTypeOK'
  BY <1>a, BoundsAssumption DEF ProcessTypeOK, JobTypeOK, Jobs, Lost, Settle, Settleable, TreeEnded
<1>4. (mail \subseteq Jobs /\ stopping \in BOOLEAN /\ errors \in 0..MaxErrors)'
  BY <1>a, BoundsAssumption DEF Jobs, ChildInv, Lost, Settle, Settleable, TreeEnded
<1>5. ChildInv'
  BY <1>a, BoundsAssumption DEF ChildInv, JobTypeOK, Jobs, Lost, Settle, Settleable, TreeEnded
<1>6. ProcessInv'
  <2>1. /\ job'.id = job.id
        /\ job'.state = job.state \/ (job.state = "sent" /\ job'.state = "settled")
    BY <1>a DEF Lost, Settleable, Settle, JobTypeOK
  <2>2. \A d \in Jobs : process[d] = "exited" => process'[d] = "exited"
    BY <1>a DEF Lost, TreeEnded, ProcessTypeOK
  <2>3. \A d \in Jobs : tree'[d] = tree[d] \/ (tree'[d] = "ended" /\ d = c)
    BY <1>a DEF Lost, TreeEnded, ProcessTypeOK
  <2>4. ~(job.id < c)
    BY <1>a DEF Lost, JobTypeOK, Jobs
  <2> QED
    BY <1>a, <2>1, <2>2, <2>3, <2>4 DEF ProcessInv
<1>7. AbortInv'
  BY <1>a, BoundsAssumption DEF AbortInv, ChildInv, JobTypeOK, FlagsTypeOK, Purposes, Unflagged, Lost, Settle, Settleable, TreeEnded
<1>8. ReplyInv'
  <2>1. CASE child = c /\ job.state = "sent"
    <3> DEFINE type == "lost"
    <3>1. type \in {"reply", "lost", "exited"} /\ (type = "exited" => asked = {})
      BY <1>a, <2>1 DEF AbortInv
    <3>2. job'.state = "settled" /\ job'.id = job.id /\ job'.reply = [type |-> type, from |-> c]
      BY <1>a, <2>1, <3>1, SettleJob DEF Lost, Settleable
    <3>3. job'.reply.type = type /\ job'.reply.from = c /\ asked' = asked
      BY <3>2 DEF Lost
    <3>4. job.id = c
      BY <1>a, <2>1 DEF ChildInv
    <3> QED
      BY <3>1, <3>2, <3>3, <3>4 DEF ReplyInv, Purposes
  <2>2. CASE ~(child = c /\ job.state = "sent")
    <3>1. job' = job /\ asked' = asked
      BY <2>2 DEF Lost, Settleable
    <3> QED
      BY <1>a, <3>1 DEF ReplyInv
  <2> QED
    BY <2>1, <2>2
<1> QED
  BY <1>1, <1>2, <1>3, <1>4, <1>5, <1>6, <1>7, <1>8 DEF ExecutorInv, TypeOK

\* A step that changes nothing keeps the invariant.
LEMMA StutterKeeps == ASSUME ExecutorInv, UNCHANGED vars PROVE ExecutorInv'
  BY DEF ExecutorInv, TypeOK, JobTypeOK, FlagsTypeOK, ProcessTypeOK, ChildInv, ProcessInv, AbortInv, ReplyInv, vars

\* Every step keeps the invariant.
LEMMA StepInv == ExecutorInv /\ [Next]_vars => ExecutorInv'
<1> SUFFICES ASSUME ExecutorInv, [Next]_vars PROVE ExecutorInv'
  OBVIOUS
<1>1. CASE \E kind \in JobKinds, started \in BOOLEAN : Begin(kind, started)
  BY <1>1, BeginKeeps
<1>2. CASE ContainFails
  BY <1>2, ContainFailsKeeps
<1>3. CASE Contained
  BY <1>3, ContainedKeeps
<1>4. CASE Refused
  BY <1>4, RefusedKeeps
<1>5. CASE EndTree
  BY <1>5, EndTreeKeeps
<1>6. CASE Resolve
  BY <1>6, ResolveKeeps
<1>7. CASE BoundPasses
  BY <1>7, BoundPassesKeeps
<1>8. CASE AbortJob
  BY <1>8, AbortJobKeeps
<1>9. CASE Stop
  BY <1>9, StopKeeps
<1>10. CASE StartsProcess
  BY <1>10, StartsProcessKeeps
<1>11. CASE Replies
  BY <1>11, RepliesKeeps
<1>12. CASE \E c \in Jobs : Dies(c)
  BY <1>12, DiesKeeps
<1>13. CASE \E c \in Jobs : ReplyArrives(c)
  BY <1>13, ReplyArrivesKeeps
<1>14. CASE \E c \in Jobs : ExitArrives(c)
  BY <1>14, ExitArrivesKeeps
<1>15. CASE \E c \in Jobs : Lost(c)
  BY <1>15, LostKeeps
<1>16. CASE UNCHANGED vars
  BY <1>16, StutterKeeps
<1> QED
  BY <1>1, <1>2, <1>3, <1>4, <1>5, <1>6, <1>7, <1>8, <1>9, <1>10, <1>11, <1>12, <1>13, <1>14, <1>15, <1>16 DEF Next, Daemon

\* The invariant holds in every reachable state.
THEOREM ExecutorInvariant == Spec => []ExecutorInv
<1>1. Init => ExecutorInv
  BY InitInv
<1>2. ExecutorInv /\ [Next]_vars => ExecutorInv'
  BY StepInv
<1> QED
  BY <1>1, <1>2, PTL DEF Spec

\* The executor's state keeps its type, however many jobs it runs.
THEOREM ExecutorTypeCorrect == Spec => []TypeOK
<1>1. ExecutorInv => TypeOK
  BY DEF ExecutorInv
<1> QED
  BY <1>1, ExecutorInvariant, PTL

\* Once a job's promise has resolved, no process of it or of a job before it runs (#settle and #unsent).
THEOREM NoProcessOutlives == Spec => []NothingOutlivesJob
<1>1. ExecutorInv => NothingOutlivesJob
  <2> SUFFICES ASSUME ExecutorInv, job.state = "idle", NEW c \in 1..job.id
               PROVE  process[c] = "exited" /\ tree[c] # "running"
    BY DEF NothingOutlivesJob
  <2>1. c \in Jobs /\ job.id \in Jobs /\ (c < job.id \/ c = job.id)
    BY BoundsAssumption DEF ExecutorInv, TypeOK, JobTypeOK, Jobs
  <2> QED
    BY <2>1 DEF ExecutorInv, ProcessInv
<1> QED
  BY <1>1, ExecutorInvariant, PTL

\* A job's record is its own process's reply, a crash is one no abort was asked of, and an abort's reason is an abort's
\* (#exited and #job).
THEOREM JobOutcomeIsOwn == Spec => []OutcomeIsOwn
<1>1. ExecutorInv => OutcomeIsOwn
  BY DEF ExecutorInv, ReplyInv, OutcomeIsOwn, Outcome
<1> QED
  BY <1>1, ExecutorInvariant, PTL

-----------------------------------------------------------------------------
(* The builds *)


Latests == [id : Nat, discovery : Nat, revision : Nat, built : BOOLEAN, moves : Nat]

\* The types of what the builds and the waits keep.
TypeInv ==
    /\ revision \in Nat /\ discovery \in Nat /\ builds \in Nat /\ moves \in Nat /\ inARow \in Nat
    /\ latest \in Latests \cup {NoBuild}
    /\ build \in [id : Nat, discovery : Nat, revision : Nat, timedOut : BOOLEAN, outcome : {"none", "built", "failed"}]
    /\ rounds \in [state : {"top", "settling", "waiting", "building", "ended"}, discovery : Nat, changes : BOOLEAN]
    /\ discards \in [total : Nat, consecutive : Nat]
    /\ caller \in [state : {"idle", "ready", "settling", "waiting"}, waitedFrom : Nat]
    /\ watch \in [state : {"closed", "ready", "ended()", "changed()", "ended"}, seen : SUBSET Nat]
    /\ recorded \subseteq Nat

\* The latest build is of no later revision than the inputs, and of an earlier one than the build in progress.
RevisionInv ==
    /\ latest # NoBuild => latest.revision <= revision
    /\ rounds.state = "building" =>
          /\ discovery # 0 /\ selectionInput
          /\ build.revision <= revision
          /\ latest # NoBuild => latest.revision < build.revision

\* Whom a build's end wakes waits for one, the watch while it is in ended(), which ends only at the daemon's stop.
WaitsInv ==
    /\ ownStop => stopped
    /\ "caller" \in waits => caller.state = "waiting"
    /\ "watch" \in waits <=> watch.state = "ended()"
    /\ watch.state = "ended" => stopped

\* What the watch has not seen is the latest build. Waiting for a build's end it has seen every one; waiting for the inputs
\* to change, none is pending, so none is recorded after an unseen one before it wakes.
WatchInv ==
    watch.state # "closed" /\ selectionInput /\ ~stopped =>
        /\ \A b \in recorded \ watch.seen : latest # NoBuild /\ latest.id = b
        /\ watch.state = "ended()" => recorded \subseteq watch.seen
        /\ watch.state = "changed()" => ~available \/ EndedAt(revision)
        /\ watch.state = "changed()" /\ rounds.state = "building" => recorded \subseteq watch.seen

\* The discards a waiting caller counts are no more than were discarded in a row while it waited; a build whose discovery
\* was replaced finds none counted in a row.
DiscardsInv ==
    /\ caller.state # "idle" => caller.waitedFrom <= discards.total /\ InARow <= inARow
    /\ rounds.state = "building" /\ discovery # build.discovery => discards.consecutive = 0

BuildsInv == TypeInv /\ NarrowingIsOwn /\ RevisionInv /\ WaitsInv /\ WatchInv /\ DiscardsInv

-----------------------------------------------------------------------------
\* The types after each action, and what each says of the builds.
\* Resolving the waits makes whoever is among them ready, and leaves what it has seen or waited from.
LEMMA ResolvedOf ==
    ASSUME TypeInv, WaitsInv, ResolveWaits
    PROVE  /\ waits' = {}
           /\ caller' \in [state : {"idle", "ready", "settling", "waiting"}, waitedFrom : Nat]
           /\ caller'.waitedFrom = caller.waitedFrom /\ (caller'.state = "idle" <=> caller.state = "idle")
           /\ watch' \in [state : {"closed", "ready", "ended()", "changed()", "ended"}, seen : SUBSET Nat]
           /\ watch'.seen = watch.seen
           /\ watch.state = "ended()" => watch'.state = "ready"
           /\ watch.state # "ended()" => watch'.state = watch.state
BY DEF TypeInv, WaitsInv, ResolveWaits


\* A step that only moves the rounds on, to no build, keeps the invariant.
LEMMA UnbuiltKeeps ==
    ASSUME BuildsInv, ResolveWaits \/ UnchangedWaits,
           UNCHANGED <<inputVars, stateVars, stopped, ownStop, build, builds, discards, failuresMet, watches, historyVars>>,
           rounds' \in [state : {"top", "settling", "waiting", "building", "ended"}, discovery : Nat, changes : BOOLEAN],
           rounds'.state # "building"
    PROVE  BuildsInv'
<1>1. UNCHANGED <<revision, available, events, discovery, selectionInput, latest, stopped, ownStop, build, builds, discards,
                  failuresMet, watches, moves, recorded, inARow>>
  BY DEF inputVars, stateVars, historyVars
<1>2. /\ caller' \in [state : {"idle", "ready", "settling", "waiting"}, waitedFrom : Nat]
      /\ caller'.waitedFrom = caller.waitedFrom /\ (caller'.state = "idle" <=> caller.state = "idle")
      /\ watch' \in [state : {"closed", "ready", "ended()", "changed()", "ended"}, seen : SUBSET Nat]
      /\ watch'.seen = watch.seen
      /\ watch'.state = watch.state \/ (watch.state = "ended()" /\ watch'.state = "ready")
  BY ResolvedOf DEF BuildsInv, TypeInv, UnchangedWaits
<1>3. TypeInv'
  BY <1>1, <1>2 DEF BuildsInv, TypeInv
<1>4. NarrowingIsOwn' /\ RevisionInv'
  BY <1>1 DEF BuildsInv, NarrowingIsOwn, RevisionInv
<1>5. WaitsInv'
  BY <1>1 DEF BuildsInv, TypeInv, WaitsInv, ResolveWaits, UnchangedWaits
<1>6. WatchInv'
  BY <1>1, <1>2 DEF BuildsInv, WatchInv, EndedAt
<1>7. DiscardsInv'
  BY <1>1, <1>2 DEF BuildsInv, DiscardsInv, InARow
<1> QED
  BY <1>3, <1>4, <1>5, <1>6, <1>7 DEF BuildsInv

\* A build recorded while the watch has seen every earlier one is the one the watch has still to see.
LEMMA RecordedOf ==
    ASSUME BuildsAssumption, BuildsInv, NEW b \in Nat, NEW d \in Nat, NEW r \in Nat, NEW built \in BOOLEAN, NEW left,
           Record(b, d, r, built, left), UNCHANGED <<stopped, selectionInput>>,
           watch.state # "closed" /\ selectionInput /\ ~stopped => recorded \subseteq watch.seen
    PROVE  /\ latest' \in Latests /\ latest'.id = b /\ latest'.discovery = d /\ latest'.revision = r /\ latest'.built = built
           /\ latest'.moves = moves /\ latest' # NoBuild
           /\ recorded' \subseteq Nat
           /\ watch'.state # "closed" /\ selectionInput /\ ~stopped =>
                 \A x \in recorded' \ watch'.seen : latest' # NoBuild /\ latest'.id = x
<1> DEFINE new == [id |-> b, discovery |-> d, revision |-> r, built |-> built, moves |-> moves]
<1>1. latest' = new /\ ResolveWaits /\ recorded' = IF watch.state = "closed" THEN recorded ELSE recorded \cup {b}
  BY DEF Record
<1>2. /\ new \in Latests /\ new.id = b /\ new.discovery = d /\ new.revision = r /\ new.built = built /\ new.moves = moves
  BY DEF BuildsInv, TypeInv, Latests
<1>3. new # NoBuild
  BY <1>2 DEF BuildsAssumption, Latests
<1> HIDE DEF new
<1>4. watch'.seen = watch.seen /\ (watch'.state = "closed" <=> watch.state = "closed")
  BY <1>1, ResolvedOf DEF BuildsInv
<1> QED
  BY <1>1, <1>2, <1>3, <1>4 DEF BuildsInv, TypeInv

\* A round that begins, waits or ends resolves waits and records nothing.
LEMMA RoundBeginsKeeps ==
    ASSUME BuildsAssumption, BuildsInv, RoundBegins
    PROVE  BuildsInv'
<1> DEFINE Round(state, d, changes) == [state |-> state, discovery |-> d, changes |-> changes]
<1>1. /\ UNCHANGED <<inputVars, stateVars, stopped, ownStop, build, builds, discards, failuresMet, watches, historyVars>>
      /\ ResolveWaits \/ UnchangedWaits
      /\ \E state \in {"ended", "waiting", "settling"}, d \in Nat, changes \in BOOLEAN : rounds' = Round(state, d, changes)
  <2>1. discovery \in Nat
    BY DEF BuildsInv, TypeInv
  <2>2. \/ rounds' = Round("ended", 0, FALSE) /\ ResolveWaits
        \/ rounds' = Round("waiting", 0, FALSE) /\ ResolveWaits
        \/ rounds' = Round("settling", discovery, FALSE) /\ UnchangedWaits
    BY DEF RoundBegins, Top
  <2>3. UNCHANGED <<inputVars, stateVars, stopped, ownStop, build, builds, discards, failuresMet, watches, historyVars>>
    BY DEF RoundBegins
  <2> HIDE DEF Round
  <2> QED
    BY <2>1, <2>2, <2>3
<1>2. rounds' \in [state : {"top", "settling", "waiting", "building", "ended"}, discovery : Nat, changes : BOOLEAN]
      /\ rounds'.state # "building"
  BY <1>1
<1> QED
  BY <1>1, <1>2, UnbuiltKeeps

\* A settled round that builds nothing resolves waits and records nothing.
LEMMA RoundSettledKeeps ==
    ASSUME BuildsAssumption, BuildsInv, RoundSettled
    PROVE  BuildsInv'
<1>1. /\ UNCHANGED <<inputVars, stateVars, stopped, ownStop, build, builds, discards, failuresMet, watches, historyVars>>
      /\ ResolveWaits \/ UnchangedWaits
      /\ rounds' = Top \/ rounds' = [state |-> "waiting", discovery |-> 0, changes |-> TRUE]
  BY DEF RoundSettled
<1>2. rounds' \in [state : {"top", "settling", "waiting", "building", "ended"}, discovery : Nat, changes : BOOLEAN]
  <2>1. {Top, [state |-> "waiting", discovery |-> 0, changes |-> TRUE]}
           \subseteq [state : {"top", "settling", "waiting", "building", "ended"}, discovery : Nat, changes : BOOLEAN]
    BY DEF Top
  <2> QED
    BY <1>1, <2>1
<1>3. rounds'.state # "building"
  BY <1>1 DEF Top
<1> QED
  BY <1>1, <1>2, <1>3, UnbuiltKeeps

\* A build begins at a revision no build has ended at.
LEMMA BuildBeginsKeeps ==
    ASSUME BuildsAssumption, BuildsInv, BuildBegins
    PROVE  BuildsInv'
<1>1. TypeInv'
  BY DEF BuildsInv, TypeInv, BuildBegins, UnchangedWaits, inputVars, stateVars
<1>2. NarrowingIsOwn'
  BY DEF BuildsInv, NarrowingIsOwn, BuildBegins, stateVars
<1>3. RevisionInv'
  BY DEF BuildsInv, RevisionInv, TypeInv, Latests, EndedAt, BuildBegins, Builds, inputVars, stateVars
<1>4. WaitsInv'
  BY DEF BuildsInv, WaitsInv, BuildBegins, UnchangedWaits
<1>5. WatchInv'
  BY DEF BuildsInv, WatchInv, WaitsInv, TypeInv, EndedAt, SomeReady, BuildBegins, Builds, UnchangedWaits
<1>6. DiscardsInv'
  BY DEF BuildsInv, DiscardsInv, InARow, BuildBegins, UnchangedWaits, stateVars
<1> QED
  BY <1>1, <1>2, <1>3, <1>4, <1>5, <1>6 DEF BuildsInv

\* A build that cannot begin is recorded, and narrows nothing.
LEMMA BuildCannotBeginKeeps ==
    ASSUME BuildsAssumption, BuildsInv, BuildCannotBegin
    PROVE  BuildsInv'
<1>1. TypeInv'
  BY ResolvedOf DEF BuildsInv, TypeInv, Latests, BuildCannotBegin, Record, Top, inputVars
<1>2. NarrowingIsOwn'
  BY ResolvedOf DEF NarrowingIsOwn, BuildCannotBegin, Record
<1>3. RevisionInv'
  BY ResolvedOf DEF BuildsInv, RevisionInv, TypeInv, BuildCannotBegin, Record, Top, inputVars
<1>4. WaitsInv'
  BY DEF BuildsInv, WaitsInv, BuildCannotBegin, Record, ResolveWaits
<1>5. WatchInv'
  <2> SUFFICES ASSUME watch'.state # "closed", selectionInput, ~stopped
               PROVE  /\ \A x \in recorded' \ watch'.seen : latest' # NoBuild /\ latest'.id = x
                      /\ watch'.state \notin {"ended()", "changed()"}
    BY DEF WatchInv, BuildCannotBegin
  <2>1. /\ ~SomeReady /\ available /\ ~EndedAt(revision)
        /\ Record(builds + 1, rounds.discovery, revision, FALSE, [discards EXCEPT !.consecutive = 0])
        /\ UNCHANGED <<stopped, selectionInput>>
    BY DEF BuildCannotBegin, Builds
  <2>2. watch'.seen = watch.seen /\ (watch.state = "ended()" => watch'.state = "ready")
        /\ (watch.state # "ended()" => watch'.state = watch.state)
    BY <2>1, ResolvedOf DEF BuildsInv, Record
  <2>3. watch.state = "ended()" /\ recorded \subseteq watch.seen
    BY <2>1, <2>2 DEF BuildsInv, WatchInv, WaitsInv, TypeInv, SomeReady
  <2>4. builds + 1 \in Nat /\ rounds.discovery \in Nat /\ revision \in Nat
    BY DEF BuildsInv, TypeInv
  <2> QED
    BY <2>1, <2>2, <2>3, <2>4, RecordedOf
<1>6. DiscardsInv'
  BY ResolvedOf DEF BuildsInv, DiscardsInv, TypeInv, InARow, BuildCannotBegin, Record
<1> QED
  BY <1>1, <1>2, <1>3, <1>4, <1>5, <1>6 DEF BuildsInv

\* Without a selection input every path counts inside.
LEMMA NoSelectionInputKeeps ==
    ASSUME BuildsAssumption, BuildsInv, NoSelectionInput
    PROVE  BuildsInv'
<1>1. TypeInv'
  BY DEF BuildsInv, TypeInv, NoSelectionInput, UnchangedWaits, Top, inputVars, historyVars
<1>2. NarrowingIsOwn'
  BY DEF NarrowingIsOwn, NoSelectionInput
<1>3. RevisionInv'
  BY DEF RevisionInv, NoSelectionInput, Top
<1>4. WaitsInv'
  BY DEF BuildsInv, WaitsInv, NoSelectionInput, UnchangedWaits
<1>5. WatchInv'
  BY DEF WatchInv, NoSelectionInput
<1>6. DiscardsInv'
  BY DEF BuildsInv, DiscardsInv, InARow, NoSelectionInput, UnchangedWaits, Top, historyVars
<1> QED
  BY <1>1, <1>2, <1>3, <1>4, <1>5, <1>6 DEF BuildsInv

\* The bound of a build says how it will be judged.
LEMMA BuildTimesOutKeeps ==
    ASSUME BuildsAssumption, BuildsInv, BuildTimesOut
    PROVE  BuildsInv'
<1>1. TypeInv'
  BY DEF BuildsInv, TypeInv, BuildTimesOut, inputVars, stateVars, historyVars
<1>2. NarrowingIsOwn'
  BY DEF BuildsInv, NarrowingIsOwn, BuildTimesOut, stateVars
<1>3. RevisionInv'
  BY DEF BuildsInv, RevisionInv, BuildTimesOut, inputVars, stateVars
<1>4. WaitsInv'
  BY DEF BuildsInv, WaitsInv, BuildTimesOut
<1>5. WatchInv'
  BY DEF BuildsInv, WatchInv, RevisionInv, WaitsInv, TypeInv, EndedAt, SomeReady, BuildTimesOut, inputVars, historyVars
<1>6. DiscardsInv'
  BY DEF BuildsInv, DiscardsInv, InARow, BuildTimesOut, stateVars, historyVars
<1> QED
  BY <1>1, <1>2, <1>3, <1>4, <1>5, <1>6 DEF BuildsInv

\* A build's end says how it will be judged.
LEMMA BuildReturnsKeeps ==
    ASSUME BuildsAssumption, BuildsInv, NEW outcome \in {"built", "failed"}, BuildReturns(outcome)
    PROVE  BuildsInv'
<1>1. TypeInv'
  BY DEF BuildsInv, TypeInv, BuildReturns, inputVars, stateVars, historyVars
<1>2. NarrowingIsOwn'
  BY DEF BuildsInv, NarrowingIsOwn, BuildReturns, stateVars
<1>3. RevisionInv'
  BY DEF BuildsInv, RevisionInv, BuildReturns, inputVars, stateVars
<1>4. WaitsInv'
  BY DEF BuildsInv, WaitsInv, BuildReturns
<1>5. WatchInv'
  BY DEF BuildsInv, WatchInv, RevisionInv, WaitsInv, TypeInv, EndedAt, SomeReady, BuildReturns, inputVars, historyVars
<1>6. DiscardsInv'
  BY DEF BuildsInv, DiscardsInv, InARow, BuildReturns, stateVars, historyVars
<1> QED
  BY <1>1, <1>2, <1>3, <1>4, <1>5, <1>6 DEF BuildsInv

\* A build judged is recorded over its own discovery and inputs, or discarded.
LEMMA BuildJudgedKeeps ==
    ASSUME BuildsAssumption, BuildsInv, NEW fingerprinted \in BOOLEAN, BuildJudged(fingerprinted)
    PROVE  BuildsInv'
<1>a. /\ rounds.state = "building" /\ ~SomeReady
      /\ UNCHANGED <<inputVars, discovery, selectionInput, stopped, ownStop, builds, watches>>
      /\ rounds' = Top /\ build' = Nothing /\ moves' = 0
  BY DEF BuildJudged
<1>b. \/ ResolveWaits /\ UNCHANGED <<latest, recorded>>
      \/ UnchangedWaits /\ UNCHANGED <<latest, recorded>>
      \/ \E built \in BOOLEAN : \E left : Record(build.id, build.discovery, build.revision, built, left)
  BY DEF BuildJudged
<1>c. build.id \in Nat /\ build.discovery \in Nat /\ build.revision \in Nat
  BY DEF BuildsInv, TypeInv
<1>d. /\ caller' \in [state : {"idle", "ready", "settling", "waiting"}, waitedFrom : Nat]
      /\ watch' \in [state : {"closed", "ready", "ended()", "changed()", "ended"}, seen : SUBSET Nat]
      /\ watch'.seen = watch.seen
      /\ watch'.state = watch.state \/ (watch.state = "ended()" /\ watch'.state = "ready")
  BY <1>b, ResolvedOf DEF BuildsInv, TypeInv, UnchangedWaits, Record
<1>e. watch.state # "closed" /\ selectionInput /\ ~stopped => recorded \subseteq watch.seen
  BY <1>a DEF BuildsInv, WatchInv, WaitsInv, TypeInv, SomeReady
<1>f. \/ UNCHANGED <<latest, recorded>>
      \/ /\ latest' \in Latests /\ recorded' \subseteq Nat /\ ResolveWaits
         /\ watch'.state # "closed" /\ selectionInput /\ ~stopped =>
               \A x \in recorded' \ watch'.seen : latest' # NoBuild /\ latest'.id = x
  BY <1>a, <1>b, <1>c, <1>e, RecordedOf DEF Record
<1>1. TypeInv'
  <2>1. /\ build' \in [id : Nat, discovery : Nat, revision : Nat, timedOut : BOOLEAN, outcome : {"none", "built", "failed"}]
        /\ rounds' \in [state : {"top", "settling", "waiting", "building", "ended"}, discovery : Nat, changes : BOOLEAN]
    BY <1>a DEF Nothing, Top
  <2>2. discards' \in [total : Nat, consecutive : Nat] /\ inARow' \in Nat
    BY DEF BuildJudged, Record, Kept, Discarded, Replaced, BuildsInv, TypeInv
  <2> QED
    BY <1>a, <1>d, <1>f, <2>1, <2>2 DEF BuildsInv, TypeInv, inputVars
<1>2. NarrowingIsOwn'
  BY ResolvedOf DEF BuildsInv, NarrowingIsOwn, BuildJudged, Record
<1>3. RevisionInv'
  BY ResolvedOf DEF BuildsInv, RevisionInv, BuildJudged, Record, Top, inputVars
<1>4. WaitsInv'
  BY DEF BuildsInv, WaitsInv, TypeInv, BuildJudged, Record, ResolveWaits, UnchangedWaits
<1>5. WatchInv'
  <2> SUFFICES ASSUME watch'.state # "closed", selectionInput, ~stopped
               PROVE  /\ \A x \in recorded' \ watch'.seen : latest' # NoBuild /\ latest'.id = x
                      /\ watch'.state = "ended()" => recorded' \subseteq watch'.seen
                      /\ watch'.state = "changed()" => ~available
    BY <1>a DEF WatchInv, Top, inputVars
  <2>1. watch.state # "closed"
    BY <1>d
  <2>2. \A x \in recorded' \ watch'.seen : latest' # NoBuild /\ latest'.id = x
    BY <1>d, <1>e, <1>f, <2>1 DEF BuildsInv, WatchInv
  <2>3. watch'.state = "ended()" => UNCHANGED <<latest, recorded>>
    BY <1>f, ResolvedOf DEF BuildsInv
  <2>4. ~EndedAt(revision)
    BY <1>a, <1>c DEF BuildsInv, TypeInv, RevisionInv, EndedAt
  <2> QED
    BY <1>d, <1>e, <2>1, <2>2, <2>3, <2>4 DEF BuildsInv, WatchInv
<1>6. DiscardsInv'
  BY ResolvedOf DEF BuildsInv, DiscardsInv, TypeInv, InARow, BuildJudged, Record, UnchangedWaits, Top, Kept, Discarded,
           Replaced
<1> QED
  BY <1>1, <1>2, <1>3, <1>4, <1>5, <1>6 DEF BuildsInv

\* The rounds' end stops the builds.
LEMMA RoundsThrowKeeps ==
    ASSUME BuildsAssumption, BuildsInv, RoundsThrow
    PROVE  BuildsInv'
<1>1. TypeInv'
  BY ResolvedOf DEF BuildsInv, TypeInv, RoundsThrow, Top, inputVars, stateVars, historyVars
<1>2. NarrowingIsOwn'
  BY ResolvedOf DEF BuildsInv, NarrowingIsOwn, RoundsThrow, stateVars
<1>3. RevisionInv'
  BY ResolvedOf DEF BuildsInv, RevisionInv, RoundsThrow, inputVars, stateVars
<1>4. WaitsInv'
  BY DEF BuildsInv, WaitsInv, RoundsThrow, ResolveWaits
<1>5. WatchInv'
  BY ResolvedOf DEF WatchInv, RoundsThrow
<1>6. DiscardsInv'
  BY ResolvedOf DEF BuildsInv, DiscardsInv, InARow, RoundsThrow, historyVars
<1> QED
  BY <1>1, <1>2, <1>3, <1>4, <1>5, <1>6 DEF BuildsInv

\* A new discovery takes effect with no build and no run watched.
LEMMA UseKeeps ==
    ASSUME BuildsAssumption, BuildsInv, Use
    PROVE  BuildsInv'
<1>1. TypeInv'
  BY DEF BuildsInv, TypeInv, Use, RoundsWoken, Top, inputVars
<1>2. NarrowingIsOwn'
  BY DEF NarrowingIsOwn, Use
<1>3. RevisionInv'
  BY DEF BuildsInv, RevisionInv, TypeInv, Use, RoundsWoken, Top, inputVars
<1>4. WaitsInv'
  BY DEF BuildsInv, WaitsInv, Use
<1>5. WatchInv'
  BY DEF WatchInv, Use
<1>6. DiscardsInv'
  BY DEF BuildsInv, DiscardsInv, TypeInv, InARow, Use
<1> QED
  BY <1>1, <1>2, <1>3, <1>4, <1>5, <1>6 DEF BuildsInv

\* The stop resolves every wait.
LEMMA StopBuildsKeeps ==
    ASSUME BuildsAssumption, BuildsInv, StopBuilds
    PROVE  BuildsInv'
<1>1. TypeInv'
  BY ResolvedOf DEF BuildsInv, TypeInv, StopBuilds, RoundsWoken, Top, inputVars, stateVars, historyVars
<1>2. NarrowingIsOwn'
  BY ResolvedOf DEF BuildsInv, NarrowingIsOwn, StopBuilds, stateVars
<1>3. RevisionInv'
  BY ResolvedOf DEF BuildsInv, RevisionInv, StopBuilds, RoundsWoken, Top, inputVars, stateVars
<1>4. WaitsInv'
  BY DEF BuildsInv, WaitsInv, StopBuilds, ResolveWaits
<1>5. WatchInv'
  BY ResolvedOf DEF WatchInv, StopBuilds
<1>6. DiscardsInv'
  BY ResolvedOf DEF BuildsInv, DiscardsInv, InARow, StopBuilds, RoundsWoken, Top, stateVars, historyVars
<1> QED
  BY <1>1, <1>2, <1>3, <1>4, <1>5, <1>6 DEF BuildsInv

\* A caller begins to wait at the discards there are.
LEMMA AwaitBuildKeeps ==
    ASSUME BuildsAssumption, BuildsInv, AwaitBuild
    PROVE  BuildsInv'
<1>1. TypeInv'
  BY DEF BuildsInv, TypeInv, AwaitBuild, inputVars, stateVars
<1>2. NarrowingIsOwn'
  BY DEF BuildsInv, NarrowingIsOwn, AwaitBuild, stateVars
<1>3. RevisionInv'
  BY DEF BuildsInv, RevisionInv, AwaitBuild, inputVars, stateVars
<1>4. WaitsInv'
  BY DEF BuildsInv, WaitsInv, AwaitBuild
<1>5. WatchInv'
  BY DEF BuildsInv, WatchInv, EndedAt, AwaitBuild, inputVars, stateVars
<1>6. DiscardsInv'
  BY DEF BuildsInv, DiscardsInv, TypeInv, InARow, AwaitBuild, stateVars
<1> QED
  BY <1>1, <1>2, <1>3, <1>4, <1>5, <1>6 DEF BuildsInv

\* A caller waits on, or returns and its run's watch closes.
LEMMA AwaitBuildLoopsKeeps ==
    ASSUME BuildsAssumption, BuildsInv, AwaitBuildLoops
    PROVE  BuildsInv'
<1>1. TypeInv'
  BY DEF BuildsInv, TypeInv, AwaitBuildLoops, Loop, Closed, inputVars, stateVars, historyVars
<1>2. NarrowingIsOwn'
  BY DEF BuildsInv, NarrowingIsOwn, AwaitBuildLoops, stateVars
<1>3. RevisionInv'
  BY DEF BuildsInv, RevisionInv, AwaitBuildLoops, inputVars, stateVars
<1>4. WaitsInv'
  BY DEF BuildsInv, WaitsInv, AwaitBuildLoops, Loop, Closed
<1>5. WatchInv'
  BY DEF BuildsInv, WatchInv, EndedAt, AwaitBuildLoops, Loop, Closed, inputVars, stateVars, historyVars
<1>6. DiscardsInv'
  BY DEF BuildsInv, DiscardsInv, InARow, AwaitBuildLoops, Loop, stateVars, historyVars
<1> QED
  BY <1>1, <1>2, <1>3, <1>4, <1>5, <1>6 DEF BuildsInv

\* A caller whose wait resolved waits on, or returns and its run's watch closes.
LEMMA AwaitBuildSettledKeeps ==
    ASSUME BuildsAssumption, BuildsInv, AwaitBuildSettled
    PROVE  BuildsInv'
<1>1. TypeInv'
  BY DEF BuildsInv, TypeInv, AwaitBuildSettled, Loop, Closed, inputVars, stateVars, historyVars
<1>2. NarrowingIsOwn'
  BY DEF BuildsInv, NarrowingIsOwn, AwaitBuildSettled, stateVars
<1>3. RevisionInv'
  BY DEF BuildsInv, RevisionInv, AwaitBuildSettled, inputVars, stateVars
<1>4. WaitsInv'
  BY DEF BuildsInv, WaitsInv, AwaitBuildSettled, Loop, Closed
<1>5. WatchInv'
  BY DEF BuildsInv, WatchInv, EndedAt, AwaitBuildSettled, Loop, Closed, inputVars, stateVars, historyVars
<1>6. DiscardsInv'
  BY DEF BuildsInv, DiscardsInv, InARow, AwaitBuildSettled, Loop, stateVars, historyVars
<1> QED
  BY <1>1, <1>2, <1>3, <1>4, <1>5, <1>6 DEF BuildsInv

\* A watch opens with the latest build seen and none recorded since.
LEMMA WatchOpensKeeps ==
    ASSUME BuildsAssumption, BuildsInv, WatchOpens
    PROVE  BuildsInv'
<1>1. TypeInv'
  BY DEF BuildsInv, TypeInv, Latests, WatchOpens, inputVars, stateVars
<1>2. NarrowingIsOwn'
  BY DEF BuildsInv, NarrowingIsOwn, WatchOpens, stateVars
<1>3. RevisionInv'
  BY DEF BuildsInv, RevisionInv, WatchOpens, inputVars, stateVars
<1>4. WaitsInv'
  BY DEF BuildsInv, WaitsInv, WatchOpens
<1>5. WatchInv'
  BY DEF WatchInv, WatchOpens
<1>6. DiscardsInv'
  BY DEF BuildsInv, DiscardsInv, WatchOpens, stateVars
<1> QED
  BY <1>1, <1>2, <1>3, <1>4, <1>5, <1>6 DEF BuildsInv

\* A watch captures the latest build before it waits.
LEMMA WatchLoopsKeeps ==
    ASSUME BuildsAssumption, BuildsInv, WatchLoops
    PROVE  BuildsInv'
<1>1. TypeInv'
  BY DEF BuildsInv, TypeInv, Latests, WatchLoops, Captured, inputVars, stateVars, historyVars
<1>2. NarrowingIsOwn'
  BY DEF BuildsInv, NarrowingIsOwn, WatchLoops, stateVars
<1>3. RevisionInv'
  BY DEF BuildsInv, RevisionInv, WatchLoops, inputVars, stateVars
<1>4. WaitsInv'
  BY DEF BuildsInv, WaitsInv, WatchLoops, BuildPending
<1>5. WatchInv'
  BY DEF BuildsInv, WatchInv, EndedAt, WatchLoops, Captured, BuildPending, inputVars, stateVars, historyVars
<1>6. DiscardsInv'
  BY DEF BuildsInv, DiscardsInv, InARow, WatchLoops, stateVars, historyVars
<1> QED
  BY <1>1, <1>2, <1>3, <1>4, <1>5, <1>6 DEF BuildsInv

\* A watch closes.
LEMMA WatchClosesKeeps ==
    ASSUME BuildsAssumption, BuildsInv, WatchCloses
    PROVE  BuildsInv'
<1>1. TypeInv'
  BY DEF BuildsInv, TypeInv, WatchCloses, Closed, inputVars, stateVars, historyVars
<1>2. NarrowingIsOwn'
  BY DEF BuildsInv, NarrowingIsOwn, WatchCloses, stateVars
<1>3. RevisionInv'
  BY DEF BuildsInv, RevisionInv, WatchCloses, inputVars, stateVars
<1>4. WaitsInv'
  BY DEF BuildsInv, WaitsInv, WatchCloses, Closed
<1>5. WatchInv'
  BY DEF WatchInv, WatchCloses, Closed
<1>6. DiscardsInv'
  BY DEF BuildsInv, DiscardsInv, WatchCloses, stateVars
<1> QED
  BY <1>1, <1>2, <1>3, <1>4, <1>5, <1>6 DEF BuildsInv

\* Inputs that become unavailable tell nobody.
LEMMA UnavailableKeeps ==
    ASSUME BuildsAssumption, BuildsInv, NEW loses \in BOOLEAN, Unavailable(loses)
    PROVE  BuildsInv'
<1>1. TypeInv'
  BY DEF BuildsInv, TypeInv, Unavailable, stateVars
<1>2. NarrowingIsOwn'
  BY DEF BuildsInv, NarrowingIsOwn, Unavailable, stateVars
<1>3. RevisionInv'
  BY DEF BuildsInv, RevisionInv, Unavailable, stateVars
<1>4. WaitsInv'
  BY DEF BuildsInv, WaitsInv, Unavailable
<1>5. WatchInv'
  BY DEF BuildsInv, WatchInv, Unavailable, stateVars
<1>6. DiscardsInv'
  BY DEF BuildsInv, DiscardsInv, InARow, Unavailable, stateVars
<1> QED
  BY <1>1, <1>2, <1>3, <1>4, <1>5, <1>6 DEF BuildsInv

\* Inputs that move or are vouched for again wake a watch that waits for it.
LEMMA SignalsKeeps ==
    ASSUME BuildsAssumption, BuildsInv, NEW moved \in BOOLEAN, NEW vouched \in BOOLEAN, Signals(moved, vouched)
    PROVE  BuildsInv'
<1>1. TypeInv'
  BY DEF BuildsInv, TypeInv, Signals, Changed, RoundsWoken, Top, stateVars
<1>2. NarrowingIsOwn'
  BY DEF BuildsInv, NarrowingIsOwn, Signals, stateVars
<1>3. RevisionInv'
  BY DEF BuildsInv, RevisionInv, TypeInv, Latests, Signals, Changed, RoundsWoken, Top, stateVars
<1>4. WaitsInv'
  BY DEF BuildsInv, WaitsInv, Signals, Changed
<1>5. WatchInv'
  BY DEF BuildsInv, WatchInv, Signals, Changed, stateVars
<1>6. DiscardsInv'
  BY DEF BuildsInv, DiscardsInv, InARow, Signals, Changed, RoundsWoken, Top, stateVars
<1> QED
  BY <1>1, <1>2, <1>3, <1>4, <1>5, <1>6 DEF BuildsInv

-----------------------------------------------------------------------------
\* The invariant holds at the daemon's start.
LEMMA BuildsInitInv ==
    ASSUME BuildsAssumption, BuildsInit
    PROVE  BuildsInv
<1>1. TypeInv
  BY DEF BuildsInit, TypeInv, Top, Nothing, Closed
<1> QED
  BY <1>1 DEF BuildsInit, BuildsInv, NarrowingIsOwn, RevisionInv, WaitsInv, WatchInv, DiscardsInv, Top, Closed

\* Every step keeps the invariant.
LEMMA BuildsStepInv ==
    ASSUME BuildsAssumption
    PROVE  BuildsInv /\ [BuildsNext]_buildsVars => BuildsInv'
<1> SUFFICES ASSUME BuildsInv, [BuildsNext]_buildsVars PROVE BuildsInv'
  OBVIOUS
<1>1. CASE Rounds \/ BuildTimesOut \/ Returns \/ Judged \/ RoundsThrow
  BY <1>1, RoundBeginsKeeps, RoundSettledKeeps, BuildBeginsKeeps, BuildCannotBeginKeeps, NoSelectionInputKeeps,
     BuildTimesOutKeeps, BuildReturnsKeeps, BuildJudgedKeeps, RoundsThrowKeeps DEF Rounds, Returns, Judged
<1>2. CASE Use \/ StopBuilds
  BY <1>2, UseKeeps, StopBuildsKeeps
<1>3. CASE AwaitBuild \/ AwaitBuildLoops \/ AwaitBuildSettled
  BY <1>3, AwaitBuildKeeps, AwaitBuildLoopsKeeps, AwaitBuildSettledKeeps
<1>4. CASE WatchOpens \/ WatchLoops \/ WatchCloses
  BY <1>4, WatchOpensKeeps, WatchLoopsKeeps, WatchClosesKeeps
<1>5. CASE \E loses \in BOOLEAN : Unavailable(loses)
  BY <1>5, UnavailableKeeps
<1>6. CASE \E moved, vouched \in BOOLEAN : Signals(moved, vouched)
  BY <1>6, SignalsKeeps
<1>7. CASE UNCHANGED buildsVars
  <2>1. UNCHANGED <<revision, available, events, discovery, selectionInput, latest, stopped, ownStop, rounds, build, builds,
                    discards, waits, caller, watch, failuresMet, watches, moves, recorded, inARow>>
    BY <1>7 DEF buildsVars, inputVars, stateVars, historyVars
  <2> QED
    BY <2>1 DEF BuildsInv, TypeInv, NarrowingIsOwn, RevisionInv, WaitsInv, WatchInv, DiscardsInv, EndedAt, InARow
<1> QED
  BY <1>1, <1>2, <1>3, <1>4, <1>5, <1>6, <1>7 DEF BuildsNext

\* The invariant holds in every reachable state.
THEOREM BuildsInvariant == ASSUME BuildsAssumption PROVE BuildsSpec => []BuildsInv
<1>1. BuildsInit => BuildsInv
  BY BuildsInitInv
<1>2. BuildsInv /\ [BuildsNext]_buildsVars => BuildsInv'
  BY BuildsStepInv
<1> QED
  BY <1>1, <1>2, PTL DEF BuildsSpec

\* For any bounds: a build that narrows the inputs is of the discovery in effect and of inputs none of which moved under
\* it, and the watch of a run has seen every build recorded while the run runs but the latest (#record, RunWatch).
THEOREM BuildsNarrowTheirOwn == ASSUME BuildsAssumption PROVE BuildsSpec => []BuildsAreOwn
<1>1. BuildsInv => BuildsAreOwn
  BY DEF BuildsInv, WatchInv, BuildsAreOwn, WatchMissesNone
<1> QED
  BY <1>1, BuildsInvariant, PTL

\* For any bounds, a wait gives up a build that is pending only after WaitsThrough in a row were discarded under it
\* (awaitBuild).
THEOREM WaitsThroughDiscards == ASSUME BuildsAssumption PROVE BuildsSpec => GivesUpAfterDiscards
<1> DEFINE GivenUp == caller.state # "idle" /\ caller'.state = "idle" /\ BuildPending => inARow >= WaitsThrough
<1>1. BuildsInv /\ [BuildsNext]_buildsVars => [GivenUp]_buildsVars
  <2> SUFFICES ASSUME BuildsInv, BuildsNext, caller.state # "idle", caller'.state = "idle", BuildPending
               PROVE  inARow >= WaitsThrough
    OBVIOUS
  <2>1. TypeInv /\ WaitsInv /\ InARow <= inARow /\ WaitsThrough \in Nat
    BY DEF BuildsInv, DiscardsInv, BuildsAssumption
  <2>2. InARow \in Nat
    BY <2>1 DEF InARow, TypeInv, BuildsInv, DiscardsInv
  <2>3. CASE AwaitBuildLoops \/ AwaitBuildSettled
    <3>1. Loop(caller.waitedFrom)
      BY <2>3 DEF AwaitBuildLoops, AwaitBuildSettled
    <3>2. InARow >= WaitsThrough
      BY <3>1 DEF Loop
    <3> QED
      BY <2>1, <2>2, <3>2 DEF TypeInv
  <2>4. CASE ~(AwaitBuildLoops \/ AwaitBuildSettled)
    <3>1. caller' = caller \/ ResolveWaits
      BY <2>4 DEF BuildsNext, Rounds, Returns, Judged, RoundBegins, RoundSettled, BuildBegins, BuildCannotBegin,
               NoSelectionInput, BuildTimesOut, BuildReturns, BuildJudged, RoundsThrow, Use, StopBuilds, AwaitBuild,
               WatchOpens, WatchLoops, WatchCloses, Unavailable, Signals, Record, UnchangedWaits
    <3> QED
      BY <2>1, <3>1, ResolvedOf
  <2> QED
    BY <2>3, <2>4
<1> QED
  BY <1>1, BuildsInvariant, PTL DEF BuildsSpec, GivesUpAfterDiscards

-----------------------------------------------------------------------------
(* The falsification job *)

\* What the records may say of e: a run that reads survived was of a test that lets the mutation pass, and the run of a
\* test that does not reject it fails by what was left behind or by the one flake.
Truthful(e, r, truly, left, flaked) ==
    r.status # "not-run" =>
        /\ ReadRun(r.run).verdict = "survived" => e \notin truly
        /\ e \notin truly /\ WouldDetect(r.run) => left \/ flaked = 1
        /\ /\ e \notin truly /\ WouldDetect(r.run)
           /\ r.confirming # None /\ r.confirming.status = "ran" /\ WouldDetect(r.confirming.run)
           => left

InRun == {"baseline", "first", "confirming", "restored"}
Over == {"closing", "replied"}

\* The experiments that have their record.
Done ==
    {e \in E : \/ e \notin Planned \/ phase \in {"restored", "closing", "replied"}
               \/ phase = "first" /\ \E k \in 1..(at - 1) : Experiments[k] = e
               \/ phase = "confirming" /\ \E k \in 1..at : Experiments[k] = e}

\* Where a job is: at a planned experiment while it runs one, which has its record once it is to be confirmed.
PlaceInv ==
    /\ phase \in InRun \cup Over
    /\ phase \in {"first", "confirming"} => at \in 1..Len(Experiments) /\ Experiments[at] \in Planned
    /\ DOMAIN records = E
    /\ phase = "confirming" =>
          records[Experiments[at]] = [status |-> "ran", run |-> records[Experiments[at]].run, confirming |-> None]

DamageInv == flakes \in {0, 1} /\ dirty \in BOOLEAN

\* A transform still running applies no mutation but those of the file mutated last, which the next run freshens, and
\* while a run is in progress none but its own, nor is another's cached.
AloneInv ==
    /\ running \in BOOLEAN /\ (running => phase \in InRun)
    /\ active = IF running THEN Current ELSE None
    /\ active # None => active \in E /\ lastMutated = FileOf[active]
    /\ \A f \in Files :
          /\ transforms[f] \in {"empty", None} \/ f = lastMutated
          /\ running => transforms[f] \in {"empty", None, Current} /\ cache[f] \in {"empty", None, Current}
    /\ running => served \subseteq {None, Current}
    /\ DOMAIN cache = Files /\ DOMAIN transforms = Files

\* Every record made says nothing untrue, and one of an interrupted run leaves the job without a restored baseline.
RecordsInv ==
    /\ \A e \in E \ Planned : records[e] = NotRun(checked[e])
    /\ \A e \in Done : Truthful(e, records[e], rejects, dirty, flakes)
    /\ restored # None => phase \in Over
    /\ \A e \in Done \cap Planned : WasInterrupted(records[e]) => phase \in Over /\ restored = None

\* A restored baseline in which a test passed ran over nothing left behind.
RestoredInv ==
    restored # None /\ restored.ran =>
        \A e \in E : restored.facts[e].test = "passed" /\ Untroubled(restored.facts[e]) => ~dirty

\* The reply is the last step, so that what it was judged from stays.
RepliedInv ==
    /\ phase # "replied" => reply = None
    /\ checked \in [E -> StartChecks] /\ rejects \subseteq E
    /\ VerdictsTrue /\ ReplyShape

VerdictsInv == PlaceInv /\ DamageInv /\ AloneInv /\ RecordsInv /\ RestoredInv /\ RepliedInv

\* The kinds of step, and what the facts of a run say of the experiment in progress and of what was left behind.
Kinds == {"ran", "run-failed", "interrupted", "stale-modules"}
FactsTrue(step, left, flaked) ==
    step.kind = "ran" =>
        /\ Current # None =>
              /\ ReadRun(step.facts[Current]).verdict = "survived" => Current \notin rejects
              /\ Current \notin rejects /\ WouldDetect(step.facts[Current]) => left \/ (flaked = 1 /\ flakes = 0)
        /\ phase = "restored" =>
              \A e \in E : step.facts[e].test = "passed" /\ Untroubled(step.facts[e]) => ~left

\* A set of numbers that has any has a least.
LEMMA LeastPosition ==
    ASSUME NEW T, T \subseteq Nat, T # {}
    PROVE  \E n \in T : \A m \in T : n <= m
<1>1. IsWellFoundedOn(OpToRel(<, Nat), Nat)
  BY NatLessThanWellFounded, Zenon
<1>2. PICK n \in T : \A m \in T : ~(<<m, n>> \in OpToRel(<, Nat))
  BY <1>1, WFMin, Zenon
<1>3. \A m \in T : ~(m < n)
  BY <1>2 DEF OpToRel
<1> QED
  BY <1>3

-----------------------------------------------------------------------------
(* Where a job goes on *)

\* An experiment is at a position, and no experiment is None.
LEMMA Positions ==
    ASSUME JobAssumption
    PROVE  /\ Len(Experiments) \in Nat
           /\ \A k \in 1..Len(Experiments) : Experiments[k] \in E
           /\ \A e \in E : e # None /\ e # "empty" /\ \E k \in 1..Len(Experiments) : Experiments[k] = e
           /\ None # "empty"
<1>1. Len(Experiments) \in Nat
  BY DEF JobAssumption
<1> QED
  BY <1>1 DEF JobAssumption, E

\* The next experiment is a later one of those passed, or there is none and the position is past the last.
LEMMA NextAtIs ==
    ASSUME JobAssumption, NEW i \in 0..Len(Experiments), NEW passed
    PROVE  /\ NextAt(i, passed) \in (i + 1)..(Len(Experiments) + 1)
           /\ NextAt(i, passed) <= Len(Experiments) => Experiments[NextAt(i, passed)] \in passed
<1> DEFINE later == {j \in (i + 1)..Len(Experiments) : Experiments[j] \in passed}
<1>1. Len(Experiments) \in Nat
  BY Positions
<1>2. CASE later = {}
  BY <1>1, <1>2 DEF NextAt
<1>3. CASE later # {}
  <2>1. \E j \in later : \A k \in later : j <= k
    <3>1. later \subseteq Nat
      BY <1>1
    <3> HIDE DEF later
    <3> QED
      BY <1>3, <3>1, LeastPosition
  <2>2. NextAt(i, passed) = CHOOSE j \in later : \A k \in later : j <= k
    BY <1>3 DEF NextAt
  <2>3. NextAt(i, passed) \in later
    <3> HIDE DEF later
    <3> QED
      BY <2>1, <2>2
  <2> QED
    BY <1>1, <2>3
<1> QED
  BY <1>2, <1>3

\* Only planned experiments are passed over.
LEMMA BetweenIsPlanned ==
    ASSUME NEW i, NEW j
    PROVE  Between(i, j) \subseteq Planned
  BY DEF Between

\* Going on: the experiments passed over have no run, the others keep their record, and all up to the next have one.
LEMMA OnwardKeeps ==
    ASSUME JobAssumption, NEW recs, DOMAIN recs = E, NEW i \in 0..Len(Experiments), NEW before, checked' = checked,
           Onward(recs, i, before)
    PROVE  /\ phase' \in {"first", "restored", "closing"}
           /\ phase' = "first" => at' \in 1..Len(Experiments) /\ Experiments[at'] \in Planned
           /\ DOMAIN records' = E
           /\ \A e \in E : \/ e \notin Between(i, at') /\ records'[e] = recs[e]
                           \/ e \in Between(i, at') /\ records'[e].status = "not-run" /\ ~WasInterrupted(records'[e])
           /\ \A e \in Done' : e \notin Planned \/ e \in Between(i, at') \/ \E k \in 1..i : Experiments[k] = e
<1> DEFINE j == NextAt(i, Passed(before))
           why == IF before.ran THEN "baseline-not-passed" ELSE "baseline-not-run"
<1>1. at' = j /\ records' = [e \in E |-> IF e \in Between(i, j) THEN NotRun(why) ELSE recs[e]]
  BY DEF Onward
<1>2. \/ phase' = "first" /\ j <= Len(Experiments)
      \/ phase' \in {"restored", "closing"} /\ ~(j <= Len(Experiments))
  <2> DEFINE skipped == [e \in E |-> IF e \in Between(i, j) THEN NotRun(why) ELSE recs[e]]
             anyRan == \E e \in E : skipped[e] # None /\ skipped[e].status = "ran"
  <2>1. phase' = IF j <= Len(Experiments) THEN "first" ELSE IF anyRan THEN "restored" ELSE "closing"
    BY DEF Onward
  <2> HIDE DEF skipped, anyRan, j, why
  <2>2. CASE j <= Len(Experiments)
    BY <2>1, <2>2
  <2>3. CASE ~(j <= Len(Experiments))
    BY <2>1, <2>3
  <2> QED
    BY <2>2, <2>3
<1>3. j \in (i + 1)..(Len(Experiments) + 1) /\ (j <= Len(Experiments) => Experiments[j] \in Passed(before))
  BY NextAtIs
<1>4. Passed(before) \subseteq Planned
  BY DEF Passed
<1>5. Len(Experiments) \in Nat /\ \A e \in E : \E k \in 1..Len(Experiments) : Experiments[k] = e
  BY Positions
<1>6. NotRun(why).status = "not-run" /\ ~WasInterrupted(NotRun(why))
  BY DEF NotRun, WasInterrupted
<1>7. ASSUME NEW e \in Done', e \in Planned, ~\E k \in 1..i : Experiments[k] = e PROVE e \in Between(i, at')
  <2>1. e \in E
    BY <1>7 DEF Planned
  <2>2. \E k \in 1..(j - 1) : Experiments[k] = e
    <3>1. CASE phase' = "first"
      <4>1. e \in Planned'
        BY <1>7 DEF Planned
      <4> QED
        BY <1>1, <1>7, <3>1, <4>1 DEF Done
    <3>2. CASE ~(j <= Len(Experiments))
      BY <1>3, <1>5, <2>1, <3>2
    <3> QED
      BY <1>2, <3>1, <3>2
  <2>3. PICK k \in 1..(j - 1) : Experiments[k] = e
    BY <2>2
  <2>4. k \in (i + 1)..(j - 1)
    BY <1>3, <1>5, <1>7, <2>3
  <2> QED
    BY <1>1, <1>7, <2>3, <2>4 DEF Between
<1> HIDE DEF j, why
<1>8. phase' = "first" => at' \in 1..Len(Experiments) /\ Experiments[at'] \in Planned
  BY <1>1, <1>2, <1>3, <1>4, <1>5
<1>9. \A e \in E : \/ e \notin Between(i, at') /\ records'[e] = recs[e]
                   \/ e \in Between(i, at') /\ records'[e].status = "not-run" /\ ~WasInterrupted(records'[e])
  BY <1>1, <1>6
<1> QED
  BY <1>1, <1>2, <1>7, <1>8, <1>9

\* An interrupted job: every later experiment has no run, and every experiment has its record.
LEMMA InterruptedKeeps ==
    ASSUME JobAssumption, NEW recs, DOMAIN recs = E, NEW i \in 0..Len(Experiments), checked' = checked, Interrupted(recs, i)
    PROVE  /\ phase' = "closing" /\ DOMAIN records' = E
           /\ \A e \in E : \/ e \notin Between(i, Len(Experiments) + 1) /\ records'[e] = recs[e]
                           \/ e \in Between(i, Len(Experiments) + 1) /\ records'[e].status = "not-run"
           /\ \A e \in E : e \notin Planned \/ e \in Between(i, Len(Experiments) + 1) \/ \E k \in 1..i : Experiments[k] = e
<1>1. Len(Experiments) \in Nat /\ \A e \in E : \E k \in 1..Len(Experiments) : Experiments[k] = e
  BY Positions
<1>2. ASSUME NEW e \in E, e \in Planned, ~\E k \in 1..i : Experiments[k] = e PROVE e \in Between(i, Len(Experiments) + 1)
  <2>1. PICK k \in 1..Len(Experiments) : Experiments[k] = e
    BY <1>1
  <2>2. k \in (i + 1)..((Len(Experiments) + 1) - 1)
    BY <1>1, <1>2, <2>1
  <2> QED
    BY <1>2, <2>1, <2>2 DEF Between
<1> QED
  BY <1>2 DEF Interrupted, NotRun

\* A record that says nothing untrue, and of no interrupted run.
Sound(e, r, left, flaked) == Truthful(e, r, rejects, left, flaked) /\ (e \in Planned => ~WasInterrupted(r))

\* Going on from sound records to an experiment or past the last keeps what is known of the records.
LEMMA OnwardSound ==
    ASSUME JobAssumption, NEW recs, DOMAIN recs = E, NEW i \in 0..Len(Experiments), NEW before,
           checked' = checked, rejects' = rejects, restored' = restored, restored = None,
           \A e \in E \ Planned : recs[e] = NotRun(checked[e]),
           \A k \in 1..i : Experiments[k] \in Planned => Sound(Experiments[k], recs[Experiments[k]], dirty', flakes'),
           Onward(recs, i, before)
    PROVE  PlaceInv' /\ RecordsInv' /\ RestoredInv'
<1>1. /\ phase' \in {"first", "restored", "closing"}
      /\ phase' = "first" => at' \in 1..Len(Experiments) /\ Experiments[at'] \in Planned
      /\ DOMAIN records' = E
      /\ \A e \in E : \/ e \notin Between(i, at') /\ records'[e] = recs[e]
                      \/ e \in Between(i, at') /\ records'[e].status = "not-run" /\ ~WasInterrupted(records'[e])
      /\ \A e \in Done' : e \notin Planned \/ e \in Between(i, at') \/ \E k \in 1..i : Experiments[k] = e
  BY OnwardKeeps
<1>2. Planned' = Planned /\ Done' \subseteq E /\ Between(i, at') \subseteq Planned
  BY BetweenIsPlanned DEF Planned, Done
<1>3. PlaceInv'
  BY <1>1, <1>2 DEF PlaceInv, InRun, Over
<1>4. \A e \in E \ Planned : records'[e] = NotRun(checked[e])
  BY <1>1, <1>2
<1>5. ASSUME NEW e \in Done' PROVE Sound(e, records'[e], dirty', flakes')
  <2>1. CASE e \notin Planned
    BY <1>2, <1>4, <1>5, <2>1 DEF Sound, Truthful, NotRun
  <2>2. CASE e \in Between(i, at')
    BY <1>1, <1>2, <1>5, <2>2 DEF Sound, Truthful
  <2>3. CASE e \notin Between(i, at') /\ e \in Planned
    <3>1. PICK k \in 1..i : Experiments[k] = e
      BY <1>1, <1>5, <2>3
    <3>2. records'[e] = recs[e]
      BY <1>1, <1>2, <1>5, <2>3
    <3> QED
      BY <2>3, <3>1, <3>2
  <2> QED
    BY <2>1, <2>2, <2>3
<1>6. RecordsInv'
  BY <1>2, <1>4, <1>5 DEF RecordsInv, Sound
<1>7. RestoredInv'
  BY DEF RestoredInv
<1> QED
  BY <1>3, <1>6, <1>7

\* So does an interruption, which leaves no restored baseline.
LEMMA InterruptedSound ==
    ASSUME JobAssumption, NEW recs, DOMAIN recs = E, NEW i \in 0..Len(Experiments),
           checked' = checked, rejects' = rejects, restored' = restored, restored = None,
           \A e \in E \ Planned : recs[e] = NotRun(checked[e]),
           \A k \in 1..i : Experiments[k] \in Planned => Truthful(Experiments[k], recs[Experiments[k]], rejects, dirty', flakes'),
           Interrupted(recs, i)
    PROVE  PlaceInv' /\ RecordsInv' /\ RestoredInv'
<1>1. /\ phase' = "closing" /\ DOMAIN records' = E
      /\ \A e \in E : \/ e \notin Between(i, Len(Experiments) + 1) /\ records'[e] = recs[e]
                      \/ e \in Between(i, Len(Experiments) + 1) /\ records'[e].status = "not-run"
      /\ \A e \in E : e \notin Planned \/ e \in Between(i, Len(Experiments) + 1) \/ \E k \in 1..i : Experiments[k] = e
  BY InterruptedKeeps
<1>2. Planned' = Planned /\ Done' \subseteq E /\ Between(i, Len(Experiments) + 1) \subseteq Planned
  BY BetweenIsPlanned DEF Planned, Done
<1>3. PlaceInv'
  BY <1>1, <1>2 DEF PlaceInv, InRun, Over
<1>4. \A e \in E \ Planned : records'[e] = NotRun(checked[e])
  BY <1>1, <1>2
<1>5. ASSUME NEW e \in E PROVE Truthful(e, records'[e], rejects, dirty', flakes')
  <2>1. CASE e \notin Planned
    BY <1>4, <1>5, <2>1 DEF Truthful, NotRun
  <2>2. CASE e \in Between(i, Len(Experiments) + 1)
    BY <1>1, <1>2, <1>5, <2>2 DEF Truthful
  <2>3. CASE e \notin Between(i, Len(Experiments) + 1) /\ e \in Planned
    <3>1. PICK k \in 1..i : Experiments[k] = e
      BY <1>1, <1>5, <2>3
    <3>2. records'[e] = recs[e]
      BY <1>1, <1>2, <1>5, <2>3
    <3> QED
      BY <2>3, <3>1, <3>2
  <2> QED
    BY <2>1, <2>2, <2>3
<1>6. RecordsInv'
  BY <1>1, <1>2, <1>4, <1>5 DEF RecordsInv, Over
<1>7. RestoredInv'
  BY DEF RestoredInv
<1> QED
  BY <1>3, <1>6, <1>7

-----------------------------------------------------------------------------
(* What a run's end, or its refusal, records *)

\* What was said of a record stays true as flakes and damage grow.
LEMMA ToldGrows ==
    ASSUME NEW e, NEW r, Truthful(e, r, rejects, dirty, flakes), flakes \in {0, 1}, flakes' \in {0, 1}, flakes <= flakes',
           dirty \in BOOLEAN, dirty' \in BOOLEAN, dirty => dirty'
    PROVE  Truthful(e, r, rejects, dirty', flakes')
<1>1. flakes = 1 => flakes' = 1
  OBVIOUS
<1> QED
  BY <1>1 DEF Truthful

\* all and #experiment keep what is known, whichever way the run in progress ended or was refused.
LEMMA StepKeeps ==
    ASSUME JobAssumption, PlaceInv, DamageInv, RecordsInv, DamageInv', flakes <= flakes', dirty => dirty',
           checked' = checked, rejects' = rejects,
           NEW step, step.kind \in Kinds, FactsTrue(step, dirty', flakes'), StepEnds(step)
    PROVE  PlaceInv' /\ RecordsInv' /\ RestoredInv'
<1>1. Len(Experiments) \in Nat /\ None # "empty" /\ \A e \in E : e # None
  BY Positions
<1>2. \A e \in E \ Planned : records[e] = NotRun(checked[e])
  BY DEF RecordsInv
<1>3. phase \in InRun
  BY DEF StepEnds, InRun
<1>4. restored = None
  BY <1>3 DEF RecordsInv, InRun, Over
<1>5. ASSUME NEW e \in Done PROVE Sound(e, records[e], dirty', flakes')
  <2>1. Truthful(e, records[e], rejects, dirty', flakes')
    BY ToldGrows DEF RecordsInv, DamageInv
  <2> QED
    BY <1>3, <2>1 DEF RecordsInv, Sound, InRun, Over
<1>6. ASSUME NEW e \in Done PROVE Truthful(e, records[e], rejects, dirty', flakes')
  BY <1>5 DEF Sound
<1> DEFINE x == Experiments[at]
<1>7. CASE phase = "baseline"
  <2>1. restored' = restored
    BY <1>7 DEF StepEnds
  <2>2. CASE step.kind = "interrupted" /\ Interrupted(records, 0)
    BY <1>1, <1>2, <1>4, <2>1, <2>2, InterruptedSound DEF PlaceInv
  <2>3. CASE \E outcome : Onward(records, 0, outcome)
    BY <1>1, <1>2, <1>4, <2>1, <2>3, OnwardSound DEF PlaceInv
  <2> QED
    BY <1>7, <2>2, <2>3 DEF StepEnds
<1>8. ASSUME phase \in {"first", "confirming"}
      PROVE  /\ at \in 1..Len(Experiments) /\ x \in Planned /\ x \in E /\ x # None /\ Current = x /\ DOMAIN records = E
             /\ \A k \in 1..(at - 1) : Experiments[k] \in Done
             /\ phase = "confirming" => x \in Done
             /\ restored' = restored
  <2>1. at \in 1..Len(Experiments) /\ x \in Planned /\ DOMAIN records = E
    BY <1>8 DEF PlaceInv
  <2>2. x \in E /\ x # None /\ Current = x
    BY <1>1, <1>8, <2>1 DEF Planned, Current
  <2>3. \A k \in 1..(at - 1) : Experiments[k] \in E
    BY <1>1, <2>1, Positions
  <2>4. \A k \in 1..(at - 1) : Experiments[k] \in Done
    BY <1>8, <2>1, <2>3 DEF Done
  <2>5. phase = "confirming" => x \in Done
    BY <2>1, <2>2 DEF Done
  <2>6. restored' = restored
    BY <1>8 DEF StepEnds
  <2> QED
    BY <2>1, <2>2, <2>4, <2>5, <2>6
\* The records with x's own replaced by a sound one.
<1>9. ASSUME phase \in {"first", "confirming"}, NEW r, NEW recs, recs = [records EXCEPT ![x] = r]
      PROVE  /\ DOMAIN recs = E /\ \A e \in E \ Planned : recs[e] = NotRun(checked[e])
             /\ recs[x] = r
             /\ Sound(x, r, dirty', flakes') =>
                   \A k \in 1..at : Experiments[k] \in Planned => Sound(Experiments[k], recs[Experiments[k]], dirty', flakes')
             /\ Truthful(x, r, rejects, dirty', flakes') =>
                   \A k \in 1..at : Experiments[k] \in Planned =>
                       Truthful(Experiments[k], recs[Experiments[k]], rejects, dirty', flakes')
  <2>1. x \in Planned /\ x \in E /\ DOMAIN records = E /\ at \in 1..Len(Experiments)
    BY <1>8, <1>9
  <2>2. DOMAIN recs = E /\ recs[x] = r /\ \A e \in E : e # x => recs[e] = records[e]
    BY <1>9, <2>1
  <2>3. \A e \in E \ Planned : recs[e] = NotRun(checked[e])
    BY <1>2, <2>1, <2>2
  <2>4. \A k \in 1..at : \/ Experiments[k] = x
                         \/ Experiments[k] \in Done /\ recs[Experiments[k]] = records[Experiments[k]]
    <3>1. ASSUME NEW k \in 1..at, Experiments[k] # x PROVE Experiments[k] \in Done
      <4>1. k \in 1..(at - 1)
        BY <1>1, <2>1, <3>1
      <4> QED
        BY <1>8, <1>9, <4>1
    <3>2. Done \subseteq E
      BY DEF Done
    <3> HIDE DEF x
    <3> QED
      BY <2>2, <3>1, <3>2
  <2> HIDE DEF x
  <2>5. Sound(x, r, dirty', flakes') =>
            \A k \in 1..at : Experiments[k] \in Planned => Sound(Experiments[k], recs[Experiments[k]], dirty', flakes')
    BY <1>5, <2>2, <2>4
  <2>6. Truthful(x, r, rejects, dirty', flakes') =>
            \A k \in 1..at : Experiments[k] \in Planned => Truthful(Experiments[k], recs[Experiments[k]], rejects, dirty', flakes')
    BY <1>6, <2>2, <2>4
  <2> QED
    BY <2>2, <2>3, <2>5, <2>6
<1>10. CASE phase = "first"
  <2>1. at \in 0..Len(Experiments) /\ x \in E /\ Current = x /\ x # None /\ restored' = restored
    BY <1>1, <1>8, <1>10
  <2> DEFINE ran == [status |-> "ran", run |-> step.facts[x], confirming |-> None]
             refused == [status |-> "not-run", why |-> "run-unrecorded", run |-> step.kind]
  <2>2. ASSUME step.kind = "ran" PROVE Sound(x, ran, dirty', flakes')
    BY <2>1, <2>2 DEF Sound, Truthful, FactsTrue, WasInterrupted
  <2>3. Sound(x, refused, dirty', flakes')
    BY DEF Sound, Truthful, WasInterrupted
  <2>4. Truthful(x, NotRun("interrupted"), rejects, dirty', flakes')
    BY DEF Truthful, NotRun
  <2>5. CASE step.kind = "interrupted" /\ Interrupted([records EXCEPT ![x] = NotRun("interrupted")], at)
    <3> DEFINE r == NotRun("interrupted")
               recs == [records EXCEPT ![x] = r]
    <3>1. recs = [records EXCEPT ![x] = r] /\ Interrupted(recs, at)
      BY <2>5
    <3> HIDE DEF x, r, recs
    <3>2. /\ DOMAIN recs = E /\ \A e \in E \ Planned : recs[e] = NotRun(checked[e])
          /\ \A k \in 1..at : Experiments[k] \in Planned => Truthful(Experiments[k], recs[Experiments[k]], rejects, dirty', flakes')
      BY <1>9, <1>10, <2>4, <3>1 DEF r
    <3> QED
      BY <1>4, <2>1, <3>1, <3>2, InterruptedSound
  <2>6. CASE Onward([records EXCEPT ![x] = refused], at, baseline)
    <3> HIDE DEF refused, x
    <3> QED
      BY <1>4, <1>9, <1>10, <2>1, <2>3, <2>6, OnwardSound
  <2>7. CASE step.kind = "ran" /\ Onward([records EXCEPT ![x] = ran], at, baseline)
    <3> HIDE DEF ran, x
    <3> QED
      BY <1>4, <1>9, <1>10, <2>1, <2>2, <2>7, OnwardSound
  <2>8. CASE step.kind = "ran" /\ records' = [records EXCEPT ![x] = ran] /\ phase' = "confirming" /\ at' = at
    <3>1. /\ DOMAIN records' = E /\ records'[x] = ran /\ \A e \in E \ Planned : records'[e] = NotRun(checked[e])
          /\ \A k \in 1..at : Experiments[k] \in Planned => Sound(Experiments[k], records'[Experiments[k]], dirty', flakes')
      <4> HIDE DEF ran, x
      <4> QED
        BY <1>9, <1>10, <2>2, <2>8
    <3>2. Planned' = Planned
      BY DEF Planned
    <3>3. PlaceInv'
      <4>1. records'[x] = [status |-> "ran", run |-> records'[x].run, confirming |-> None]
        BY <3>1
      <4> QED
        BY <1>8, <1>10, <2>8, <3>1, <3>2, <4>1 DEF PlaceInv, InRun, Over
    <3>4. \A e \in Done' : e \notin Planned \/ \E k \in 1..at : Experiments[k] = e
      BY <2>8, <3>2 DEF Done
    <3>5. ASSUME NEW e \in Done' PROVE Sound(e, records'[e], dirty', flakes')
      <4>1. CASE e \notin Planned
        BY <3>1, <3>2, <3>5, <4>1 DEF Sound, Truthful, NotRun, Done
      <4>2. CASE e \in Planned
        BY <3>1, <3>4, <3>5, <4>2
      <4> QED
        BY <4>1, <4>2
    <3>6. RecordsInv'
      BY <1>4, <2>1, <3>1, <3>2, <3>5 DEF RecordsInv, Sound
    <3> QED
      BY <1>4, <2>1, <3>3, <3>6 DEF RestoredInv
  <2> QED
    BY <1>10, <2>5, <2>6, <2>7, <2>8 DEF StepEnds, Kinds
<1>11. CASE phase = "confirming"
  <2>1. at \in 0..Len(Experiments) /\ x \in E /\ x \in Done /\ Current = x /\ x # None /\ restored' = restored
    BY <1>1, <1>8, <1>11
  <2> DEFINE confirming == [status |-> IF step.kind \in {"ran", "interrupted"} THEN step.kind ELSE "unrecorded",
                            run |-> step.facts[x]]
             r == [status |-> "ran", run |-> records[x].run, confirming |-> confirming]
             recs == [records EXCEPT ![x].confirming = confirming]
  <2>2. recs = [records EXCEPT ![x] = r]
    <3>1. records[x] = [status |-> "ran", run |-> records[x].run, confirming |-> None]
      BY <1>11 DEF PlaceInv
    <3> HIDE DEF confirming
    <3>2. [records[x] EXCEPT !.confirming = confirming] = r
      BY <3>1
    <3> QED
      BY <3>2
  <2>3. Truthful(x, r, rejects, dirty', flakes')
    <3>1. Truthful(x, records[x], rejects, dirty, flakes) /\ records[x].status = "ran"
      BY <1>11, <2>1 DEF RecordsInv, PlaceInv
    <3>2. Truthful(x, records[x], rejects, dirty', flakes')
      BY <1>6, <2>1
    <3>3. ASSUME x \notin rejects, WouldDetect(r.run), r.confirming.status = "ran", WouldDetect(r.confirming.run) PROVE dirty'
      <4>1. dirty \/ flakes = 1
        BY <3>1, <3>3 DEF Truthful
      <4>2. step.kind = "ran" /\ WouldDetect(step.facts[x])
        BY <3>3
      <4>3. dirty' \/ flakes = 0
        BY <2>1, <3>3, <4>2 DEF FactsTrue
      <4> QED
        BY <4>1, <4>3
    <3> QED
      BY <3>1, <3>2, <3>3 DEF Truthful
  <2>4. CASE step.kind = "interrupted" /\ Interrupted(recs, at)
    <3> HIDE DEF r, recs, x
    <3>1. /\ DOMAIN recs = E /\ \A e \in E \ Planned : recs[e] = NotRun(checked[e])
          /\ \A k \in 1..at : Experiments[k] \in Planned => Truthful(Experiments[k], recs[Experiments[k]], rejects, dirty', flakes')
      BY <1>9, <1>11, <2>2, <2>3
    <3> QED
      BY <1>4, <2>1, <2>4, <3>1, InterruptedSound
  <2>5. CASE step.kind # "interrupted" /\ Onward(recs, at, baseline)
    <3>1. ~WasInterrupted(r)
      BY <2>5 DEF WasInterrupted, Kinds
    <3>2. Sound(x, r, dirty', flakes')
      BY <2>3, <3>1 DEF Sound
    <3> HIDE DEF r, recs, x
    <3>3. /\ DOMAIN recs = E /\ \A e \in E \ Planned : recs[e] = NotRun(checked[e])
          /\ \A k \in 1..at : Experiments[k] \in Planned => Sound(Experiments[k], recs[Experiments[k]], dirty', flakes')
      BY <1>9, <1>11, <2>2, <3>2
    <3> QED
      BY <1>4, <2>1, <2>5, <3>3, OnwardSound
  <2> QED
    BY <1>11, <2>4, <2>5 DEF StepEnds
<1>12. CASE phase = "restored"
  <2>1. phase' = "closing" /\ at' = at /\ records' = records
        /\ restored' = IF step.kind = "interrupted" THEN None ELSE [ran |-> step.kind = "ran", why |-> step.kind, facts |-> step.facts]
    BY <1>12 DEF StepEnds
  <2>2. Planned' = Planned /\ Done = E /\ Done' = E
    BY <1>12, <2>1 DEF Planned, Done
  <2>3. PlaceInv'
    BY <2>1, <2>2 DEF PlaceInv, InRun, Over
  <2>4. RecordsInv'
    BY <1>2, <1>5, <2>1, <2>2 DEF RecordsInv, Sound, Over
  <2>5. RestoredInv'
    BY <1>12, <2>1 DEF RestoredInv, FactsTrue
  <2> QED
    BY <2>3, <2>4, <2>5
<1> QED
  BY <1>3, <1>7, <1>10, <1>11, <1>12 DEF InRun

-----------------------------------------------------------------------------
(* The runs *)

\* The experiment in progress is an experiment, and only its own phases have one.
LEMMA CurrentIs ==
    ASSUME JobAssumption, PlaceInv
    PROVE  /\ Current = None \/ (Current \in E /\ Current # None /\ Current # "empty")
           /\ phase \notin {"first", "confirming"} <=> Current = None
<1>1. CASE phase \in {"first", "confirming"}
  <2>1. Current = Experiments[at] /\ at \in 1..Len(Experiments)
    BY <1>1 DEF Current, PlaceInv
  <2> QED
    BY <1>1, <2>1, Positions
<1>2. CASE phase \notin {"first", "confirming"}
  BY <1>2 DEF Current
<1> QED
  BY <1>1, <1>2

\* The facts of a run in which the test e fails or passes, and the site of its own mutation executes or does not.
Reached(fails, own) == [(IF fails THEN Fails ELSE Passes) EXCEPT !.reach = IF own THEN "executed" ELSE "no"]

\* Such facts read survived or a would-be detection only of a mutation that executed.
LEMMA ReachedReads ==
    ASSUME NEW fails \in BOOLEAN, NEW own \in BOOLEAN
    PROVE  /\ ReadRun(Reached(fails, own)).verdict = "survived" => own /\ ~fails
           /\ WouldDetect(Reached(fails, own)) => own /\ fails
           /\ Reached(fails, own).test = "passed" => ~fails
<1> DEFINE f == Reached(fails, own)
<1>1. /\ f.ending = "clean" /\ f.module = "collected" /\ f.hooks = "passed" /\ f.repeats = FALSE
      /\ f.test = (IF fails THEN "failed" ELSE "passed") /\ f.reach = (IF own THEN "executed" ELSE "no")
      /\ f.errors = "assertions" /\ f.unhandled = "none"
  BY DEF Reached, Fails, Passes
<1> HIDE DEF f
<1>2. ReadRun(f) = IF ~own THEN Invalid("site-not-executed") ELSE IF fails THEN Given("would-detect") ELSE Given("survived")
  BY <1>1 DEF ReadRun
<1>3. f.test = "passed" => ~fails
  BY <1>1
<1>4. ReadRun(f).verdict = "survived" => own /\ ~fails
  BY <1>2 DEF Invalid, Given
<1>5. WouldDetect(f) => own /\ fails
  BY <1>2 DEF WouldDetect, Invalid, Given
<1> QED
  BY <1>3, <1>4, <1>5 DEF f

\* A run that loaded no other mutation says of each test what its own mutation, the damage and the flake make of it.
LEMMA FactsAre ==
    ASSUME JobAssumption, PlaceInv, DamageInv, AloneInv, running, NEW e \in E, NEW flaky \in BOOLEAN,
           NEW f \in TrueFacts(e, flaky)
    PROVE  f = Reached(flaky \/ dirty \/ (e \in served /\ e \in rejects), e \in served) /\ (e \in served => e = Current)
<1>1. served \ {None, Current} = {} /\ e # None
  BY Positions DEF AloneInv
<1> QED
  BY <1>1 DEF TrueFacts, Reached

\* What a run gives: with at most one flake, the facts g or one trouble for all, and the damage a mutation may do.
RunGives(flaky, trouble, g, facts) ==
    /\ flaky \in E \cup {None} /\ (flaky # None => flakes < MaxFlakes)
    /\ flakes' = IF flaky = None THEN flakes ELSE flakes + 1
    /\ dirty' \in (IF active = None THEN {dirty} ELSE {dirty, TRUE})
    /\ trouble \in Troubles \cup {None} /\ \A e \in E : g[e] \in TrueFacts(e, flaky = e)
    /\ facts = [e \in E |-> IF trouble # None THEN trouble ELSE g[e]]

\* The facts of a run that ends with its record are true of the experiment in progress and of the damage.
LEMMA RunTells ==
    ASSUME JobAssumption, PlaceInv, DamageInv, AloneInv, running, rejects' = rejects,
           NEW flaky, NEW trouble, NEW g, NEW facts, RunGives(flaky, trouble, g, facts)
    PROVE  FactsTrue([kind |-> "ran", facts |-> facts], dirty', flakes')
<1>0. /\ flaky \in E \cup {None} /\ (flaky # None => flakes < MaxFlakes)
      /\ flakes' = IF flaky = None THEN flakes ELSE flakes + 1
      /\ dirty' \in (IF active = None THEN {dirty} ELSE {dirty, TRUE})
      /\ trouble \in Troubles \cup {None} /\ \A e \in E : g[e] \in TrueFacts(e, flaky = e)
      /\ facts = [e \in E |-> IF trouble # None THEN trouble ELSE g[e]]
  BY DEF RunGives
<1>1. dirty \in BOOLEAN /\ flakes \in {0, 1}
  BY DEF DamageInv
<1>2. \A e \in E : /\ g[e] = Reached((flaky = e) \/ dirty \/ (e \in served /\ e \in rejects), e \in served)
                   /\ e \in served => e = Current
  BY <1>0, FactsAre
<1>3. ASSUME NEW e \in E PROVE LET f == facts[e] IN
         /\ ReadRun(f).verdict = "survived" => e \notin rejects
         /\ WouldDetect(f) /\ e \notin rejects => flaky = e \/ dirty
         /\ f.test = "passed" /\ Untroubled(f) => ~dirty
  <2>1. CASE trouble # None
    <3>1. facts[e] = trouble /\ trouble \in Troubles
      BY <1>0, <2>1
    <3> QED
      BY <3>1 DEF JobAssumption, WouldDetect
  <2>2. CASE trouble = None
    <3> DEFINE own == e \in served
               fails == (flaky = e) \/ dirty \/ (e \in served /\ e \in rejects)
    <3>1. facts[e] = Reached(fails, own) /\ own \in BOOLEAN /\ fails \in BOOLEAN
      BY <1>0, <1>2, <2>2
    <3>2. /\ ReadRun(facts[e]).verdict = "survived" => own /\ ~fails
          /\ WouldDetect(facts[e]) => own /\ fails
          /\ facts[e].test = "passed" => ~fails
      <4> HIDE DEF own, fails
      <4> QED
        BY <3>1, ReachedReads
    <3> QED
      BY <3>2
  <2> QED
    BY <2>1, <2>2
<1>4. dirty => dirty'
  BY <1>0, <1>1
<1>5. ASSUME Current # None, Current \notin rejects, WouldDetect(facts[Current]) PROVE dirty' \/ (flakes' = 1 /\ flakes = 0)
  <2>1. Current \in E
    BY <1>5, CurrentIs
  <2>2. flaky = Current \/ dirty
    BY <1>3, <1>5, <2>1
  <2>3. CASE flaky = Current
    BY <1>0, <1>1, <1>5, <2>3 DEF JobAssumption
  <2> QED
    BY <1>4, <2>2, <2>3
<1>6. ASSUME phase = "restored", NEW e \in E, facts[e].test = "passed", Untroubled(facts[e]) PROVE ~dirty'
  <2>1. Current = None /\ active = None
    BY <1>6, CurrentIs DEF AloneInv
  <2> QED
    BY <1>0, <1>3, <1>6, <2>1
<1>7. Current # None => (ReadRun(facts[Current]).verdict = "survived" => Current \notin rejects)
  BY <1>3, CurrentIs
<1> QED
  BY <1>5, <1>6, <1>7 DEF FactsTrue

-----------------------------------------------------------------------------
(* The actions *)

\* A job begins with no record but of what its own check kept from running.
LEMMA InitVerdicts == ASSUME JobAssumption, JobInit PROVE VerdictsInv
<1>1. checked \in [E -> StartChecks] /\ rejects \subseteq E
      /\ records = [e \in E |-> IF checked[e] = "ok" THEN None ELSE NotRun(checked[e])]
      /\ phase = (IF \E e \in E : checked[e] = "ok" THEN "baseline" ELSE "closing")
      /\ restored = None /\ reply = None /\ dirty = FALSE /\ flakes = 0
  BY DEF JobInit
<1>2. \A e \in E \ Planned : records[e] = NotRun(checked[e])
  BY <1>1 DEF Planned
<1>3. phase \in {"baseline", "closing"} /\ \A e \in Done : e \in E \ Planned
  BY <1>1 DEF Planned, Done
<1>4. PlaceInv
  BY <1>1, <1>3 DEF PlaceInv, InRun, Over
<1>5. DamageInv
  BY <1>1 DEF DamageInv
<1>6. AloneInv
  BY DEF JobInit, AloneInv
<1>7. RecordsInv
  <2>1. ASSUME NEW e \in Done PROVE Truthful(e, records[e], rejects, dirty, flakes)
    <3>1. records[e] = NotRun(checked[e])
      BY <1>2, <1>3, <2>1
    <3>2. records[e].status = "not-run"
      BY <3>1 DEF NotRun
    <3> QED
      BY <3>2 DEF Truthful
  <2>2. Done \cap Planned = {}
    BY <1>3
  <2> QED
    BY <1>1, <1>2, <2>1, <2>2 DEF RecordsInv
<1>8. RestoredInv /\ RepliedInv
  BY <1>1, <1>3 DEF RestoredInv, RepliedInv, VerdictsTrue, ReplyShape
<1> QED
  BY <1>4, <1>5, <1>6, <1>7, <1>8 DEF VerdictsInv

\* A step that leaves the job's own records alone leaves all but the servers' state as it was.
LEMMA RecordsStay ==
    ASSUME VerdictsInv, UNCHANGED <<checked, rejects, jobVars, flakes, dirty, reply>>
    PROVE  PlaceInv' /\ DamageInv' /\ RecordsInv' /\ RestoredInv' /\ RepliedInv'
<1>1. Planned' = Planned /\ Done' = Done
  BY DEF jobVars, Planned, Done
<1>2. PlaceInv' /\ DamageInv'
  BY <1>1 DEF VerdictsInv, PlaceInv, DamageInv, jobVars
<1>3. RecordsInv'
  BY <1>1 DEF VerdictsInv, RecordsInv, jobVars
<1>4. RestoredInv'
  BY DEF VerdictsInv, RestoredInv, jobVars
<1>5. RepliedInv'
  BY DEF VerdictsInv, RepliedInv, VerdictsTrue, ReplyShape, jobVars
<1> QED
  BY <1>2, <1>3, <1>4, <1>5

\* A transform begins with the active mutation, which is the current one; it may end in a later run only after that run's
\* freshening took it out.
LEMMA TransformsKeep ==
    ASSUME JobAssumption, VerdictsInv, NEW f \in Files, BeginTransform(f) \/ EndTransform(f) \/ Load(f)
    PROVE  VerdictsInv'
<1>1. PlaceInv' /\ DamageInv' /\ RecordsInv' /\ RestoredInv' /\ RepliedInv'
  BY RecordsStay DEF BeginTransform, EndTransform, Load
<1>2. Current' = Current /\ phase' = phase /\ running' = running /\ active' = active /\ lastMutated' = lastMutated
  BY DEF BeginTransform, EndTransform, Load, Current, jobVars
<1>3. AloneInv
  BY DEF VerdictsInv
<1>4. ASSUME BeginTransform(f) PROVE AloneInv'
  <2> DEFINE text == IF active # None /\ FileOf[active] = f THEN active ELSE None
  <2>1. transforms' = [transforms EXCEPT ![f] = text] /\ cache' = cache /\ served' = served
    BY <1>4 DEF BeginTransform
  <2>2. text \in {"empty", None} \/ f = lastMutated
    BY <1>3 DEF AloneInv
  <2>3. running => text \in {"empty", None, Current}
    BY <1>3 DEF AloneInv
  <2> HIDE DEF text
  <2> QED
    BY <1>2, <1>3, <2>1, <2>2, <2>3 DEF AloneInv
<1>5. ASSUME EndTransform(f) PROVE AloneInv'
  <2>1. /\ cache' = [cache EXCEPT ![f] = transforms[f]] /\ transforms' = [transforms EXCEPT ![f] = "empty"]
        /\ served' = served
    BY <1>5 DEF EndTransform
  <2> QED
    BY <1>2, <1>3, <2>1 DEF AloneInv
<1>6. ASSUME Load(f) PROVE AloneInv'
  <2>1. cache[f] # "empty" /\ served' = served \cup {cache[f]} /\ cache' = cache /\ transforms' = transforms
    BY <1>6 DEF Load
  <2> QED
    BY <1>2, <1>3, <2>1 DEF AloneInv
<1> QED
  BY <1>1, <1>4, <1>5, <1>6 DEF VerdictsInv

\* No mutation of another run outlives the freshening of the cache before a run.
LEMMA FreshensAll ==
    ASSUME JobAssumption, AloneInv, ~running, NEW f \in Files, f \notin Invalidated(Targets)
    PROVE  cache[f] \in {"empty", None} /\ transforms[f] \in {"empty", None}
<1>1. f \notin Targets /\ (cache[f] = "empty" \/ cache[f] = None)
  BY DEF Invalidated, MustInvalidate
<1>2. f # None
  BY DEF JobAssumption
<1>3. f # lastMutated
  BY <1>1, <1>2 DEF Targets
<1> QED
  BY <1>1, <1>3 DEF AloneInv

\* No run ends after the reply.
LEMMA StepsOver ==
    ASSUME JobAssumption, VerdictsInv, NEW step, StepEnds(step), reply' = reply, checked' = checked, rejects' = rejects
    PROVE  PlaceInv' => RepliedInv'
<1>1. reply = None /\ phase \in InRun
  BY DEF VerdictsInv, RepliedInv, StepEnds, InRun
<1>2. checked \in [E -> StartChecks] /\ rejects \subseteq E
  BY DEF VerdictsInv, RepliedInv
<1> QED
  BY <1>1, <1>2 DEF RepliedInv, VerdictsTrue, ReplyShape

\* A run starts over a fresh cache, or is refused or interrupted and recorded so.
LEMMA StartRunKeeps ==
    ASSUME JobAssumption, VerdictsInv, StartRun
    PROVE  VerdictsInv'
<1>1. /\ ~running /\ phase \in InRun
      /\ checked' = checked /\ rejects' = rejects /\ flakes' = flakes /\ dirty' = dirty /\ reply' = reply
  BY DEF StartRun, InRun
<1>2. PlaceInv /\ DamageInv /\ AloneInv /\ RecordsInv /\ DamageInv'
  BY <1>1 DEF VerdictsInv, DamageInv
<1>3. ASSUME NEW kind \in {"interrupted", "stale-modules"}, StepEnds(Step(kind))
      PROVE  PlaceInv' /\ DamageInv' /\ RecordsInv' /\ RestoredInv' /\ RepliedInv'
  <2>1. Step(kind).kind \in Kinds /\ FactsTrue(Step(kind), dirty', flakes')
    BY <1>3 DEF Step, Kinds, FactsTrue
  <2>2. flakes <= flakes' /\ (dirty => dirty')
    BY <1>1, <1>2 DEF DamageInv
  <2>3. PlaceInv' /\ RecordsInv' /\ RestoredInv'
    BY <1>1, <1>2, <1>3, <2>1, <2>2, StepKeeps
  <2> QED
    BY <1>1, <1>2, <1>3, <2>3, StepsOver
<1>4. CASE aborted /\ StepEnds(Step("interrupted")) /\ UNCHANGED <<running, served, cache, transforms, active, lastMutated>>
  <2>1. AloneInv'
    BY <1>1, <1>2, <1>4 DEF AloneInv
  <2> QED
    BY <1>3, <1>4, <2>1 DEF VerdictsInv
<1>5. ASSUME NEW sticky \in SUBSET Files,
             cache' = [f \in Files |-> IF f \in Invalidated(Targets) \ sticky THEN "empty" ELSE cache[f]],
             transforms' = [f \in Files |-> IF f \in Invalidated(Targets) THEN "empty" ELSE transforms[f]],
             StepEnds(Step("stale-modules")), UNCHANGED <<running, served, active, lastMutated>>
      PROVE  VerdictsInv'
  <2>1. AloneInv'
    BY <1>1, <1>2, <1>5 DEF AloneInv
  <2> QED
    BY <1>3, <1>5, <2>1 DEF VerdictsInv
<1>6. ASSUME cache' = [f \in Files |-> IF f \in Invalidated(Targets) THEN "empty" ELSE cache[f]],
             transforms' = [f \in Files |-> IF f \in Invalidated(Targets) THEN "empty" ELSE transforms[f]],
             running' = TRUE, served' = {}, active' = Current,
             lastMutated' = IF Current = None THEN lastMutated ELSE FileOf[Current], UNCHANGED jobVars
      PROVE  VerdictsInv'
  <2>1. PlaceInv' /\ DamageInv' /\ RecordsInv' /\ RestoredInv' /\ RepliedInv'
    BY <1>1, <1>6, RecordsStay DEF jobVars
  <2>2. \A f \in Files : cache'[f] \in {"empty", None} /\ transforms'[f] \in {"empty", None}
    BY <1>1, <1>2, <1>6, FreshensAll
  <2>3. Current' = Current /\ phase' = phase
    BY <1>6 DEF Current, jobVars
  <2>4. Current # None => Current \in E
    BY <1>2, CurrentIs
  <2>5. DOMAIN cache' = Files /\ DOMAIN transforms' = Files
    BY <1>6
  <2>6. AloneInv'
    BY <1>1, <1>6, <2>2, <2>3, <2>4, <2>5 DEF AloneInv
  <2> QED
    BY <2>1, <2>6 DEF VerdictsInv
<1>7. CASE ~aborted
  <2>1. PICK sticky \in SUBSET {f \in Invalidated(Targets) : cache[f] # "empty"} :
           /\ cache' = [f \in Files |-> IF f \in Invalidated(Targets) \ sticky THEN "empty" ELSE cache[f]]
           /\ transforms' = [f \in Files |-> IF f \in Invalidated(Targets) THEN "empty" ELSE transforms[f]]
           /\ \/ sticky # {} /\ StepEnds(Step("stale-modules")) /\ UNCHANGED <<running, served, active, lastMutated>>
              \/ /\ sticky = {} /\ running' = TRUE /\ served' = {}
                 /\ active' = Current
                 /\ lastMutated' = IF Current = None THEN lastMutated ELSE FileOf[Current]
                 /\ UNCHANGED jobVars
    BY <1>7 DEF StartRun
  <2>2. sticky \in SUBSET Files
    BY <2>1 DEF Invalidated
  <2>3. CASE StepEnds(Step("stale-modules")) /\ UNCHANGED <<running, served, active, lastMutated>>
    BY <1>5, <2>1, <2>2, <2>3
  <2>4. CASE /\ sticky = {} /\ running' = TRUE /\ served' = {} /\ active' = Current
             /\ lastMutated' = IF Current = None THEN lastMutated ELSE FileOf[Current]
             /\ UNCHANGED jobVars
    <3>1. cache' = [f \in Files |-> IF f \in Invalidated(Targets) THEN "empty" ELSE cache[f]]
      BY <2>1, <2>4
    <3> QED
      BY <1>6, <2>1, <2>4, <3>1
  <2> QED
    BY <2>1, <2>3, <2>4
<1> QED
  BY <1>4, <1>7 DEF StartRun

\* A run ends by throwing, interrupted, or with facts that are true.
LEMMA EndRunKeeps ==
    ASSUME JobAssumption, VerdictsInv, EndRun
    PROVE  VerdictsInv'
<1>1. /\ running /\ running' = FALSE /\ active' = None
      /\ UNCHANGED <<checked, rejects, served, cache, transforms, lastMutated, aborted, reply>>
      /\ dirty' \in (IF active = None THEN {dirty} ELSE {dirty, TRUE})
  BY DEF EndRun
<1>2. PlaceInv /\ DamageInv /\ AloneInv /\ RecordsInv
  BY DEF VerdictsInv
<1>3. PICK flaky \in E \cup {None}, kind \in {"ran", "run-failed", "interrupted"} :
         /\ flaky # None => flakes < MaxFlakes /\ kind = "ran"
         /\ flakes' = IF flaky = None THEN flakes ELSE flakes + 1
         /\ \/ kind # "ran" /\ StepEnds(Step(kind))
            \/ kind = "ran" /\ \E trouble \in Troubles \cup {None} :
                  \E facts \in {[e \in E |-> IF trouble # None THEN trouble ELSE f[e]] :
                                f \in {g \in [E -> UNION {TrueFacts(e, flaky = e) : e \in E}] :
                                          \A e \in E : g[e] \in TrueFacts(e, flaky = e)}} :
                     StepEnds([kind |-> "ran", facts |-> facts])
  BY DEF EndRun
<1>4. dirty \in BOOLEAN /\ dirty' \in BOOLEAN /\ (dirty => dirty')
  BY <1>1, <1>2 DEF DamageInv
<1>5. flakes \in {0, 1} /\ flakes' \in {0, 1} /\ flakes <= flakes'
  BY <1>2, <1>3 DEF DamageInv, JobAssumption
<1>6. DamageInv'
  BY <1>4, <1>5 DEF DamageInv
<1>7. ASSUME NEW step, step.kind \in Kinds, FactsTrue(step, dirty', flakes'), StepEnds(step) PROVE VerdictsInv'
  <2>1. PlaceInv' /\ RecordsInv' /\ RestoredInv'
    BY <1>1, <1>2, <1>4, <1>5, <1>6, <1>7, StepKeeps
  <2>2. RepliedInv'
    BY <1>1, <1>7, <2>1, StepsOver
  <2>3. AloneInv'
    BY <1>1, <1>2 DEF AloneInv
  <2> QED
    BY <1>6, <2>1, <2>2, <2>3 DEF VerdictsInv
<1>8. CASE kind # "ran" /\ StepEnds(Step(kind))
  <2>1. Step(kind).kind \in Kinds /\ FactsTrue(Step(kind), dirty', flakes')
    BY <1>8 DEF Step, Kinds, FactsTrue
  <2> QED
    BY <1>7, <1>8, <2>1
<1>9. CASE kind = "ran" /\ \E trouble \in Troubles \cup {None} :
              \E facts \in {[e \in E |-> IF trouble # None THEN trouble ELSE f[e]] :
                            f \in {g \in [E -> UNION {TrueFacts(e, flaky = e) : e \in E}] :
                                      \A e \in E : g[e] \in TrueFacts(e, flaky = e)}} :
                 StepEnds([kind |-> "ran", facts |-> facts])
  <2>1. PICK trouble \in Troubles \cup {None}, g \in [E -> UNION {TrueFacts(e, flaky = e) : e \in E}] :
           /\ \A e \in E : g[e] \in TrueFacts(e, flaky = e)
           /\ StepEnds([kind |-> "ran", facts |-> [e \in E |-> IF trouble # None THEN trouble ELSE g[e]]])
    BY <1>9
  <2> DEFINE facts == [e \in E |-> IF trouble # None THEN trouble ELSE g[e]]
             step == [kind |-> "ran", facts |-> facts]
  <2>2. step.kind \in Kinds /\ StepEnds(step)
    BY <2>1 DEF Kinds
  <2>3. FactsTrue([kind |-> "ran", facts |-> facts], dirty', flakes')
    <3>1. facts = [e \in E |-> IF trouble # None THEN trouble ELSE g[e]]
      OBVIOUS
    <3> HIDE DEF facts
    <3>2. RunGives(flaky, trouble, g, facts)
      BY <1>1, <1>3, <2>1, <3>1 DEF RunGives
    <3> QED
      BY <1>1, <1>2, <3>2, RunTells
  <2> QED
    BY <1>7, <2>2, <2>3
<1> QED
  BY <1>3, <1>8, <1>9

\* An abort changes nothing until the run it meets has ended.
LEMMA AbortRunsKeeps ==
    ASSUME JobAssumption, VerdictsInv, AbortRuns \/ UNCHANGED falsifyVars
    PROVE  VerdictsInv'
<1>1. PlaceInv' /\ DamageInv' /\ RecordsInv' /\ RestoredInv' /\ RepliedInv'
  BY RecordsStay DEF AbortRuns, falsifyVars, jobVars
<1>2. /\ Current' = Current /\ phase' = phase /\ running' = running /\ active' = active /\ lastMutated' = lastMutated
      /\ served' = served /\ cache' = cache /\ transforms' = transforms
  BY DEF AbortRuns, falsifyVars, jobVars, Current
<1>3. AloneInv'
  BY <1>2 DEF VerdictsInv, AloneInv
<1> QED
  BY <1>1, <1>3 DEF VerdictsInv

-----------------------------------------------------------------------------
(* The reply *)

\* Trouble in the restored baseline leaves no verdict.
LEMMA BaselinesPassed ==
    ASSUME NEW before, NEW after, BaselineTrouble(before, after).verdict # "invalid"
    PROVE  after.test = "passed" /\ Untroubled(after)
<1>1. before.test = "passed" /\ Untroubled(before)
  BY DEF BaselineTrouble, Invalid
<1>2. after.test = "passed"
  BY <1>1 DEF BaselineTrouble, Invalid
<1> QED
  BY <1>1, <1>2 DEF BaselineTrouble, Invalid

\* What a verdict rests on, and that a job without its restored baseline gives none.
LEMMA JudgeRestsOn ==
    ASSUME NEW r, NEW before, NEW after, NEW next, NEW end
    PROVE  LET verdict == Judge(r, before, after, next, end).verdict IN
           /\ verdict = "survived" => r.status # "not-run" /\ ReadRun(r.run).verdict = "survived"
           /\ verdict = "detected" =>
                 /\ r.status # "not-run" /\ WouldDetect(r.run)
                 /\ r.confirming # None /\ r.confirming.status = "ran" /\ WouldDetect(r.confirming.run)
                 /\ after # None /\ after.ran /\ after.facts.test = "passed" /\ Untroubled(after.facts)
           /\ after = None => verdict \in {"none", "invalid"}
<1> DEFINE verdict == Judge(r, before, after, next, end).verdict
           trouble == BaselineTrouble(before.facts, after.facts)
<1>1. CASE r.status = "not-run"
  <2>1. Judge(r, before, after, next, end) = JudgeNotRun(r.why)
    BY <1>1 DEF Judge
  <2>2. verdict \in {"none", "invalid"}
    BY <2>1 DEF JudgeNotRun, Invalid, NoVerdict
  <2> QED
    BY <2>2
<1>2. CASE /\ r.status # "not-run"
           /\ before = None \/ ~before.ran \/ (r.confirming # None /\ r.confirming.status # "ran")
                 \/ after = None \/ ~after.ran
  <2>1. verdict = "none"
    BY <1>2 DEF Judge, NoVerdict
  <2> QED
    BY <2>1
<1>3. CASE /\ r.status # "not-run" /\ ~(before = None \/ ~before.ran) /\ ~(r.confirming # None /\ r.confirming.status # "ran")
           /\ ~(after = None \/ ~after.ran)
  <2>1. Judge(r, before, after, next, end) =
           IF trouble.verdict = "invalid" THEN trouble ELSE JudgeRuns(r.run, r.confirming, next, end)
    BY <1>3 DEF Judge
  <2>2. CASE trouble.verdict = "invalid"
    BY <1>3, <2>1, <2>2
  <2>3. CASE trouble.verdict # "invalid"
    <3>1. after.facts.test = "passed" /\ Untroubled(after.facts)
      BY <2>3, BaselinesPassed
    <3>2. verdict = JudgeRuns(r.run, r.confirming, next, end).verdict
      BY <2>1, <2>3
    <3>3. verdict = "detected" =>
             WouldDetect(r.run) /\ r.confirming # None /\ WouldDetect(r.confirming.run)
      <4>1. ReadRun(r.run).verdict # "detected"
        BY DEF ReadRun, Invalid, Unclear, Given
      <4> QED
        BY <3>2, <4>1 DEF JudgeRuns, NoVerdict, Unclear, Given
    <3>4. verdict = "survived" => ReadRun(r.run).verdict = "survived"
      BY <3>2 DEF JudgeRuns, NoVerdict, Unclear, Given
    <3> QED
      BY <1>3, <3>1, <3>3, <3>4
  <2> QED
    BY <2>2, <2>3
<1> QED
  BY <1>1, <1>2, <1>3

\* The reply: each experiment has its record, and is judged from it, the baselines and the run after.
LEMMA CloseKeeps ==
    ASSUME JobAssumption, VerdictsInv, CloseInstance
    PROVE  VerdictsInv'
<1>1. /\ phase = "closing" /\ phase' = "replied"
      /\ UNCHANGED <<checked, rejects, at, records, baseline, restored, running, served, cache, transforms, active,
                     lastMutated, aborted, flakes, dirty>>
  BY DEF CloseInstance
<1>2. PICK end \in {"clean", "unclean"} : reply' = [interrupted |-> JobInterrupted, judgements |-> Judgements(end)]
  BY DEF CloseInstance
<1>3. Planned' = Planned /\ Done = E /\ Done' = E
  BY <1>1 DEF Planned, Done
<1>4. PlaceInv' /\ DamageInv' /\ RestoredInv'
  BY <1>1, <1>3 DEF VerdictsInv, PlaceInv, DamageInv, RestoredInv, InRun, Over
<1>5. AloneInv'
  <2>1. Current = None /\ Current' = None /\ ~running
    BY <1>1 DEF Current, VerdictsInv, AloneInv, InRun
  <2> QED
    BY <1>1, <2>1 DEF VerdictsInv, AloneInv
<1>6. RecordsInv'
  BY <1>1, <1>3 DEF VerdictsInv, RecordsInv, Over
<1>7. ASSUME NEW e \in E
      PROVE  /\ Truthful(e, records[e], rejects, dirty, flakes)
             /\ e \notin Planned => records[e].status = "not-run" /\ ~WasInterrupted(records[e])
             /\ e \in Planned /\ WasInterrupted(records[e]) => restored = None
  <2>1. Truthful(e, records[e], rejects, dirty, flakes)
    BY <1>3 DEF VerdictsInv, RecordsInv
  <2>2. ASSUME e \notin Planned PROVE records[e].status = "not-run" /\ ~WasInterrupted(records[e])
    <3>1. records[e] = NotRun(checked[e]) /\ checked[e] # "interrupted"
      BY <2>2 DEF VerdictsInv, RecordsInv, RepliedInv, JobAssumption
    <3> QED
      BY <3>1 DEF NotRun, WasInterrupted
  <2> QED
    BY <1>3, <2>1, <2>2 DEF VerdictsInv, RecordsInv
<1>8. ASSUME NEW e \in E
      PROVE  LET verdict == reply'.judgements[e].verdict IN
             /\ verdict = "detected" => e \in rejects
             /\ verdict = "survived" => e \notin rejects
             /\ restored = None => verdict \in {"none", "invalid"}
  <2> DEFINE before == BaselineOf(baseline, e)
             after == BaselineOf(restored, e)
             next == NextRunAfter(CHOOSE i \in 1..Len(Experiments) : Experiments[i] = e)
  <2>1. reply'.judgements[e] = Judge(records[e], before, after, next, end)
    BY <1>2 DEF Judgements
  <2>2. restored = None => after = None
    BY DEF BaselineOf
  <2>3. after # None /\ after.ran /\ after.facts.test = "passed" /\ Untroubled(after.facts) => ~dirty
    <3>1. after # None => restored # None /\ after.ran = restored.ran /\ after.facts = restored.facts[e]
      BY DEF BaselineOf
    <3> HIDE DEF after
    <3> QED
      BY <3>1 DEF VerdictsInv, RestoredInv
  <2> HIDE DEF before, after, next
  <2>4. reply'.judgements[e].verdict = "survived" => e \notin rejects
    BY <1>7, <2>1, JudgeRestsOn DEF Truthful
  <2>5. reply'.judgements[e].verdict = "detected" => e \in rejects
    BY <1>7, <2>1, <2>3, JudgeRestsOn DEF Truthful
  <2>6. restored = None => reply'.judgements[e].verdict \in {"none", "invalid"}
    BY <2>1, <2>2, JudgeRestsOn
  <2> QED
    BY <2>4, <2>5, <2>6
<1>9. VerdictsTrue'
  BY <1>1, <1>8 DEF VerdictsTrue
<1>10. ReplyShape'
  <2>1. reply'.interrupted = JobInterrupted
    BY <1>2
  <2>2. JobInterrupted => restored = None
    BY <1>7 DEF JobInterrupted, Planned
  <2>3. ~JobInterrupted => \A e \in E : ~WasInterrupted(records[e]) /\ (records[e].status = "ran" => restored # None)
    BY <1>7 DEF JobInterrupted
  <2>4. \A e \in E : WasInterrupted(records[e])' <=> WasInterrupted(records[e])
    BY <1>1 DEF WasInterrupted
  <2> QED
    BY <1>1, <1>8, <2>1, <2>2, <2>3, <2>4 DEF ReplyShape
<1>11. RepliedInv'
  BY <1>1, <1>9, <1>10 DEF VerdictsInv, RepliedInv
<1> QED
  BY <1>4, <1>5, <1>6, <1>11 DEF VerdictsInv

\* The inductive step.
LEMMA NextVerdicts ==
    ASSUME JobAssumption, VerdictsInv, [JobNext]_falsifyVars
    PROVE  VerdictsInv'
<1>1. ASSUME NEW f \in Files, BeginTransform(f) \/ EndTransform(f) \/ Load(f) PROVE VerdictsInv'
  BY <1>1, TransformsKeep
<1> QED
  BY <1>1, StartRunKeeps, EndRunKeeps, AbortRunsKeeps, CloseKeeps DEF JobNext

\* For any experiments, files, checks and troubles, and up to one flake: no run of a falsification job loads another's
\* mutation (StaleTransformGuard.freshen), each verdict is true of its test (judge), and a reply that is cut short gives
\* none (JobRuns).
THEOREM JobVerdictsAreTrue == ASSUME JobAssumption PROVE JobSpec => []JobVerdictsTrue
<1>1. JobInit => VerdictsInv
  BY InitVerdicts
<1>2. VerdictsInv /\ [JobNext]_falsifyVars => VerdictsInv'
  BY NextVerdicts
<1>3. VerdictsInv => JobVerdictsTrue
  BY DEF VerdictsInv, AloneInv, RepliedInv, JobVerdictsTrue, MutationAlone
<1> QED
  BY <1>1, <1>2, <1>3, PTL DEF JobSpec
=============================================================================
