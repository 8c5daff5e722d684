------------------------------ MODULE Executor ------------------------------
(***************************************************************************)
(* One executor of the daemon (daemon/executor.ts) and the child processes *)
(* it runs its jobs in (daemon/executor-main.ts).  Jobs follow one another; *)
(* each has a process of its own, held with whatever the project's code     *)
(* starts in it.  Replies, exits and errors of a process reach the daemon   *)
(* as events in any order, and those of an earlier job's process may arrive *)
(* while a later job is in progress.                                        *)
(***************************************************************************)
EXTENDS Naturals

CONSTANTS
    MaxJobs,    \* bound: jobs begun in the daemon's life
    MaxErrors,  \* bound: error events, failed sends and failed containments
    NoReply     \* the outcome of a job that has not ended

ASSUME BoundsAssumption == MaxJobs \in Nat /\ MaxErrors \in Nat

Jobs == 1..MaxJobs

\* A discovery, which stands for a falsification too, and a run read an abort; a dependency build is busy in
\* synchronous code and cannot.
JobKinds == {"discover", "run", "build"}

Purposes == {"stop", "interruption"}

VARIABLES
    job,        \* the latest job: its number, its kind, where its promise stands and what it ended with
    child,      \* #child: the job whose process events are taken from, 0 for none
    flags,      \* #abortBeforeSend, #stopAsked, #boundPassed and #boundTimer
    process,    \* what became of each job's process, as the system and then the daemon know it
    tree,       \* the processes each job's process started
    mail,       \* the jobs whose reply is under way to the daemon
    stopping,   \* the daemon's stop has begun, after which no job begins
    errors,     \* errors met so far
    asked       \* history: the purposes of the aborts that reached the latest job

vars == <<job, child, flags, process, tree, mail, stopping, errors, asked>>

Unflagged == [abortBeforeSend |-> "none", stopAsked |-> FALSE, boundPassed |-> FALSE, timer |-> FALSE]

\* #settle is defined exactly while the job is with its process.
Settleable == job.state = "sent"

\* A process an end of its tree reaches is killed, and so is everything it started: the group on Linux, the job object
\* on Windows.
TreeEnded(c) ==
    /\ process' = [process EXCEPT ![c] = IF @ = "running" THEN "killed" ELSE @]
    /\ tree' = [tree EXCEPT ![c] = "ended"]

\* What a job's promise resolves with: the reply, or why there is none, and the process the reply came from.
Reply(type, from) == [type |-> type, from |-> from]

\* What discover, run, falsify and buildDependencies make of it: a run whose process exited is stored as crashed, and
\* any other job without its own reply leaves nothing to store.
Outcome ==
    CASE job.reply.type = "reply" -> "ended"
      [] job.reply.type = "exited" /\ job.kind = "run" -> "crashed"
      [] OTHER -> "nothing"

-----------------------------------------------------------------------------
(* The job's own steps *)

\* The job begins with a process started and not yet held, or with none when the process could not be started.
Begin(kind, started) ==
    /\ job.state = "idle" /\ job.id < MaxJobs /\ ~stopping
    /\ ~started => errors < MaxErrors
    /\ errors' = IF started THEN errors ELSE errors + 1
    /\ job' = [id |-> job.id + 1, kind |-> kind,
               state |-> IF started THEN "containing" ELSE "exiting",
               reply |-> IF started THEN NoReply ELSE Reply("unsent", 0)]
    /\ child' = IF started THEN job.id + 1 ELSE 0
    /\ process' = [process EXCEPT ![job.id + 1] = IF started THEN "running" ELSE "exited"]
    /\ flags' = [flags EXCEPT !.abortBeforeSend = "none"]
    /\ asked' = {}
    /\ UNCHANGED <<tree, mail, stopping>>

\* The executor was never sent its job: it is ended, and its exit is waited for.
Unsent(type) ==
    /\ job' = [job EXCEPT !.state = "exiting", !.reply = Reply(type, 0)]
    /\ child' = IF child = job.id THEN 0 ELSE child
    /\ TreeEnded(job.id)

ContainFails ==
    /\ job.state = "containing" /\ errors < MaxErrors
    /\ errors' = errors + 1
    /\ Unsent("unsent")
    /\ UNCHANGED <<flags, mail, stopping, asked>>

\* The process is held. The tree of one that is gone meanwhile, or that an abort reached, is ended; any other is sent
\* its job with no await between.
Contained ==
    /\ job.state = "containing"
    /\ LET next == IF child # job.id THEN "gone"
                   ELSE IF flags.abortBeforeSend # "none" THEN "aborted" ELSE "sent"
       IN  /\ job' = [job EXCEPT !.state = next]
           /\ IF next = "sent" THEN UNCHANGED <<process, tree>> ELSE TreeEnded(job.id)
    /\ UNCHANGED <<child, flags, mail, stopping, errors, asked>>

\* The unsent job's tree has ended. An abort's purpose is read only now, so a stop that came meanwhile is the reason.
Refused ==
    /\ job.state \in {"gone", "aborted"}
    /\ Unsent(IF job.state = "aborted" THEN flags.abortBeforeSend ELSE "unsent")
    /\ UNCHANGED <<flags, mail, stopping, errors, asked>>

\* #settle: everything kept for the job is reset, and its tree is ended before its promise resolves.
Settle(reply) ==
    /\ job' = [job EXCEPT !.state = "settled", !.reply = reply]
    /\ flags' = [Unflagged EXCEPT !.abortBeforeSend = flags.abortBeforeSend]
    /\ child' = IF child = job.id THEN 0 ELSE child

EndTree ==
    /\ job.state = "settled"
    /\ job' = [job EXCEPT !.state = "exiting"]
    /\ TreeEnded(job.id)
    /\ UNCHANGED <<child, flags, mail, stopping, errors, asked>>

\* Mutant of Resolve: the promise resolves at the reply, before the process is gone.
ResolveAtReply ==
    /\ job.state = "exiting"
    /\ job' = [job EXCEPT !.state = "idle"]
    /\ UNCHANGED <<child, flags, process, tree, mail, stopping, errors, asked>>

\* The job's promise resolves once its process's exit has been recorded.
Resolve ==
    /\ job.state = "exiting" /\ process[job.id] = "exited"
    /\ job' = [job EXCEPT !.state = "idle"]
    /\ UNCHANGED <<child, flags, process, tree, mail, stopping, errors, asked>>

-----------------------------------------------------------------------------
(* Aborts *)

\* Executor.abort, which reaches the job in progress only while its process is the current one.
Abort(purpose) ==
    IF child = 0
    THEN UNCHANGED <<flags, process, tree, asked>>
    ELSE /\ asked' = asked \cup {purpose}
         /\ CASE ~Settleable ->
                   /\ flags' = [flags EXCEPT !.abortBeforeSend = IF @ = "stop" THEN @ ELSE purpose]
                   /\ UNCHANGED <<process, tree>>
              [] Settleable /\ job.kind = "build" ->
                   /\ flags' = [flags EXCEPT !.stopAsked = TRUE]
                   /\ TreeEnded(child)
              [] OTHER ->
                   /\ flags' = [flags EXCEPT !.stopAsked = TRUE, !.timer = TRUE]
                   /\ UNCHANGED <<process, tree>>

\* A run's watch interrupts it, and a falsification its ending; a dependency build's bound ends it as a stop would.
AbortJob ==
    /\ job.state # "idle" /\ asked = {}
    /\ Abort(IF job.kind = "build" THEN "stop" ELSE "interruption")
    /\ UNCHANGED <<job, child, mail, stopping, errors>>

Stop ==
    /\ ~stopping
    /\ stopping' = TRUE
    /\ Abort("stop")
    /\ UNCHANGED <<job, child, mail, errors>>

\* The job has not ended within the bound of its abort.
BoundPasses ==
    /\ Settleable /\ flags.timer /\ ~flags.boundPassed
    /\ flags' = [flags EXCEPT !.boundPassed = TRUE]
    /\ TreeEnded(job.id)
    /\ UNCHANGED <<job, child, mail, stopping, errors, asked>>

-----------------------------------------------------------------------------
(* The processes, and what the daemon hears of them *)

\* The project's code runs in the process once it has its job, and starts processes of its own.
StartsProcess ==
    /\ Settleable /\ process[job.id] = "running" /\ tree[job.id] = "none"
    /\ tree' = [tree EXCEPT ![job.id] = "running"]
    /\ UNCHANGED <<job, child, flags, process, mail, stopping, errors, asked>>

\* The job ends in its process, by itself or at an abort it read, and its reply is sent.
Replies ==
    /\ Settleable /\ process[job.id] = "running" /\ job.id \notin mail
    /\ mail' = mail \cup {job.id}
    /\ UNCHANGED <<job, child, flags, process, tree, stopping, errors, asked>>

\* A process crashes, or one that was killed is gone. What it started goes on.
Dies(c) ==
    /\ process[c] \in {"running", "killed"}
    /\ process' = [process EXCEPT ![c] = "dead"]
    /\ UNCHANGED <<job, child, flags, tree, mail, stopping, errors, asked>>

\* Mutant of ReplyArrives: whichever process replies settles the job in progress.
ReplyFromAny(c) ==
    /\ c \in mail
    /\ mail' = mail \ {c}
    /\ IF Settleable
       THEN Settle(Reply("reply", c))
       ELSE UNCHANGED <<job, flags, child>>
    /\ UNCHANGED <<process, tree, stopping, errors, asked>>

\* A reply is taken from the current process only.
ReplyArrives(c) ==
    /\ c \in mail
    /\ mail' = mail \ {c}
    /\ IF child = c /\ Settleable
       THEN Settle(Reply("reply", c))
       ELSE UNCHANGED <<job, flags, child>>
    /\ UNCHANGED <<process, tree, stopping, errors, asked>>

\* An exit with no stop asked of the job is a crash.
ExitArrives(c) ==
    /\ process[c] = "dead"
    /\ process' = [process EXCEPT ![c] = "exited"]
    /\ IF child = c /\ Settleable
       THEN Settle(Reply(IF flags.stopAsked THEN "lost" ELSE "exited", c))
       ELSE /\ child' = IF child = c THEN 0 ELSE child
            /\ UNCHANGED <<job, flags>>
    /\ UNCHANGED <<tree, mail, stopping, errors, asked>>

\* A process's error event, or the send of its job failing, ends its tree and loses the job it holds.
Lost(c) ==
    /\ errors < MaxErrors /\ c <= job.id
    /\ errors' = errors + 1
    /\ TreeEnded(c)
    /\ IF child = c /\ Settleable
       THEN Settle(Reply("lost", c))
       ELSE /\ child' = IF child = c THEN 0 ELSE child
            /\ UNCHANGED <<job, flags>>
    /\ UNCHANGED <<mail, stopping, asked>>

-----------------------------------------------------------------------------
Init ==
    /\ job = [id |-> 0, kind |-> "discover", state |-> "idle", reply |-> NoReply]
    /\ child = 0
    /\ flags = Unflagged
    /\ process = [c \in Jobs |-> "none"]
    /\ tree = [c \in Jobs |-> "none"]
    /\ mail = {}
    /\ stopping = FALSE
    /\ errors = 0
    /\ asked = {}

Daemon == ContainFails \/ Contained \/ Refused \/ EndTree \/ Resolve \/ BoundPasses

Next ==
    \/ \E kind \in JobKinds, started \in BOOLEAN : Begin(kind, started)
    \/ Daemon
    \/ AbortJob \/ Stop
    \/ StartsProcess \/ Replies
    \/ \E c \in Jobs : Dies(c) \/ ReplyArrives(c) \/ ExitArrives(c) \/ Lost(c)

Spec == Init /\ [][Next]_vars

\* The daemon takes its own steps, its timer fires, a killed process is gone and its exit is heard. Nothing says that
\* a job ends by itself or heeds its abort.
FairSpec ==
    /\ Spec
    /\ WF_vars(Daemon)
    /\ \A c \in Jobs : WF_vars(process[c] = "killed" /\ Dies(c)) /\ WF_vars(ExitArrives(c))

-----------------------------------------------------------------------------
Outcomes == [type : {"unsent", "stop", "interruption", "reply", "lost", "exited"}, from : 0..MaxJobs]

JobTypeOK ==
    /\ job \in [id : 0..MaxJobs, kind : JobKinds, reply : Outcomes \cup {NoReply},
                state : {"idle", "containing", "gone", "aborted", "sent", "settled", "exiting"}]
    /\ child \in {0, job.id}

FlagsTypeOK ==
    /\ flags \in [abortBeforeSend : Purposes \cup {"none"}, stopAsked : BOOLEAN, boundPassed : BOOLEAN,
                  timer : BOOLEAN]
    /\ asked \subseteq Purposes

ProcessTypeOK ==
    /\ process \in [Jobs -> {"none", "running", "killed", "dead", "exited"}]
    /\ tree \in [Jobs -> {"none", "running", "ended"}]

TypeOK ==
    /\ JobTypeOK /\ FlagsTypeOK /\ ProcessTypeOK
    /\ mail \subseteq Jobs /\ stopping \in BOOLEAN /\ errors \in 0..MaxErrors

\* Nothing a job started outlives it: once its promise has resolved, its process's exit is recorded and no process it
\* started runs, whether it replied, crashed, was lost or was never sent its job (#settle, #unsent).
NothingOutlivesJob ==
    job.state = "idle" =>
        \A c \in 1..job.id : process[c] = "exited" /\ tree[c] # "running"

\* A job ends by what happened to its own process: a record is its own process's reply, a run stored as crashed is one
\* no abort was asked of, and a job not sent for an abort is one an abort reached, the stop's when a stop was among them
\* (#exited, #job).
OutcomeIsOwn ==
    job.reply # NoReply =>
        /\ Outcome = "ended" => job.reply.from = job.id
        /\ Outcome = "crashed" => job.reply.from = job.id /\ asked = {}
        /\ job.reply.type \in Purposes => job.reply.type \in asked
        /\ job.reply.type = "interruption" => "stop" \notin asked

\* An abort that reached a job ends it, even when its process heeds nothing (abort and EXECUTOR_BOUND_MS).
AbortedJobEnds == asked # {} ~> job.state = "idle"
=============================================================================
