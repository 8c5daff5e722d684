-------------------------- MODULE ServedConnections -------------------------
(***************************************************************************)
(* The connections a daemon serves (server.ts) and the clients on them     *)
(* (daemon-connection.ts, proven-connection.ts, query-client.ts): lines    *)
(* answered in their order however late each answer is ready, the bound on *)
(* unanswered requests, the stop that answers what is pending, and the     *)
(* close that no client can hold up; with the sequence of that stop        *)
(* (stop-sequence.ts, lifecycle.ts stop).                                  *)
(*                                                                         *)
(* A line is what its parsing and field checks make of it (protocol.ts,    *)
(* request-fields.ts): a stop or one of Kinds.  An answer carries the number of the  *)
(* line it is for, which the protocol does not: a client matches by        *)
(* position.                                                               *)
(***************************************************************************)
EXTENDS Naturals, FiniteSets, Sequences, SequencesExt

-----------------------------------------------------------------------------
(* The stop (StopSequence, DaemonLifecycle.stop): four halts, of which     *)
(* each may throw, the waits for the job in progress, the tracker and the  *)
(* builds, then the closings in order, which no failure skips.             *)

CONSTANT MayFail    \* the halts and closings that can fail here

VARIABLES
    stage,      \* "serving", then each wait and closing of the stop, then "over"
    failures,   \* the halts that failed, told once the closings have run
    working     \* what was under way as the stop began and still is: "job" (the scheduler's run), "builds"

stopVars == <<stage, failures, working>>

Halts == {"scheduler", "builds", "executor", "inputs"}

\* The stop's awaits, in order; the last closing is the endpoint's.
Stages == <<"serving", "inputs", "sequence", "builds", "executor", "buildExecutor", "store", "endpoint", "over">>
After(s) == Stages[(CHOOSE i \in 1..Len(Stages) : Stages[i] = s) + 1]

StopInit == stage = "serving" /\ failures = {} /\ working = {}

IsStopping == stage # "serving"
StoreOpen == stage \in {"serving", "inputs", "sequence", "builds", "executor", "buildExecutor", "store"}

\* The job or the builds end; builds whose stop threw may go on.
WorkEnds(w) == w \in working \ failures /\ working' = working \ {w} /\ UNCHANGED <<stage, failures>>

\* StopSequence.run up to its first await: the scheduler, the builds and the executor are told, each whether or not an
\* earlier one threw; the tracker's stop is the first awaited.
BeginHalts ==
    /\ failures' \in SUBSET (MayFail \cap {"scheduler", "builds", "executor"})
    /\ stage' = "inputs" /\ working' \in SUBSET {"job", "builds"}

\* Mutant of Await: the builds are not waited for.
AwaitNoBuilds ==
    /\ stage \in {"inputs", "sequence", "builds"}
    /\ stage = "sequence" => "job" \notin working
    /\ stage' = After(stage)
    /\ UNCHANGED <<failures, working>>

\* Mutant of Await: a halt that failed throws out of the stop.
AwaitThrown == failures = {} /\ AwaitNoBuilds

\* Awaits the tracker's stop, the scheduler's run, which ends once the job in progress has, and the builds' stop, which
\* a throw has ended already.
Await ==
    /\ stage \in {"inputs", "sequence", "builds"}
    /\ stage = "sequence" => "job" \notin working
    /\ stage = "builds" => "builds" \notin working \/ "builds" \in failures
    /\ stage' = After(stage)
    /\ failures' \in {failures} \cup IF stage = "inputs" /\ "inputs" \in MayFail THEN {failures \cup {"inputs"}} ELSE {}
    /\ UNCHANGED working

\* #closing: the executors and the store close, or fail to, which is logged.
Closing ==
    /\ stage \in {"executor", "buildExecutor", "store"}
    /\ stage' = After(stage)
    /\ UNCHANGED <<failures, working>>

-----------------------------------------------------------------------------
(* The connections *)

CONSTANTS
    Clients,
    Pipelining,         \* clients that write a line while another is unanswered
    MaxUnanswered,      \* MAX_UNANSWERED_REQUESTS
    MaxLines,           \* bound: lines each client writes
    Unready             \* of a turn whose answer is not ready

\* LineDecoder and parseLine: a line too long, or that is no JSON object, is still one line with one answer.
BadLine == "bad"

\* The field checks: a query with paths, a limit, a cursor or edited files it cannot take begins no work.
RefusedQuery == "refused"

\* A line parsed: those, a hello of this or another version, a status or a request of another version, a query answered
\* at once or of an unknown type, or a query whose answer comes late.
Kinds == {BadLine, "hello", "otherHello", "status", RefusedQuery, "summary", "late"}

\* What a line is answered with.
Messages == {"stopping", "ack", "mismatch", "helloRequired", "answer"} \cup Kinds

ServedAssumption ==
    /\ Pipelining \subseteq Clients /\ MaxUnanswered \in Nat \ {0} /\ MaxLines \in [Clients -> Nat]
    /\ MayFail \subseteq Halts /\ Unready \notin Messages

VARIABLES
    conn,       \* each connection, as the server has it
    work,       \* the late queries under way: [client, line, aborted]
    written,    \* how many lines each client wrote
    took        \* the answers each client got, in their order

connVars == <<conn, work>>
servedVars == <<stopVars, connVars, written, took>>

Turn(n, message) == [line |-> n, message |-> message]

NewConnection == [state |-> "awaiting-hello", turns |-> <<>>, ending |-> FALSE, dropped |-> FALSE, socket |-> "open"]

ServedTypeOK ==
    /\ \A c \in Clients :
          /\ conn[c].state \in {"awaiting-hello", "ready", "mismatched"}
          /\ conn[c].socket \in {"none", "open", "ended", "closed"}
          /\ {conn[c].ending, conn[c].dropped} \subseteq BOOLEAN
          /\ conn[c].turns \in Seq([line: Nat, message: Messages \cup {Unready}])
          /\ Len(conn[c].turns) <= MaxUnanswered
    /\ \A c \in Clients : conn[c].socket = "closed" => conn[c].turns = <<>>
    /\ work \subseteq [client: Clients, line: Nat, aborted: BOOLEAN]

ServedInit ==
    /\ StopInit
    /\ conn = [c \in Clients |-> [NewConnection EXCEPT !.socket = "none"]]
    /\ work = {} /\ took = [c \in Clients |-> <<>>]
    /\ written = [c \in Clients |-> 0]

-----------------------------------------------------------------------------
(* ServedConnection *)

\* answering.
Answering(k) == k.socket = "open" /\ ~k.ending

Pending(turn) == turn.message = Unready

\* The number of turns #flush writes: up to the first one still pending.
Ready(turns) == LET pending == {i \in 1..Len(turns) : Pending(turns[i])}
                IN IF pending = {} THEN Len(turns) ELSE Min(pending) - 1

\* Mutant of Flushed: every answer that is ready is written, past one still pending.
FlushedAny(k) ==
    LET kept == SelectSeq(k.turns, Pending)
    IN [conn |-> [k EXCEPT !.turns = kept, !.socket = IF k.ending /\ kept = <<>> /\ @ = "open" THEN "ended" ELSE @],
        out |-> IF k.socket = "open" THEN SelectSeq(k.turns, LAMBDA t : ~Pending(t)) ELSE <<>>]

\* #flush: the answers at the head of the turns, written while the socket is writable, which it ends when told to.
Flushed(k) ==
    LET kept == SubSeq(k.turns, Ready(k.turns) + 1, Len(k.turns))
    IN [conn |-> [k EXCEPT !.turns = kept, !.socket = IF k.ending /\ kept = <<>> /\ @ = "open" THEN "ended" ELSE @],
        out |-> IF k.socket = "open" THEN SubSeq(k.turns, 1, Ready(k.turns)) ELSE <<>>]

\* drop: writes nothing more; whoever calls it aborts the connection's work.
Dropped(k) == [k EXCEPT !.dropped = TRUE, !.turns = <<>>]

Aborted(works, cs) == {IF w.client \in cs THEN [w EXCEPT !.aborted = TRUE] ELSE w : w \in works}

\* #queue and #closeOverBound: pushed, flushed, and the connection destroyed past the bound.
Queued(k, turn) ==
    LET flushed == Flushed([k EXCEPT !.turns = Append(@, turn)])
    IN IF Len(flushed.conn.turns) > MaxUnanswered
       THEN [conn |-> [Dropped(flushed.conn) EXCEPT !.socket = "closed"], out |-> flushed.out, over |-> TRUE]
       ELSE [conn |-> flushed.conn, out |-> flushed.out, over |-> FALSE]

\* answerPendingStopping: every request whose work still runs; its work is aborted with it.
AnsweredStopping(k) ==
    Flushed([k EXCEPT !.turns = [i \in DOMAIN @ |-> IF Pending(@[i]) THEN Turn(@[i].line, "stopping") ELSE @[i]]])

-----------------------------------------------------------------------------
(* A line's answer (answer, hello, versionedAnswer, queryResponse) *)

\* What a line other than a stop is answered with on a connection in a state; Unready for a promise.
Answer(state, kind) ==
    IF kind \in {BadLine, "hello"} THEN kind
    ELSE IF kind = "otherHello" THEN "mismatch"
    ELSE IF state = "awaiting-hello" THEN "helloRequired"
    ELSE IF kind # "status" /\ IsStopping THEN "stopping"
    ELSE IF kind = "late" THEN Unready ELSE kind

\* hello's new state: the latest hello decides.
StateAfter(state, kind) ==
    IF kind = "hello" THEN "ready" ELSE IF kind = "otherHello" THEN "mismatched" ELSE state

\* What one line does to its connection: queue its answer, or end the connection when it is mismatched.
Served(k, kind, n) ==
    IF k.state = "mismatched"
    THEN LET flushed == Flushed([k EXCEPT !.ending = TRUE])
         IN [conn |-> flushed.conn, out |-> flushed.out, over |-> FALSE]
    ELSE Queued([k EXCEPT !.state = StateAfter(k.state, kind)], Turn(n, Answer(k.state, kind)))

Got(c, out) == took[c] \o [i \in DOMAIN out |-> [line |-> out[i].line, ack |-> out[i].message = "ack"]]

\* DaemonConnection.request writes a line, refused while another waits for its answer.
Writes(c) ==
    /\ conn[c].socket \in {"open", "ended"} /\ written[c] < MaxLines[c]
    /\ c \in Pipelining \/ Len(took[c]) = written[c]
    /\ written' = [written EXCEPT ![c] = @ + 1]

\* A line other than a stop, answered while the connection answers lines and left unread otherwise.
TakeLine(c, kind) ==
    /\ Writes(c)
    /\ LET k == conn[c]
           served == Served(k, kind, written'[c])
           late == k.state # "mismatched" /\ Answer(k.state, kind) = Unready
           begun == work \cup IF late THEN {[client |-> c, line |-> written'[c], aborted |-> FALSE]} ELSE {}
       IN IF ~Answering(k) THEN UNCHANGED <<conn, work, took>>
          ELSE /\ conn' = [conn EXCEPT ![c] = served.conn]
               /\ work' = IF served.over THEN Aborted(begun, {c}) ELSE begun
               /\ took' = [took EXCEPT ![c] = Got(c, served.out)]
    /\ UNCHANGED stopVars

\* handlers.stop: joins a stop under way; one that begins answers what is pending (Stopping) and halts.
Begins == IF IsStopping THEN UNCHANGED <<stopVars, work>> ELSE work' = Aborted(work, Clients) /\ BeginHalts
Stopping(k) == IF IsStopping THEN [conn |-> k, out |-> <<>>] ELSE AnsweredStopping(k)

\* A stop line: begun first, then acknowledged, on a connection in any state.
TakeStop(c) ==
    /\ Writes(c) /\ Answering(conn[c])
    /\ LET stopping == [x \in Clients |-> Stopping(conn[x])]
           acknowledged == Queued(stopping[c].conn, Turn(written'[c], "ack"))
       IN /\ Begins
          /\ conn' = [x \in Clients |-> IF x = c THEN acknowledged.conn ELSE stopping[x].conn]
          /\ took' = [x \in Clients |-> Got(x, stopping[x].out \o IF x = c THEN acknowledged.out ELSE <<>>)]

\* A stop signal (daemon-main.ts) begins the same stop.
StopSignal ==
    /\ ~IsStopping /\ Begins
    /\ conn' = [c \in Clients |-> Stopping(conn[c]).conn]
    /\ took' = [c \in Clients |-> Got(c, Stopping(conn[c]).out)]
    /\ UNCHANGED written

\* queryResponse, checkedAnswer: the answer, or the error that says why there is none; a rejection is an answer too.
CheckedAnswer == "answer"

\* #settle: an answer given otherwise, or to a dropped connection, stays as it is.
Settled(k, turn) ==
    Flushed([k EXCEPT !.turns = [i \in DOMAIN @ |-> IF @[i].line = turn.line /\ Pending(@[i]) THEN turn ELSE @[i]]])

\* A late query's read ends.  Aborted, it reads nothing more; else it reads the store and its answer is settled (#settle).
QueryEnds(w) ==
    /\ w \in work /\ work' = work \ {w}
    /\ LET k == conn[w.client]
           settled == Settled(k, Turn(w.line, CheckedAnswer))
       IN IF w.aborted \/ k.dropped THEN UNCHANGED <<conn, took>>
          ELSE /\ conn' = [conn EXCEPT ![w.client] = settled.conn]
               /\ took' = [took EXCEPT ![w.client] = Got(w.client, settled.out)]
    /\ UNCHANGED <<stopVars, written>>

Drops(c) ==
    /\ conn' = [conn EXCEPT ![c] = [Dropped(@) EXCEPT !.socket = "closed"]]
    /\ work' = Aborted(work, {c})

\* A socket closed, by its client, by an error or once ended and flushed: the connection is dropped.
SocketCloses(c) ==
    /\ conn[c].socket \in {"open", "ended"} /\ Drops(c)
    /\ UNCHANGED <<stopVars, written, took>>

\* closeEndpoint: closeConnections ends every connection; each is closed once flushed or past the close grace.
CloseConnections ==
    /\ stage = "endpoint"
    /\ conn' = [c \in Clients |-> [conn[c] EXCEPT !.socket = IF @ = "open" THEN "ended" ELSE @]]
    /\ conn' # conn
    /\ UNCHANGED <<stopVars, work, written, took>>

\* listening.close ends once every connection has.
EndpointCloses ==
    /\ stage = "endpoint" /\ \A c \in Clients : conn[c].socket \in {"none", "closed"}
    /\ stage' = "over"
    /\ UNCHANGED <<failures, working, connVars, written, took>>

-----------------------------------------------------------------------------
(* The clients *)

\* DaemonConnection.open.
Connect(c) ==
    /\ conn[c].socket = "none" /\ stage \notin {"endpoint", "over"}
    /\ conn' = [conn EXCEPT ![c] = NewConnection]
    /\ UNCHANGED <<stopVars, work, written, took>>

\* #nextLine's bound passed: the client destroys its socket, so no later answer is taken for another request's.
TimesOut(c) ==
    /\ Len(took[c]) < written[c] /\ conn[c].socket \in {"open", "ended"} /\ Drops(c)
    /\ UNCHANGED <<stopVars, written, took>>

StopProceeds == (Await \/ Closing) /\ UNCHANGED <<connVars, written, took>>

ServedNext ==
    \/ \E c \in Clients : Connect(c) \/ TakeStop(c) \/ SocketCloses(c) \/ TimesOut(c)
                          \/ \E kind \in Kinds : TakeLine(c, kind)
    \/ \E w \in work : QueryEnds(w)
    \/ StopSignal \/ StopProceeds \/ CloseConnections \/ EndpointCloses
    \/ \E w \in working : WorkEnds(w) /\ UNCHANGED <<connVars, written, took>>

ServedSpec == ServedInit /\ [][ServedNext]_servedVars

\* The stop's own awaits go on, a job told to stop and the builds end (Executor), and the grace timer closes a socket
\* that was ended.
ServedFairSpec ==
    /\ ServedSpec
    /\ WF_servedVars(StopProceeds) /\ WF_servedVars(CloseConnections) /\ WF_servedVars(EndpointCloses)
    /\ \A w \in {"job", "builds"} : WF_servedVars(WorkEnds(w) /\ UNCHANGED <<connVars, written, took>>)
    /\ \A c \in Clients : WF_servedVars(conn[c].socket = "ended" /\ SocketCloses(c))

-----------------------------------------------------------------------------
(* Properties *)

\* Every answer a client takes is the one to the request it waits for: answers ready out of order, refusals written
\* between late ones and the stop's answers keep the order of the lines (ServedConnection, DaemonConnection.request).
TakenInOrder == \A c \in Clients : \A i \in DOMAIN took[c] : took[c][i].line = i

\* A stop leaves nobody waiting: once it has begun, every line taken is answered, and stays so for lines that follow.
NothingPending == IsStopping => \A c \in Clients : conn[c].turns = <<>>

\* Each answer is for its own request, and none is owed once a stop has begun.
AnswersMatch == TakenInOrder /\ NothingPending

\* A stop request on a connection that answers is acknowledged, however many requests wait before it, and never closes
\* its connection over the bound (answer: "begun first").
StopAcknowledged ==
    [][\A c \in Clients : TakeStop(c) => /\ conn'[c].socket = "open"
                                         /\ Last(took'[c]) = [line |-> written'[c], ack |-> TRUE]]_servedVars

\* No query reads the store once it is closed, and the store closes only after the job in progress and the builds whose
\* stop did not fail (lifecycle.ts pathStatus; StopSequence.run).
StoreClosesLast ==
    ~StoreOpen => /\ \A w \in work : w.aborted
                  /\ working \subseteq failures \cap {"builds"}

\* A stop ends whatever failed on the way and whatever a client does with its connection.
StopEnds == IsStopping ~> stage = "over"
=============================================================================
