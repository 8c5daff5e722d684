----------------------------- MODULE DaemonStart ----------------------------
(***************************************************************************)
(* Starts of one worktree's daemon that race each other and what a killed  *)
(* daemon left: the start lock and the store lock (runtime-directory.ts),  *)
(* the socket (endpoint.ts), the key (endpoint-proof.ts), the order        *)
(* daemon-main.ts takes and gives them up in, and the starter that accepts *)
(* the start or abandons it (client.ts).  Linux: a Windows pipe needs      *)
(* neither the start lock nor a stale socket's removal.                    *)
(*                                                                         *)
(* A step is one call on the file system or the socket.  A process id is   *)
(* never used again; Left is the one of a daemon killed before.  A start   *)
(* stands for its starter and the process it spawns.                       *)
(***************************************************************************)
EXTENDS Naturals, FiniteSets, NoValue

CONSTANTS
    Starts, Left,
    MaxAtOnce   \* bound: starts whose process runs at one time

StartAssumption ==
    /\ Left \notin Starts /\ None \notin Starts \cup {Left}
    /\ MaxAtOnce \in Nat

VARIABLES
    pc,         \* what each start's process does next
    taking,     \* the lock it is taking: the start lock, then the store lock
    saw,        \* the ended holder it read in that lock
    aside,      \* the file it moved aside: a lock it took for stale, or the key it removes
    owes,       \* what its closing gives up after the socket: "key", "lock"
    fileLock,   \* the process each lock file names, None without a file
    socket,     \* the process that bound the socket file, None without a file
    key,        \* the process whose key the key file holds, None without a file
    listening,  \* the processes whose server accepts connections
    handled,    \* the processes with their stop signals handled
    open,       \* the processes with the store open
    starter,    \* each start's client: "idle", "waiting", "accepted", "gone" or "over"
    stopper     \* the process a stop's client waits for, None without one

processVars == <<pc, taking, saw, aside, owes>>
fileVars == <<fileLock, socket, key>>
vars == <<processVars, fileVars, listening, handled, open, starter, stopper>>

Locks == {"start", "store"}
Pids == Starts \cup {Left}
Over == {"none", "refused", "ended"}

TypeOK ==
    /\ pc \in [Starts -> Over \cup {"link", "read", "move", "inspect", "relink", "listen", "probe", "unlink", "relisten",
                                    "check", "release", "key", "open", "serving", "running",
                                    "close", "keymove", "keyback", "checkstore", "releasestore"}]
    /\ taking \in [Starts -> Locks] /\ saw \in [Starts -> Pids \cup {None}] /\ aside \in [Starts -> Pids \cup {None}]
    /\ owes \in [Starts -> SUBSET {"key", "lock"}]
    /\ fileLock \in [Locks -> Pids \cup {None}] /\ {socket, key} \subseteq Pids \cup {None}
    /\ listening \subseteq Starts /\ handled \subseteq Starts /\ open \subseteq Starts
    /\ starter \in [Starts -> {"idle", "waiting", "accepted", "gone", "over"}] /\ stopper \in Starts \cup {None}

\* A killed daemon may have left any of its files.
Init ==
    /\ pc = [p \in Starts |-> "none"] /\ taking = [p \in Starts |-> "start"]
    /\ saw = [p \in Starts |-> None] /\ aside = [p \in Starts |-> None] /\ owes = [p \in Starts |-> {}]
    /\ fileLock \in [Locks -> {None, Left}] /\ socket \in {None, Left} /\ key \in {None, Left}
    /\ listening = {} /\ handled = {} /\ open = {}
    /\ starter = [p \in Starts |-> "idle"] /\ stopper = None

-----------------------------------------------------------------------------
(* Helpers *)

\* isRunning.
Running(pid) == pid \in Starts /\ pc[pid] \notin Over

\* DaemonConnection.open and connectEndpoint: a connection is accepted, whatever answers on it.
Connects == socket \in listening

\* daemonVerifier: the key file holds the key this process proves itself with.
Verified(p) == key = p

\* provenRequest, onProvenConnection: the process that accepts the connection serves it and is verified.
Proven(p) == socket = p /\ p \in listening \cap handled /\ Verified(p)

Goto(p, at) == pc' = [pc EXCEPT ![p] = at]

\* What follows a lock that was taken, and one that was refused.
Taken(p) == IF taking[p] = "start" THEN "listen" ELSE "open"
NotTaken(p) == IF taking[p] = "start" THEN "refused" ELSE "close"

-----------------------------------------------------------------------------
(* The starter (client.ts) *)

\* refuseRunningDaemon: whatever accepts a connection refuses the start, proven or not.
RefusesRunning == Connects

\* spawnDaemon, and the start request the process waits for.
Spawned(p) == starter' = [starter EXCEPT ![p] = "waiting"] /\ Goto(p, "link")

StartDaemon(p) ==
    /\ starter[p] = "idle" /\ Cardinality({q \in Starts : Running(q)}) < MaxAtOnce
    /\ IF RefusesRunning
       THEN starter' = [starter EXCEPT ![p] = "over"] /\ UNCHANGED pc
       ELSE Spawned(p)
    /\ UNCHANGED <<taking, saw, aside, owes, fileVars, listening, handled, open, stopper>>

\* startupReport, beforeDeadline: the starter waits for the report and the status, until any failure or the deadline.
Waiting(p) == starter[p] = "waiting"

\* startedDaemon, acceptStart: the report was read and the status came, proven, from the process that reported.
AcceptStart(p) ==
    /\ Waiting(p) /\ pc[p] = "serving" /\ Proven(p)
    /\ starter' = [starter EXCEPT ![p] = "accepted"]
    /\ UNCHANGED <<processVars, fileVars, listening, handled, open, stopper>>

\* A process ends and leaves its files: killed, or by a signal before its handlers are there.
Ends(p) ==
    /\ Goto(p, "ended")
    /\ listening' = listening \ {p} /\ open' = open \ {p}

\* abandon: any failure, the deadline's among them, kills the process; one whose signals are handled stops instead.
Abandon(p) ==
    /\ Waiting(p)
    /\ starter' = [starter EXCEPT ![p] = "over"]
    /\ IF pc[p] = "serving" THEN Goto(p, "close") /\ UNCHANGED <<listening, open>>
       ELSE IF Running(p) /\ p \notin handled THEN Ends(p)
       ELSE UNCHANGED <<pc, listening, open>>
    /\ UNCHANGED <<taking, saw, aside, owes, fileVars, handled, stopper>>

\* The starter itself ends, which closes the startup channel.
StarterEnds(p) ==
    /\ Waiting(p)
    /\ starter' = [starter EXCEPT ![p] = "gone"]
    /\ UNCHANGED <<processVars, fileVars, listening, handled, open, stopper>>

\* stopDaemon: the proven acknowledgement names the process whose end is then polled for.
StopDaemon(p) ==
    /\ stopper = None /\ pc[p] \in {"serving", "running"} /\ Proven(p)
    /\ stopper' = p /\ Goto(p, "close")
    /\ UNCHANGED <<taking, saw, aside, owes, fileVars, listening, handled, open, starter>>

\* waitForExit: the process has ended and nothing accepts connections, or the deadline passed.
WaitForExit ==
    /\ stopper # None /\ ~Running(stopper) /\ ~Connects
    /\ stopper' = None
    /\ UNCHANGED <<processVars, fileVars, listening, handled, open, starter>>

StopDeadline ==
    /\ stopper # None /\ stopper' = None
    /\ UNCHANGED <<processVars, fileVars, listening, handled, open, starter>>

-----------------------------------------------------------------------------
(* takeLock and release (runtime-directory.ts) *)

\* runtimeDirectoryRefusal: the directory is a link, another user's or open to others.
DirectoryRefuses(p) ==
    /\ pc[p] = "link" /\ taking[p] = "start" /\ Goto(p, "refused")
    /\ UNCHANGED <<taking, saw, aside, owes, fileVars, listening, handled, open, starter, stopper>>

\* Mutant of Link: written over whatever is there instead of linked.
LinkOver(p) ==
    /\ pc[p] \in {"link", "relink"}
    /\ fileLock' = [fileLock EXCEPT ![taking[p]] = p] /\ Goto(p, Taken(p))
    /\ UNCHANGED <<taking, saw, aside, owes, socket, key, listening, handled, open, starter, stopper>>

\* createLock: a link that finds a file there takes nothing; the second attempt then refuses.
Link(p) ==
    /\ pc[p] \in {"link", "relink"}
    /\ IF fileLock[taking[p]] = None
       THEN fileLock' = [fileLock EXCEPT ![taking[p]] = p] /\ Goto(p, Taken(p))
       ELSE UNCHANGED fileLock /\ Goto(p, IF pc[p] = "link" THEN "read" ELSE NotTaken(p))
    /\ UNCHANGED <<taking, saw, aside, owes, socket, key, listening, handled, open, starter, stopper>>

\* readHolder: refused while the holder runs; a file gone by now is tried again.
ReadHolder(p) ==
    /\ pc[p] = "read"
    /\ LET holder == fileLock[taking[p]] IN
       /\ saw' = [saw EXCEPT ![p] = holder]
       /\ Goto(p, IF holder = None THEN "relink" ELSE IF Running(holder) THEN NotTaken(p) ELSE "move")
    /\ UNCHANGED <<taking, aside, owes, fileVars, listening, handled, open, starter, stopper>>

\* removeStaleLock: moves whatever the file is by now.
MoveAside(p) ==
    /\ pc[p] = "move"
    /\ aside' = [aside EXCEPT ![p] = fileLock[taking[p]]]
    /\ fileLock' = [fileLock EXCEPT ![taking[p]] = None]
    /\ Goto(p, IF fileLock[taking[p]] = None THEN "relink" ELSE "inspect")
    /\ UNCHANGED <<taking, saw, owes, socket, key, listening, handled, open, starter, stopper>>

\* restore: linked back when it is not the one read as stale and nothing took its place.
Inspect(p) ==
    /\ pc[p] = "inspect" /\ Goto(p, "relink") /\ aside' = [aside EXCEPT ![p] = None]
    /\ IF aside[p] # saw[p] /\ fileLock[taking[p]] = None
       THEN fileLock' = [fileLock EXCEPT ![taking[p]] = aside[p]] ELSE UNCHANGED fileLock
    /\ UNCHANGED <<taking, saw, owes, socket, key, listening, handled, open, starter, stopper>>

\* held.release: reads the file, then deletes what is there.  A start without a server refuses after it.
Release(p) ==
    /\ pc[p] \in {"check", "release", "checkstore", "releasestore"}
    /\ LET l == IF pc[p] \in {"check", "release"} THEN "start" ELSE "store"
           after == IF l = "store" THEN "ended" ELSE IF p \in listening THEN "key" ELSE "refused"
       IN IF pc[p] \in {"check", "checkstore"}
          THEN /\ Goto(p, IF fileLock[l] # p THEN after ELSE IF l = "start" THEN "release" ELSE "releasestore")
               /\ UNCHANGED fileLock
          ELSE fileLock' = [fileLock EXCEPT ![l] = None] /\ Goto(p, after)
    /\ UNCHANGED <<taking, saw, aside, owes, socket, key, listening, handled, open, starter, stopper>>

-----------------------------------------------------------------------------
(* listenAt (endpoint.ts), under the start lock *)

\* tryListen: a path in use is probed after the first attempt and reported after the second.
TryListen(p) ==
    /\ pc[p] \in {"listen", "relisten"}
    /\ IF socket = None
       THEN socket' = p /\ listening' = listening \cup {p} /\ Goto(p, "check")
       ELSE UNCHANGED <<socket, listening>> /\ Goto(p, IF pc[p] = "listen" THEN "probe" ELSE "check")
    /\ UNCHANGED <<taking, saw, aside, owes, fileLock, key, handled, open, starter, stopper>>

\* Mutant of Probe: a path in use is taken for a stale file.
ProbeStale(p) ==
    /\ pc[p] = "probe" /\ Goto(p, "unlink")
    /\ UNCHANGED <<taking, saw, aside, owes, fileVars, listening, handled, open, starter, stopper>>

\* probe, holderAfterConnectError: answers, a stale file, or gone.
Probe(p) ==
    /\ pc[p] = "probe"
    /\ Goto(p, IF Connects THEN "check" ELSE IF socket # None THEN "unlink" ELSE "relisten")
    /\ UNCHANGED <<taking, saw, aside, owes, fileVars, listening, handled, open, starter, stopper>>

\* removeStaleSocket: unlinks whatever is there by now.
UnlinkSocket(p) ==
    /\ pc[p] = "unlink" /\ socket' = None /\ Goto(p, "relisten")
    /\ UNCHANGED <<taking, saw, aside, owes, fileLock, key, listening, handled, open, starter, stopper>>

-----------------------------------------------------------------------------
(* serve and holdStore (daemon-main.ts) *)

\* createDaemonKey renames over whatever is there, or fails; then the store lock.
CreateKey(p) ==
    /\ pc[p] = "key"
    /\ \/ key' = p /\ Goto(p, "link") /\ taking' = [taking EXCEPT ![p] = "store"] /\ owes' = [owes EXCEPT ![p] = {"key"}]
       \/ UNCHANGED <<key, taking, owes>> /\ Goto(p, "close")
    /\ UNCHANGED <<saw, aside, fileLock, socket, listening, handled, open, starter, stopper>>

\* serve's end: the lifecycle and its server are there, the signals are handled and serving is reported.
Serves(p) == open' = open \cup {p} /\ handled' = handled \cup {p} /\ Goto(p, "serving")

\* holdStore: the store opens under the store lock, or fails to.
OpenStore(p) ==
    /\ pc[p] = "open" /\ owes' = [owes EXCEPT ![p] = @ \cup {"lock"}]
    /\ \/ Serves(p)
       \/ UNCHANGED <<open, handled>> /\ Goto(p, "close")
    /\ UNCHANGED <<taking, saw, aside, fileVars, listening, starter, stopper>>

\* startAccepted: begins when the acceptance is read, and stops when the channel closed without one.
StartAccepted(p) ==
    /\ pc[p] = "serving" /\ starter[p] \in {"accepted", "gone"}
    /\ Goto(p, IF starter[p] = "accepted" THEN "running" ELSE "close")
    /\ UNCHANGED <<taking, saw, aside, owes, fileVars, listening, handled, open, starter, stopper>>

\* A stop signal, or a stop request this model does not follow to its end.
StopSignal(p) ==
    /\ pc[p] \in {"serving", "running"} /\ Goto(p, "close")
    /\ UNCHANGED <<taking, saw, aside, owes, fileVars, listening, handled, open, starter, stopper>>

\* The stop sequence up to closeEndpoint's listening.close, or a refused start's: the store is closed, the server
\* accepts no more, and its close deletes the socket path, whosever file that is.
CloseListening(p) ==
    /\ pc[p] = "close"
    /\ open' = open \ {p} /\ listening' = listening \ {p} /\ socket' = None
    /\ Goto(p, IF owes[p] = {} THEN "refused" ELSE "keymove")
    /\ UNCHANGED <<taking, saw, aside, owes, fileLock, key, handled, starter, stopper>>

AfterKey(p) == IF "lock" \in owes[p] THEN "checkstore" ELSE "refused"

\* key.remove, removeIfStillOurs: moves the key aside before it reads it.
RemoveKey(p) ==
    /\ pc[p] = "keymove"
    /\ aside' = [aside EXCEPT ![p] = key] /\ key' = None
    /\ Goto(p, IF key = None THEN AfterKey(p) ELSE "keyback")
    /\ UNCHANGED <<taking, saw, owes, fileLock, socket, listening, handled, open, starter, stopper>>

\* putBack: another daemon's key goes back unless a newer one is there.
PutBack(p) ==
    /\ pc[p] = "keyback" /\ aside' = [aside EXCEPT ![p] = None] /\ Goto(p, AfterKey(p))
    /\ IF aside[p] # p /\ key = None THEN key' = aside[p] ELSE UNCHANGED key
    /\ UNCHANGED <<taking, saw, owes, fileLock, socket, listening, handled, open, starter, stopper>>

Killed(p) ==
    /\ Running(p) /\ Ends(p)
    /\ UNCHANGED <<taking, saw, aside, owes, fileVars, handled, starter, stopper>>

Step(p) ==
    \/ DirectoryRefuses(p) \/ Link(p) \/ ReadHolder(p) \/ MoveAside(p) \/ Inspect(p) \/ Release(p)
    \/ TryListen(p) \/ Probe(p) \/ UnlinkSocket(p)
    \/ CreateKey(p) \/ OpenStore(p) \/ StartAccepted(p)
    \/ CloseListening(p) \/ RemoveKey(p) \/ PutBack(p)

Next ==
    \/ \E p \in Starts : StartDaemon(p) \/ AcceptStart(p) \/ Abandon(p) \/ StarterEnds(p) \/ StopDaemon(p)
                         \/ Step(p) \/ StopSignal(p) \/ Killed(p)
    \/ WaitForExit \/ StopDeadline

Spec == Init /\ [][Next]_vars

-----------------------------------------------------------------------------
(* Properties *)

\* The process with the store open; more than one are none that StoreWriter knows.
OpenedBy == IF open = {} THEN None ELSE IF Cardinality(open) = 1 THEN CHOOSE p \in open : TRUE ELSE open
Executing == \E p \in open : pc[p] = "running"

\* The daemon's start is a lock on the store: one process has it open at a time, whatever starts race, are abandoned or
\* killed, and it executes only after it was accepted (holdStore, startAccepted).
Writer == INSTANCE StoreWriter WITH writer <- OpenedBy, executes <- Executing

OneWriter == Writer!Spec

\* A start deletes no socket another process listens on (the start lock is held across the stale-socket check, its
\* unlink and the listen), and neither does a daemon that stops.
NoLiveSocketUnlinked == [][\A p \in Starts : socket = p /\ p \in listening /\ socket' # p => p \notin listening']_vars

\* A running daemon is one its clients can find and have prove itself, whatever daemons stop or start around it: no
\* other's removal of its key, its lock or its socket file takes away what this one wrote.
RunningIsFound ==
    \A p \in Starts : pc[p] = "running" /\ ~(\E q \in Starts : pc[q] = "keyback") => Proven(p)

\* What the start needs besides: no process ends while it has a file aside, to put back or to drop.
KeepsAside == \A p \in Starts : aside[p] # None => pc'[p] # "ended"
NoneEndsWithFileAside == [][KeepsAside]_vars
=============================================================================
