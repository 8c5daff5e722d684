----------------------------- MODULE HookMemory -----------------------------
(***************************************************************************)
(* The agent hook of one session (packages/cli/src/commands/hook.ts,       *)
(* hook-memory.ts, hook-edits.ts, hook-report.ts): runs of the main agent, *)
(* of other agents, of prompts and of turn ends read every memory file     *)
(* once, one by one, and each writes its own; a batch remembers its edits  *)
(* before it asks the daemon, and tells its agent what changed since its   *)
(* own last report, or once that no answer came.                           *)
(*                                                                         *)
(* No await lies between a run's last save and its print, so they are one  *)
(* step; every other step of two runs interleaves, and a run may be ended  *)
(* at any of them.                                                         *)
(***************************************************************************)
EXTENDS Naturals, Sequences, FiniteSets, SequencesExt, NoValue

CONSTANTS
    Agents,         \* the agents that run batches
    MainAgent,      \* the one the session's prompts reach too
    StandingWriters, \* the session's other writers: its prompts and its turn ends
    BatchesOf,      \* bound: the sets of files a batch of each agent may have edited
    Deleted,        \* the edited files that no longer exist when they are asked about
    MaxPaths,       \* MAX_CHANGES_PATHS
    Age,            \* MEMORY_AGE_MS, in ticks
    MaxTime,        \* bound: the ticks of the clock
    MaxRuns,        \* bound: the runs of the hook
    MaxAtOnce,      \* bound: the runs under way together
    MaxChanges      \* bound: the changes the daemon records

Prompts == "prompts"
TurnEnds == "turn-ends"
Writers == Agents \cup StandingWriters

ASSUME HookAssumption ==
    /\ MainAgent \in Agents /\ StandingWriters \subseteq {Prompts, TurnEnds}
    /\ {MaxPaths, Age, MaxTime, MaxRuns, MaxAtOnce, MaxChanges} \subseteq Nat

VARIABLES
    now,        \* Date.now()
    memory,     \* each writer's memory file
    hookRun,    \* each writer's run
    begun,      \* the runs begun
    journal,    \* the position of the daemon's last change
    edited,     \* ghost: what each agent edited and could save, most recent first
    aged,       \* ghost: the writers whose file has once been untouched past the age
    lossTold,   \* ghost: when a loss was last printed to each reader
    reported    \* ghost: the journal position each agent was last told of

hookVars == <<now, memory, hookRun, begun, journal, edited, aged, lossTold, reported>>

\* A time that never was, before every tick.
Never == 0

NoMemory == [paths |-> <<>>, cursor |-> None, toldLossAt |-> Never, answeredAt |-> Never]

\* What a file holds, and when it was written; one that is not there was never written.
FileWith(m, at) == [paths |-> m.paths, cursor |-> m.cursor, toldLossAt |-> m.toldLossAt, answeredAt |-> m.answeredAt, mtime |-> at]
NoFile == FileWith(NoMemory, Never)
Exists(file) == file.mtime # Never
MemoryIn(file) == [paths |-> file.paths, cursor |-> file.cursor, toldLossAt |-> file.toldLossAt, answeredAt |-> file.answeredAt]

\* A run with nothing read or remembered yet: the files left to read and to prune, what was read of each, the files the
\* batch named, when they were remembered but not saved, the files the retry leaves out, and the latest answer recorded
\* in the files when it began.
NewRun == [phase |-> "none", start |-> Never, left |-> {}, read |-> [v \in Writers |-> NoMemory], named |-> {},
           unsaved |-> Never, asked |-> {}, prune |-> {}, target |-> None, silent |-> FALSE, answered |-> Never]

\* Who reads what a run prints: a batch's and a prompt's text reach the agent, a turn end's the user.
Reader(w) == IF w \in {MainAgent, Prompts} THEN MainAgent ELSE w

HookInit ==
    /\ now = 1
    /\ memory = [w \in Writers |-> NoFile]
    /\ hookRun = [w \in Writers |-> NewRun]
    /\ begun = 0 /\ journal = 0
    /\ edited = [a \in Agents |-> <<>>]
    /\ aged = {}
    /\ lossTold = [r \in Agents \cup {TurnEnds} |-> Never]
    /\ reported = [a \in Agents |-> 0]

---------------------------------------------------------------------------
\* The memory of one run: every file as read, with the run's own replaced.

ExpiredAt(file, time) == Exists(file) /\ time - file.mtime > Age
Expired(file) == ExpiredAt(file, now)

\* readMemory: a missing file, or one expired at the run's start, is no memory.
ReadMemory(file, start) == IF ExpiredAt(file, start) THEN NoMemory ELSE MemoryIn(file)

\* withEdits: the batch's files move to the front, and the most recent are kept.
WithEdits(paths, named, at) ==
    LET front == SetToSeq(named)
        all == [i \in 1..Len(front) |-> [path |-> front[i], at |-> at]] \o SelectSeq(paths, LAMBDA e : e.path \notin named)
    IN  SubSeq(all, 1, IF Len(all) < MaxPaths THEN Len(all) ELSE MaxPaths)

WithoutPaths(paths, dropped) == SelectSeq(paths, LAMBDA e : e.path \notin dropped)

LatestEdits(run) ==
    LET entries == UNION {ToSet(run.read[w].paths) : w \in Writers}
    IN  {e \in entries : \A f \in entries : f.path = e.path => f.at <= e.at}

\* editedPaths: every agent's files, each at its latest edit, the most recent of them.
EditedPaths(run) ==
    LET latest == LatestEdits(run)
        order == SetToSortSeq({e.path : e \in latest},
                              LAMBDA p, q : \E e, f \in latest : e.path = p /\ f.path = q /\ e.at > f.at)
    IN  {order[i] : i \in 1..(IF Len(order) < MaxPaths THEN Len(order) ELSE MaxPaths)}

\* Mutant of Tellers: any writer's telling counts for every other.
TellersAny(w) == Writers

\* #tellers: the main agent's batches and the session's prompts reach the same agent.
Tellers(w) == IF w \in {MainAgent, Prompts} THEN {MainAgent, Prompts} \cap Writers ELSE {w}

\* toldLoss: a teller told after the latest answer any of the session's files records.
ToldLoss(run, w) == \E t \in Tellers(w) : \A a \in Writers : run.read[t].toldLossAt > run.read[a].answeredAt

Latest(times) == CHOOSE t \in times : \A u \in times : u <= t

---------------------------------------------------------------------------
\* batchEdits: the files a batch's calls named under the root; a prompt and a turn end edit none.
BatchEdits(w) == IF w \in Agents THEN BatchesOf[w] ELSE {{}}

Listed == {v \in Writers : Exists(memory[v])}

\* A batch with no edits, a prompt and a turn end have nothing to remember.
Begun(named, left) == IF left # {} THEN "reading" ELSE IF named # {} THEN "remembering" ELSE "asking"

\* hookRun: the directory is listed. answered is the latest answer a file records at that moment.
BeginRun(w) ==
    /\ hookRun[w].phase = "none" /\ begun < MaxRuns /\ Cardinality({v \in Writers : hookRun[v].phase # "none"}) < MaxAtOnce
    /\ begun' = begun + 1
    /\ \E named \in BatchEdits(w) :
          hookRun' = [hookRun EXCEPT ![w] = [NewRun EXCEPT !.phase = Begun(named, Listed), !.start = now, !.left = Listed,
                          !.named = named, !.answered = Latest({Never} \cup {memory[v].answeredAt : v \in Listed})]]
    /\ UNCHANGED <<now, memory, journal, edited, aged, lossTold, reported>>

\* SessionMemory.read: one file after another as the directory lists them, each judged by the one start of the run.
ReadFile(w) ==
    /\ hookRun[w].phase = "reading"
    /\ \E v \in hookRun[w].left :
          hookRun' = [hookRun EXCEPT ![w].read[v] = ReadMemory(memory[v], hookRun[w].start), ![w].left = @ \ {v},
                                     ![w].phase = Begun(hookRun[w].named, hookRun[w].left \ {v})]
    /\ UNCHANGED <<now, memory, begun, journal, edited, aged, lossTold, reported>>

\* Mutant of MemoryFileOf: the agent's own name is left out of its file's.
MemoryFileOfShared(w) == IF w \in Agents THEN MainAgent ELSE w

\* #fileName: each writer has a file of its own.
MemoryFileOf(w) == w

\* save: a temporary file and a rename; a run that creates its file looks for expired ones of any session next.
Saves(w, m) == memory' = [memory EXCEPT ![MemoryFileOf(w)] = FileWith(m, now)]

\* The run's last save prunes in the same step, since its print follows it with no await between.
SavesLast(w, m) ==
    memory' = [v \in Writers |-> IF v = MemoryFileOf(w) THEN FileWith(m, now)
                                 ELSE IF ~Exists(memory[MemoryFileOf(w)]) /\ Expired(memory[v]) THEN NoFile ELSE memory[v]]

\* pruneExpired looks at every file the directory lists, and no save throws here.
ToPrune(w) == IF Exists(memory[MemoryFileOf(w)]) THEN {} ELSE Listed \ {w}

Pruning(left) == IF left = {} THEN "asking" ELSE "pruning"

\* onBatch: the edits are remembered before the daemon is asked; a save that fails leaves them to this run alone.
Remember(w) ==
    /\ hookRun[w].phase = "remembering"
    /\ LET m == [hookRun[w].read[w] EXCEPT !.paths = WithEdits(@, hookRun[w].named, now)]
       IN  \/ /\ Saves(w, m)
              /\ edited' = [edited EXCEPT ![w] = WithEdits(@, hookRun[w].named, now)]
              /\ hookRun' = [hookRun EXCEPT ![w].phase = Pruning(ToPrune(w)), ![w].read[w] = m, ![w].prune = ToPrune(w)]
           \/ /\ hookRun' = [hookRun EXCEPT ![w].phase = "asking", ![w].read[w] = m, ![w].unsaved = now]
              /\ UNCHANGED <<memory, edited>>
    /\ UNCHANGED <<now, begun, journal, aged, lossTold, reported>>

\* pruneExpired: a file is looked at, and deleted a step later.
PruneStat(w) ==
    /\ hookRun[w].phase = "pruning"
    /\ \E v \in hookRun[w].prune :
          hookRun' = IF Expired(memory[v])
                     THEN [hookRun EXCEPT ![w].phase = "unlinking", ![w].target = v]
                     ELSE [hookRun EXCEPT ![w].prune = @ \ {v}, ![w].phase = Pruning(hookRun[w].prune \ {v})]
    /\ UNCHANGED <<now, memory, begun, journal, edited, aged, lossTold, reported>>

PruneUnlink(w) ==
    /\ hookRun[w].phase = "unlinking"
    /\ LET v == hookRun[w].target
       IN  /\ memory' = [memory EXCEPT ![v] = NoFile]
           /\ hookRun' = [hookRun EXCEPT ![w].phase = Pruning(hookRun[w].prune \ {v}), ![w].prune = @ \ {v}, ![w].target = None]
    /\ UNCHANGED <<now, begun, journal, edited, aged, lossTold, reported>>

---------------------------------------------------------------------------
\* Asking.

Ends(w) == hookRun' = [hookRun EXCEPT ![w] = NewRun]

\* askSession with no edited file asks nothing.
AsksNothing(w) ==
    /\ hookRun[w].phase = "asking" /\ EditedPaths(hookRun[w]) = {}
    /\ Ends(w)
    /\ UNCHANGED <<now, memory, begun, journal, edited, aged, lossTold, reported>>

\* withAnswer: only a determined answer moves the cursor.
WithAnswer(m, answer) == [m EXCEPT !.cursor = IF answer.determined THEN answer.cursor ELSE @, !.answeredAt = now]

\* The daemon's answers: a determined one up to its last change, or one not determined, which hands its latest cursor
\* back when the agent's own cannot be used.
Answers(cursor, latest) == {[determined |-> TRUE, cursor |-> latest]} \cup {[determined |-> FALSE, cursor |-> c] : c \in {cursor, latest}}

\* The ghost takes in an edit whose first save failed when a later one of the run holds it.
SavedSoFar(w) == IF hookRun[w].unsaved = Never THEN edited[w] ELSE WithEdits(edited[w], hookRun[w].named, hookRun[w].unsaved)

\* The answer's save, which may fail, and the print after it. A batch says the changes since its cursor, or the counts
\* when it had none; a turn's end or a prompt moves no cursor. The daemon's changes are seen only here, so they are
\* taken to happen here.
Answered(w, dropped) ==
    LET run == hookRun[w]
        before == [run.read[w] EXCEPT !.paths = WithoutPaths(@, dropped)]
    IN  \E latest \in journal..MaxChanges : \E answer \in Answers(before.cursor, latest), ok \in BOOLEAN :
           LET m == IF w \in Agents THEN WithAnswer(before, answer) ELSE [run.read[w] EXCEPT !.answeredAt = now]
           IN  /\ IF ok THEN SavesLast(w, m) ELSE UNCHANGED memory
               /\ edited' = IF ok /\ w \in Agents THEN [edited EXCEPT ![w] = WithoutPaths(SavedSoFar(w), dropped)] ELSE edited
               /\ reported' = IF w \in Agents /\ answer.determined THEN [reported EXCEPT ![w] = latest] ELSE reported
               /\ journal' = latest

\* The first attempt is answered.
AskAnswered(w) ==
    /\ hookRun[w].phase = "asking" /\ EditedPaths(hookRun[w]) # {}
    /\ Answered(w, {})
    /\ Ends(w)
    /\ UNCHANGED <<now, begun, aged, lossTold>>

Unusable(run) == EditedPaths(run) \cap Deleted

\* No answer: asked once more without the files that no longer exist, when some are left.
AskRetries(w) ==
    /\ hookRun[w].phase = "asking"
    /\ Unusable(hookRun[w]) # {} /\ EditedPaths(hookRun[w]) \ Unusable(hookRun[w]) # {}
    /\ hookRun' = [hookRun EXCEPT ![w].phase = "retrying", ![w].asked = Unusable(hookRun[w])]
    /\ UNCHANGED <<now, memory, begun, journal, edited, aged, lossTold, reported>>

RetryAnswered(w) ==
    /\ hookRun[w].phase = "retrying"
    /\ Answered(w, hookRun[w].asked)
    /\ Ends(w)
    /\ UNCHANGED <<now, begun, aged, lossTold>>

\* lossResult: told unless a teller has told of this loss; the telling is recorded, and printed whether or not the
\* record could be saved.
NoAnswer(w) ==
    /\ \/ hookRun[w].phase = "retrying"
       \/ /\ hookRun[w].phase = "asking" /\ EditedPaths(hookRun[w]) # {}
          /\ Unusable(hookRun[w]) = {} \/ Unusable(hookRun[w]) = EditedPaths(hookRun[w])
    /\ IF ToldLoss(hookRun[w], w)
       THEN /\ hookRun' = [hookRun EXCEPT ![w].phase = "ended", ![w].silent = TRUE]
            /\ UNCHANGED <<memory, lossTold, edited>>
       ELSE /\ \E ok \in BOOLEAN :
                  IF ok THEN /\ SavesLast(w, [hookRun[w].read[w] EXCEPT !.toldLossAt = now])
                             /\ edited' = IF w \in Agents THEN [edited EXCEPT ![w] = SavedSoFar(w)] ELSE edited
                  ELSE UNCHANGED <<memory, edited>>
            /\ lossTold' = [lossTold EXCEPT ![Reader(w)] = now]
            /\ Ends(w)
    /\ UNCHANGED <<now, begun, journal, aged, reported>>

\* A run that said nothing is over.
EndSilent(w) ==
    /\ hookRun[w].phase = "ended"
    /\ Ends(w)
    /\ UNCHANGED <<now, memory, begun, journal, edited, aged, lossTold, reported>>

\* boundedRun: at the deadline the run prints nothing and the process ends, wherever it was; before its first save that
\* is a run that never was.
Deadline(w) ==
    /\ hookRun[w].phase \in {"pruning", "unlinking", "asking", "retrying"}
    /\ Ends(w)
    /\ UNCHANGED <<now, memory, begun, journal, edited, aged, lossTold, reported>>

---------------------------------------------------------------------------
\* The clock.

Tick ==
    /\ now < MaxTime
    /\ now' = now + 1
    /\ aged' = aged \cup {w \in Writers : Exists(memory[w]) /\ now' - memory[w].mtime > Age}
    /\ UNCHANGED <<memory, hookRun, begun, journal, edited, lossTold, reported>>

HookNext ==
    \/ \E w \in Writers : \/ BeginRun(w) \/ ReadFile(w) \/ Remember(w) \/ PruneStat(w) \/ PruneUnlink(w)
                          \/ AsksNothing(w) \/ AskAnswered(w) \/ AskRetries(w) \/ RetryAnswered(w) \/ NoAnswer(w)
                          \/ EndSilent(w) \/ Deadline(w)
    \/ Tick

HookSpec == HookInit /\ [][HookNext]_hookVars

---------------------------------------------------------------------------
\* What an agent edited and a run of its could save stays remembered, most recent first, through the saves of every
\* other run of the session, its own later ones, and the removal of expired files, while its file was never left
\* untouched past the age (SessionMemory, onBatch).
EditsRemembered == \A a \in Agents \ aged : memory[a].paths = edited[a]

\* While no file expires, a run that keeps silent about a missing answer has a reader who was told of it since the
\* latest answer recorded when the run began (toldLoss, lossResult); and an agent's stored cursor passes no change the
\* agent was not told of (withAnswer, saved).
ChangesAreTold ==
    /\ aged = {} => \A w \in Writers : hookRun[w].silent => lossTold[Reader(w)] > hookRun[w].answered
    /\ \A a \in Agents : memory[a].cursor # None => memory[a].cursor <= reported[a]

=============================================================================
