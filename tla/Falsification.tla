---------------------------- MODULE Falsification ----------------------------
(***************************************************************************)
(* Falsification in the daemon (falsification.ts), between the scheduler   *)
(* that asks for a look when nothing else is due and the executor that     *)
(* runs one job: the standings read under a window on the inputs, the      *)
(* canary gate (canary-gate.ts, canary-reading.ts), the job with the watch *)
(* that ends it at a change or at the time bound, and what is stored and   *)
(* marked by what ended it.                                                *)
(*                                                                         *)
(* An edit is unseen until the tracker counts it in the revision; a        *)
(* window's end counts every edit before it, and vouches only when none    *)
(* was counted since the window opened (InputTracker.VerdictSound).        *)
(***************************************************************************)
EXTENDS FalsificationPlan

CONSTANTS
    Installs, InstallOf,    \* InstallOf[w]: the Vitest install the workspace resolves
    MaxEdits                \* edits of the inputs

VARIABLES
    content, view, rev,     \* the inputs as they are, as the tracker has counted them, and its revision
    edition,                \* of each definition
    evidence,               \* stored: [digest, fingerprint, read], read being the contents the job's runs read
    kept,                   \* the canary reading kept of each install
    look,                   \* the look in progress: [at, planned, ...]
    job,                    \* the executor's job: None, or [canary, defs, read, aborted, reply]
    asked,                  \* what the watch first asked the job to end for
    bounded,                \* the time bound of the job has passed
    rested,                 \* the revision the last look took nothing at; None when the scheduler is to look again
    stopping

vars == <<content, view, rev, edition, evidence, kept, look, job, asked, bounded, rested, stopping, planVars>>
inputVars == <<content, view, rev>>

Idle == [at |-> "idle"]
Digest(d) == <<d, edition[d]>>

Init ==
    /\ content = 0 /\ view = 0 /\ rev = 0 /\ edition = [d \in Definitions |-> 0]
    /\ evidence = {} /\ kept = [i \in Installs |-> "unread"]
    /\ look = Idle /\ job = None /\ asked = None /\ bounded = FALSE /\ rested = None /\ stopping = FALSE
    /\ PlanInit

-----------------------------------------------------------------------------
(* The inputs                                                              *)

Edit ==
    /\ content < MaxEdits /\ content' = content + 1
    /\ UNCHANGED <<view, rev, edition, evidence, kept, look, job, asked, bounded, rested, stopping, planVars>>

Counted == content' = content /\ view' = content /\ rev' = IF view = content THEN rev ELSE rev + 1

Notice ==
    /\ view # content /\ Counted
    /\ UNCHANGED <<edition, evidence, kept, look, job, asked, bounded, rested, stopping, planVars>>

\* A definition is edited outside the inputs; the scheduler looks again by the next periodic reconciliation.
EditDefinition(d) ==
    /\ edition[d] + 1 \in Editions /\ edition' = [edition EXCEPT ![d] = @ + 1] /\ rested' = None
    /\ UNCHANGED <<inputVars, evidence, kept, look, job, asked, bounded, stopping, planVars>>

Stop ==
    /\ ~stopping /\ stopping' = TRUE
    /\ job' = IF job = None THEN None ELSE [job EXCEPT !.aborted = TRUE]
    /\ UNCHANGED <<inputVars, edition, evidence, kept, look, asked, bounded, rested, planVars>>

-----------------------------------------------------------------------------
(* A look up to its job                                                    *)

\* look returns: the scheduler plans again when it is told to.
Returns(again) == look' = Idle /\ rested' = IF again THEN None ELSE look.planned

\* The scheduler plans the revision, which it looks at again only once it is told to or something changes.
Plan ==
    /\ look = Idle /\ ~stopping /\ rested # rev
    /\ look' = [at |-> "settling", planned |-> rev]
    /\ UNCHANGED <<inputVars, edition, evidence, kept, job, asked, bounded, rested, stopping, planVars>>

\* look, once the inputs have settled; the definitions are read from here on.
Settled ==
    /\ look.at = "settling" /\ UNCHANGED inputVars
    /\ IF stopping \/ rev # look.planned THEN Returns(FALSE)
       ELSE look' = [at |-> "reading", planned |-> look.planned, standing |-> {Digest(d) : d \in Definitions}] /\ UNCHANGED rested
    /\ UNCHANGED <<edition, evidence, kept, job, asked, bounded, stopping, planVars>>

\* candidate: no evidence of it that is current.
Waiting(standing) == {d \in standing : ~\E e \in evidence : e.digest = d /\ e.fingerprint = view}

NewJob(canary, defs) == [canary |-> canary, defs |-> defs, read |-> {}, aborted |-> FALSE, reply |-> None]
Closing(then) ==
    /\ look' = [at |-> "closing", planned |-> look.planned, standing |-> look.standing, then |-> then]
    /\ UNCHANGED <<job, asked, bounded, rested>>

\* CanaryGate.standing: no supported Vitest, or what is kept of the install the workspace resolves.
GateStandings(w) == {"waits", CASE kept[InstallOf[w]] = "disagreed" -> "waits" [] OTHER -> kept[InstallOf[w]]}

\* #send of the next job, from the marks m and waits w kept: its workspace waits when it is not confirmed, has no
\* fingerprint, resolves no supported Vitest or an install whose reading disagreed; an unread install's canary job is
\* taken in its place.
Send(defs, m, w) ==
    LET home == WorkspaceOf(CHOOSE d \in defs : TRUE)
    IN  \E standing \in GateStandings(home) :
        \/ standing = "waits" /\ WorkspaceWaits(m, w, defs, rev) /\ Closing("again")
        \/ /\ standing = "unread" /\ marks' = m /\ waits' = w
           /\ look' = [at |-> "closing", planned |-> look.planned, then |-> "canary", defs |-> defs, install |-> InstallOf[home]]
           /\ UNCHANGED <<job, asked, bounded, rested>>
        \/ /\ standing = "confirmed" /\ marks' = m /\ waits' = w
           /\ job' = NewJob(FALSE, defs) /\ asked' = None /\ bounded' = FALSE
           /\ look' = [at |-> "job", planned |-> look.planned, defs |-> defs, fingerprint |-> view, mark |-> rev]
           /\ UNCHANGED rested

\* The end of the standings' read, which opens the window and reads the fingerprints, and #begin, with no await between.
Begin ==
    /\ look.at = "reading" /\ UNCHANGED <<inputVars, edition, evidence, kept, stopping>>
    /\ \/ UNCHANGED planVars /\ Closing("nothing")      \* no answer
       \/ stopping /\ Returns(FALSE) /\ UNCHANGED <<job, asked, bounded, planVars>>
       \/ rev # look.planned /\ Closing("nothing") /\ UNCHANGED planVars
       \/ /\ ~stopping /\ rev = look.planned
          /\ LET defs == NextJob(Waiting(look.standing), rev)
                 m == KnownMarks(look.standing)
                 w == CurrentWaits(rev)
             IN  IF defs = {} THEN marks' = m /\ waits' = w /\ Closing("none taken") ELSE Send(defs, m, w)

\* #close, then the look returns, or #readCanaries unless it is outdated by now.
Close ==
    /\ look.at = "closing" /\ Counted
    /\ IF look.then = "canary" /\ ~stopping /\ rev' = look.planned
       THEN /\ job' = NewJob(TRUE, look.defs)
            /\ look' = [at |-> "job", planned |-> look.planned, defs |-> look.defs, install |-> look.install]
            /\ asked' = None /\ bounded' = FALSE /\ UNCHANGED rested
       ELSE Returns(look.then = "again") /\ UNCHANGED <<job, asked, bounded>>
    /\ UNCHANGED <<edition, evidence, kept, stopping, planVars>>

-----------------------------------------------------------------------------
(* The job and its watch                                                   *)

InProgress == job # None /\ job.reply = None

JobReads ==
    /\ InProgress /\ job' = [job EXCEPT !.read = @ \cup {content}]
    /\ UNCHANGED <<inputVars, edition, evidence, kept, look, asked, bounded, rested, stopping, planVars>>

\* The executor's reply (FalsifyJob.ReplyShape): it did not run, or it ran, interrupted only once aborted, with the
\* definition whose run the abort ended, None in a baseline, and those it gave a verdict.
Replies ==
    [ran : {FALSE}] \cup
    {reply \in [ran : {TRUE}, interrupted : BOOLEAN, running : job.defs \cup {None}, judged : SUBSET job.defs] :
        reply.interrupted => job.aborted}

JobEnds ==
    /\ InProgress
    /\ \E reply \in Replies :
       /\ reply.ran => /\ job.read # {}
                       /\ ~reply.interrupted => reply.running = None
                       /\ reply.running \notin reply.judged
       /\ job' = [job EXCEPT !.reply = reply]
    /\ UNCHANGED <<inputVars, edition, evidence, kept, look, asked, bounded, rested, stopping, planVars>>

\* #watch end: it counts as asked only when the abort found the job in progress, and the first one counts.
Ask(ending) == job' = [job EXCEPT !.aborted = TRUE] /\ asked' = IF asked = None THEN ending ELSE asked

WatchChange ==
    /\ InProgress /\ rev # look.planned /\ ~stopping /\ asked # "change" /\ Ask("change")
    /\ UNCHANGED <<inputVars, edition, evidence, kept, look, bounded, rested, stopping, planVars>>

TimeBound ==
    /\ InProgress /\ ~bounded /\ bounded' = TRUE /\ Ask("bound")
    /\ UNCHANGED <<inputVars, edition, evidence, kept, look, rested, stopping, planVars>>

-----------------------------------------------------------------------------
(* What a job leaves                                                       *)

\* #ending: a reply that ran and reads not interrupted holds every run, so an abort that reached its job ended nothing.
Ending ==
    LET unasked == IF rev' = look.planned THEN "returned" ELSE "change"
    IN  IF stopping THEN "stop"
        ELSE IF (job.reply.ran /\ ~job.reply.interrupted) \/ asked = None THEN unasked ELSE asked

\* Mutant of Storable: the verdicts are stored whatever the window says.
StorableAnyway(vouched) == job.reply.judged # {}

Storable(vouched) == vouched /\ job.reply.judged # {}

\* #store: whether the workspace waits for it. Nothing is stored when an input changed, and a write may fail.
Stored(vouched, fails) ==
    evidence' = IF Storable(vouched) /\ ~fails
                THEN evidence \cup {[digest |-> d, fingerprint |-> look.fingerprint, read |-> job.read] : d \in job.reply.judged}
                ELSE evidence

\* Mutant of StoreWaits: a write that fails is only logged.
StoreWaitsUnlessFailed(vouched, fails) == ~vouched /\ rev' = look.planned

StoreWaits(vouched, fails) == (~vouched /\ rev' = look.planned) \/ (Storable(vouched) /\ fails)

AfterBound(vouched, fails) ==
    LET running == job.reply.running
    IN  IF ~job.reply.ran \/ running = None
        THEN WorkspaceWaits(marks, waits, look.defs, look.planned) /\ UNCHANGED evidence
        ELSE /\ EndedByBound(look.defs, look.planned, running) /\ Stored(vouched, fails)
             /\ IF StoreWaits(vouched, fails) THEN Waits(waits, look.defs, look.planned) ELSE UNCHANGED waits

AfterReturn(vouched, fails) ==
    IF ~job.reply.ran THEN WorkspaceWaits(marks, waits, look.defs, look.planned) /\ UNCHANGED evidence
    ELSE /\ RanToEnd(look.defs, look.planned, job.reply.judged) /\ Stored(vouched, fails)
         /\ IF StoreWaits(vouched, fails) THEN Waits(waits, look.defs, look.planned) ELSE UNCHANGED waits

\* look after the outcome: the watch is released, the window ends, and #settle stores and marks by what ended the job.
Settle ==
    /\ job # None /\ ~job.canary /\ job.reply # None /\ Counted
    /\ \E vouched \in (IF rev' = look.mark THEN BOOLEAN ELSE {FALSE}), fails \in BOOLEAN :
          \/ Ending = "stop" /\ UNCHANGED <<evidence, planVars>>
          \/ /\ Ending = "change" /\ UNCHANGED <<evidence, waits>>
             /\ EndedByChange(look.defs, rev', IF job.reply.ran THEN job.reply.running ELSE None)
          \/ Ending = "bound" /\ AfterBound(vouched, fails)
          \/ Ending = "returned" /\ AfterReturn(vouched, fails)
    /\ job' = None /\ asked' = None /\ bounded' = FALSE /\ Returns(TRUE)
    /\ UNCHANGED <<edition, kept, stopping>>

\* readCanaryJob: only a job that ran to its end reads the install; the set may be unusable, not placed, or run under
\* another Vitest.
Readings == IF job.reply.ran /\ ~job.reply.interrupted THEN {"confirmed", "disagreed", "none"} ELSE {"none"}

\* CanaryGate.take: a confirmed or disagreed reading is kept for the daemon's life, whatever changed meanwhile.
Kept(reading) == IF reading = "none" THEN kept ELSE [kept EXCEPT ![look.install] = reading]

\* #readCanaries: a reading that did not confirm leaves the workspace waiting at the revision it was planned at.
ReadCanaries ==
    /\ job # None /\ job.canary /\ job.reply # None /\ UNCHANGED inputVars
    /\ \E reading \in Readings :
       /\ kept' = Kept(reading)
       /\ IF reading = "confirmed" \/ stopping \/ rev # look.planned THEN UNCHANGED planVars
          ELSE WorkspaceWaits(marks, waits, look.defs, look.planned)
    /\ job' = None /\ asked' = None /\ bounded' = FALSE /\ Returns(TRUE)
    /\ UNCHANGED <<edition, evidence, stopping>>

-----------------------------------------------------------------------------
Next ==
    \/ Edit \/ Notice \/ (\E d \in Definitions : EditDefinition(d)) \/ Stop
    \/ Plan \/ Settled \/ Begin \/ Close
    \/ JobReads \/ JobEnds \/ WatchChange \/ TimeBound \/ Settle \/ ReadCanaries

Spec == Init /\ [][Next]_vars

\* The tracker counts what it was told, the daemon's awaits resolve, and a job ends, by the time bound if not before.
FairSpec == Spec /\ WF_vars(Notice) /\ WF_vars(Plan) /\ WF_vars(Settled) /\ WF_vars(Begin) /\ WF_vars(Close)
                 /\ WF_vars(JobReads) /\ WF_vars(JobEnds) /\ WF_vars(Settle) /\ WF_vars(ReadCanaries)
-----------------------------------------------------------------------------
\* Evidence is bound to the inputs its runs read: all of them, from the baseline to the last, read the contents the
\* fingerprint was taken of, whatever was edited from the standings' read to the write (Falsification.#store).
EvidenceSound == \A e \in evidence : e.read = {e.fingerprint}

\* No definition is left in silence: when a look takes none, each that still waits is told, with its workspace or by
\* itself, as given no further experiment at the revision (Falsification.entries, FalsificationPlan.entries).
WaitingIsTold ==
    look.at = "closing" /\ look.then = "none taken" /\ rev = look.planned =>
        \A d \in Waiting(look.standing) : Told(d, rev)

\* Falsification comes to rest: however its jobs end, the looks at the last revision take nothing in the end, so the
\* scheduler's loop does not run the same experiments for ever (Falsification.look, FalsificationPlan.next).
ComesToRest == <>[](look = Idle /\ (stopping \/ rested = rev))
=============================================================================
