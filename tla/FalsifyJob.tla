----------------------------- MODULE FalsifyJob -----------------------------
(***************************************************************************)
(* One falsification job in one Vitest instance (falsify-workspace.ts):    *)
(* the baseline, each experiment with its own mutation alone applied in    *)
(* memory, twice when its run would be a detection, then the restored      *)
(* baseline, with the abort that may come at any time. Under it the module *)
(* cache of the Vite servers, the transforms that may still be running     *)
(* when a run ends, and the guard that freshens the cache before each run  *)
(* (mutation-transform.ts, stale-transform-guard.ts).                      *)
(*                                                                         *)
(* The tests are real: whether a test rejects its mutation is fixed, and a *)
(* run of it may also fail by a flake, by what an earlier run left behind, *)
(* or with any trouble of Troubles.                                        *)
(***************************************************************************)
EXTENDS Judgement

CONSTANTS
    Experiments,    \* the job's experiments in order, a sequence
    FileOf,         \* the file each experiment mutates
    Files,          \* the modules the tests load
    StartChecks,    \* what the check before any run may say of an experiment
    Troubles,       \* run facts of a run in trouble
    MaxFlakes       \* runs of the job in which a test fails for no reason

VARIABLES
    checked,    \* what the job's own check said of each experiment: "ok" or why it is not run
    rejects,    \* the experiments whose test truly rejects their mutation
    phase,      \* "baseline", "first", "confirming", "restored", "closing" or "replied"
    at,         \* position of the experiment in progress
    records,    \* each experiment's record; None before it has one
    baseline,   \* None, or whether it left a record and each planned experiment's facts
    restored,
    running,    \* a run is in progress
    served,     \* the mutations in the modules the run in progress has loaded
    cache,      \* per module: "empty", or the mutation (None for none) in the text it was transformed from
    transforms, \* per module: "empty", or the mutation in a transform that is still running
    active,     \* the mutation a transform begun now applies
    lastMutated,
    aborted, flakes,
    dirty,      \* a mutated run has left something behind that fails every later test
    reply       \* None, or [interrupted, judgements]

falsifyVars == <<checked, rejects, phase, at, records, baseline, restored, running, served, cache, transforms, active,
                 lastMutated, aborted, flakes, dirty, reply>>

E == {Experiments[i] : i \in 1..Len(Experiments)}
Current == IF phase \in {"first", "confirming"} THEN Experiments[at] ELSE None
Planned == {e \in E : checked[e] = "ok"}

\* None is no experiment and no file, the check before any run interrupts none, and a run in trouble is never taken for a
\* test that ran as it should, nor, in a baseline, for one that passed.
JobAssumption ==
    /\ Experiments \in Seq(E) /\ None \notin E /\ "empty" \notin E \cup {None} /\ None \notin Files
    /\ "interrupted" \notin StartChecks
    /\ \A t \in Troubles : ReadRun(t).verdict \notin {"survived", "would-detect"} /\ ~(t.test = "passed" /\ Untroubled(t))
    /\ MaxFlakes \in {0, 1}

NotRun(why) == [status |-> "not-run", why |-> why]

\* #planAll: an experiment its file, anchor, probe site or module decides is recorded and never runs; a job with
\* nothing left to run has no baseline.
JobInit ==
    /\ checked \in [E -> StartChecks] /\ rejects \in SUBSET E
    /\ records = [e \in E |-> IF checked[e] = "ok" THEN None ELSE NotRun(checked[e])]
    /\ phase = (IF \E e \in E : checked[e] = "ok" THEN "baseline" ELSE "closing")
    /\ at = 0 /\ baseline = None /\ restored = None
    /\ running = FALSE /\ served = {} /\ active = None /\ lastMutated = None
    /\ cache = [f \in Files |-> "empty"] /\ transforms = [f \in Files |-> "empty"]
    /\ aborted = FALSE /\ flakes = 0 /\ dirty = FALSE /\ reply = None

jobVars == <<phase, at, records, baseline, restored>>

-----------------------------------------------------------------------------
(* The servers: a transform takes its text, mutated when a mutation of its  *)
(* file is active, as it begins; it is cached as it ends, whenever that is. *)

\* #transformInput, at a module's first load.
BeginTransform(f) ==
    /\ phase # "replied" /\ cache[f] = "empty" /\ transforms[f] = "empty"
    /\ transforms' = [transforms EXCEPT ![f] = IF active # None /\ FileOf[active] = f THEN active ELSE None]
    /\ UNCHANGED <<checked, rejects, jobVars, running, served, cache, active, lastMutated, aborted, flakes, dirty, reply>>

EndTransform(f) ==
    /\ transforms[f] # "empty"
    /\ cache' = [cache EXCEPT ![f] = transforms[f]]
    /\ transforms' = [transforms EXCEPT ![f] = "empty"]
    /\ UNCHANGED <<checked, rejects, jobVars, running, served, active, lastMutated, aborted, flakes, dirty, reply>>

\* A test of the run in progress loads the module as it is cached.
Load(f) ==
    /\ running /\ cache[f] # "empty" /\ served' = served \cup {cache[f]}
    /\ UNCHANGED <<checked, rejects, jobVars, running, cache, transforms, active, lastMutated, aborted, flakes, dirty, reply>>

\* mustInvalidate: a cached module of a file named, or one transformed from text other than its file's.
MustInvalidate(f, targets) == cache[f] # "empty" /\ (f \in targets \/ cache[f] # None)

\* Mutant of Invalidated: a module of a file named is invalidated only once it is cached.
InvalidatedCached(targets) == {f \in Files : MustInvalidate(f, targets)}

\* freshen: every module of the files named, cached or still being transformed, and every stale one.
Invalidated(targets) == {f \in Files : f \in targets \/ MustInvalidate(f, targets)}

-----------------------------------------------------------------------------
(* What a run leaves: how each ending is taken is said by phase.            *)

\* The next planned experiment after position i, or one past the last.
NextAt(i, passed) ==
    LET later == {j \in (i + 1)..Len(Experiments) : Experiments[j] \in passed}
    IN  IF later = {} THEN Len(Experiments) + 1 ELSE CHOOSE j \in later : \A k \in later : j <= k

Between(i, j) == {Experiments[k] : k \in (i + 1)..(j - 1)} \cap Planned

Passed(outcome) == IF outcome.ran THEN {e \in Planned : outcome.facts[e].test = "passed"} ELSE {}

\* #experimentAfter: the experiments passed over on the way to the next have no run, by what the baseline gave.
Onward(recs, i, before) ==
    LET j == NextAt(i, Passed(before))
        skipped == [e \in E |-> IF e \in Between(i, j)
                                THEN NotRun(IF before.ran THEN "baseline-not-passed" ELSE "baseline-not-run") ELSE recs[e]]
        anyRan == \E e \in E : skipped[e] # None /\ skipped[e].status = "ran"
    IN  /\ at' = j /\ records' = skipped
        /\ phase' = IF j <= Len(Experiments) THEN "first" ELSE IF anyRan THEN "restored" ELSE "closing"

\* Once an abort interrupts one run, every later experiment is recorded interrupted without a run.
Interrupted(recs, i) ==
    /\ records' = [e \in E |-> IF e \in Between(i, Len(Experiments) + 1) THEN NotRun("interrupted") ELSE recs[e]]
    /\ phase' = "closing" /\ UNCHANGED at

\* all and #experiment, on the step [kind, facts] the run in progress, or the one refused, ended as.
StepEnds(step) ==
    \/ /\ phase = "baseline" /\ UNCHANGED restored
       /\ \/ step.kind = "interrupted" /\ Interrupted(records, 0) /\ UNCHANGED baseline
          \/ /\ step.kind # "interrupted"
             /\ LET outcome == [ran |-> step.kind = "ran", why |-> step.kind, facts |-> step.facts]
                IN  baseline' = outcome /\ Onward(records, 0, outcome)
    \/ /\ phase = "first" /\ UNCHANGED <<baseline, restored>>
       /\ LET e == Experiments[at]
              ran == [status |-> "ran", run |-> step.facts[e], confirming |-> None]
              unrecorded == [status |-> "not-run", why |-> "run-unrecorded", run |-> step.kind]
          IN  CASE step.kind = "interrupted" -> Interrupted([records EXCEPT ![e] = NotRun("interrupted")], at)
                [] step.kind \in {"run-failed", "stale-modules"} ->
                   Onward([records EXCEPT ![e] = unrecorded], at, baseline)
                [] step.kind = "ran" /\ WouldDetect(step.facts[e]) ->
                   records' = [records EXCEPT ![e] = ran] /\ phase' = "confirming" /\ UNCHANGED at
                [] OTHER -> Onward([records EXCEPT ![e] = ran], at, baseline)
    \/ /\ phase = "confirming" /\ UNCHANGED <<baseline, restored>>
       /\ LET e == Experiments[at]
              confirming == [status |-> IF step.kind \in {"ran", "interrupted"} THEN step.kind ELSE "unrecorded",
                             run |-> step.facts[e]]
              confirmed == [records EXCEPT ![e].confirming = confirming]
          IN  IF step.kind = "interrupted" THEN Interrupted(confirmed, at) ELSE Onward(confirmed, at, baseline)
    \/ /\ phase = "restored" /\ phase' = "closing" /\ UNCHANGED <<at, records, baseline>>
       /\ restored' = IF step.kind = "interrupted" THEN None
                      ELSE [ran |-> step.kind = "ran", why |-> step.kind, facts |-> step.facts]

NoFacts == [e \in E |-> None]
Step(kind) == [kind |-> kind, facts |-> NoFacts]

-----------------------------------------------------------------------------
(* The job's actions                                                       *)

\* The files invalidated before a run whatever the guard finds: the one it mutates and the one mutated last.
Targets == (IF Current = None THEN {} ELSE {FileOf[Current]}) \cup (IF lastMutated = None THEN {} ELSE {lastMutated})

\* #run, with no await between the abort's check, the freshening and the start. A module whose invalidation does not
\* take keeps its result, and the run is refused for it.
StartRun ==
    /\ phase \in {"baseline", "first", "confirming", "restored"} /\ ~running
    /\ \/ aborted /\ StepEnds(Step("interrupted")) /\ UNCHANGED <<running, served, cache, transforms, active, lastMutated>>
       \/ /\ ~aborted
          /\ \E sticky \in SUBSET {f \in Invalidated(Targets) : cache[f] # "empty"} :
             /\ cache' = [f \in Files |-> IF f \in Invalidated(Targets) \ sticky THEN "empty" ELSE cache[f]]
             /\ transforms' = [f \in Files |-> IF f \in Invalidated(Targets) THEN "empty" ELSE transforms[f]]
             /\ \/ sticky # {} /\ StepEnds(Step("stale-modules")) /\ UNCHANGED <<running, served, active, lastMutated>>
                \/ /\ sticky = {} /\ running' = TRUE /\ served' = {}
                   /\ active' = Current
                   /\ lastMutated' = IF Current = None THEN lastMutated ELSE FileOf[Current]
                   /\ UNCHANGED jobVars
    /\ UNCHANGED <<checked, rejects, aborted, flakes, dirty, reply>>

Fails == [ending |-> "clean", module |-> "collected", test |-> "failed", hooks |-> "passed", repeats |-> FALSE,
          reach |-> "executed", errors |-> "assertions", unhandled |-> "none"]
Passes == [Fails EXCEPT !.test = "passed"]

\* What the run says of e's test, from what was served: by its mutation when that was loaded, by what an earlier run
\* left behind, by a mutation that is not its own in any way, and by a flake.
TrueFacts(e, flaky) ==
    LET own == e \in served
        fails == flaky \/ dirty \/ (own /\ e \in rejects)
        reached == [(IF fails THEN Fails ELSE Passes) EXCEPT !.reach = IF own THEN "executed" ELSE "no"]
    IN  IF served \ {None, Current} # {} THEN {Fails, Passes} ELSE {reached}

\* A run ends: with its record, by throwing, or, once aborted, interrupted with no result.
EndRun ==
    /\ running /\ running' = FALSE /\ active' = None
    /\ \E flaky \in E \cup {None}, kind \in {"ran", "run-failed", "interrupted"} :
       /\ flaky # None => flakes < MaxFlakes /\ kind = "ran"
       /\ kind = "interrupted" => aborted
       /\ flakes' = IF flaky = None THEN flakes ELSE flakes + 1
       /\ \/ kind # "ran" /\ StepEnds(Step(kind))
          \/ kind = "ran" /\ \E trouble \in Troubles \cup {None} :
                \E facts \in {[e \in E |-> IF trouble # None THEN trouble ELSE f[e]] :
                              f \in {g \in [E -> UNION {TrueFacts(e, flaky = e) : e \in E}] :
                                        \A e \in E : g[e] \in TrueFacts(e, flaky = e)}} :
                   StepEnds([kind |-> "ran", facts |-> facts])
    /\ dirty' \in IF active = None THEN {dirty} ELSE {dirty, TRUE}
    /\ UNCHANGED <<checked, rejects, served, cache, transforms, lastMutated, aborted, reply>>

AbortRuns ==
    /\ ~aborted /\ phase # "replied" /\ aborted' = TRUE
    /\ UNCHANGED <<checked, rejects, jobVars, running, served, cache, transforms, active, lastMutated, flakes, dirty, reply>>

-----------------------------------------------------------------------------
(* The reply                                                               *)

WasInterrupted(r) == IF r.status = "ran" THEN r.confirming # None /\ r.confirming.status = "interrupted" ELSE r.why = "interrupted"

\* The reply reads interrupted when an abort ended a run: the baseline, an experiment's, or the restored baseline.
JobInterrupted ==
    \/ \E e \in Planned : WasInterrupted(records[e])
    \/ restored = None /\ \E e \in E : records[e].status = "ran"

\* nextRunAfter: the first run started after e's confirming run: a later experiment's first run or the restored
\* baseline, passing over what was given no run and what the guard refused.
StartedRun(r) ==
    IF r.status = "ran" THEN r.run.unhandled
    ELSE IF r.why = "run-unrecorded" /\ r.run = "run-failed" THEN "unrecorded" ELSE None
NextRunAfter(i) ==
    LET later == {j \in (i + 1)..Len(Experiments) : StartedRun(records[Experiments[j]]) # None}
    IN  IF later # {} THEN StartedRun(records[Experiments[CHOOSE j \in later : \A k \in later : j <= k]])
        ELSE IF restored = None THEN None
        ELSE IF restored.ran THEN restored.facts[Experiments[i]].unhandled
        ELSE IF restored.why = "run-failed" THEN "unrecorded" ELSE None

BaselineOf(b, e) == IF b = None THEN None ELSE [ran |-> b.ran, facts |-> b.facts[e]]

\* judgedJob: each experiment judged once the instance has closed.
Judgements(end) ==
    [e \in E |-> Judge(records[e], BaselineOf(baseline, e), BaselineOf(restored, e),
                       NextRunAfter(CHOOSE i \in 1..Len(Experiments) : Experiments[i] = e), end)]

CloseInstance ==
    /\ phase = "closing" /\ phase' = "replied"
    /\ \E end \in {"clean", "unclean"} : reply' = [interrupted |-> JobInterrupted, judgements |-> Judgements(end)]
    /\ UNCHANGED <<checked, rejects, at, records, baseline, restored, running, served, cache, transforms, active, lastMutated, aborted, flakes, dirty>>

JobNext ==
    \/ \E f \in Files : BeginTransform(f) \/ EndTransform(f) \/ Load(f)
    \/ StartRun \/ EndRun \/ AbortRuns \/ CloseInstance

JobSpec == JobInit /\ [][JobNext]_falsifyVars
-----------------------------------------------------------------------------
\* No test of a run loads a module mutated by another experiment, and a baseline's none at all, whatever transform an
\* earlier run left behind it (FalsificationRuns.#run, StaleTransformGuard.freshen).
MutationAlone == running => served \subseteq {None, Current}

\* A verdict is true of the test: one that reads detected rejects the mutation and one that reads survived lets it
\* pass, in spite of one flake, of what a mutated run leaves behind and of a run in trouble (verdict.ts judge).
VerdictsTrue ==
    reply # None => \A e \in E : /\ reply.judgements[e].verdict = "detected" => e \in rejects
                                 /\ reply.judgements[e].verdict = "survived" => e \notin rejects

\* A reply that reads interrupted says detected or survived of none, and one that does not holds every run: none was
\* interrupted, and what ran has its restored baseline (JobRuns; the daemon's #ending rests on it).
ReplyShape ==
    reply # None =>
        IF reply.interrupted
        THEN \A e \in E : reply.judgements[e].verdict \in {"none", "invalid"}
        ELSE \A e \in E : ~WasInterrupted(records[e]) /\ (records[e].status = "ran" => restored # None)

\* All three: no run meets another's mutation, the verdicts are true of the tests, and a reply that is cut short says so.
JobVerdictsTrue == MutationAlone /\ VerdictsTrue /\ ReplyShape
=============================================================================
