----------------------------- MODULE Judgement ------------------------------
(***************************************************************************)
(* What a falsification job's records say of an experiment (verdict.ts,    *)
(* run-facts.ts): the facts of one run, what that run reads alone, and the *)
(* judgement over the baselines, the run, its confirming run, the run      *)
(* started next and the job's end.                                         *)
(***************************************************************************)
EXTENDS Naturals, Sequences, NoValue

\* One run's facts of the intended test: how the run ended, its module, the test's own result, whether its hooks all
\* passed, whether it was told to repeat, whether the mutated site executed, whether each error is an assertion, and
\* the unhandled errors, of which those that name another test module count against no baseline.
RunFactsType ==
    [ending : {"clean", "unclean"}, module : {"collected", "failed", "suite-error"},
     test : {"passed", "failed", "skipped", "absent"}, hooks : {"passed", "not-passed"}, repeats : BOOLEAN,
     reach : {"executed", "no", "unknown"}, errors : {"assertions", "others"}, unhandled : {"none", "elsewhere", "counted"}]

Invalid(why) == [verdict |-> "invalid", reason |-> why]
Unclear(why) == [verdict |-> "unclear", reason |-> why]
NoVerdict(why) == [verdict |-> "none", reason |-> why]
Given(v) == [verdict |-> v, reason |-> "none"]

\* readRun: the first trouble there is, then what the test's body says.
ReadRun(f) ==
    CASE f.ending # "clean" -> Invalid("run-not-clean")
      [] f.ending = "clean" /\ f.module # "collected" -> Invalid(f.module)
      [] f.ending = "clean" /\ f.module = "collected" /\ f.test \notin {"passed", "failed"} -> Invalid("test-not-run")
      [] OTHER ->
         IF f.hooks # "passed" THEN Invalid("hook-not-passed")
         ELSE IF f.test = "failed" /\ f.repeats THEN Invalid("test-repeated")
         ELSE IF f.reach # "executed" THEN Invalid("site-not-executed")
         ELSE IF f.test = "passed" THEN Given("survived")
         ELSE IF f.errors # "assertions" THEN Unclear("not-an-assertion")
         ELSE IF f.unhandled # "none" THEN Unclear("unhandled-error")
         ELSE Given("would-detect")

WouldDetect(f) == ReadRun(f).verdict = "would-detect"

Untroubled(f) == f.ending = "clean" /\ f.unhandled # "counted"

\* baselineTrouble: a baseline in which the test did not pass, or that was not clean, before and after.
BaselineTrouble(before, after) ==
    CASE before.test # "passed" -> Invalid("baseline-not-passed")
      [] before.test = "passed" /\ ~Untroubled(before) -> Invalid("baseline-not-clean")
      [] before.test = "passed" /\ Untroubled(before) /\ after.test # "passed" -> Invalid("restored-baseline-not-passed")
      [] before.test = "passed" /\ Untroubled(before) /\ after.test = "passed" /\ ~Untroubled(after) -> Invalid("restored-baseline-not-clean")
      [] OTHER -> NoVerdict("none")

\* A would-be detection counts when its confirming run, the run started next and the job's end agree. next is the run's
\* unhandled errors, "unrecorded", or None when no run started after it.
JudgeRuns(run, confirming, next, end) ==
    IF ~WouldDetect(run) THEN ReadRun(run)
    ELSE IF confirming = None THEN NoVerdict("confirming-run-unrecorded")
    ELSE IF ~WouldDetect(confirming.run) THEN Unclear("confirming-run-differed")
    ELSE IF next # "none" THEN Unclear("next-run-unclean")
    ELSE IF end # "clean" THEN Unclear("job-unclean")
    ELSE Given("detected")

JudgeNotRun(why) ==
    IF why \in {"no-probe-site", "no-module", "baseline-not-passed"} THEN Invalid(why) ELSE NoVerdict(why)

\* judge: whether there is a verdict is decided before which; a baseline is None or [ran, facts].
Judge(record, baseline, restored, next, end) ==
    IF record.status = "not-run" THEN JudgeNotRun(record.why)
    ELSE IF baseline = None \/ ~baseline.ran THEN NoVerdict("baseline-unrecorded")
    ELSE IF record.confirming # None /\ record.confirming.status # "ran" THEN NoVerdict("confirming-run-unrecorded")
    ELSE IF restored = None \/ ~restored.ran THEN NoVerdict("restored-baseline-unrecorded")
    ELSE LET trouble == BaselineTrouble(baseline.facts, restored.facts)
         IN  IF trouble.verdict = "invalid" THEN trouble ELSE JudgeRuns(record.run, record.confirming, next, end)
=============================================================================
