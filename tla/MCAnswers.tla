------------------------------ MODULE MCAnswers ------------------------------
(* What callers are answered, and what it is answered from: the pure       *)
(* algorithms, the answers over the stored discovery, runs and evidence,   *)
(* the falsification job that finds the evidence, the daemon's journal     *)
(* with the cursors its callers keep, and the memory files a hook keeps    *)
(* its cursor and the edits in.  The five share no state, and a behaviour  *)
(* is one's, the others staying at their initial state, so TLC explores    *)
(* the sum of the five.                                                    *)
EXTENDS DefectStandings, FalsifyJob, ChangeJournal, HookMemory
LOCAL INSTANCE TLC

CONSTANTS Parts, Garbled, Unreadable, e1, e2, f1, f2

VARIABLES part, input

Algorithms == INSTANCE MCAlgorithms

---------------------------------------------------------------------------
\* One workspace, one definition that can be spelled, bound and broken in several ways, and a second that may repeat its id.
MCModulesOf == "w1" :> {"m1"}
MCInitial == "m1" :> [tests |-> <<"x">>, breaks |-> "no"]
MCTexts == {[tests |-> <<"x">>, breaks |-> "no"], [tests |-> <<"x", "y">>, breaks |-> "no"], [tests |-> <<"x">>, breaks |-> "part way"]}
MCNameOf == [x |-> "n", y |-> "n", z |-> "k"]
Definition0 == [object |-> TRUE, id |-> "d1", texts |-> TRUE, test |-> [module |-> <<"m1">>, name |-> "n", occurrence |-> None],
                mutation |-> [file |-> <<"src">>, old |-> "a", new |-> "b"]]
MCDefinitionValues ==
    {Definition0, [Definition0 EXCEPT !.test.occurrence = 0, !.test.module = <<".", "m1">>], [Definition0 EXCEPT !.mutation.new = "c"],
     [Definition0 EXCEPT !.mutation.file = <<"x", "..", "..", "src">>], [Definition0 EXCEPT !.id = "d2", !.test = None]}
MCOccursIn == [passed |-> [a |-> 1], failed |-> [a |-> 2]]

\* Two experiments on two files, one flake, and two kinds of trouble.
Trouble == [ending |-> "clean", module |-> "collected", test |-> "passed", hooks |-> "passed", repeats |-> FALSE, reach |-> "executed",
            errors |-> "assertions", unhandled |-> "none"]
MCExperiments == <<e1, e2>>
MCFileOf == (e1 :> f1) @@ (e2 :> f2)
MCTroubles == {[Trouble EXCEPT !.ending = "unclean"], [Trouble EXCEPT !.test = "failed", !.errors = "others"]}

ASSUME JobAssumption

\* Three runs of two agents and the session's prompts, two at once; a memory file's time is over after one tick.
HookAgents == {"main", "agent"}
HookStanding == {"prompts"}
HookBatches == [a \in HookAgents |-> IF a = "main" THEN {{}, {"f"}} ELSE {{"g"}}]
HookDeleted == {"g"}

PartsInit ==
    /\ DefectInit /\ JobInit /\ JournalInit /\ HookInit /\ input = None
    /\ part \in Parts
    /\ part # "job" => checked = [e \in E |-> "ok"] /\ rejects = {}

PartsNext ==
    \/ part \notin {"answers", "job", "journal", "hook"} /\ Algorithms!Next /\ UNCHANGED <<defectVars, falsifyVars, journalVars, hookVars>>
    \/ part = "answers" /\ DefectNext /\ UNCHANGED <<part, input, falsifyVars, journalVars, hookVars>>
    \/ part = "job" /\ JobNext /\ UNCHANGED <<part, input, defectVars, journalVars, hookVars>>
    \/ part = "journal" /\ JournalNext /\ UNCHANGED <<part, input, defectVars, falsifyVars, hookVars>>
    \/ part = "hook" /\ HookNext /\ UNCHANGED <<part, input, defectVars, falsifyVars, journalVars>>

PartsSpec == PartsInit /\ [][PartsNext]_<<part, input, defectVars, falsifyVars, journalVars, hookVars>>

---------------------------------------------------------------------------
\* Stored records read back as written, or are refused, and evidence is stored as judged (see RecordsReadBack and
\* EvidenceStoredIsJudged in MCAlgorithms).
StoredIsWritten == Algorithms!RecordsReadBack /\ Algorithms!EvidenceStoredIsJudged

\* A lane's plan takes each change once and its patch lands in place (see StagesExactly in MCAlgorithms).
StagesExactly == Algorithms!StagesExactly

\* A change selects every workspace that truly depends on it, by a shortest chain of links (see SelectionSound in MCAlgorithms).
SelectionSound == Algorithms!SelectionSound

\* What a scan does not read it says it did not (see ScanOmitsNothingUnsaid in MCAlgorithms).
ScanOmitsNothingUnsaid == Algorithms!ScanOmitsNothingUnsaid
=============================================================================
