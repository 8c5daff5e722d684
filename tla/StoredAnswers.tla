---------------------------- MODULE StoredAnswers ----------------------------
(***************************************************************************)
(* What an answer counts: the tests the stored discovery lists, each in    *)
(* the state its workspace's latest stored run gives it, and the freshness *)
(* of both.  Models the lists of packages/daemon/src/vitest/test-lists.ts, *)
(* discover-tests.ts, run-states.ts and daemon/carried-lists.ts as they    *)
(* are stored by discoveries and runs, and query/test-states.ts,           *)
(* list-freshness.ts and summary.ts as operators on what is stored.        *)
(*                                                                         *)
(* A discovery and a run are one step here: InputTracker, DiscoveryBinding *)
(* and Scheduler model the edits that come while one of them goes on, and  *)
(* their outcome here is a record bound to no fingerprint.                 *)
(***************************************************************************)
EXTENDS Naturals, Sequences, FiniteSets, NoValue

CONSTANTS
    Refused,        \* a stored run that cannot be read
    ModulesOf,      \* the test modules of each Vitest workspace
    Initial,        \* the test modules at first
    Texts,          \* what a test module can hold: the tests it declares, and where its collection breaks
    NameOf,         \* the name path of each declared test
    MaxEdits        \* bounds the edits and the upgrades of the adapter

Workspaces == DOMAIN ModulesOf
Modules == UNION {ModulesOf[w] : w \in Workspaces}
Outcomes == {"passed", "failed"}

VARIABLES
    texts,          \* the test modules as they are
    source,         \* the outcome the source gives every test that runs
    discovery,      \* the latest stored discovery
    runs,           \* each workspace's latest stored run
    unrefreshed,    \* the modules, each with its workspace, whose lists a run could not replace in the stored discovery
    edits

vars == <<texts, source, discovery, runs, unrefreshed, edits>>

---------------------------------------------------------------------------
\* Test lists.  A test's identity within its module is its name path and its occurrence among the tests of that name.

Identities(tests) == [i \in DOMAIN tests |-> <<NameOf[tests[i]], Cardinality({j \in 1..(i - 1) : NameOf[tests[j]] = NameOf[tests[i]]})>>]

Duplicate(tests, i) == \E j \in DOMAIN tests \ {i} : NameOf[tests[j]] = NameOf[tests[i]]

\* collectedTests: a module's list as a collection of it finds them.
Collected(tests) == [i \in DOMAIN tests |-> [id |-> Identities(tests)[i], duplicate |-> Duplicate(tests, i)]]

IdsOf(list) == {list[i].id : i \in DOMAIN list}

ListedModules(entry) == {m \in DOMAIN entry.lists : entry.lists[m] # <<>>} \ entry.failed

\* vouchedModules: the modules a run recorded as ran with exactly the tests listed.
VouchedModules(entry, run) ==
    IF run.status # "ran" THEN {}
    ELSE {m \in ListedModules(entry) : run.modules[m].state = "ran" /\ IdsOf(run.modules[m].tests) = IdsOf(entry.lists[m])}

\* runLists: of the modules the run recorded as ran, those with no error on the module itself.
RunLists(run) == IF run.status # "ran" THEN {} ELSE {m \in DOMAIN run.modules : run.modules[m].state = "ran" /\ ~run.modules[m].error}

ListOf(recorded) == [i \in DOMAIN recorded |-> [id |-> recorded[i].id, duplicate |-> recorded[i].duplicate]]

\* withModuleLists: each list the discovery holds, and the run's holds a test of and differs from, replaced.
ReplacedModules(entry, run) ==
    {m \in RunLists(run) : entry.lists[m] # <<>> /\ run.modules[m].tests # <<>> /\ entry.lists[m] # ListOf(run.modules[m].tests)}

WithModuleLists(d, w, run) ==
    IF d.entries[w].status # "discovered" THEN d
    ELSE [d EXCEPT !.entries[w].lists = [m \in DOMAIN @ |-> IF m \in ReplacedModules(d.entries[w], run) THEN ListOf(run.modules[m].tests) ELSE @[m]]]

\* listsToCarry: what a rediscovery keeps of the stored discovery instead of collecting it.
ListsToCarry(w) ==
    IF discovery = None \/ runs[w] \in {None, Refused} THEN {}
    ELSE IF discovery.ours /\ discovery.entries[w].status = "discovered" /\ ~discovery.entries[w].unhandled
         THEN VouchedModules(discovery.entries[w], runs[w]) ELSE {}

---------------------------------------------------------------------------
\* Fingerprints and freshness.

WorkspacePrint(w) == <<[m \in ModulesOf[w] |-> texts[m]], source>>
DiscoveryPrint == <<texts, source>>

\* assessFreshness, and what is stored not fingerprinted rates unknown.
AssessFreshness(print, current) == IF print = None \/ current = None THEN "unknown" ELSE IF print = current THEN "current" ELSE "stale"

\* recordFreshness.
RecordFreshness(stored, current) == IF ~stored.ours THEN "stale" ELSE AssessFreshness(stored.print, current)

\* vouchedFreshness.
VouchedFreshness(entry, run, current) ==
    IF RecordFreshness(run, current) # "current" THEN RecordFreshness(run, current)
    ELSE IF VouchedModules(entry, run) = ListedModules(entry) THEN "current" ELSE "unknown"

OwnFreshness == RecordFreshness(discovery, DiscoveryPrint)

\* listFreshness: the discovery's freshness as an answer gives it.
ListFreshness ==
    IF OwnFreshness # "current" THEN OwnFreshness
    ELSE LET rated == {IF runs[w] = Refused THEN "unknown" ELSE VouchedFreshness(discovery.entries[w], runs[w], WorkspacePrint(w)) :
                           w \in {v \in Workspaces : discovery.entries[v].status = "discovered" /\ runs[v] # None}}
         IN IF "stale" \in rated THEN "stale" ELSE IF "unknown" \in rated THEN "unknown" ELSE "current"

\* runAnswerer: what the workspace's latest run holds for a test.
RunAnswer(run, m, id) ==
    IF run.status # "ran" THEN [state |-> run.status]
    ELSE LET found == {i \in DOMAIN run.modules[m].tests : run.modules[m].tests[i].id = id}
         IN IF run.modules[m].state # "ran" THEN [state |-> run.modules[m].state]
            ELSE IF found = {} THEN [state |-> "not in latest run"]
            ELSE LET t == run.modules[m].tests[CHOOSE i \in found : TRUE]
                 IN IF t.outcome = None THEN [state |-> "interrupted"] ELSE [outcome |-> t.outcome, positional |-> t.duplicate]

\* Mutant of PositionUnvouched: only the discovery's mark counts, not the run's.
PositionUnvouchedListed(test, positional) == test.duplicate /\ OwnFreshness # "current"

\* positionUnvouched.
PositionUnvouched(test, positional) == (test.duplicate \/ positional) /\ OwnFreshness # "current"

\* workspaceStandings: a listed test's state and freshness.
StandingFreshness(run, test, found, current) ==
    IF ~run.ours THEN "stale" ELSE IF PositionUnvouched(test, found.positional) THEN "unknown" ELSE AssessFreshness(run.print, current)

Standing(w, m, test) ==
    LET run == runs[w]
    IN IF run = Refused THEN [state |-> "run refused", freshness |-> "unknown"]
       ELSE IF run = None THEN [state |-> "never run", freshness |-> "unknown"]
       ELSE LET found == RunAnswer(run, m, test.id)
            IN IF "outcome" \in DOMAIN found
               THEN [state |-> found.outcome, freshness |-> StandingFreshness(run, test, found, WorkspacePrint(w))]
               ELSE [state |-> found.state, freshness |-> "unknown"]

\* testStandings.
TestStandings ==
    UNION {UNION {{[workspace |-> w, module |-> m, test |-> discovery.entries[w].lists[m][i], standing |-> Standing(w, m, discovery.entries[w].lists[m][i])] :
                       i \in DOMAIN discovery.entries[w].lists[m]} : m \in ModulesOf[w]} :
               w \in {v \in Workspaces : discovery.entries[v].status = "discovered"}}

---------------------------------------------------------------------------
\* The worktree and the jobs.

Init ==
    /\ texts = Initial /\ source = "passed"
    /\ discovery = None /\ runs = [w \in Workspaces |-> None] /\ unrefreshed = {} /\ edits = 0

Edit(m, t) ==
    /\ edits < MaxEdits /\ edits' = edits + 1
    /\ texts[m] # t /\ texts' = [texts EXCEPT ![m] = t]
    /\ UNCHANGED <<source, discovery, runs, unrefreshed>>

EditSource ==
    /\ edits < MaxEdits /\ edits' = edits + 1
    /\ \E o \in Outcomes \ {source} : source' = o
    /\ UNCHANGED <<texts, discovery, runs, unrefreshed>>

\* The daemon starts with another adapter version.
Upgrade ==
    /\ edits < MaxEdits /\ edits' = edits + 1
    /\ discovery # None /\ discovery' = [discovery EXCEPT !.ours = FALSE]
    /\ runs' = [w \in Workspaces |-> IF runs[w] \in {None, Refused} THEN runs[w] ELSE [runs[w] EXCEPT !.ours = FALSE]]
    /\ UNCHANGED <<texts, source, unrefreshed>>

\* A stored run is damaged and read as refused.
Damage(w) ==
    /\ edits < MaxEdits /\ edits' = edits + 1
    /\ runs[w] \notin {None, Refused} /\ runs' = [runs EXCEPT ![w] = Refused]
    /\ UNCHANGED <<texts, source, discovery, unrefreshed>>

\* collectWorkspace: the carried lists kept, every other module collected; one with an error has failed, whatever tests it declared.
Discovered(w, carried) ==
    LET failed == {m \in ModulesOf[w] \ carried : texts[m].breaks # "no"}
    IN [status |-> "discovered", failed |-> failed, unhandled |-> FALSE,
        lists |-> [m \in ModulesOf[w] |-> IF m \in carried THEN discovery.entries[w].lists[m]
                                          ELSE IF m \in failed THEN <<>> ELSE Collected(texts[m].tests)]]

\* A worker that crashes while it collects leaves its module failed and an unhandled error.
Crashing(w, carried) ==
    {[Discovered(w, carried) EXCEPT !.failed = @ \cup {m}, !.lists[m] = <<>>, !.unhandled = TRUE] : m \in ModulesOf[w] \ carried}

Entries(w, carried) ==
    {Discovered(w, carried), [status |-> "failed", lists |-> [m \in ModulesOf[w] |-> <<>>], failed |-> {}, unhandled |-> FALSE]} \cup Crashing(w, carried)

\* #discover, begun when the stored discovery is not current: bound to the inputs unless an edit came while it ran.
Discover ==
    /\ discovery # None => OwnFreshness # "current"
    /\ \E bound \in BOOLEAN, read \in BOOLEAN :
           LET of(w) == Entries(w, IF read THEN ListsToCarry(w) ELSE {})
           IN \E entries \in {e \in [Workspaces -> UNION {of(w) : w \in Workspaces}] : \A w \in Workspaces : e[w] \in of(w)} :
                  discovery' = [entries |-> entries, print |-> IF bound THEN DiscoveryPrint ELSE None, ours |-> TRUE]
    /\ unrefreshed' = {}
    /\ UNCHANGED <<texts, source, runs, edits>>

\* recordModule: a module with an error and no test has failed; one with tests and an error ran.
Recorded(m, how, outcomes) ==
    LET tests == IF texts[m].breaks = "at load" THEN <<>> ELSE texts[m].tests
        error == texts[m].breaks # "no" \/ how = "hook"
    IN CASE how \in {"crashed", "not run"} -> [state |-> how, tests |-> <<>>, error |-> FALSE]
         [] how \notin {"crashed", "not run"} /\ tests = <<>> /\ error -> [state |-> "failed", tests |-> <<>>, error |-> TRUE]
         [] OTHER -> [state |-> "ran", error |-> error,
                      tests |-> [i \in DOMAIN tests |-> [id |-> Identities(tests)[i], duplicate |-> Duplicate(tests, i), outcome |-> outcomes]]]

\* A run: its modules end as they do, or the workspace fails or its executor crashes; an interrupted one leaves tests unfinished.
RunRecord(w, status, how, outcomes, print) ==
    [status |-> status, modules |-> [m \in ModulesOf[w] |-> Recorded(m, how[m], outcomes)], ours |-> TRUE, print |-> print]

Prints(w) == {None, WorkspacePrint(w)}
NotRunModules(w) == [m \in ModulesOf[w] |-> "not run"]
Failures == {"run failed", "run crashed"}
FailedRuns(w) == {RunRecord(w, s, NotRunModules(w), None, p) : s \in Failures, p \in Prints(w)}
EndedRuns(w) == {RunRecord(w, "ran", how, source, p) : how \in [ModulesOf[w] -> {"done", "hook", "crashed"}], p \in Prints(w)}
InterruptedRuns(w) == {RunRecord(w, "ran", how, None, None) : how \in [ModulesOf[w] -> {"done", "not run"}]}

RunRecords(w) == FailedRuns(w) \cup EndedRuns(w) \cup InterruptedRuns(w)

\* #settleRun and refreshLists: the run is stored, then the discovery in effect again with the run's lists, unless that write fails.
Run(w) ==
    /\ discovery # None /\ discovery.entries[w].status = "discovered"
    /\ runs[w] \notin {None, Refused} => RecordFreshness(runs[w], WorkspacePrint(w)) # "current"
    /\ \E run \in RunRecords(w) :
           /\ runs' = [runs EXCEPT ![w] = run]
           /\ LET replaced == IF discovery.ours THEN ReplacedModules(discovery.entries[w], run) ELSE {}
              IN \/ /\ discovery' = IF replaced = {} THEN discovery ELSE WithModuleLists(discovery, w, run)
                    /\ unrefreshed' = unrefreshed \ ({w} \X replaced)
                 \/ /\ replaced # {} /\ unrefreshed' = unrefreshed \cup ({w} \X replaced)
                    /\ UNCHANGED discovery
    /\ UNCHANGED <<texts, source, edits>>

\* What is stored of a run.
TestIds == UNION {{Identities(t.tests)[i] : i \in DOMAIN t.tests} : t \in Texts}
ModuleRecords ==
    [state : {"ran", "failed", "crashed", "not run"}, error : BOOLEAN,
     tests : Seq([id : TestIds, duplicate : BOOLEAN, outcome : Outcomes \cup {None}])]
RunType(w) ==
    [status : {"ran"} \cup Failures, modules : [ModulesOf[w] -> ModuleRecords], ours : BOOLEAN,
     print : {None} \cup ([ModulesOf[w] -> Texts] \X Outcomes)]

\* Modules hold texts with named tests, there are finitely many workspaces, and what stands for no run is none.
ASSUME AnswersAssumption ==
    /\ Initial \in [Modules -> Texts] /\ \A t \in Texts : t.tests \in Seq(DOMAIN NameOf)
    /\ IsFiniteSet(Workspaces)
    /\ None # Refused /\ \A w \in Workspaces : None \notin RunType(w)

Next ==
    \/ \E m \in Modules, t \in Texts : Edit(m, t)
    \/ EditSource \/ Upgrade \/ Discover
    \/ \E w \in Workspaces : Damage(w) \/ Run(w)

Spec == Init /\ [][Next]_vars

---------------------------------------------------------------------------
\* Properties.

TrueIds(m) == {Identities(texts[m].tests)[i] : i \in DOMAIN texts[m].tests}

\* Whether the workspace's latest run reported its list of the module, and the discovery could be stored with it: a run reports
\* none of a module with an error of its own, even when it recorded the module as ran.
ListTaken(w, m) == <<w, m>> \notin unrefreshed /\ (runs[w] \notin {None, Refused} => ~runs[w].modules[m].error)

\* An answer that rates its discovery current counts, for each module it does not report failed and no run found an error in,
\* exactly the tests the module declares now, although a rediscovery carries lists that nothing has checked since the last edit
\* (list-freshness.ts, carried-lists.ts).
CurrentListsAreTrue ==
    discovery # None => (ListFreshness = "current" =>
        \A w \in Workspaces : discovery.entries[w].status = "discovered" =>
            \A m \in ModulesOf[w] \ discovery.entries[w].failed :
                ListTaken(w, m) => IdsOf(discovery.entries[w].lists[m]) = TrueIds(m) /\ texts[m].breaks = "no")

SameNamed(ids, id) == {other \in ids : other[1] = id[1]}

PositionsHold(s) == SameNamed(IdsOf(discovery.entries[s.workspace].lists[s.module]), s.test.id) = SameNamed(TrueIds(s.module), s.test.id)

\* A result an answer rates current is what running that test as it is now gives, and where the run's list was taken the
\* discovery lists as many tests of its name as there are now, so its position tells it apart (test-states.ts).
CurrentResultsHold ==
    discovery # None => \A s \in TestStandings : s.standing.freshness = "current" =>
        /\ s.test.id \in TrueIds(s.module) /\ texts[s.module].breaks # "at load" /\ s.standing.state = source
        /\ ListTaken(s.workspace, s.module) => PositionsHold(s)

\* What an answer rates current is true of the worktree: the listed tests and the results.
CurrentIsTrue == CurrentListsAreTrue /\ CurrentResultsHold

\* Said of the code: the discovery's own fingerprint vouches for the position of a test told apart from same-named ones only by
\* it (summary.ts, QueryBasis.discoveryCurrent).
PositionsVouched ==
    discovery # None => \A s \in TestStandings : s.standing.freshness = "current" => PositionsHold(s)
=============================================================================
