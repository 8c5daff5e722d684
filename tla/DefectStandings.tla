--------------------------- MODULE DefectStandings ---------------------------
(***************************************************************************)
(* Where each defect definition of the worktree stands: invalid, its       *)
(* anchor missing, never verified, or the verdict of its stored evidence   *)
(* with how fresh that is.  Models packages/daemon/src/defects/            *)
(* definitions.ts, resolve-definitions.ts, defect-standings.ts,            *)
(* worktree-standings.ts and query/defects-answer.ts over the stored       *)
(* discovery and runs, with evidence stored by falsifications of the       *)
(* definitions that were eligible, while definitions, declared error       *)
(* names, tests and the mutated source are edited.                         *)
(*                                                                         *)
(* A path is a sequence of names, and the mutated file's text is what the  *)
(* source variable holds.                                                  *)
(***************************************************************************)
EXTENDS StoredAnswers, SequencesExt

CONSTANTS
    FirstDefinition,    \* the definition there is at first
    DefinitionValues,   \* what an item of a defects array can be
    OccursIn,           \* how often each anchor text occurs in each source
    LeadsOutside,       \* the paths that resolve through a link to outside the consumer root
    Verdicts, ErrorNames

Slots == 1..2
SourceFile == <<"src">>

VARIABLES
    definitions,    \* the definitions read, by position; None where there is none
    names,          \* the declared assertion error names
    evidence,       \* the stored evidence by defect id
    judged          \* what each stored verdict was given on (history)

defectVars == <<vars, definitions, names, evidence, judged>>

---------------------------------------------------------------------------
\* Checking a definition.

\* rootRelativePath: "." and ".." resolved, so every spelling of a file is one path; None when it is no file below the root.
Normalised(spelled) ==
    FoldLeft(LAMBDA path, name : IF name = "." THEN path
                                 ELSE IF name = ".." /\ path # <<>> /\ Last(path) # ".." THEN Front(path) ELSE Append(path, name), <<>>, spelled)
RootRelative(spelled) ==
    LET path == Normalised(spelled) IN IF spelled[1] = "/" \/ path = <<>> \/ path[1] = ".." THEN None ELSE path

\* checkedTest and testModulePath.
ModulePath(d) == IF d.test = None THEN None ELSE RootRelative(d.test.module)

\* mutationFilePath.
MutationPath(d) ==
    IF d.mutation = None THEN None
    ELSE LET path == RootRelative(d.mutation.file) IN IF path \in LeadsOutside THEN None ELSE path

\* checkDefinition: a definition's own problems.
OwnProblems(d) ==
    {p \in {"not an object", "no id", "no text", "no test", "no module path", "no mutation", "nothing to change", "no mutation path"} :
        CASE p = "not an object" -> ~d.object
          [] p = "no id" -> d.id = None
          [] p = "no text" -> ~d.texts
          [] p = "no test" -> d.test = None
          [] p = "no module path" -> d.test # None /\ ModulePath(d) = None
          [] p = "no mutation" -> d.mutation = None
          [] p = "nothing to change" -> d.mutation # None /\ d.mutation.old \in {"", d.mutation.new}
          [] OTHER -> d.mutation # None /\ MutationPath(d) = None}

\* withRepeatedIds and checkDefinitions: every definition whose id another one repeats has that problem too.
Present == {i \in Slots : definitions[i] # None}
Repeats(i) == definitions[i].id # None /\ \E j \in Present \ {i} : definitions[j].id = definitions[i].id
Problems(i) == OwnProblems(definitions[i]) \cup IF Repeats(i) THEN {"id repeats"} ELSE {}

\* anchorProblem and readAnchors: the old text occurs exactly once in the file as it is now.
AnchorMissing(d) == MutationPath(d) # SourceFile \/ OccursIn[source][d.mutation.old] # 1

---------------------------------------------------------------------------
\* Resolving a definition's test against the stored discovery.

\* discoveryIndex: the tests the discovery lists in a module, each with its workspace.
IndexedTests(path) ==
    UNION {UNION {{[workspace |-> w, module |-> m, test |-> discovery.entries[w].lists[m][i]] : i \in DOMAIN discovery.entries[w].lists[m]} :
                      m \in {n \in ModulesOf[w] : <<n>> = path}} :
               w \in {v \in Workspaces : discovery.entries[v].status = "discovered"}}

\* namesTest.
NamesTest(test, id) == test.name = id[1] /\ test.occurrence \in {None, id[2]}

\* resolveTest: the one test named, None when none or more than one is.
Matches(d) == IF ModulePath(d) = None THEN {} ELSE {t \in IndexedTests(ModulePath(d)) : NamesTest(d.test, t.test.id)}
ResolvedTest(d) == IF Cardinality(Matches(d)) = 1 THEN CHOOSE t \in Matches(d) : TRUE ELSE None

\* resolveDefinition.
ResolvedState(i) ==
    IF Problems(i) # {} \/ ResolvedTest(definitions[i]) = None THEN "invalid definition"
    ELSE IF AnchorMissing(definitions[i]) THEN "anchor missing" ELSE "never verified"

---------------------------------------------------------------------------
\* Standings.

\* Mutant of Digest: the declared error names are left out.
DigestUnnamed(d) == LET t == ResolvedTest(d)
                    IN <<d.id, <<t.workspace, t.module, t.test.id>>, MutationPath(d), d.mutation.old, d.mutation.new>>

\* definitionDigest: the id, the test's whole identity, the mutation and the declared names.
Digest(d) == LET t == ResolvedTest(d)
             IN <<d.id, <<t.workspace, t.module, t.test.id>>, MutationPath(d), d.mutation.old, d.mutation.new, names>>

\* Whether the test holds a current pass, so that the definition can be falsified now.
Eligible(i) ==
    /\ ResolvedState(i) = "never verified"
    /\ LET t == ResolvedTest(definitions[i])
       IN Standing(t.workspace, t.module, t.test) = [state |-> "passed", freshness |-> "current"]

\* evidenceFreshness: stale under every cause that holds, unknown only when none does.
StaleCauses(d, record) ==
    {c \in {"definition", "file", "version", "inputs"} :
        CASE c = "definition" -> record.digest # Digest(d)
          [] c = "file" -> record.file # source
          [] c = "version" -> ~record.ours
          [] OTHER -> AssessFreshness(record.print, WorkspacePrint(ResolvedTest(d).workspace)) = "stale"}

UnknownReasons(d, record) ==
    (IF AssessFreshness(record.print, WorkspacePrint(ResolvedTest(d).workspace)) = "unknown" THEN {"no fingerprint"} ELSE {})
    \cup IF ResolvedTest(d).test.duplicate /\ OwnFreshness # "current" THEN {"duplicate test"} ELSE {}

EvidenceFreshness(d, record) ==
    IF StaleCauses(d, record) # {} THEN "stale" ELSE IF UnknownReasons(d, record) # {} THEN "unknown" ELSE "current"

\* standingOf.
DefectStanding(i) ==
    LET d == definitions[i]
    IN IF ResolvedState(i) # "never verified" THEN [state |-> ResolvedState(i), freshness |-> None]
       ELSE IF evidence[d.id] \in {None, Refused} THEN [state |-> "never verified", freshness |-> None]
       ELSE [state |-> evidence[d.id].verdict, freshness |-> EvidenceFreshness(d, evidence[d.id])]

Verified(i) == DefectStanding(i) = [state |-> "detected", freshness |-> "current"]

\* inScope and liesAtOrUnder: a definition whose module the discovery does not list lies in every scope.
InScope(i, scope) ==
    LET path == ModulePath(definitions[i]) IN path = None \/ IndexedTests(path) = {} \/ IsPrefix(scope, path)

\* defectsAnswer: every definition in scope and every invalid entry is counted, and a test that no definition resolves to is a gap.
DefectsAnswer(scope, invalidEntries) ==
    LET counted == {i \in Present : InScope(i, scope)}
        covered == {ResolvedTest(definitions[i]) : i \in Present}
    IN [total |-> Cardinality(counted) + Cardinality(invalidEntries),
        verified |-> Cardinality({i \in counted : Verified(i)}),
        gaps |-> {s \in TestStandings : IsPrefix(scope, <<s.module>>) /\ [workspace |-> s.workspace, module |-> s.module, test |-> s.test] \notin covered}]

---------------------------------------------------------------------------
\* Steps.

Ids == {d.id : d \in DefinitionValues} \ {None}

\* What a verdict is given on, which is something.
AnchorTexts == UNION {{d.mutation.old, d.mutation.new} : d \in {c \in DefinitionValues : c.mutation # None}}
JudgedType == [test : Modules \X TestIds, old : AnchorTexts, new : AnchorTexts, source : Outcomes, names : SUBSET ErrorNames, text : Texts]

\* The first definition is one there can be, and what stands for no judgement is none.
ASSUME DefectAssumption == FirstDefinition \in DefinitionValues /\ None \notin JudgedType

DefectInit ==
    /\ Init /\ definitions = <<FirstDefinition, None>> /\ names = {}
    /\ evidence = [id \in Ids |-> None] /\ judged = [id \in Ids |-> None]

EditDefinition ==
    /\ edits < MaxEdits /\ edits' = edits + 1
    /\ \E i \in Slots, d \in DefinitionValues \cup {None} : definitions[i] # d /\ definitions' = [definitions EXCEPT ![i] = d]
    /\ UNCHANGED <<texts, source, discovery, runs, unrefreshed, names, evidence, judged>>

DeclareNames ==
    /\ edits < MaxEdits /\ edits' = edits + 1
    /\ \E n \in SUBSET ErrorNames \ {names} : names' = n
    /\ UNCHANGED <<texts, source, discovery, runs, unrefreshed, definitions, evidence, judged>>

\* Evidence is stored under the definition, the mutated file and the inputs it was judged on, by an eligible definition's job.
Falsify(i) ==
    /\ discovery # None /\ i \in Present /\ Eligible(i)
    /\ LET d == definitions[i]
           t == ResolvedTest(d)
       IN \E v \in Verdicts :
              /\ evidence' = [evidence EXCEPT ![d.id] = [verdict |-> v, digest |-> Digest(d), file |-> source, ours |-> TRUE, print |-> WorkspacePrint(t.workspace)]]
              /\ judged' = [judged EXCEPT ![d.id] = [test |-> <<t.module, t.test.id>>, old |-> d.mutation.old, new |-> d.mutation.new,
                                                     source |-> source, names |-> names, text |-> texts[t.module]]]
    /\ UNCHANGED <<vars, definitions, names>>

RefuseEvidence ==
    /\ edits < MaxEdits /\ edits' = edits + 1
    /\ \E id \in Ids : evidence[id] \notin {None, Refused} /\ evidence' = [evidence EXCEPT ![id] = Refused]
    /\ UNCHANGED <<texts, source, discovery, runs, unrefreshed, definitions, names, judged>>

DefectUpgrade ==
    /\ Upgrade
    /\ evidence' = [id \in Ids |-> IF evidence[id] \in {None, Refused} THEN evidence[id] ELSE [evidence[id] EXCEPT !.ours = FALSE]]
    /\ UNCHANGED <<definitions, names, judged>>

AnswersStep ==
    /\ \/ \E m \in Modules, t \in Texts : Edit(m, t)
       \/ EditSource \/ Discover
       \/ \E w \in Workspaces : Damage(w) \/ Run(w)
    /\ UNCHANGED <<definitions, names, evidence, judged>>

DefectNext == AnswersStep \/ DefectUpgrade \/ EditDefinition \/ DeclareNames \/ RefuseEvidence \/ \E i \in Slots : Falsify(i)

DefectSpec == DefectInit /\ [][DefectNext]_defectVars

---------------------------------------------------------------------------
\* The definition read as its author means it, on the worktree as it is.
MeansJudged(d, j) ==
    /\ j # None /\ d.object /\ d.texts /\ d.mutation # None /\ d.test # None
    /\ j.old = d.mutation.old /\ j.new = d.mutation.new /\ j.source = source /\ j.names = names
    /\ Normalised(d.test.module) = <<j.test[1]>> /\ NamesTest(d.test, j.test[2]) /\ j.text = texts[j.test[1]]

\* When an answer counts as many verified as there are in all, nothing kept any definition from being read and every one of the
\* scope is verified; and no test a verified definition names is a gap (defects-answer.ts).
AllVerifiedMeansAll ==
    \A scope \in {<<>>} \cup {<<m>> : m \in Modules}, invalid \in {{}, {"entry"}} :
        LET answer == DefectsAnswer(scope, invalid)
        IN /\ answer.verified = answer.total => invalid = {} /\ \A i \in Present : InScope(i, scope) => Verified(i)
           /\ \A s \in answer.gaps, i \in Present :
                 Verified(i) => ~(Normalised(definitions[i].test.module) = <<s.module>> /\ NamesTest(definitions[i].test, s.test.id))

\* A definition counted verified was judged, with that verdict, on exactly the mutation, the source, the error names and the test
\* module there are now, and on a test it names there; no other definition in the worktree could be meant by its id
\* (defect-standings.ts, worktree-standings.ts).
VerifiedHolds ==
    discovery # None => AllVerifiedMeansAll /\ \A i \in Present : Verified(i) =>
        LET d == definitions[i]
        IN /\ MeansJudged(d, judged[d.id]) /\ \A j \in Present \ {i} : definitions[j].id # d.id
=============================================================================
