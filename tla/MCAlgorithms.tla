---------------------------- MODULE MCAlgorithms ----------------------------
(* The pure algorithms over bounded inputs: a state is one input of one    *)
(* algorithm, and each property relates what the code computes from it to  *)
(* a definition of what it should be.                                      *)
EXTENDS StoreRecords
LOCAL INSTANCE TLC

VARIABLES part, input

Idle == part = "none" /\ input = None

Take(p, inputs) == part = "none" /\ part' = p /\ \E i \in inputs : input' = i

Leave == part # "none" /\ part' = "none" /\ input' = None

---------------------------------------------------------------------------
\* Stored records.

UpTo(n, set) == UNION {[1..k -> set] : k \in 0..n}

TakeRun == Take("run", RunRecords(UpTo(2, ModuleStates(UpTo(2, TestStates))), {None, "text"}))

TakeDiscovery == Take("discovery", DiscoveryRecords(UpTo(2, WorkspaceEntries(UpTo(2, {"run", "skip"}), {None, "facts"})), {None, "workspaces"}))

Sound == [ending |-> "clean", module |-> "collected", test |-> "passed", hooks |-> "passed", repeats |-> FALSE,
          reach |-> "executed", errors |-> "others", unhandled |-> "none"]
Failing == [Sound EXCEPT !.test = "failed", !.errors = "assertions"]

FactsSamples ==
    {[record |-> [status |-> "ran", run |-> r, confirming |-> c], baseline |-> b, restored |-> [ran |-> TRUE, facts |-> Sound],
      next |-> "none", end |-> "clean"] : r \in {Sound, Failing},
        c \in {None, Garbled, [status |-> "interrupted"], [status |-> "ran", run |-> Failing]},
        b \in {[ran |-> TRUE, facts |-> Sound], [ran |-> TRUE, facts |-> Failing], [ran |-> TRUE, facts |-> [Sound EXCEPT !.reach = Garbled]]}}
    \cup {[record |-> [status |-> "not-run", why |-> w], baseline |-> None, restored |-> None, next |-> None, end |-> "clean"] : w \in {"no-module", Garbled}}

Entries == {[defect |-> d, reading |-> v, facts |-> f] :
                d \in {None, "d1", "d2"}, v \in {Given("detected"), Given("survived"), NoVerdict("confirming-run-unrecorded")}, f \in FactsSamples \cup {Garbled}}

TakeReply ==
    \/ Take("reply", [status : {"ran", "canceled"}, judgements : UpTo(1, Entries),
                      experiments : UpTo(2, [defect : {None, "d1"}, digest : BOOLEAN])])
    \/ Take("reply", [status : {"ran"}, judgements : {<<[defect |-> "d1", reading |-> v, facts |-> f], j>> :
                                                         v \in {Given("detected"), NoVerdict("confirming-run-unrecorded")}, f \in FactsSamples, j \in Entries},
                      experiments : {<<[defect |-> "d1", digest |-> TRUE], [defect |-> "d2", digest |-> TRUE]>>}])

\* A stored record reads back as it was written, and a damaged one is refused (RunReadsBack, DiscoveryReadsBack).
RecordsReadBack == /\ part = "run" => RunReadsBack(input)
                   /\ part = "discovery" => DiscoveryReadsBack(input)

\* Of a falsification reply all verdicts are stored or none, each the one its own facts give (EvidenceIsJudged).
EvidenceStoredIsJudged == part = "reply" => EvidenceIsJudged(input, {"d1", "d2"})

---------------------------------------------------------------------------
\* Staging a lane.

Staging == INSTANCE LaneStaging

RepoPaths == {"d", "d/a", "d/b"}
Beneath == {<<"d", "d/a">>, <<"d", "d/b">>}

TakePlan == Take("plan", [changes : {{[path |-> p, staged |-> s[p]] : p \in q} : q \in SUBSET {"d/a", "d/b"}, s \in [{"d/a", "d/b"} -> BOOLEAN]},
                          claims : SUBSET RepoPaths, also : SUBSET RepoPaths,
                          specs : SUBSET [path : {"d/a", "d/b"}, hits : {{}, {1}}]])

Hunks == {[start |-> s, old |-> o, new |-> n, newStart |-> 0] : s \in 0..4, o \in 0..2, n \in 0..2}
FileHunks(lines) == {h \in Hunks : h.old + h.new > 0 /\ (h.old > 0 => h.start > 0) /\ h.start + h.old <= IF h.old = 0 THEN lines ELSE lines + 1}

TakePatch == Take("patch", UNION {{[lines |-> 4, hunks |-> h, chosen |-> c] : c \in SUBSET DOMAIN h} :
                                     h \in {g \in UpTo(3, FileHunks(4)) : Staging!DiffOf(g)}})

\* Each change asked for is staged one way only, and chosen hunks land where they stand (TakesOnce, LandInPlace).
StagesExactly == /\ part = "plan" => Staging!TakesOnce(Beneath, input.changes, input.claims, input.also, input.specs)
                 /\ part = "patch" => Staging!LandInPlace(input.lines, input.hunks, input.chosen)

---------------------------------------------------------------------------
\* Selection.

Select == INSTANCE SelectTests WITH MaxExtends <- 2, MaxWalkDepth <- 1, MaxWalkedEntries <- 4

R == <<"r">>
A == <<"r", "a">>
B == <<"r", "b">>
N == <<"r", "a", "n">>
\* A directory of B that is a link to A.
L == <<"r", "b", "l">>
PackageName(w) == CASE w = A -> "a" [] w = B -> "b" [] w = N -> "n" [] OTHER -> "root"

Specifier0 == [shape |-> "path", form |-> "plain", dir |-> R, name |-> "none", underRoot |-> R]
File0 == [dir |-> A, read |-> TRUE, linked |-> FALSE, declared |-> FALSE, found |-> {}]
Manifest0 == [read |-> "ok", name |-> None, entries |-> {}, imports |-> {}, overrides |-> {}]

To(w, shape, form) == [Specifier0 EXCEPT !.shape = shape, !.form = form, !.dir = w, !.name = PackageName(w)]
Specifiers(w) == {To(w, s, "plain") : s \in {"path", "bare", "subpath", "file-url", "bad-file-url"}}
                 \cup {To(w, "path", "glob"), To(R, "path", "glob"), To(R, "any-depth", "glob"), To(w, "bare", "file-relative")}
                 \cup IF w = A THEN {To(L, "path", "plain")} ELSE {}

Specs(w) == {[kind |-> k, dir |-> w, name |-> IF k = "reference" THEN "x" ELSE PackageName(w)] :
                 k \in {"path", "package", "workspace-key", "workspace-package", "registry", "garbled", "reference"}}

\* One thing of workspace `from` that leads to workspace `to`.
Sites(from, to) ==
    {[site |-> "entry", from |-> from, entry |-> [key |-> PackageName(to), spec |-> s]] : s \in Specs(to)}
    \cup {[site |-> "entry", from |-> from, entry |-> [key |-> "x", spec |-> s]] : s \in {t \in Specs(to) : t.kind \in {"path", "package"}}}
    \cup {[site |-> "override", from |-> from, entry |-> [key |-> "x", spec |-> s]] : s \in Specs(to)}
    \cup {[site |-> "imports", from |-> from, specifier |-> To(to, h, "plain")] : h \in {"path", "bare", "garbled"}}
    \cup {[site |-> "file", file |-> [File0 EXCEPT !.dir = from, !.found = {s}]] : s \in Specifiers(to)}
    \cup {[site |-> "file", file |-> [File0 EXCEPT !.dir = from, !.read = FALSE, !.linked = r[1], !.declared = r[2], !.found = {To(to, "path", "plain")}]] :
              r \in BOOLEAN \X BOOLEAN}
    \cup {[site |-> "link", link |-> [dir |-> from, readable |-> r, to |-> to]] : r \in BOOLEAN}
    \cup {[site |-> "alias", from |-> from, file |-> [File0 EXCEPT !.dir = from, !.found = {[Specifier0 EXCEPT !.shape = "bare", !.name = "alias"]}],
            alias |-> [find |-> f[1], resolver |-> f[2], matches |-> {"alias"}, to |-> To(to, f[3], "plain"),
                       prefix |-> [kind |-> f[4], dir |-> to, names |-> {PackageName(to)}]]] :
              f \in {<<"string", FALSE, "path", "path">>, <<"string", FALSE, "bare", "bare">>, <<"string", FALSE, "rooted", "path">>,
                     <<"string", FALSE, "url", "unfixed">>, <<"loose", FALSE, "path", "bare">>, <<"invalid", FALSE, "path", "bare">>,
                     <<"anchored", FALSE, "path", "bare">>, <<"string", TRUE, "path", "bare">>}}

Put(g, x) ==
    CASE x.site = "entry" -> [g EXCEPT !.manifest[x.from].entries = @ \cup {x.entry}]
      [] x.site = "override" -> IF g.manifest[R].read = "missing" THEN g ELSE [g EXCEPT !.manifest[R].overrides = @ \cup {x.entry}]
      [] x.site = "imports" -> [g EXCEPT !.manifest[x.from].imports = @ \cup {x.specifier}]
      [] x.site \in {"file", "alias"} -> [g EXCEPT !.files = @ \cup {x.file}]
      [] OTHER -> [g EXCEPT !.links = @ \cup {x.link}]

\* All listed or one missed; every manifest readable, or one unreadable or missing.
Repositories ==
    {[listed |-> l, unlisted |-> {R, A, B, N} \ l, real |-> [d \in {L} |-> A], files |-> {}, links |-> {}, configs |-> <<>>, vitest |-> {},
      manifest |-> [w \in {R, A, B, N} |-> [Manifest0 EXCEPT !.name = IF w = R \/ m = <<w, "missing">> THEN None ELSE PackageName(w),
                                                             !.read = IF m[1] = w THEN m[2] ELSE "ok"]]] :
        l \in {{R, A, B, N}, {R, B, N}, {R, A, N}}, m \in {<<None, "ok">>, <<A, "unreadable">>, <<B, "unreadable">>, <<R, "missing">>}}

\* Tests run in N and in B, which may report an alias of its own.
Discovered(w, x) == [path |-> w, status |-> "discovered", reported |-> TRUE, failedModules |-> FALSE, unhandled |-> FALSE, modules |-> {w},
                     setupFiles |-> {}, globalSetupFiles |-> {}, aliases |-> IF x.site = "alias" /\ x.from = w THEN {x.alias} ELSE {}]

Discoveries(x, y) ==
    {{Discovered(N, x), Discovered(B, y)}, {Discovered(N, x), [Discovered(B, y) EXCEPT !.status = "unsupported"]},
     {[Discovered(N, x) EXCEPT !.status = "failed"], Discovered(B, y)}, {[Discovered(N, x) EXCEPT !.unhandled = TRUE]}}

Changes == {[dir |-> d, name |-> "source", refused |-> FALSE, declared |-> FALSE, setup |-> None] : d \in {R, A, B, N}}

\* N depends on B through one site, and B on A through another.
TakeSite == Take("site", {[g |-> Put(g, x), site |-> x] : g \in Repositories, x \in Sites(N, B)})

TakeSelection == /\ part = "site" /\ part' = "selection"
                 /\ \E y \in Sites(B, A) : \E d \in Discoveries(input.site, y) : input' = [g |-> Put(input.g, y), discovery |-> d]

\* Whatever cannot be read or named, a change selects every workspace that truly depends on it, and each reason given is
\* a shortest chain of links (ReachesEveryDependent, ReasonsHold).
SelectionSound == part = "selection" => Select!SelectionIsSound(input.g, input.discovery, Changes)

\* tsconfig files of B, A and N that extend each other.
Config0 == [dir |-> B, installed |-> FALSE, read |-> TRUE, extends |-> <<>>, references |-> {}, paths |-> None, baseUrl |-> None]
Extends(names) == [i \in DOMAIN names |-> [shape |-> "path", dir |-> B, name |-> "none", at |-> names[i]]]
Configs(dir, extends, paths, bases) ==
    {[Config0 EXCEPT !.dir = dir, !.extends = IF e = Garbled THEN e ELSE Extends(e), !.paths = p, !.baseUrl = b] : e \in extends, p \in paths, b \in bases}
TakeConfigs ==
    Take("configs", {("c0" :> c0) @@ ("c1" :> c1) @@ ("c2" :> c2) :
        c0 \in Configs(B, UpTo(2, {"c1", "c2", "missing", "unfollowed"}), {None, {<<>>}}, {None}),
        c1 \in Configs(A, {<<>>, <<"c2">>, <<"c0">>, <<"c2", "c1">>}, {None, Garbled, {<<>>}}, {None, N}) \cup {[Config0 EXCEPT !.read = FALSE]},
        c2 \in Configs(N, {<<>>, <<"c1">>, <<"c0">>, Garbled}, {None, {}, {<<"n">>}}, {None, A})})

\* A directory with a file, a config, a plugin file, a link, a skipped file and two levels of directories beneath.
Entry(name, kind, link, skipped) == [name |-> name, kind |-> kind, link |-> link, skipped |-> skipped]
X == <<"x">>
TakeTree ==
    Take("tree", {(X :> top) @@ (<<"x", "d">> :> below) @@ (<<"x", "d", "e">> :> {Entry("s", "source", FALSE, FALSE)}) @@ (<<"x", "k">> :> Garbled) :
        top \in SUBSET {Entry("s", "source", FALSE, FALSE), Entry("c", "config", FALSE, FALSE), Entry("p", "plugin", FALSE, FALSE), Entry("l", "source", TRUE, FALSE),
                        Entry("i", "source", FALSE, TRUE), Entry("d", "directory", FALSE, FALSE), Entry("k", "directory", FALSE, FALSE)},
        below \in SUBSET {Entry("s", "source", FALSE, FALSE), Entry("t", "source", FALSE, FALSE), Entry("e", "directory", FALSE, FALSE), Entry("m", "directory", TRUE, FALSE)}})

\* What the scan of a workspace does not read it says it did not: a walk cut short or a directory it cannot list, and paths
\* inherited through extends that cannot be followed (WalkMissesNothing, PathsAsInEffect).
ScanOmitsNothingUnsaid ==
    /\ part = "tree" => Select!WalkMissesNothing(input, X)
    /\ part = "configs" => Select!PathsAsInEffect([listed |-> {R, A, B, N}, unlisted |-> {}, real |-> <<>>, configs |-> input,
                                manifest |-> [w \in {R, A, B, N} |-> Manifest0]], B, "c0")

Next == \/ TakeConfigs \/ TakeTree \/ TakeSite \/ TakeSelection
        \/ TakePlan \/ TakePatch
        \/ TakeRun \/ TakeDiscovery \/ TakeReply
        \/ Leave

Spec == Idle /\ [][Next]_<<part, input>>
=============================================================================
