------------------------------ MODULE SelectTests ------------------------------
(* Selection (selection/select-tests.ts, selection-input.ts,               *)
(* widening-links.ts): from the discovery in effect, the dependency        *)
(* information and a set of changed paths, which Vitest workspaces' tests  *)
(* to run and why.  A changed path has the directory it lies in, what its  *)
(* name makes it (a lockfile, a manifest, the non-inputs file, a config, a *)
(* source), whether it leaves the root (refused), whether the declaration  *)
(* in effect calls it a non-input, and what setup file it is.              *)
EXTENDS DependencyGraph
LOCAL INSTANCE SequencesExt
LOCAL INSTANCE TLC

---------------------------------------------------------------------------
\* selection-input.ts: a discovery entry has a status, whether its facts were reported, failed modules, unhandled errors,
\* and what it found; only the entries of a failed discovery come without facts.

DiscoveredTests(e) == ~e.failedModules /\ ~e.unhandled

Selectable(e) ==
    IF e.status = "failed"
    THEN [path |-> e.path, known |-> FALSE, modules |-> {}, setupFiles |-> {}, globalSetupFiles |-> {}, aliases |-> {}]
    ELSE [path |-> e.path, known |-> DiscoveredTests(e), modules |-> e.modules, setupFiles |-> e.setupFiles,
          globalSetupFiles |-> e.globalSetupFiles, aliases |-> e.aliases]

BuildSelectionInput(discovery) ==
    IF discovery = None THEN [built |-> FALSE]
    ELSE IF \E e \in discovery : e.status = "discovered" /\ ~e.reported THEN [built |-> FALSE]
    ELSE [built |-> TRUE,
          workspaces |-> {Selectable(e) : e \in {d \in discovery : d.status \in {"discovered", "failed"}}},
          notRunnable |-> {e.path : e \in {d \in discovery : d.status \in {"unsupported", "not-confirmed"}}}]

---------------------------------------------------------------------------
\* select-tests.ts.  The context: the listed workspaces, the edges, the widenings followed and the Vitest workspaces.

\* A widening one source file raised is left out when that file is a declared non-input.
FollowedWidenings(uncertainties) == {u \in uncertainties : u.file # None => ~u.file.declared}

Context(listed, input, info) ==
    [listed |-> listed, withoutManifest |-> info.withoutManifest, edges |-> info.edges,
     widenings |-> FollowedWidenings(info.uncertainties), workspaces |-> input.workspaces, notRunnable |-> input.notRunnable,
     vitest |-> {v.path : v \in input.workspaces} \cup input.notRunnable]

SelectionContext(g, input) == Context(g.listed, input, BuildDependencyInformation([g EXCEPT !.vitest = input.workspaces]))

ProjectWideKinds(ctx, p, owner) ==
    {k \in {"lockfile", "manifest", "non-inputs"} : p.name = k}
    \cup {k \in {"root-owned"} : owner = {Root} /\ Cardinality(ctx.listed) > 1}
    \cup {k \in {"owner-without-manifest"} : owner # {} /\ owner \subseteq ctx.withoutManifest \ ctx.vitest}
    \cup {k \in {"config-outside"} : p.name = "config" /\ p.dir \notin ctx.vitest}

PathTriggers(ctx, p, owner) ==
    LET triggers(kinds, scope, starts) == {[kind |-> k, scope |-> scope, starts |-> starts] : k \in kinds}
        holding(files(_)) == {v.path : v \in {w \in ctx.workspaces : p.setup # None /\ p.setup \in files(w)}}
        setupFiles(w) == w.setupFiles
        globalSetupFiles(w) == w.globalSetupFiles
    IN triggers(ProjectWideKinds(ctx, p, owner), "project", ctx.vitest)
       \cup triggers({k \in {"workspace-config"} : p.name = "config" /\ p.dir \in ctx.vitest}, "workspace", {p.dir})
       \cup triggers({k \in {"setup-file"} : holding(setupFiles) # {}}, "workspace", holding(setupFiles))
       \cup triggers({k \in {"global-setup-file"} : holding(globalSetupFiles) # {}}, "workspace", holding(globalSetupFiles))
       \cup triggers({k \in {"changed-path"} : owner # {}}, "plain", owner)

\* Every link out of a workspace: its dependents, and each widening, which every workspace reaches.
LinksFrom(ctx, w) == {e \in ctx.edges : e.on = w} \cup ctx.widenings

Extended(chain, link) == [chain EXCEPT !.links = Append(@, link)]

\* Breadth-first from every start at once; `queue` holds what is reached and not yet walked from.
RECURSIVE Walk(_, _, _)
Walk(ctx, queue, chains) ==
    IF queue = <<>> THEN chains
    ELSE LET links == {l \in LinksFrom(ctx, Head(queue)) : l.dependent \notin DOMAIN chains}
             reached == {l.dependent : l \in links}
             chain == chains[Head(queue)]
         IN Walk(ctx, Tail(queue) \o SetToSeq(reached),
                 chains @@ [w \in reached |-> Extended(chain, CHOOSE l \in links : l.dependent = w)])

WalkDependents(ctx, starts) == Walk(ctx, SetToSeq(starts), [s \in starts |-> [from |-> s, links |-> <<>>]])

TriggerReasons(ctx, trigger) ==
    IF trigger.scope = "project" THEN [w \in ctx.vitest |-> [trigger |-> trigger, from |-> None, links |-> <<>>]]
    ELSE LET chains == WalkDependents(ctx, trigger.starts)
         IN [w \in DOMAIN chains \cap ctx.vitest |-> [trigger |-> trigger, from |-> chains[w].from, links |-> chains[w].links]]

\* The reasons for each workspace one changed path reaches; a declared non-input reaches none.
SelectForPath(ctx, p) ==
    LET triggers == IF p.declared THEN {} ELSE PathTriggers(ctx, p, OwningWorkspace(p.dir, ctx.listed))
        given(w) == {r \in {IF w \in DOMAIN TriggerReasons(ctx, t) THEN TriggerReasons(ctx, t)[w] ELSE None : t \in triggers} : r # None}
    IN [w \in ctx.vitest |-> given(w)]

\* What is said of one path: what it selected, what it reached that will not run, and why it selected nothing.
PathReport(ctx, p) ==
    LET reached == {w \in ctx.vitest : SelectForPath(ctx, p)[w] # {}}
    IN [selected |-> reached \ ctx.notRunnable, notRunnable |-> reached \cap ctx.notRunnable,
        nothing |-> IF p.declared THEN "declared-non-input"
                    ELSE IF reached \ ctx.notRunnable # {} THEN "no"
                    ELSE IF reached # {} THEN "only-not-runnable" ELSE "no-dependent"]

\* The workspaces selected with their reasons, the ones reached that will not run, and whether nothing is selected: no
\* selected workspace has a test or tests not known.
Assemble(ctx, paths) ==
    LET outcomes == {SelectForPath(ctx, p) : p \in paths}
        reached == {w \in ctx.vitest : \E o \in outcomes : o[w] # {}}
        selected == {v \in ctx.workspaces : v.path \in reached}
        reasons == [w \in {v.path : v \in selected} |-> UNION {o[w] : o \in outcomes}]
    IN [state |-> IF \A v \in selected : v.known /\ v.modules = {} THEN "nothing-selected" ELSE "selected",
        selected |-> reasons, paths |-> [p \in paths |-> PathReport(ctx, p)],
        widenings |-> {l \in ctx.widenings : \E w \in DOMAIN reasons : \E r \in reasons[w] : l \in ToSet(r.links)}]

SelectTests(ctx, change) == IF \E p \in change : p.refused THEN [state |-> "refused"] ELSE Assemble(ctx, change)

---------------------------------------------------------------------------
\* What truly depends on what, whether or not the code could read it.

AllWorkspaces(g) == g.listed \cup g.unlisted
TrueHolder(g, d) == OwningWorkspace(RealPath(g, d), AllWorkspaces(g))
TrueNamed(g, name) == {w \in AllWorkspaces(g) : g.manifest[w].name = name}
Beneath(g, d) == {w \in AllWorkspaces(g) : Inside(RealPath(g, d), w)}

TrueSpec(g, spec, key) ==
    CASE spec.kind = "path" -> TrueHolder(g, spec.dir)
      [] spec.kind \in {"package", "workspace-package"} -> TrueNamed(g, spec.name)
      [] spec.kind = "garbled" -> {spec.dir}
      [] OTHER -> TrueNamed(g, key)

TrueSpecifier(g, s) ==
    CASE s.shape \in {"subpath", "scheme"} -> {}
      [] s.shape = "any-depth" -> AllWorkspaces(g)
      [] s.shape = "bare" /\ s.form # "file-relative" -> TrueNamed(g, s.name)
      [] OTHER -> TrueHolder(g, s.dir) \cup (IF s.form = "glob" THEN Beneath(g, s.dir) ELSE {})
                  \cup (IF s.shape = "rooted" THEN TrueHolder(g, s.underRoot) ELSE {})

ReadFiles(g) == {f \in g.files : ~f.declared \/ f.linked}

\* What discovery reported applies to the workspaces that run. Overrides are those of a root manifest that could be read; of an unlisted workspace only the files the walk of the
\* workspace around it reads count, since no code opens its manifest.
TrueEdges(g, discovery) ==
    LET from(w, targets) == {w} \X targets
        manifests == UNION {UNION {from(w, TrueNamed(g, e.key) \cup TrueSpec(g, e.spec, e.key)) : e \in g.manifest[w].entries} : w \in g.listed}
        imports == UNION {UNION {from(w, TrueSpecifier(g, s)) : s \in g.manifest[w].imports} : w \in g.listed}
        specs(e) == IF e.spec.kind # "reference" THEN {<<e.spec, e.key>>}
                    ELSE {<<r.spec, r.key>> : r \in {x \in g.manifest[Root].entries : x.key = e.spec.name}}
        overrides == IF g.manifest[Root].read # "ok" THEN {}
                     ELSE UNION {UNION {UNION {from(w, IF s[1].kind = "registry" THEN {} ELSE TrueSpec(g, s[1], s[2])) : s \in specs(e)} :
                                            e \in g.manifest[Root].overrides} : w \in g.listed}
        files == UNION {UNION {TrueHolder(g, f.dir) \X TrueSpecifier(g, s) : s \in f.found} : f \in ReadFiles(g)}
        links == UNION {TrueHolder(g, l.dir) \X TrueHolder(g, l.to) : l \in g.links}
        imported == UNION {{s.name : s \in {t \in f.found : t.shape = "bare"}} : f \in ReadFiles(g)}
        vitest == UNION {from(v.path, UNION {TrueHolder(g, d) : d \in v.modules \cup v.setupFiles \cup v.globalSetupFiles}
                                      \cup UNION {TrueSpecifier(g, a.to) : a \in {b \in v.aliases : b.matches \cap imported # {}}}) :
                             v \in {e \in discovery : e.status \in {"discovered", "failed"}}}
    IN manifests \cup imports \cup overrides \cup files \cup links \cup vitest

RECURSIVE DependentsOf(_, _)
DependentsOf(edges, targets) ==
    LET more == targets \cup {e[1] : e \in {f \in edges : f[2] \in targets}}
    IN IF more = targets THEN targets ELSE DependentsOf(edges, more)

\* A change to a file selects the tests of every Vitest workspace that will run and truly depends, however indirectly, on
\* the workspace the file lies in, whatever could not be read, named or listed, and names the listed ones
\* that will not run.
ReachesEveryDependent(ctx, dependents, outcome, p) ==
    /\ {v.path : v \in ctx.workspaces} \cap dependents \subseteq DOMAIN outcome.selected
    /\ ctx.notRunnable \cap ctx.listed \cap dependents \subseteq outcome.paths[p].notRunnable

\* Each reason's chain starts where its trigger does, every link leads from what the chain reached before, the last to the
\* workspace, and no chain to it is shorter.
ReasonsHold(ctx, outcome) ==
    LET step(S) == S \cup {l.dependent : l \in UNION {LinksFrom(ctx, w) : w \in S}}
        within[n \in Nat] == [starts \in SUBSET ctx.listed |-> IF n = 0 THEN starts ELSE step(within[n - 1][starts])]
        leads(r, i) == IF i = 0 THEN r.from ELSE r.links[i].dependent
    IN \A w \in DOMAIN outcome.selected : \A r \in {x \in outcome.selected[w] : x.trigger.scope # "project"} :
            /\ r.from \in r.trigger.starts /\ leads(r, Len(r.links)) = w
            /\ \A i \in DOMAIN r.links : r.links[i].on \in {leads(r, i - 1), Anything}
            /\ Len(r.links) > 0 => w \notin within[Len(r.links) - 1][r.trigger.starts]

SelectsSoundly(ctx, dependents, outcome, p) == ReachesEveryDependent(ctx, dependents, outcome, p) /\ ReasonsHold(ctx, outcome)

SelectsFor(g, ctx, edges, changes) ==
    \A p \in changes : SelectsSoundly(ctx, DependentsOf(edges, OwningWorkspace(p.dir, AllWorkspaces(g))), SelectTests(ctx, {p}), p)

SelectsFrom(g, input, edges, changes) == input.built => SelectsFor(g, SelectionContext(g, input), edges, changes)

\* Both, of every change that lies in the root and is no declared non-input.
SelectionIsSound(g, discovery, changes) == SelectsFrom(g, BuildSelectionInput(discovery), TrueEdges(g, discovery), changes)

---------------------------------------------------------------------------
\* A tsconfig as TypeScript reads it: the value set nearest, later entries of extends first; unknown once a config on the
\* way cannot be read, found or understood, or extends itself.
RECURSIVE Effective(_, _, _, _)
Effective(g, name, chain, field) ==
    LET c == g.configs[name]
        first(answer, target) ==
            IF answer # "nothing" THEN answer
            ELSE IF target.at \in {"missing", "unfollowed"} \cup chain THEN "unknown"
            ELSE IF ~g.configs[target.at].read THEN "unknown" ELSE Effective(g, target.at, chain \cup {target.at}, field)
    IN IF c[field] = Garbled THEN "unknown" ELSE IF c[field] # None THEN name
       ELSE IF c.extends = Garbled THEN "unknown" ELSE FoldLeft(first, "nothing", Reverse(c.extends))

\* The paths a config takes from its extends chain make its workspace depend on what they point to, from the base in
\* effect; where either is not known the workspace depends on everything.
PathsAsInEffect(g, w, name) ==
    LET facts == AddTsconfigEdges(g, w, name)
        paths == Effective(g, name, {name}, "paths")
        base == Effective(g, name, {name}, "baseUrl")
        uncertain == \E f \in facts : f.on = Anything
        from == IF base = "nothing" THEN g.configs[paths].dir ELSE g.configs[base].baseUrl
    IN g.configs[name].read /\ ~uncertain
       => /\ paths # "unknown"
          /\ paths # "nothing" => g.configs[paths].paths = {} \/ (base # "unknown" /\ \A p \in g.configs[paths].paths :
                                        (HoldersOf(g, from \o p) \cup WorkspacesUnder(g, from \o p)) \ {w} \subseteq {f.on : f \in facts})
=============================================================================
