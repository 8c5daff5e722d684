---------------------------- MODULE DependencyGraph ----------------------------
(* The dependency information selection walks (selection/workspace-graph.ts  *)
(* and the readers it calls): which package workspace depends on which, read *)
(* from manifests, sources, links, tsconfig files and what discovery         *)
(* reported, and which workspaces may depend on any other because something  *)
(* could not be read or resolved.                                            *)
(*                                                                           *)
(* A directory is a sequence of segments.  A repository g is a record:       *)
(*   listed, unlisted  the package workspaces the listing read and missed    *)
(*   real              where a linked directory really lies                  *)
(*   manifest          per workspace: read, name, entries, imports, overrides*)
(*   files             source files: dir, read, linked, declared, found      *)
(*   links             links met in the walk: dir, readable, to              *)
(*   configs           tsconfig files by name (see Tsconfig below)           *)
(*   vitest            what discovery reported of each Vitest workspace      *)
(* The parsers of specifiers and specs are not modelled: each comes as the   *)
(* form its text is read as.                                                 *)
EXTENDS Naturals, Sequences, FiniteSets
LOCAL INSTANCE SequencesExt
LOCAL INSTANCE FiniteSetsExt

CONSTANTS None, Garbled, MaxExtends, MaxWalkDepth, MaxWalkedEntries

Root == <<"r">>

\* What an uncertain workspace depends on: any workspace there is.
Anything == <<"*">>

Inside(directory, target) == IsPrefix(directory, target)

RealPath(g, d) == IF d \in DOMAIN g.real THEN g.real[d] ELSE d

---------------------------------------------------------------------------
\* graph-state.ts: the records and whose directory a path lies in.

EdgesTo(w, targets, via) == {[dependent |-> w, on |-> t, via |-> via, file |-> None] : t \in targets \ {w}}

UncertainIn(w, kind, file) == {[dependent |-> w, on |-> Anything, via |-> kind, file |-> file]}
Uncertain(w, kind) == UncertainIn(w, kind, None)

\* The deepest of `workspaces` holding the directory.
OwningWorkspace(d, workspaces) ==
    LET holding == {w \in workspaces : Inside(w, d)}
    IN {w \in holding : \A o \in holding : Len(o) <= Len(w)}

HolderDirectories(g, w) == {w, RealPath(g, w)}

NearestHolder(g, target) ==
    LET distances(w) == {Len(target) - Len(d) : d \in {h \in HolderDirectories(g, w) : Inside(h, target)}}
        holding == {w \in g.listed : distances(w) # {}}
    IN IF holding = {} THEN {}
       ELSE {CHOOSE w \in holding : \A o \in holding : Min(distances(w)) <= Min(distances(o))}

HoldersOf(g, d) == NearestHolder(g, d) \cup NearestHolder(g, RealPath(g, d))

Names(g, name) == {w \in g.listed : g.manifest[w].read = "ok" /\ g.manifest[w].name = name}

\* As NamesComplete, without the listed names that could not be read.
NamesCompleteByListing(g) == g.unlisted = {}

\* False while a workspace is unlisted or a listed one's name could not be read.
NamesComplete(g) == g.unlisted = {} /\ \A w \in g.listed : g.manifest[w].read \in {"ok", "missing"}

\* The workspaces a spec installs, or "unresolved" (resolveTarget, workspaceNamed, resolvePathTarget).
ResolveTarget(g, spec, key) ==
    LET paths == CASE spec.kind = "path" -> HoldersOf(g, spec.dir)
                   [] spec.kind \in {"package", "workspace-package"} -> Names(g, spec.name)
                   [] spec.kind = "workspace-key" -> Names(g, key)
                   [] OTHER -> {}
    IN [ok |-> spec.kind \in {"package", "registry", "reference"} \/ (spec.kind # "garbled" /\ paths # {}), paths |-> paths]

---------------------------------------------------------------------------
\* workspace-graph.ts: manifests and overrides.

AddDependency(g, w, entry) ==
    LET byKey == Names(g, entry.key)
        resolution == ResolveTarget(g, entry.spec, entry.key)
    IN EdgesTo(w, byKey \cup resolution.paths, "manifest")
       \cup (IF ~resolution.ok THEN Uncertain(w, "unresolved-local-dependency")
             ELSE IF byKey \cup resolution.paths = {} /\ ~NamesComplete(g) THEN Uncertain(w, "unlisted-package")
             ELSE {})

\* A field that is not an object comes as one garbled entry.
AddDependencyEdges(g, w) == UNION {AddDependency(g, w, entry) : entry \in g.manifest[w].entries}

RootDependencySpecs(g, name) == {entry.spec : entry \in {e \in g.manifest[Root].entries : e.key = name /\ e.spec.kind # "garbled"}}

OverrideResolution(g, spec, key) ==
    LET resolution == ResolveTarget(g, spec, key)
    IN IF spec.kind = "package" /\ resolution.paths = {} /\ ~NamesComplete(g) THEN [ok |-> FALSE, paths |-> {}] ELSE resolution

OverrideResolutions(g, entry) ==
    LET reference == entry.spec.kind = "reference"
        specs == IF reference THEN RootDependencySpecs(g, entry.spec.name) ELSE {entry.spec}
    IN IF specs = {} THEN {[ok |-> FALSE, paths |-> {}]}
       ELSE {OverrideResolution(g, spec, IF reference THEN entry.spec.name ELSE entry.key) : spec \in specs}

\* An override can replace a package anywhere in the tree, so every workspace takes its edge.
AddOverrideEdges(g) ==
    UNION {UNION {IF resolution.ok THEN UNION {EdgesTo(w, resolution.paths, "override") : w \in g.listed}
                  ELSE UNION {Uncertain(w, "unresolved-override") : w \in g.listed} :
                      resolution \in OverrideResolutions(g, entry)} : entry \in g.manifest[Root].overrides}

ManifestFacts(g) ==
    UNION {IF g.manifest[w].read = "ok" THEN AddDependencyEdges(g, w) ELSE Uncertain(w, g.manifest[w].read) : w \in g.listed}
    \cup IF g.manifest[Root].read = "ok" THEN AddOverrideEdges(g) ELSE {}

---------------------------------------------------------------------------
\* specifier-edges.ts: what one specifier makes its workspace depend on.  A specifier has a shape (path, bare, subpath,
\* scheme, any-depth, file-url, bad-file-url), a form (plain, glob, file-relative), the directory it resolves to and its package name.

AddPathEdges(g, w, dir, via) == EdgesTo(w, HoldersOf(g, dir), via)

WorkspacesUnder(g, dir) ==
    {w \in g.listed : \E d \in HolderDirectories(g, w) : Inside(dir, d) \/ Inside(RealPath(g, dir), d)}

AddPatternEdges(g, w, dir, via) == EdgesTo(w, HoldersOf(g, dir) \cup WorkspacesUnder(g, dir), via)

AddPackageEdges(g, w, name, via) ==
    EdgesTo(w, Names(g, name), via)
    \cup IF Names(g, name) = {} /\ ~NamesComplete(g) THEN Uncertain(w, "unlisted-package") ELSE {}

PathOrPattern(g, w, s, via) == IF s.form = "glob" THEN AddPatternEdges(g, w, s.dir, via) ELSE AddPathEdges(g, w, s.dir, via)

AddSpecifierEdges(g, w, s, via) ==
    CASE s.shape = "bad-file-url" -> Uncertain(w, "unresolvable-specifier")
      [] s.shape = "file-url" -> PathOrPattern(g, w, s, via)
      [] s.shape = "scheme" -> {}
      [] s.form = "file-relative" -> AddPathEdges(g, w, s.dir, via)
      [] s.form = "glob" /\ s.shape = "any-depth" -> AddPatternEdges(g, w, <<>>, via)
      [] s.shape = "bare" -> AddPackageEdges(g, w, s.name, via)
      [] s.shape = "subpath" -> {}
      [] OTHER -> PathOrPattern(g, w, s, via)

\* tsconfig-edges.ts: the targets of a package.json `imports` field; a garbled field is not an object or nests too deep.
AddManifestImportsEdges(g, w) ==
    UNION {CASE s.shape = "garbled" -> Uncertain(w, "unreadable")
             [] s.shape = "path" -> AddPatternEdges(g, w, s.dir, "imports")
             [] s.shape = "bare" -> AddPackageEdges(g, w, s.name, "imports")
             [] OTHER -> {} : s \in g.manifest[w].imports}

---------------------------------------------------------------------------
\* vitest-edges.ts and alias-specifiers.ts: what discovery reported.  An alias has how its find matches (string, anchored,
\* loose, empty, root, invalid), whether a custom resolver picks the module, the bare names it matches, what the fixed
\* prefix of its replacement names (path, bare, unfixed) and the specifier it rewrites those imports to.

UnboundedAlias(alias) == alias.resolver \/ alias.find \in {"loose", "empty", "root"}

\* Every workspace whose directory or name the fixed prefix begins.
AliasResolution(g, w, alias) ==
    LET named == UNION {Names(g, n) : n \in alias.prefix.names}
    IN CASE alias.prefix.kind = "path" -> EdgesTo(w, HoldersOf(g, alias.prefix.dir) \cup WorkspacesUnder(g, alias.prefix.dir), "alias")
         [] alias.prefix.kind = "bare" -> IF named = {} /\ ~NamesComplete(g) THEN Uncertain(w, "unlisted-package") ELSE EdgesTo(w, named, "alias")
         [] OTHER -> Uncertain(w, "unresolvable-alias")

AddAliasEdges(g, w, alias) == IF UnboundedAlias(alias) THEN Uncertain(w, "unresolvable-alias") ELSE AliasResolution(g, w, alias)

AddTestModuleEdges(g, v) == EdgesTo(v.path, UNION {HoldersOf(g, d) : d \in v.modules}, "test-module")

AddSetupEdge(g, v, dir) == EdgesTo(v.path, OwningWorkspace(dir, g.listed), "setup-file")

AddVitestEdges(g, v) ==
    (IF v.known THEN AddTestModuleEdges(g, v) ELSE Uncertain(v.path, "tests-not-known"))
    \cup UNION {AddSetupEdge(g, v, d) : d \in v.setupFiles \cup v.globalSetupFiles}
    \cup UNION {AddAliasEdges(g, v.path, alias) : alias \in v.aliases}

\* Aliases whose find does not compile widen; one with a custom resolver has widened already.
ScanAliases(g) == UNION {{<<v.path, alias>> : alias \in {a \in v.aliases : ~a.resolver /\ a.find # "invalid"}} : v \in g.vitest}

\* A rewrite Vite may not read as a path widens; one beginning with "/" is read under the Vite root and as a path.
AddRewrittenEdges(g, w, to) ==
    CASE to.shape \in {"bad-file-url", "url", "special", "volume"} -> Uncertain(w, "unresolvable-alias")
      [] to.shape = "rooted" -> AddSpecifierEdges(g, w, [to EXCEPT !.shape = "path"], "alias")
                                \cup AddSpecifierEdges(g, w, [to EXCEPT !.shape = "path", !.dir = to.underRoot], "alias")
      [] OTHER -> AddSpecifierEdges(g, w, to, "alias")

\* Every matching alias of every Vitest workspace, whoever imports.
AddAliasedSpecifierEdges(g, s) ==
    UNION {IF s.shape = "bare" /\ s.name \in a[2].matches THEN AddRewrittenEdges(g, a[1], a[2].to) ELSE {} : a \in ScanAliases(g)}

---------------------------------------------------------------------------
\* workspace-graph.ts: a source file and a link of a workspace's walk.

\* The label the declaration can be asked about: none for a file reached through a link.
InputLabel(f) == IF f.linked THEN None ELSE f

AddSourceFileEdges(g, w, f) ==
    IF ~f.read THEN UncertainIn(w, "unreadable-source", InputLabel(f))
    ELSE UNION {AddSpecifierEdges(g, w, s, "import") \cup AddAliasedSpecifierEdges(g, s) : s \in f.found}

AddLinkEdges(g, w, link) == IF link.readable THEN AddPathEdges(g, w, link.to, "link") ELSE Uncertain(w, "unreadable-source")

---------------------------------------------------------------------------
\* tsconfig-edges.ts.  A config has dir, installed, read, extends (garbled or a sequence of targets), references and paths
\* (garbled or sets of directories), baseUrl.  An extends target has a shape, a dir or a name, and where the lookup of
\* extends-lookup.ts finds it: a config, "missing" or "unfollowed".

\* pathTargets and baseUrlOf, by the field they pick.
Pick(c, field) == IF c[field] = Garbled THEN "garbled" ELSE IF c[field] = None THEN "unset" ELSE "set"

FollowExtends(g, target, chain, depth) ==
    /\ depth < MaxExtends
    /\ target.at \notin {"missing", "unfollowed"} /\ target.at \notin chain
    /\ g.configs[target.at].read

NotFollowed(searched) == [ok |-> FALSE, found |-> None, searched |-> searched]

\* seek(): the config that holds the value, its own or the first along its extends, later entries first; a config two
\* entries share is searched once.
RECURSIVE Seek(_, _, _, _, _, _)
Seek(g, name, chain, searched, depth, field) ==
    LET c == g.configs[name]
        visit(answer, target) ==
            IF ~answer.ok \/ answer.found # None THEN answer
            ELSE IF ~FollowExtends(g, target, chain, depth) THEN NotFollowed(answer.searched)
            ELSE IF target.at \in answer.searched THEN answer
            ELSE LET sought == Seek(g, target.at, chain \cup {target.at}, answer.searched, depth + 1, field)
                 IN IF sought.ok /\ sought.found = None THEN [sought EXCEPT !.searched = @ \cup {target.at}] ELSE sought
    IN CASE Pick(c, field) = "garbled" -> NotFollowed(searched)
         [] Pick(c, field) = "set" -> [ok |-> TRUE, found |-> name, searched |-> searched]
         [] c.extends = Garbled -> NotFollowed(searched)
         [] OTHER -> FoldLeft(visit, [ok |-> TRUE, found |-> None, searched |-> searched], Reverse(c.extends))

NearestAlongExtends(g, name, field) == Seek(g, name, {name}, {}, 0, field)

\* The targets of `file`'s paths, against the base the leaf's own chain gives.
AddPathsEdges(g, w, leaf, file) ==
    LET base == NearestAlongExtends(g, leaf, "baseUrl")
        from == IF base.found = None THEN g.configs[file].dir ELSE g.configs[base.found].baseUrl
    IN IF g.configs[file].paths = {} THEN {}
       ELSE IF ~base.ok THEN Uncertain(w, "extends-unfollowed")
       ELSE UNION {AddPatternEdges(g, w, from \o p, "tsconfig") : p \in g.configs[file].paths}

AddInheritedPathsEdges(g, w, name) ==
    LET inherited == NearestAlongExtends(g, name, "paths")
    IN IF ~inherited.ok THEN Uncertain(w, "extends-unfollowed")
       ELSE IF inherited.found = None THEN {} ELSE AddPathsEdges(g, w, name, inherited.found)

\* The edge the target's own text gives, and the one to where the config was located.
AddExtendsEdges(g, w, target) ==
    (CASE target.shape = "subpath" -> Uncertain(w, "extends-unfollowed")
       [] target.shape = "path" -> AddPathEdges(g, w, target.dir, "tsconfig")
       [] OTHER -> AddPackageEdges(g, w, target.name, "tsconfig"))
    \cup CASE target.at = "unfollowed" -> Uncertain(w, "extends-unfollowed")
           [] target.at = "missing" \/ g.configs[target.at].installed -> {}
           [] OTHER -> AddPathEdges(g, w, g.configs[target.at].dir, "tsconfig")

UnfollowedTarget(target) == target.shape = "subpath" \/ target.at = "unfollowed"

AddTsconfigEdges(g, w, name) ==
    LET c == g.configs[name]
        unfollowed == c.extends # Garbled /\ \E i \in DOMAIN c.extends : UnfollowedTarget(c.extends[i])
    IN IF ~c.read THEN Uncertain(w, "unreadable")
       ELSE (IF c.extends = Garbled THEN Uncertain(w, "malformed-config")
             ELSE UNION {AddExtendsEdges(g, w, c.extends[i]) : i \in DOMAIN c.extends})
            \cup (IF c.references = Garbled THEN Uncertain(w, "malformed-config")
                  ELSE UNION {AddPathEdges(g, w, d, "tsconfig") : d \in c.references})
            \cup CASE Pick(c, "paths") = "garbled" -> Uncertain(w, "malformed-config")
                   [] unfollowed -> {}
                   [] Pick(c, "paths") = "set" -> AddPathsEdges(g, w, name, name)
                   [] OTHER -> AddInheritedPathsEdges(g, w, name)

---------------------------------------------------------------------------
\* source-walk.ts.  A tree gives each directory its entries (name, kind, skipped: ignored, nested workspace, node_modules
\* or .git), or Garbled when it cannot be listed.

Classify(walk, path, kind) ==
    CASE kind = "source" -> [walk EXCEPT !.sources = @ \cup {path}]
      [] kind = "config" -> [walk EXCEPT !.configs = @ \cup {path}]
      [] kind = "plugin" -> [walk EXCEPT !.uncertain = TRUE]
      [] OTHER -> walk

\* As VisitEntry, without a word about a directory too deep.
VisitEntrySilently(walk, path, entry, depth) ==
    IF entry.link THEN [Classify(walk, path, entry.kind) EXCEPT !.links = @ \cup {path}]
    ELSE IF entry.kind # "directory" THEN Classify(walk, path, entry.kind)
    ELSE IF depth + 1 > MaxWalkDepth THEN walk
    ELSE [walk EXCEPT !.pending = Append(@, [directory |-> path, depth |-> depth + 1])]

\* A link is recorded and, when it leads to a file, read as one; it is never entered.
VisitEntry(walk, path, entry, depth) ==
    IF entry.link THEN [Classify(walk, path, entry.kind) EXCEPT !.links = @ \cup {path}]
    ELSE IF entry.kind # "directory" THEN Classify(walk, path, entry.kind)
    ELSE IF depth + 1 > MaxWalkDepth THEN [walk EXCEPT !.uncertain = TRUE]
    ELSE [walk EXCEPT !.pending = Append(@, [directory |-> path, depth |-> depth + 1])]

WalkDirectory(tree, walk, next) ==
    LET kept == SetToSeq({e \in tree[next.directory] : ~e.skipped})
        budget == MaxWalkedEntries - walk.visited
        visit(w, e) == VisitEntry(w, Append(next.directory, e.name), e, next.depth)
        visited == FoldLeft(visit, walk, SubSeq(kept, 1, Min({budget, Len(kept)})))
    IN IF tree[next.directory] = Garbled THEN [walk EXCEPT !.uncertain = TRUE]
       ELSE [visited EXCEPT !.visited = @ + Len(kept), !.uncertain = @ \/ Len(kept) > budget, !.stopped = Len(kept) > budget]

RECURSIVE WalkPending(_, _)
WalkPending(tree, walk) ==
    IF walk.pending = <<>> \/ walk.stopped THEN walk
    ELSE WalkPending(tree, WalkDirectory(tree, [walk EXCEPT !.pending = Tail(@)], Head(walk.pending)))

WalkWorkspace(tree, directory) ==
    WalkPending(tree, [pending |-> <<[directory |-> directory, depth |-> 0]>>, sources |-> {}, configs |-> {}, links |-> {},
                       uncertain |-> FALSE, visited |-> 0, stopped |-> FALSE])

\* Every file of a directory that is not skipped is read or known to be missed.
RECURSIVE FilesBelow(_, _)
FilesBelow(tree, directory) ==
    IF tree[directory] = Garbled THEN {}
    ELSE LET kept == {e \in tree[directory] : ~e.skipped}
         IN {Append(directory, e.name) : e \in {f \in kept : f.kind \in {"source", "config"}}}
            \cup UNION {FilesBelow(tree, Append(directory, e.name)) : e \in {f \in kept : f.kind = "directory" /\ ~f.link}}

WalkMissesNothing(tree, directory) ==
    LET walk == WalkWorkspace(tree, directory)
    IN walk.uncertain \/ walk.sources \cup walk.configs = FilesBelow(tree, directory)

---------------------------------------------------------------------------
\* The walk of a workspace reads what lies under its directory and under no listed workspace nested in it.
AddWorkspaceSourceEdges(g, w) ==
    UNION {AddLinkEdges(g, w, link) : link \in {l \in g.links : OwningWorkspace(l.dir, g.listed) = {w}}}
    \cup UNION {AddSourceFileEdges(g, w, f) : f \in {s \in g.files : OwningWorkspace(s.dir, g.listed) = {w}}}
    \cup UNION {AddTsconfigEdges(g, w, n) : n \in {m \in DOMAIN g.configs : ~g.configs[m].installed /\ OwningWorkspace(g.configs[m].dir, g.listed) = {w}}}

AddUndeclaredEdges(g) ==
    UNION {AddWorkspaceSourceEdges(g, w) \cup IF g.manifest[w].read = "ok" THEN AddManifestImportsEdges(g, w) ELSE {} : w \in g.listed}

InvalidAliases(g) == UNION {{Uncertain(v.path, "unresolvable-alias") : a \in {b \in v.aliases : b.find = "invalid" /\ ~b.resolver}} : v \in g.vitest}

Information(g, facts) ==
    [edges |-> {f \in facts : f.on # Anything}, uncertainties |-> {f \in facts : f.on = Anything},
     withoutManifest |-> {w \in g.listed : g.manifest[w].read = "missing"}]

BuildDependencyInformation(g) ==
    Information(g, ManifestFacts(g) \cup UNION InvalidAliases(g) \cup AddUndeclaredEdges(g) \cup UNION {AddVitestEdges(g, v) : v \in g.vitest})
=============================================================================
