---------------------------- MODULE WatchedTree ----------------------------
(***************************************************************************)
(* Which files under the consumer root are inputs, and how the watches     *)
(* keep what is held of them true: git's ignored paths and the filter over *)
(* them (git-ignored.ts, input-filter.ts), the walk (input-inventory.ts),  *)
(* one watch per directory on Linux and the watches on the way to listed   *)
(* files (input-watcher.ts, listed-files.ts), the watches of the files     *)
(* that hold the ignore rules (git-files.ts, git-sources.ts) and the reads *)
(* of changed paths (queued-reads.ts).  InputTracker abstracts from all of *)
(* it; stamps, jobs and the ledger are its part and left out here, and so  *)
(* are declared non-inputs, the paths excluded by name, watches that fail  *)
(* and listed files that cannot be read.  A walk past its bounds of depth  *)
(* or entries ends as one that meets an entry it cannot read.              *)
(*                                                                         *)
(* A walk is a step for each git command, each watch opened, each          *)
(* directory listed and each file read, so the tree, the rules and the     *)
(* listing may change and events arrive between any two.                   *)
(*                                                                         *)
(* A directory has an identity, which another directory put in its place   *)
(* does not share: a watch stays on the one it was opened on.  An event    *)
(* waits with the watch that saw it and is dropped when that watch closes. *)
(***************************************************************************)
EXTENDS Naturals, Sequences, FiniteSets, SequencesExt

CONSTANTS
    Dirs, Files,    \* the paths that may exist, as sequences of names, and their kinds
    Repos,          \* the directories that hold a repository when they exist
    RuleSets,       \* what each repository's ignore rules may match
    Trees,          \* the directories and files there at the start
    Listings,       \* the files a discovery may list by path
    MaxChanges,     \* bound: changes of the tree and of the rules
    MaxFailures,    \* bound: git commands and reads that fail
    MaxLists,       \* bound: discoveries that list other files
    None

Root == <<>>
TreePaths == Dirs \cup Files
Parent(p) == Front(p)
Inside(d, p) == IsPrefix(d, p)
Below(d, p) == IsStrictPrefix(d, p)

VARIABLES
    fs,             \* each path's entry: nothing, a directory's identity or a file's content
    rules,          \* the paths each repository's ignore rules match
    listed,         \* ListedFiles.#files
    tree,           \* InputWatcher.#tree: the directory identity each watch is on
    ways,           \* InputWatcher.#listed: the watches on the way to listed files
    armed,          \* InputWatcher.#listedFiles
    gitWatched,     \* the repositories whose ignore-rule files are watched
    events,         \* events not delivered yet, each with its watch
    gitEvents,      \* repositories whose rule files' events are not delivered yet
    filter,         \* InputTracker.#filter
    queue,          \* QueuedReads.#queue: the kind of read each path waits for
    batch,          \* the batch being read: the kind of read of each path not begun
    held,           \* InputState.#inputs: the content held for each file, or None
    heldDirs,       \* InputState.#directories
    heldListed,     \* InputState.#listed: the content held for each listed file, or None
    established,    \* InputState.#established
    phase,          \* the reconciliation: "idle", "requested" or "reconciling"
    again,          \* #reconcileRequested while one runs
    walk,           \* the running reconciliation, or the read of a path of the batch, between two of its awaits
    changes, failures,
    lists,          \* ListedFiles.#version
    unseen,         \* history: repositories whose rules changed with no watch on them, or one closed before its event
    dropped,        \* history: paths whose event the filter about to be replaced dropped
    letGo,          \* history: replaced directories whose event was dropped, or whose read was let go with the input set lost
    early           \* history: files made or moved in since the reconciliation's filter read the root's ignored paths

diskVars == <<fs, rules>>
watchVars == <<tree, ways, armed, events>>
gitVars == <<gitWatched, gitEvents>>
queueVars == <<queue, batch>>
stateVars == <<held, heldDirs, heldListed, established>>
phaseVars == <<phase, again>>
walkVars == <<walk, filter>>
boundVars == <<changes, failures, lists>>
historyVars == <<unseen, dropped, letGo, early>>
vars == <<diskVars, listed, watchVars, gitVars, queueVars, stateVars, phaseVars, walkVars, boundVars, historyVars>>

NoEntry == [kind |-> "absent", n |-> 0]
IsDirectory(tr, p) == p = Root \/ (p \in Dirs /\ tr[p].kind = "dir")
IsFile(tr, p) == p \in Files /\ tr[p].kind = "file"
Identity(tr, p) == IF p = Root THEN 0 ELSE tr[p].n
Present(tr, p) == p = Root \/ tr[p].kind # "absent"
Children(tr, d) == {p \in TreePaths : Parent(p) = d /\ Present(tr, p)}

---------------------------------------------------------------------------
(* Git's answers, git-ignored.ts.  `down` are the repositories for which   *)
(* git cannot be run now; Disk among them says an entry cannot be read.    *)

Disk == None

HoldsRepository(d) == d \in Repos /\ IsDirectory(fs, d)

\* A path git ignores by the rules of repository r, its own pattern or that of a directory above.
Matches(r, p) == \E q \in rules[r] : Below(r, q) /\ Inside(q, p)

\* ls-files --others --ignored --directory: the ignored files of the repository's own tree, and each directory that is
\* ignored or holds only what is ignored, neither an empty directory nor another repository counting as that.
ListIgnored(r) ==
    LET Own(p) == Below(r, p) /\ Present(fs, p) /\ ~\E q \in Repos : HoldsRepository(q) /\ Below(r, q) /\ Below(q, p)
        Kept(p) == ~Matches(r, p) /\ (p \in Files \cup Repos \/ Children(fs, p) = {})
    IN  [files |-> {p \in Files : Own(p) /\ Matches(r, p)},
         directories |-> {d \in Dirs : Own(d) /\ (Matches(r, d) \/ ~\E p \in TreePaths : Inside(d, p) /\ Own(p) /\ Kept(p))}]

\* check-ignore of paths relative to the repository: the repository itself is the empty path, which git refuses.
ReadCheckedIgnored(r, paths, down) ==
    IF paths = {} THEN {}
    ELSE IF r \in down \/ r \in paths \/ ~HoldsRepository(r) THEN None
    ELSE {p \in paths : Matches(r, p)}

Listing(found, checked) ==
    IF checked = None THEN None
    ELSE [paths |-> found.files \cup checked, unconfirmed |-> found.directories \ checked]

\* What the listing and the answer about its directories give: two git commands, an await apart.
ReadIgnoredPaths(r, found, down) == Listing(found, ReadCheckedIgnored(r, found.directories, down))

---------------------------------------------------------------------------
(* The filter, input-filter.ts.                                            *)

Added(f, r, listing) ==
    IF listing = None THEN [f EXCEPT !.failed = @ \cup {r}]
    ELSE [f EXCEPT !.ignored = @ \cup listing.paths,
                   !.unconfirmed = @ \cup listing.unconfirmed,
                   !.repositories = @ \cup {r}]

NewFilter == [ignored |-> {}, unconfirmed |-> {}, repositories |-> {}, failed |-> {}]

\* A repository is read as the filter opens or the walk enters it, once.
Reads(f, d) == HoldsRepository(d) /\ d \notin f.repositories \cup f.failed

IsIgnored(f, p) == \E q \in f.ignored : Inside(q, p)

Excludes(f, p) == p # Root /\ IsIgnored(f, p)

\* The innermost repository read that holds p, unless a failed one lies between.
RepositoryOf(f, p) ==
    LET holding == {r \in f.repositories : Inside(r, p)}
        found == CHOOSE r \in holding : \A q \in holding : Inside(q, r)
    IN  IF holding = {} \/ \E q \in f.failed : Inside(q, p) /\ Inside(found, q) THEN None ELSE found

NeedsCheck(f, p) == RepositoryOf(f, p) # None

IsUncertain(f, p) == p # Root /\ \E d \in f.unconfirmed : Inside(d, Parent(p))

DropRepository(f, r) == [f EXCEPT !.repositories = @ \ {r}, !.failed = @ \cup {r}]

\* A repository git cannot answer for is dropped.
Answered(f, r, answer) == IF answer = None THEN DropRepository(f, r) ELSE [f EXCEPT !.ignored = @ \cup answer]

\* The paths each repository is asked about, one git command for each.
ByRepository(f, paths) ==
    LET group(r) == {p \in paths : RepositoryOf(f, p) = r}
    IN  [r \in {q \in f.repositories : group(q) # {}} |-> group(r)]

Distrust(f, d) == [f EXCEPT !.unconfirmed = @ \cup {d}]

NestedRepositories(f) == IF f = None THEN {} ELSE f.repositories \ {Root}

---------------------------------------------------------------------------
(* The watches, input-watcher.ts and listed-files.ts.                      *)

DirectoriesAbove(files) == {d \in Dirs \cup {Root} : \E f \in files : Below(d, f)}

\* Every directory that exists from a listed file's up to the first the tree watches, for the entries that lead to the file.
ListedDirectories(trees, files) ==
    LET Climbs(f, d) == Below(d, f) /\ ~\E e \in DOMAIN trees : Inside(d, e) /\ Below(e, f)
        names(d) == {p \in TreePaths : Parent(p) = d /\ \E f \in files : Climbs(f, d) /\ Inside(p, f)}
    IN  {[dir |-> d, on |-> Identity(fs, d), names |-> names(d)] :
            d \in {e \in DirectoriesAbove(files) : IsDirectory(fs, e) /\ names(e) # {}}}

\* A directory watched already keeps its watch; none opens on one that is gone.
WatchDirectory(trees, d) == IF d \in DOMAIN trees \/ ~IsDirectory(fs, d) THEN trees ELSE (d :> Identity(fs, d)) @@ trees

ClosedOutside(trees, dirs) == [d \in DOMAIN trees \cap dirs |-> trees[d]]

DropDirectories(trees, dirs) == ClosedOutside(trees, {e \in DOMAIN trees : \A d \in dirs : ~Inside(d, e)})

\* A watch of the tree gives every event of its directory, one on the way to listed files those of the entries it names.
OfTree(w, trees) == w.dir \in DOMAIN trees /\ trees[w.dir] = w.on
OnWay(w, p, listedWays) == \E v \in listedWays : v.dir = w.dir /\ v.on = w.on /\ p \in v.names \cup {v.dir}
Current(w, p, trees, listedWays) == OfTree(w, trees) \/ OnWay(w, p, listedWays)

\* The watches are now these: what a closed one saw and did not deliver is lost.
Watching(trees, listedWays) ==
    /\ tree' = trees /\ ways' = listedWays
    /\ events' = {e \in events : Current(e.watch, e.path, trees, listedWays)}

\* The watches on the way to listed files open anew when one of the tree that closed stood there.
Closing(trees) ==
    /\ Watching(trees, IF (DOMAIN tree \ DOMAIN trees) \cap DirectoriesAbove(armed) = {} THEN ways ELSE ListedDirectories(trees, armed))
    /\ UNCHANGED armed

WatchListedFiles(files) == armed' = files /\ Watching(tree, ListedDirectories(tree, files))

---------------------------------------------------------------------------
(* Changes of the tree and of the rules, and the events they give.         *)

\* The watches that see a change of the entry at p: those on its directory, or else a directory's own as it goes.
Seen(p) ==
    LET On(d) == IF ~IsDirectory(fs, d) THEN {}
                 ELSE {w \in {[dir |-> d, on |-> Identity(fs, d)]} : Current(w, p, tree, ways)}
    IN  IF On(Parent(p)) # {} \/ p \notin Dirs THEN On(Parent(p)) ELSE On(p)

Reconciling == phase = "reconciling"

Changed(p, tr, kind) ==
    /\ changes < MaxChanges
    /\ changes' = changes + 1
    /\ fs' = tr
    /\ events' = events \cup {[watch |-> w, path |-> p, kind |-> kind] : w \in Seen(p)}
    /\ early' = early \cup {q \in Files : Reconciling /\ Inside(p, q) /\ tr[q] # fs[q]}
    /\ UNCHANGED <<rules, listed, tree, ways, armed, gitVars, queueVars, stateVars, phaseVars, walkVars, failures, lists>>
    /\ UNCHANGED <<unseen, dropped, letGo>>

MakeEntry(p) ==
    /\ ~Present(fs, p) /\ IsDirectory(fs, Parent(p))
    /\ Changed(p, [fs EXCEPT ![p] = [kind |-> IF p \in Dirs THEN "dir" ELSE "file", n |-> changes + 1]], "rename")

\* A write to a file, or a change of a directory's own attributes.
WriteEntry(p) ==
    /\ Present(fs, p)
    /\ Changed(p, IF p \in Dirs THEN fs ELSE [fs EXCEPT ![p].n = changes + 1], "change")

RemoveEntry(p) ==
    /\ Present(fs, p) /\ (p \in Dirs => Children(fs, p) = {})
    /\ Changed(p, [fs EXCEPT ![p] = NoEntry], "rename")

\* Another directory with the same names is put in the place of this one.
ReplaceDirectory(d) ==
    /\ d \in Dirs /\ IsDirectory(fs, d)
    /\ Changed(d, [p \in TreePaths |-> IF Inside(d, p) /\ Present(fs, p) THEN [fs[p] EXCEPT !.n = changes + 1] ELSE fs[p]], "rename")

EditRules(r) ==
    /\ HoldsRepository(r) /\ changes < MaxChanges
    /\ changes' = changes + 1
    /\ \E s \in RuleSets : s # rules /\ (\A q \in Repos \ {r} : s[q] = rules[q]) /\ rules' = s
    /\ IF r \in gitWatched THEN gitEvents' = gitEvents \cup {r} /\ UNCHANGED unseen
       ELSE unseen' = unseen \cup {r} /\ UNCHANGED gitEvents
    /\ UNCHANGED <<fs, listed, watchVars, gitWatched, queueVars, stateVars, phaseVars, walkVars, failures, lists>>
    /\ UNCHANGED <<dropped, letGo, early>>

---------------------------------------------------------------------------
(* Events, input-tracker.ts and listed-files.ts.                           *)

RequestReconciliation ==
    /\ phase' = IF phase = "idle" THEN "requested" ELSE phase
    /\ again' = (again \/ Reconciling)

DeliverGit(r) ==
    /\ r \in gitEvents
    /\ gitEvents' = gitEvents \ {r}
    /\ RequestReconciliation
    /\ UNCHANGED <<diskVars, listed, watchVars, gitWatched, queueVars, stateVars, walkVars, boundVars, historyVars>>

Names(p) == p \in listed \cup DirectoriesAbove(listed)

Enqueued(q, p, kind) == [q EXCEPT ![p] = IF @ = "rename" THEN @ ELSE kind]

\* An entry on the way to a listed file re-arms the watches there before it is reported, and so does a directory's own end
\* that its watch there reports.
ListedEvent(e) ==
    LET rearms == e.path \in DirectoriesAbove(armed) /\ (e.watch.dir = e.path => OnWay(e.watch, e.path, ways))
        left == IF rearms THEN ListedDirectories(tree, armed) ELSE ways
    IN  /\ ways' = left
        /\ events' = {o \in events \ {e} : Current(o.watch, o.path, tree, left)}

\* #changed: a path the filter in effect excludes is dropped unless it leads to a listed file.
Deliver(e) ==
    /\ e \in events
    /\ LET excluded == filter # None /\ Excludes(filter, e.path)
       IN  /\ queue' = IF excluded /\ ~Names(e.path) THEN queue ELSE Enqueued(queue, e.path, e.kind)
           /\ dropped' = dropped \cup {p \in Files : excluded /\ Reconciling /\ Inside(e.path, p)}
           /\ letGo' = letGo \cup {d \in Dirs : excluded /\ Reconciling /\ e.kind = "rename" /\ d = e.path}
    /\ ListedEvent(e)
    /\ UNCHANGED <<diskVars, listed, tree, armed, gitVars, batch, stateVars, phaseVars, walkVars, boundVars, unseen, early>>

NewlyListed(l) == l \ listed

\* relist: the files now listed are watched, those no longer listed dropped and the new ones read.
Relist(l) ==
    /\ lists < MaxLists /\ l # listed
    /\ lists' = lists + 1
    /\ listed' = l
    /\ IF filter = None \/ ~established THEN UNCHANGED <<watchVars, queue, heldListed>>
       ELSE /\ WatchListedFiles(l)
            /\ heldListed' = [p \in Files |-> IF p \in l /\ Excludes(filter, p) THEN heldListed[p] ELSE None]
            /\ queue' = [p \in TreePaths |->
                            IF p \in NewlyListed(l) /\ Excludes(filter, p) /\ queue[p] = "none" THEN "change" ELSE queue[p]]
            /\ UNCHANGED tree
    /\ UNCHANGED <<diskVars, gitVars, batch, held, heldDirs, established, phaseVars, walkVars, changes, failures, historyVars>>

---------------------------------------------------------------------------
(* The walk, input-inventory.ts: of the root with a new filter for a       *)
(* reconciliation, of a directory that came with the filter in effect for  *)
(* a queued read.                                                          *)

\* What fails in this step: git in a repository, or a read of the disk.
Fails(down) ==
    /\ failures + Cardinality(down) <= MaxFailures
    /\ failures' = failures + Cardinality(down)

NewWalk(start) ==
    [at |-> "entering", start |-> start, dir |-> start, pending |-> <<>>, found |-> None, asks |-> <<>>,
     directories |-> {}, files |-> {}, inputs |-> <<>>, ok |-> TRUE]

\* The filter the walk under way asks and adds to: a reconciliation's own, which is not in effect yet.
Asked == IF Reconciling THEN walk.filter ELSE filter

Walking(w, f) ==
    IF Reconciling THEN walk' = [w EXCEPT !.filter = f] /\ UNCHANGED filter
    ELSE walk' = w /\ filter' = f

\* The files left to read once git has answered for all that was met.
Reading(w, f) ==
    LET inputs == {p \in w.files : ~Excludes(f, p)}
    IN  [w EXCEPT !.files = inputs, !.at = IF inputs = {} THEN "walked" ELSE "reading"]

\* checkUncertain: git is asked about what lies under a directory whose listing it could not vouch for.
Checking(w, f) ==
    LET asks == ByRepository(f, {p \in w.directories \cup w.files : IsUncertain(f, p)})
    IN  IF asks = <<>> THEN Reading(w, f) ELSE [w EXCEPT !.asks = asks, !.at = "checking"]

\* The next directory is entered, or with none left the checks begin.
NextDirectory(w, f) ==
    IF w.pending = <<>> THEN Checking(w, f)
    ELSE [w EXCEPT !.at = "entering", !.dir = Head(w.pending), !.pending = Tail(w.pending)]

\* An entry that cannot be read gives no inventory, and the filter as it is then.
Incomplete(w) == [w EXCEPT !.at = "walked", !.ok = FALSE, !.pending = <<>>, !.directories = {}, !.files = {}, !.inputs = <<>>]

walkUnchanged == UNCHANGED <<diskVars, listed, gitVars, queueVars, stateVars, phaseVars, changes, lists>>

At(stage) == walk # None /\ walk.at = stage

\* The first command of #addRepository, which is all when the listing names no directory.
ListRepository ==
    /\ At("entering") /\ Reads(Asked, walk.dir)
    /\ \E down \in SUBSET {walk.dir} :
        /\ Fails(down)
        /\ IF down # {} THEN Walking(walk, Added(Asked, walk.dir, None))
           ELSE LET found == ListIgnored(walk.dir)
                IN  IF found.directories = {} THEN Walking(walk, Added(Asked, walk.dir, ReadIgnoredPaths(walk.dir, found, {})))
                    ELSE Walking([walk EXCEPT !.at = "asking", !.found = found], Asked)
    /\ early' = IF Reconciling /\ walk.dir = Root THEN {} ELSE early
    /\ walkUnchanged /\ UNCHANGED <<watchVars, unseen, dropped, letGo>>

AskListed ==
    /\ At("asking")
    /\ \E down \in SUBSET {walk.dir} :
        /\ Fails(down)
        /\ Walking([walk EXCEPT !.at = "entering", !.found = None], Added(Asked, walk.dir, ReadIgnoredPaths(walk.dir, walk.found, down)))
    /\ walkUnchanged /\ UNCHANGED <<watchVars, historyVars>>

\* The directory is watched: what changes in it from here on gives an event.
BeforeListing(from, to) ==
    /\ At(from) /\ ~(from = "entering" /\ Reads(Asked, walk.dir))
    /\ Watching(WatchDirectory(tree, walk.dir), ways)
    /\ walk' = to
    /\ UNCHANGED <<filter, armed, failures>>

\* visitEntry for each entry; a directory other than the root may be gone.
Visited(w, f) ==
    LET entries == {p \in Children(fs, w.dir) : ~Excludes(f, p)}
    IN  IF ~IsDirectory(fs, w.dir) THEN {w}
        ELSE {[w EXCEPT !.directories = @ \cup {w.dir}, !.files = @ \cup (entries \cap Files), !.pending = @ \o order] :
                 order \in SetToSeqs(entries \cap Dirs)}

\* The directory is listed, and the walk goes on when that was the last it does here.
ListEntries(from, last) ==
    /\ At(from) /\ ~(from = "entering" /\ Reads(Asked, walk.dir))
    /\ \E down \in SUBSET {Disk} :
        /\ (down # {} => IsDirectory(fs, walk.dir)) /\ Fails(down)
        /\ IF down # {} THEN walk' = Incomplete(walk)
           ELSE \E visited \in Visited(walk, Asked) :
                  walk' = IF last THEN NextDirectory(visited, Asked) ELSE [visited EXCEPT !.at = "listing"]
    /\ UNCHANGED <<filter, watchVars>>

\* Mutant of WalkDirectory: the directory is watched once it is listed.
WalkDirectoryListedFirst ==
    \/ ListEntries("entering", FALSE)
    \/ BeforeListing("listing", NextDirectory(walk, Asked))

\* A directory is watched before it is listed.
WalkDirectory ==
    \/ BeforeListing("entering", [walk EXCEPT !.at = "listing"])
    \/ ListEntries("listing", TRUE)

Visit == WalkDirectory /\ walkUnchanged /\ UNCHANGED historyVars

\* The answer of one repository about the paths that wait for it, a walk's or a batch's.
Check(r) ==
    /\ At("checking") /\ r \in DOMAIN walk.asks
    /\ \E down \in SUBSET {r} :
        /\ Fails(down)
        /\ LET f == Answered(Asked, r, ReadCheckedIgnored(r, walk.asks[r], down))
               left == [q \in DOMAIN walk.asks \ {r} |-> walk.asks[q]]
           IN  IF left # <<>> THEN Walking([walk EXCEPT !.asks = left], f)
               ELSE IF walk.start = None THEN walk' = None /\ filter' = f
               ELSE Walking(Reading([walk EXCEPT !.asks = left], f), f)
    /\ walkUnchanged /\ UNCHANGED <<watchVars, historyVars>>

\* hashFiles: what vanishes while it is read is a deletion.
HashFile(p) ==
    /\ At("reading") /\ p \in walk.files
    /\ \E down \in SUBSET {Disk} :
        /\ (down # {} => IsFile(fs, p)) /\ Fails(down)
        /\ walk' = IF down # {} THEN Incomplete(walk)
                   ELSE [walk EXCEPT !.files = @ \ {p},
                                     !.inputs = IF IsFile(fs, p) THEN (p :> fs[p].n) @@ @ ELSE @,
                                     !.at = IF walk.files = {p} THEN "walked" ELSE @]
    /\ walkUnchanged /\ UNCHANGED <<filter, watchVars, historyVars>>

\* The directories of the inventory, and those walked that git turned out to ignore.
Inventoried(f) == {d \in walk.directories : d = walk.start \/ ~Excludes(f, d)}
IgnoredDirectories(f) == walk.directories \ Inventoried(f)

---------------------------------------------------------------------------
(* A reconciliation, input-tracker.ts and git-files.ts.                    *)

\* The repositories whose rule files git can locate: none when it cannot answer for the enclosing one.
GitSources(nested, down) == IF HoldsRepository(Root) /\ Root \in down THEN {} ELSE ({Root} \cup nested) \ down

\* New watches of the rule files replace the old, with the events those did not deliver.
WatchGit(nested) ==
    \E down \in SUBSET Repos :
        /\ Fails(down)
        /\ gitWatched' = GitSources(nested, down)
        /\ gitEvents' = {}

\* The rule files are watched before the rules are read.
StartPass ==
    /\ phase = "requested" /\ walk = None /\ \A p \in TreePaths : batch[p] = "none"
    /\ WatchGit(NestedRepositories(filter))
    /\ walk' = NewWalk(Root) @@ [filter |-> NewFilter, watchedFor |-> NestedRepositories(filter), version |-> 0, reads |-> <<>>]
    /\ unseen' = {} /\ dropped' = {}
    /\ phase' = "reconciling"
    /\ UNCHANGED <<diskVars, listed, watchVars, queueVars, stateVars, again, filter, changes, lists, letGo, early>>

\* follow: the rule files of nested repositories the walk met are watched too.
Follow ==
    /\ Reconciling /\ At("walked") /\ NestedRepositories(walk.filter) # walk.watchedFor
    /\ WatchGit(NestedRepositories(walk.filter))
    /\ walk' = [walk EXCEPT !.watchedFor = NestedRepositories(walk.filter)]
    /\ unseen' = unseen \cup gitEvents
    /\ UNCHANGED <<diskVars, listed, watchVars, queueVars, stateVars, phaseVars, filter, changes, lists, dropped, letGo, early>>

\* A file that is gone, or a directory, holds nothing to read.
ReadListedFile(p) == IF IsFile(fs, p) THEN fs[p].n ELSE None

\* readAllListed: the listed files are watched and then read, again when a discovery listed others meanwhile.
WatchAllListed ==
    /\ Reconciling
    /\ \/ At("walked") /\ NestedRepositories(walk.filter) = walk.watchedFor
       \/ At("reading listed") /\ walk.files = {} /\ walk.version # lists
    /\ WatchListedFiles(listed)
    /\ walk' = [walk EXCEPT !.at = "reading listed", !.version = lists, !.reads = <<>>,
                            !.files = {p \in listed : Excludes(walk.filter, p)}]
    /\ UNCHANGED <<diskVars, listed, gitVars, queueVars, stateVars, phaseVars, filter, boundVars, historyVars>>

\* One listed file is read: into the reads of the reconciliation, or into those held when it is still listed.
ReadListed(p) ==
    /\ At("reading listed") /\ p \in walk.files
    /\ LET left == [walk EXCEPT !.files = @ \ {p}]
       IN  IF Reconciling THEN walk' = [left EXCEPT !.reads = (p :> ReadListedFile(p)) @@ @] /\ UNCHANGED heldListed
           ELSE /\ walk' = IF left.files = {} THEN None ELSE left
                /\ heldListed' = IF p \in listed THEN [heldListed EXCEPT ![p] = ReadListedFile(p)] ELSE heldListed
    /\ UNCHANGED <<diskVars, listed, watchVars, gitVars, queueVars, held, heldDirs, established, phaseVars, filter, boundVars, historyVars>>

Settle ==
    /\ Reconciling /\ At("reading listed") /\ walk.files = {} /\ walk.version = lists
    /\ filter' = walk.filter
    /\ established' = walk.ok
    /\ IF walk.ok
       THEN /\ held' = [p \in Files |-> IF p \in DOMAIN walk.inputs THEN walk.inputs[p] ELSE None]
            /\ heldDirs' = Inventoried(walk.filter)
            /\ heldListed' = [p \in Files |-> IF p \in DOMAIN walk.reads THEN walk.reads[p] ELSE None]
            /\ Closing(ClosedOutside(tree, Inventoried(walk.filter)))
       ELSE UNCHANGED <<held, heldDirs, heldListed, watchVars>>
    /\ phase' = IF again THEN "requested" ELSE "idle"
    /\ again' = FALSE
    /\ walk' = None
    /\ UNCHANGED <<diskVars, listed, gitVars, queueVars, boundVars, historyVars>>

\* The timer that retries a lost input set.
Retry == /\ phase = "idle" /\ ~established
         /\ phase' = "requested"
         /\ UNCHANGED <<diskVars, listed, watchVars, gitVars, queueVars, stateVars, again, walkVars, boundVars, historyVars>>

---------------------------------------------------------------------------
(* Reads of changed paths, queued-reads.ts.                                *)

\* A path not held yet is asked about before it counts.
Asks(p) == /\ p \notin heldDirs /\ (p \in Files => held[p] = None)
           /\ ~Excludes(filter, p) /\ NeedsCheck(filter, p)

NoReads == [p \in TreePaths |-> "none"]

\* Every waiting path is taken, never while a reconciliation runs; git is asked about the unknown ones together.
TakeBatch ==
    /\ phase = "idle" /\ walk = None /\ established /\ batch = NoReads /\ queue # NoReads
    /\ batch' = queue /\ queue' = NoReads
    /\ LET asks == ByRepository(filter, {p \in TreePaths : queue[p] # "none" /\ Asks(p)})
       IN  walk' = IF asks = <<>> THEN None ELSE [NewWalk(None) EXCEPT !.at = "checking", !.asks = asks]
    /\ UNCHANGED <<diskVars, listed, watchVars, gitVars, stateVars, phaseVars, filter, boundVars, historyVars>>

\* With no input set to read into, the queued paths are let go: the next walk reads them.
ReadNothing ==
    /\ phase = "idle" /\ walk = None /\ ~established /\ batch = NoReads /\ queue # NoReads
    /\ queue' = NoReads
    /\ letGo' = letGo \cup {d \in Dirs : queue[d] = "rename"}
    /\ UNCHANGED <<diskVars, listed, watchVars, gitVars, batch, stateVars, phaseVars, walkVars, boundVars, unseen, dropped, early>>

\* InputState.remove: the input at p, or all under a directory held there.
Removed(p) ==
    /\ held' = [q \in Files |-> IF q = p \/ (p \in heldDirs /\ Inside(p, q)) THEN None ELSE held[q]]
    /\ heldDirs' = {d \in heldDirs : ~Inside(p, d)}

\* InputState.replaceUnder: what a walk of p read in place of all held under it.
ReplacedUnder(p, inputs, directories) ==
    /\ held' = [q \in Files |-> IF q \in DOMAIN inputs THEN inputs[q] ELSE IF Inside(p, q) THEN None ELSE held[q]]
    /\ heldDirs' = {d \in heldDirs : ~Inside(p, d)} \cup directories

Lost == established' = FALSE /\ RequestReconciliation /\ UNCHANGED <<held, heldDirs>>

\* Each listed file at or under p that the filter excludes is read after p is.
ThenListed(p) ==
    LET files == {q \in listed : Inside(p, q) /\ Excludes(filter, q)}
    IN  walk' = IF files = {} THEN None ELSE [NewWalk(p) EXCEPT !.at = "reading listed", !.files = files]

ReadFile(p) == held' = [held EXCEPT ![p] = fs[p].n] /\ UNCHANGED heldDirs

\* A directory that appeared or was replaced is walked with fresh watches, each path in it asked about.
ReadDirectory(p) ==
    /\ Closing(DropDirectories(tree, {p}))
    /\ walk' = NewWalk(p)
    /\ filter' = Distrust(filter, p)
    /\ UNCHANGED <<held, heldDirs, established, phaseVars>>

ReadPath(p, unreadable) ==
    \/ /\ unreadable
       /\ Lost /\ ThenListed(p)
       /\ UNCHANGED <<watchVars, filter>>
    \/ /\ ~Present(fs, p)
       /\ Removed(p) /\ ThenListed(p)
       /\ IF p \in heldDirs THEN Closing(DropDirectories(tree, {p})) ELSE UNCHANGED watchVars
       /\ UNCHANGED <<filter, established, phaseVars>>
    \/ /\ IsFile(fs, p) /\ ~unreadable
       /\ ReadFile(p) /\ ThenListed(p)
       /\ UNCHANGED <<watchVars, filter, established, phaseVars>>
    \/ /\ IsDirectory(fs, p) /\ ~unreadable /\ p \in heldDirs /\ batch[p] # "rename"
       /\ ThenListed(p)
       /\ UNCHANGED <<watchVars, filter, held, heldDirs, established, phaseVars>>
    \/ /\ IsDirectory(fs, p) /\ ~unreadable /\ (p \in heldDirs => batch[p] = "rename")
       /\ ReadDirectory(p)

ReadQueued(p) ==
    /\ walk = None /\ batch[p] # "none"
    /\ batch' = [batch EXCEPT ![p] = "none"]
    /\ \E down \in SUBSET {Disk} :
        /\ Fails(down)
        /\ IF Excludes(filter, p)
           THEN down = {} /\ ThenListed(p) /\ UNCHANGED <<watchVars, filter, held, heldDirs, established, phaseVars, letGo>>
           ELSE /\ down # {} => Present(fs, p)
                /\ ReadPath(p, down # {})
                /\ letGo' = IF batch[p] # "rename" THEN letGo ELSE IF down # {} THEN letGo \cup ({p} \cap Dirs) ELSE letGo \ {p}
    /\ UNCHANGED <<diskVars, listed, gitVars, queue, heldListed, changes, lists, unseen, dropped, early>>

\* The walk of a directory ends: what it read replaces what was held under it, and the watches git's answers rule out close.
KeepWalked ==
    /\ ~Reconciling /\ At("walked")
    /\ IF walk.ok
       THEN /\ Closing(DropDirectories(tree, IgnoredDirectories(filter)))
            /\ ReplacedUnder(walk.start, walk.inputs, Inventoried(filter))
            /\ UNCHANGED <<established, phaseVars>>
       ELSE Lost /\ UNCHANGED watchVars
    /\ ThenListed(walk.start)
    /\ UNCHANGED <<diskVars, listed, gitVars, queueVars, heldListed, filter, boundVars, historyVars>>

---------------------------------------------------------------------------
Init ==
    /\ fs \in {[p \in TreePaths |-> IF p \notin t THEN NoEntry ELSE [kind |-> IF p \in Dirs THEN "dir" ELSE "file", n |-> 0]] : t \in Trees}
    /\ rules \in RuleSets
    /\ listed \in Listings
    /\ tree = <<>> /\ ways = {} /\ armed = {} /\ events = {}
    /\ gitWatched = {} /\ gitEvents = {}
    /\ filter = None /\ walk = None
    /\ queue = NoReads /\ batch = NoReads
    /\ held = [p \in Files |-> None] /\ heldDirs = {} /\ heldListed = [p \in Files |-> None]
    /\ established = FALSE
    /\ phase = "requested" /\ again = FALSE
    /\ changes = 0 /\ failures = 0 /\ lists = 0
    /\ unseen = {} /\ dropped = {} /\ letGo = {} /\ early = {}

Next ==
    \/ \E p \in TreePaths : MakeEntry(p) \/ WriteEntry(p) \/ RemoveEntry(p) \/ ReplaceDirectory(p) \/ ReadQueued(p)
    \/ \E p \in Files : HashFile(p) \/ ReadListed(p)
    \/ \E r \in Repos : EditRules(r) \/ DeliverGit(r) \/ Check(r)
    \/ \E e \in events : Deliver(e)
    \/ \E l \in Listings : Relist(l)
    \/ StartPass \/ ListRepository \/ AskListed \/ Visit \/ Follow \/ WatchAllListed \/ Settle \/ Retry
    \/ TakeBatch \/ ReadNothing \/ KeepWalked

Spec == Init /\ [][Next]_vars

---------------------------------------------------------------------------
(* Properties.                                                             *)

\* What git truly ignores: a path that its repository's rules match, or that lies in a directory so matched.
Ignored(p) == \E r \in Repos : HoldsRepository(r) /\ Matches(r, p)

\* No event, read or reconciliation is outstanding.
Quiet == /\ phase = "idle" /\ walk = None /\ established
         /\ events = {} /\ gitEvents = {} /\ queue = NoReads /\ batch = NoReads

Stale(p) == p \in dropped \/ (\E r \in unseen : Below(r, p)) \/ (\E d \in letGo : Below(d, p))

\* Once every event and read is done, every file git does not ignore is held with the content it has, nothing else is held
\* that is not there, and so is every listed file the inputs leave out: whatever was made, moved, replaced or ignored between
\* any two steps of a walk, a filter's questions or a batch.  Left out are paths whose event came while a reconciliation ran
\* and the filter it was replacing excluded them, directories replaced while the input set was lost, and rules changed while
\* their files were not watched or their event still undelivered as their watch was replaced.
QuietIsTrue ==
    Quiet => \A p \in Files : ~Stale(p) =>
        /\ IsFile(fs, p) /\ ~Ignored(p) => held[p] = fs[p].n
        /\ held[p] # None => IsFile(fs, p) /\ held[p] = fs[p].n
        /\ p \in listed /\ Excludes(filter, p) => heldListed[p] = ReadListedFile(p)

\* While git runs, a file it ignores is not held once everything is quiet, but one that came after the filter's listing,
\* or that lies in a repository the filter has given up asking.
IgnoredLeftOut ==
    Quiet /\ failures = 0 =>
        \A p \in Files : Ignored(p) /\ ~Stale(p) /\ p \notin early /\ (\A r \in filter.failed : ~Below(r, p)) => held[p] = None

\* The same without the last exception: while git runs, every path it ignores is excluded.
IgnoredIsExcluded ==
    Quiet /\ failures = 0 => \A p \in Files : Ignored(p) /\ ~Stale(p) /\ p \notin early => held[p] = None

\* Both of the first two.
HeldIsTrue == QuietIsTrue /\ IgnoredLeftOut
=============================================================================
