----------------------------- MODULE MCSeenEdits -----------------------------
(* Two places where an edit must not be lost: a discovery's windows over   *)
(* the input tracker, and the watched tree under a changing filter.  They  *)
(* share no state here, and a behaviour is one's, the other staying at its *)
(* initial state, so TLC explores the sum of the two.                      *)
EXTENDS DiscoveryBinding, Sequences, TLC

CONSTANTS
    Parts, TreeChanges, TreeFailures, TreeLists, None,
    MaxDisturbances,    \* bound: reconciliations asked for and reads failed, together
    TreeDisturbances    \* bound: changes of the tree, failures and new listings, together

VARIABLES
    part,
    fs, rules, listed, tree, ways, armed, treeEvents, gitWatched, gitEvents, treeQueue, treeBatch, treeHeld, heldDirs, heldListed,
    treeEstablished, walk, filter, treePhase, again, changes, treeFailures, lists, unseen, dropped, letGo, early

\* A directory with a file and, later, a nested repository with another, which it ignores as it comes; the directory is
\* ignored as a whole, or not, or after a change of the rules by file.
D == <<"d">>
X == <<"d", "x">>
N == <<"d", "n">>
NX == <<"d", "n", "x">>

TreeDirs == {D, N}
TreeFiles == {X, NX}
TreeRepos == {<<>>, N}
FirstTrees == {{D, X}}
TreeListings == {{}, {X}}
TreeRules == {[r \in TreeRepos |-> IF r = N THEN nested ELSE outer] : outer \in {{}, {D}, {X}}, nested \in {{}, {NX}}}

Watched == INSTANCE WatchedTree WITH
    events <- treeEvents, queue <- treeQueue, batch <- treeBatch, held <- treeHeld, established <- treeEstablished, phase <- treePhase,
    failures <- treeFailures, Dirs <- TreeDirs, Files <- TreeFiles, Repos <- TreeRepos, Trees <- FirstTrees, Listings <- TreeListings,
    RuleSets <- TreeRules, MaxChanges <- TreeChanges, MaxFailures <- TreeFailures, MaxLists <- TreeLists

treeVars ==
    <<fs, rules, listed, tree, ways, armed, treeEvents, gitWatched, gitEvents, treeQueue, treeBatch, treeHeld, heldDirs, heldListed,
      treeEstablished, walk, filter, treePhase, again, changes, treeFailures, lists, unseen, dropped, letGo, early>>

PartsInit ==
    /\ part \in Parts
    /\ DiscoveryInit /\ Watched!Init
    /\ part # "discovery" => \A p \in Paths : disk[p].content = Absent
    /\ rules[<<>>] # {X} /\ rules[N] = {NX}
    /\ part # "tree" => rules[<<>>] = {} /\ listed = {}

PartsNext ==
    \/ /\ part = "discovery" /\ DiscoveryNext /\ UNCHANGED <<part, treeVars>>
       /\ counts'.requests + counts'.failures <= MaxDisturbances
    \/ /\ part = "tree" /\ Watched!Next /\ UNCHANGED <<part, discoveryVars>>
       /\ changes' + treeFailures' + lists' <= TreeDisturbances

PartsSpec == PartsInit /\ [][PartsNext]_<<part, discoveryVars, treeVars>>

Symmetry == Permutations(Contents) \cup Permutations(Paths)

---------------------------------------------------------------------------
\* Once every event and read is done, the inputs held are the files there are that git does not ignore, with their content,
\* and no others, whatever changed between any two steps of a walk or a batch (see QuietIsTrue and IgnoredLeftOut in
\* WatchedTree).
HeldIsTrue == Watched!HeldIsTrue
=============================================================================
