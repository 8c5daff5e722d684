----------------------------- MODULE LaneClaims -----------------------------
(***************************************************************************)
(* File claims of the lanes that share a checkout                          *)
(* (scripts/lib/orchestration/claims.mjs, claims-cli.mjs, paths.mjs): a    *)
(* claim creates one record a path, all or nothing; an orchestrator-only   *)
(* path needs a grant that covers it. Calls of the lanes interleave record *)
(* by record. A lane makes one call at a time, and the orchestrator        *)
(* releases by hand (--any) what no call under way is about.               *)
(***************************************************************************)
EXTENDS Naturals, Sequences, SequencesExt, FiniteSets

CONSTANTS
    Lanes,
    Paths,      \* repository paths, comparable
    Covered,    \* <<outer, inner>>: the second path lies beneath the first
    Owned,      \* the orchestrator-only paths of the flow configuration
    MaxCalls,   \* bound: the calls of a claim, a release or a grant
    Nobody      \* what a record, and a call, is where there is none

\* A call creates records path by path, or removes those it has listed.
Calls == [kind : {"create"}, lane : Lanes, left : Seq(Paths), created : SUBSET Paths, held : SUBSET Paths, conflict : BOOLEAN]
         \cup [kind : {"remove"}, left : SUBSET Paths]

ClaimsAssumption == Covered \subseteq Paths \X Paths /\ Owned \subseteq Paths /\ Nobody \notin Lanes \cup Calls

VARIABLES
    claims,     \* the record of each path: its lane, or Nobody
    grants,     \* the grant of each path: its lane, or Nobody
    claimCall,  \* the call each lane has under way, or Nobody
    grantCall,  \* the orchestrator's grant under way, or Nobody
    calls,      \* the calls begun
    told        \* ghost: what each lane was told it holds

claimVars == <<claims, grants, claimCall, grantCall, calls, told>>

ClaimsInit ==
    /\ claims = [p \in Paths |-> Nobody] /\ grants = [p \in Paths |-> Nobody]
    /\ claimCall = [l \in Lanes |-> Nobody] /\ grantCall = Nobody
    /\ calls = 0 /\ told = [l \in Lanes |-> {}]

Covers(outer, inner) == inner = outer \/ <<outer, inner>> \in Covered
Overlaps(a, b) == Covers(a, b) \/ Covers(b, a)
OrchestratorOnly(p) == \E root \in Owned : Covers(root, p)
RecordsOf(records, lane) == {p \in Paths : records[p] = lane}

\* What a call names, each path once.
Named == {s \in UNION {[1..n -> Paths] : n \in 1..2} : IsInjective(s)}
Begins == calls < MaxCalls /\ calls' = calls + 1

---------------------------------------------------------------------------
\* createAll, for claims and for grants.

NewCall(lane, paths) == [kind |-> "create", lane |-> lane, left |-> paths, created |-> {}, held |-> {}, conflict |-> FALSE]

\* tryCreateOne: the file is created when there is none, else its record is another's or the lane's own.
TryCreateOne(call, records) ==
    LET p == Head(call.left)
        rest == [call EXCEPT !.left = Tail(@)]
    IN  CASE records[p] = Nobody -> [rest EXCEPT !.created = @ \cup {p}]
          [] records[p] = call.lane -> [rest EXCEPT !.held = @ \cup {p}]
          [] OTHER -> [rest EXCEPT !.conflict = TRUE]

WithRecord(call, records) == IF records[Head(call.left)] = Nobody THEN [records EXCEPT ![Head(call.left)] = call.lane] ELSE records

\* Mutant of ToUndo: the paths found held are removed with the created ones.
ToUndoHeld(call) == call.created \cup call.held

\* A conflict on any path removes every record this call created.
ToUndo(call) == call.created

Without(records, p) == [records EXCEPT ![p] = Nobody]

---------------------------------------------------------------------------
\* Claims.

\* claimPaths: refused whole when a path is orchestrator-only and no grant of the lane covers it.
BeginClaim(l) ==
    /\ claimCall[l] = Nobody /\ Begins
    /\ \E paths \in Named :
          /\ \A p \in ToSet(paths) : OrchestratorOnly(p) => \E g \in RecordsOf(grants, l) : Covers(g, p)
          /\ claimCall' = [claimCall EXCEPT ![l] = NewCall(l, paths)]
    /\ UNCHANGED <<claims, grants, grantCall, told>>

CreateClaim(l) ==
    /\ claimCall[l] # Nobody /\ claimCall[l].kind = "create" /\ claimCall[l].left # <<>>
    /\ claims' = WithRecord(claimCall[l], claims)
    /\ claimCall' = [claimCall EXCEPT ![l] = TryCreateOne(claimCall[l], claims)]
    /\ UNCHANGED <<grants, grantCall, calls, told>>

EndClaim(l) ==
    /\ claimCall[l] # Nobody /\ claimCall[l].kind = "create" /\ claimCall[l].left = <<>>
    /\ IF claimCall[l].conflict
       THEN /\ claimCall' = [claimCall EXCEPT ![l] = [kind |-> "remove", left |-> ToUndo(claimCall[l])]]
            /\ UNCHANGED told
       ELSE /\ told' = [told EXCEPT ![l] = @ \cup claimCall[l].created \cup claimCall[l].held]
            /\ claimCall' = [claimCall EXCEPT ![l] = Nobody]
    /\ UNCHANGED <<claims, grants, grantCall, calls>>

\* release --lane: every record of the lane as listed, or those of the named paths that are the lane's own.
BeginRelease(l) ==
    /\ claimCall[l] = Nobody /\ Begins
    /\ \E removed \in {RecordsOf(claims, l)} \cup {RecordsOf(claims, l) \cap ToSet(paths) : paths \in Named} :
          /\ removed # {}
          /\ claimCall' = [claimCall EXCEPT ![l] = [kind |-> "remove", left |-> removed]]
          /\ told' = [told EXCEPT ![l] = @ \ removed]
    /\ UNCHANGED <<claims, grants, grantCall>>

RemoveOne(l) ==
    /\ claimCall[l] # Nobody /\ claimCall[l].kind = "remove"
    /\ IF claimCall[l].left = {} THEN claimCall' = [claimCall EXCEPT ![l] = Nobody] /\ UNCHANGED claims
       ELSE \E p \in claimCall[l].left :
               /\ claims' = Without(claims, p)
               /\ claimCall' = [claimCall EXCEPT ![l].left = @ \ {p}]
    /\ UNCHANGED <<grants, grantCall, calls, told>>

\* The paths a call under way created, found held or is about to remove.
UnderWay(l) == IF claimCall[l] = Nobody THEN {}
               ELSE IF claimCall[l].kind = "remove" THEN claimCall[l].left ELSE claimCall[l].created \cup claimCall[l].held

\* release --any, by the orchestrator.
ReleaseAny(p) ==
    /\ claims[p] # Nobody /\ \A l \in Lanes : p \notin UnderWay(l)
    /\ claims' = Without(claims, p)
    /\ told' = [l \in Lanes |-> told[l] \ {p}]
    /\ UNCHANGED <<grants, claimCall, grantCall, calls>>

---------------------------------------------------------------------------
\* Grants, one call at a time, the orchestrator's.

Conflicts(l, p) == \E g \in Paths : grants[g] \notin {Nobody, l} /\ Overlaps(g, p)

\* grantPaths: refused for a claimable path or an overlap with another lane's grant.
BeginGrant(l) ==
    /\ grantCall = Nobody /\ Begins
    /\ \E paths \in Named :
          /\ \A p \in ToSet(paths) : OrchestratorOnly(p) /\ ~Conflicts(l, p)
          /\ grantCall' = NewCall(l, paths)
    /\ UNCHANGED <<claims, grants, claimCall, told>>

\* With no conflict listed and no other grant under way every creation succeeds.
CreateGrant ==
    /\ grantCall # Nobody /\ grantCall.left # <<>>
    /\ grants' = WithRecord(grantCall, grants)
    /\ grantCall' = LET next == TryCreateOne(grantCall, grants) IN IF next.left = <<>> THEN Nobody ELSE next
    /\ UNCHANGED <<claims, claimCall, calls, told>>

\* grant-end, of a lane's grant or by --any.
EndGrant(p) ==
    /\ grantCall = Nobody /\ grants[p] # Nobody
    /\ grants' = Without(grants, p)
    /\ UNCHANGED <<claims, claimCall, grantCall, calls, told>>

ClaimsNext ==
    \/ \E l \in Lanes : BeginClaim(l) \/ CreateClaim(l) \/ EndClaim(l) \/ BeginRelease(l) \/ RemoveOne(l) \/ BeginGrant(l)
    \/ \E p \in Paths : ReleaseAny(p) \/ EndGrant(p)
    \/ CreateGrant

ClaimsSpec == ClaimsInit /\ [][ClaimsNext]_claimVars

---------------------------------------------------------------------------
\* Between its calls a lane holds exactly what its claims told it, less what it or the orchestrator released: a claim
\* that met a conflict left nothing and cost nothing, whatever the other lanes' calls did meanwhile (createAll).
HoldsWhatWasTold == \A l \in Lanes : claimCall[l] = Nobody => RecordsOf(claims, l) = told[l]

\* No path is under the grants of two lanes (grantPaths: one lane holds a path at a time).
GrantsDisjoint == \A p, q \in Paths : grants[p] # Nobody /\ grants[q] # Nobody /\ Overlaps(p, q) => grants[p] = grants[q]

\* A lane holds what it was told it holds, and no path is granted to two lanes.
ClaimsAreOwn == HoldsWhatWasTold /\ GrantsDisjoint
=============================================================================
