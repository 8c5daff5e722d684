---------------------------- MODULE LanesProofs -----------------------------
(***************************************************************************)
(* What processes that race for files one of them may own rely on, for any *)
(* lanes, paths, runs, starts and bounds: between its calls a lane holds   *)
(* what it was told, no path is granted to two; the machine's lease lets   *)
(* one run go on at a time, in the order of joining; and of two daemons    *)
(* that start one has the store open, and is found.                        *)
(***************************************************************************)
EXTENDS RunLease, LaneClaims, DaemonStart, FiniteSetTheorems, TLAPS

Creates == [kind : {"create"}, lane : Lanes, left : Seq(Paths), created : SUBSET Paths, held : SUBSET Paths, conflict : BOOLEAN]
Removes == [kind : {"remove"}, left : SUBSET Paths]
Owners == Lanes \cup {Nobody}

ClaimsTypeInv ==
    /\ claims \in [Paths -> Owners] /\ grants \in [Paths -> Owners]
    /\ told \in [Lanes -> SUBSET Paths]
    /\ claimCall \in [Lanes -> Calls \cup {Nobody}]
    /\ \A l \in Lanes : claimCall[l] \in Creates => claimCall[l].lane = l
    /\ grantCall \in Creates \cup {Nobody}

\* What a lane holds, and what its call under way makes of what it was told.
HeldBy(l) ==
    /\ claimCall[l] = Nobody => RecordsOf(claims, l) = told[l]
    /\ claimCall[l] \in Creates =>
          /\ RecordsOf(claims, l) = told[l] \cup claimCall[l].created
          /\ claimCall[l].created \cap told[l] = {}
          /\ claimCall[l].held \subseteq told[l] \cup claimCall[l].created
    /\ claimCall[l] \in Removes =>
          /\ RecordsOf(claims, l) = told[l] \cup claimCall[l].left
          /\ claimCall[l].left \cap told[l] = {}

ClaimsInv == ClaimsTypeInv /\ \A l \in Lanes : HeldBy(l)

\* A grant under way meets no grant of another lane on the paths left to it.
GrantInv ==
    /\ GrantsDisjoint
    /\ grantCall # Nobody => \A i \in 1..Len(grantCall.left) : ~Conflicts(grantCall.lane, grantCall.left[i])

-----------------------------------------------------------------------------
\* A call is of one kind, and no call is Nobody.
LEMMA CallKinds ==
    ASSUME ClaimsAssumption, NEW call \in Calls
    PROVE  /\ call # Nobody
           /\ call \in Creates <=> call.kind = "create"
           /\ call \in Removes <=> call.kind = "remove"
           /\ call \in Creates \/ call \in Removes
  BY DEF ClaimsAssumption, Calls, Creates, Removes

\* What a call names is a sequence of paths, and not empty.
LEMMA NamedPaths ==
    ASSUME NEW s \in Named
    PROVE  /\ s \in Seq(Paths) /\ Len(s) \in {1, 2} /\ DOMAIN s = 1..Len(s)
           /\ ToSet(s) = {s[i] : i \in 1..Len(s)} /\ ToSet(s) \subseteq Paths
<1>1. PICK n \in 1..2 : s \in [1..n -> Paths]
  BY DEF Named
<1>2. s \in Seq(Paths) /\ Len(s) = n /\ DOMAIN s = 1..Len(s)
  BY <1>1
<1> QED
  BY <1>1, <1>2 DEF ToSet

\* A call that begins has created nothing yet.
LEMMA NewCallOf ==
    ASSUME NEW l \in Lanes, NEW s \in Named
    PROVE  NewCall(l, s) \in Creates /\ NewCall(l, s).lane = l /\ NewCall(l, s).created = {} /\ NewCall(l, s).held = {}
           /\ NewCall(l, s).left = s
  BY NamedPaths DEF NewCall, Creates

\* The next path of a call, and what is left after it.
LEMMA NextPath ==
    ASSUME NEW call \in Creates, call.left # <<>>
    PROVE  /\ Head(call.left) \in Paths /\ Tail(call.left) \in Seq(Paths)
           /\ Head(call.left) = call.left[1] /\ 1 \in 1..Len(call.left)
           /\ Len(Tail(call.left)) = Len(call.left) - 1
           /\ \A i \in 1..Len(Tail(call.left)) : i + 1 \in 1..Len(call.left) /\ Tail(call.left)[i] = call.left[i + 1]
<1>1. call.left \in Seq(Paths) /\ call.left # <<>>
  BY DEF Creates
<1> DEFINE s == call.left
<1>2. s \in Seq(Paths) /\ s # <<>>
  BY <1>1
<1> HIDE DEF s
<1>3. /\ Head(s) \in Paths /\ Tail(s) \in Seq(Paths)
      /\ Head(s) = s[1] /\ 1 \in 1..Len(s)
      /\ Len(Tail(s)) = Len(s) - 1
      /\ \A i \in 1..Len(Tail(s)) : i + 1 \in 1..Len(s) /\ Tail(s)[i] = s[i + 1]
  BY <1>2
<1> QED
  BY <1>3 DEF s

\* Looking at one path: it is created, found held or in conflict.
LEMMA TriedOne ==
    ASSUME ClaimsAssumption, NEW call \in Creates, call.left # <<>>, NEW records \in [Paths -> Owners]
    PROVE  LET p == Head(call.left)  next == TryCreateOne(call, records)
           IN  /\ p \in Paths
               /\ next \in Creates /\ next.lane = call.lane /\ next.left = Tail(call.left)
               /\ next.created = IF records[p] = Nobody THEN call.created \cup {p} ELSE call.created
               /\ next.held = IF records[p] # Nobody /\ records[p] = call.lane THEN call.held \cup {p} ELSE call.held
<1>1. Head(call.left) \in Paths /\ Tail(call.left) \in Seq(Paths)
  BY NextPath
<1>2. CASE records[Head(call.left)] = Nobody
  BY <1>1, <1>2 DEF TryCreateOne, Creates, ClaimsAssumption
<1>3. CASE records[Head(call.left)] # Nobody /\ records[Head(call.left)] = call.lane
  BY <1>1, <1>3 DEF TryCreateOne, Creates
<1>4. CASE records[Head(call.left)] # Nobody /\ records[Head(call.left)] # call.lane
  BY <1>1, <1>4 DEF TryCreateOne, Creates
<1> QED
  BY <1>2, <1>3, <1>4

-----------------------------------------------------------------------------
(* Claims *)

\* A lane whose call, records and what it was told stay as they were holds what it did.
LEMMA HeldByStays ==
    ASSUME NEW l \in Lanes, HeldBy(l), UNCHANGED <<claimCall[l], told[l]>>, RecordsOf(claims', l) = RecordsOf(claims, l)
    PROVE  HeldBy(l)'
  BY DEF HeldBy

LEMMA ClaimsInitInv == ClaimsAssumption /\ ClaimsInit => ClaimsInv
<1> SUFFICES ASSUME ClaimsAssumption, ClaimsInit PROVE ClaimsInv
  OBVIOUS
<1>1. ClaimsTypeInv
  BY DEF ClaimsInit, ClaimsTypeInv, Owners, ClaimsAssumption, Creates, Calls
<1>2. ASSUME NEW l \in Lanes PROVE HeldBy(l)
  <2>1. claimCall[l] = Nobody /\ told[l] = {} /\ RecordsOf(claims, l) = {}
    BY DEF ClaimsInit, RecordsOf, ClaimsAssumption
  <2> QED
    BY <2>1, CallKinds DEF HeldBy, Calls, Creates, Removes
<1> QED
  BY <1>1, <1>2 DEF ClaimsInv

\* A claim begins over no record.
LEMMA BeginClaimKeeps == ASSUME ClaimsAssumption, ClaimsInv, NEW l \in Lanes, BeginClaim(l) PROVE ClaimsInv'
<1>1. PICK paths \in Named : claimCall' = [claimCall EXCEPT ![l] = NewCall(l, paths)]
  BY DEF BeginClaim
<1>2. NewCall(l, paths) \in Creates /\ NewCall(l, paths) \in Calls /\ NewCall(l, paths).lane = l
      /\ NewCall(l, paths).created = {} /\ NewCall(l, paths).held = {} /\ NewCall(l, paths).kind = "create"
  BY NewCallOf DEF Creates, Calls
<1>3. ClaimsTypeInv'
  BY <1>1, <1>2 DEF BeginClaim, ClaimsInv, ClaimsTypeInv
<1>4. ASSUME NEW x \in Lanes PROVE HeldBy(x)'
  <2>1. CASE x # l
    BY <2>1, <1>1, HeldByStays DEF BeginClaim, ClaimsInv, ClaimsTypeInv, RecordsOf
  <2>2. CASE x = l
    <3>1. claimCall'[l] = NewCall(l, paths) /\ told'[l] = told[l] /\ RecordsOf(claims', l) = told[l]
      BY <1>1 DEF BeginClaim, ClaimsInv, ClaimsTypeInv, HeldBy
    <3> QED
      BY <2>2, <3>1, <1>2, CallKinds DEF HeldBy, Removes
  <2> QED
    BY <2>1, <2>2
<1> QED
  BY <1>3, <1>4 DEF ClaimsInv

\* A record created is the lane's own, and what it finds held is too.
LEMMA CreateClaimKeeps == ASSUME ClaimsAssumption, ClaimsInv, NEW l \in Lanes, CreateClaim(l) PROVE ClaimsInv'
<1> DEFINE call == claimCall[l]
           p == Head(call.left)
           next == TryCreateOne(call, claims)
<1>1. call \in Creates /\ call.lane = l /\ call.left # <<>> /\ claims \in [Paths -> Owners]
  BY CallKinds DEF CreateClaim, ClaimsInv, ClaimsTypeInv
<1>2. /\ p \in Paths /\ next \in Creates /\ next.lane = l
      /\ next.created = IF claims[p] = Nobody THEN call.created \cup {p} ELSE call.created
      /\ next.held = IF claims[p] # Nobody /\ claims[p] = l THEN call.held \cup {p} ELSE call.held
  BY <1>1, TriedOne
<1>3. next \in Calls /\ next.kind = "create"
  BY <1>2 DEF Creates, Calls
<1>4. /\ claims' = IF claims[p] = Nobody THEN [claims EXCEPT ![p] = l] ELSE claims
      /\ claimCall' = [claimCall EXCEPT ![l] = next]
      /\ UNCHANGED <<grants, grantCall, told>>
  BY <1>1 DEF CreateClaim, WithRecord
<1> HIDE DEF next, p
<1>5. ClaimsTypeInv'
  BY <1>2, <1>3, <1>4 DEF ClaimsInv, ClaimsTypeInv, Owners
<1>6. \A x \in Lanes : RecordsOf(claims', x) = IF claims[p] = Nobody /\ x = l THEN RecordsOf(claims, x) \cup {p} ELSE RecordsOf(claims, x)
  BY <1>1, <1>2, <1>4 DEF RecordsOf, ClaimsAssumption
<1>7. ASSUME NEW x \in Lanes PROVE HeldBy(x)'
  <2>1. CASE x # l
    BY <2>1, <1>4, <1>6, HeldByStays DEF ClaimsInv, ClaimsTypeInv
  <2>2. CASE x = l
    <3>1. claimCall'[l] = next /\ told'[l] = told[l]
      BY <1>4 DEF ClaimsInv, ClaimsTypeInv
    <3>2. /\ RecordsOf(claims, l) = told[l] \cup call.created /\ call.created \cap told[l] = {}
          /\ call.held \subseteq told[l] \cup call.created
      BY <1>1 DEF ClaimsInv, HeldBy
    <3>3. claims[p] = Nobody => p \notin RecordsOf(claims, l)
      BY DEF RecordsOf, ClaimsAssumption
    <3>4. claims[p] = l => p \in RecordsOf(claims, l)
      BY <1>2 DEF RecordsOf
    <3>5. /\ RecordsOf(claims', l) = told[l] \cup next.created /\ next.created \cap told[l] = {}
          /\ next.held \subseteq told[l] \cup next.created
      BY <3>2, <3>3, <3>4, <1>2, <1>6
    <3> QED
      BY <2>2, <3>1, <3>5, <1>2, <1>3, CallKinds DEF HeldBy
  <2> QED
    BY <2>1, <2>2
<1> QED
  BY <1>5, <1>7 DEF ClaimsInv

\* A claim without a conflict tells the lane what it holds; one with a conflict undoes what it created.
LEMMA EndClaimKeeps == ASSUME ClaimsAssumption, ClaimsInv, NEW l \in Lanes, EndClaim(l) PROVE ClaimsInv'
<1> DEFINE call == claimCall[l]
<1>1. call \in Creates /\ call.lane = l
  BY CallKinds DEF EndClaim, ClaimsInv, ClaimsTypeInv
<1>2. /\ RecordsOf(claims, l) = told[l] \cup call.created /\ call.created \cap told[l] = {}
      /\ call.held \subseteq told[l] \cup call.created /\ call.created \subseteq Paths /\ call.held \subseteq Paths
  BY <1>1 DEF ClaimsInv, HeldBy, Creates
<1>3. UNCHANGED <<claims, grants, grantCall>>
  BY DEF EndClaim
<1>4. CASE call.conflict
  <2> DEFINE undo == [kind |-> "remove", left |-> call.created]
  <2>1. claimCall' = [claimCall EXCEPT ![l] = undo] /\ told' = told
    BY <1>4 DEF EndClaim, ToUndo
  <2>2. undo \in Removes /\ undo \in Calls /\ undo.kind = "remove" /\ undo.left = call.created
    BY <1>2 DEF Removes, Calls
  <2> HIDE DEF undo
  <2>3. ClaimsTypeInv'
    BY <2>1, <2>2, <1>3, CallKinds DEF ClaimsInv, ClaimsTypeInv
  <2>4. ASSUME NEW x \in Lanes PROVE HeldBy(x)'
    <3>1. CASE x # l
      BY <3>1, <2>1, <1>3, HeldByStays DEF ClaimsInv, ClaimsTypeInv, RecordsOf
    <3>2. CASE x = l
      <4>1. claimCall'[l] = undo /\ told'[l] = told[l] /\ RecordsOf(claims', l) = told[l] \cup undo.left
            /\ undo.left \cap told[l] = {}
        BY <2>1, <2>2, <1>2, <1>3 DEF ClaimsInv, ClaimsTypeInv, RecordsOf
      <4> QED
        BY <3>2, <4>1, <2>2, CallKinds DEF HeldBy
    <3> QED
      BY <3>1, <3>2
  <2> QED
    BY <2>3, <2>4 DEF ClaimsInv
<1>5. CASE ~call.conflict
  <2>1. claimCall' = [claimCall EXCEPT ![l] = Nobody] /\ told' = [told EXCEPT ![l] = @ \cup call.created \cup call.held]
    BY <1>5 DEF EndClaim
  <2>2. ClaimsTypeInv'
    BY <2>1, <1>2, <1>3, CallKinds DEF ClaimsInv, ClaimsTypeInv, Creates, Calls
  <2>3. ASSUME NEW x \in Lanes PROVE HeldBy(x)'
    <3>1. CASE x # l
      BY <3>1, <2>1, <1>3, HeldByStays DEF ClaimsInv, ClaimsTypeInv, RecordsOf
    <3>2. CASE x = l
      <4>1. claimCall'[l] = Nobody /\ told'[l] = told[l] \cup call.created \cup call.held /\ RecordsOf(claims', l) = told'[l]
        BY <2>1, <1>2, <1>3 DEF ClaimsInv, ClaimsTypeInv, RecordsOf
      <4>2. Nobody \notin Creates /\ Nobody \notin Removes
        BY DEF ClaimsAssumption, Calls, Creates, Removes
      <4> QED
        BY <3>2, <4>1, <4>2 DEF HeldBy
    <3> QED
      BY <3>1, <3>2
  <2> QED
    BY <2>2, <2>3 DEF ClaimsInv
<1> QED
  BY <1>4, <1>5

\* A release tells the lane at once that it holds no longer what will be removed.
LEMMA BeginReleaseKeeps == ASSUME ClaimsAssumption, ClaimsInv, NEW l \in Lanes, BeginRelease(l) PROVE ClaimsInv'
<1>1. PICK removed : /\ removed \subseteq RecordsOf(claims, l)
                     /\ claimCall' = [claimCall EXCEPT ![l] = [kind |-> "remove", left |-> removed]]
                     /\ told' = [told EXCEPT ![l] = @ \ removed]
  BY DEF BeginRelease
<1> DEFINE call == [kind |-> "remove", left |-> removed]
<1>2. RecordsOf(claims, l) = told[l] /\ told[l] \subseteq Paths /\ UNCHANGED <<claims, grants, grantCall>>
  BY DEF BeginRelease, ClaimsInv, ClaimsTypeInv, HeldBy
<1>3. call \in Removes /\ call \in Calls /\ call.kind = "remove" /\ call.left = removed
  BY <1>1, <1>2 DEF Removes, Calls
<1>4. claimCall' = [claimCall EXCEPT ![l] = call]
  BY <1>1
<1> HIDE DEF call
<1>5. ClaimsTypeInv'
  BY <1>1, <1>2, <1>3, <1>4, CallKinds DEF ClaimsInv, ClaimsTypeInv
<1>6. ASSUME NEW x \in Lanes PROVE HeldBy(x)'
  <2>1. CASE x # l
    BY <2>1, <1>1, <1>2, <1>4, HeldByStays DEF ClaimsInv, ClaimsTypeInv, RecordsOf
  <2>2. CASE x = l
    <3>1. claimCall'[l] = call /\ told'[l] = told[l] \ removed /\ RecordsOf(claims', l) = told'[l] \cup call.left
          /\ call.left \cap told'[l] = {}
      BY <1>1, <1>2, <1>3, <1>4 DEF ClaimsInv, ClaimsTypeInv, RecordsOf
    <3> QED
      BY <2>2, <3>1, <1>3, CallKinds DEF HeldBy
  <2> QED
    BY <2>1, <2>2
<1> QED
  BY <1>5, <1>6 DEF ClaimsInv

\* A removal takes a record that is the lane's own.
LEMMA RemoveOneKeeps == ASSUME ClaimsAssumption, ClaimsInv, NEW l \in Lanes, RemoveOne(l) PROVE ClaimsInv'
<1> DEFINE call == claimCall[l]
<1>1. call \in Removes /\ call \in Calls /\ UNCHANGED <<grants, grantCall, told>>
  BY CallKinds DEF RemoveOne, ClaimsInv, ClaimsTypeInv
<1>2. RecordsOf(claims, l) = told[l] \cup call.left /\ call.left \cap told[l] = {} /\ call.left \subseteq Paths
  BY <1>1 DEF ClaimsInv, HeldBy, Removes
<1>3. CASE call.left = {}
  <2>1. claimCall' = [claimCall EXCEPT ![l] = Nobody] /\ claims' = claims
    BY <1>3 DEF RemoveOne
  <2>2. Nobody \notin Creates /\ Nobody \notin Removes
    BY DEF ClaimsAssumption, Calls, Creates, Removes
  <2>3. ClaimsTypeInv'
    BY <2>1, <2>2, <1>1 DEF ClaimsInv, ClaimsTypeInv
  <2>4. ASSUME NEW x \in Lanes PROVE HeldBy(x)'
    <3>1. CASE x # l
      BY <3>1, <2>1, <1>1, HeldByStays DEF ClaimsInv, ClaimsTypeInv, RecordsOf
    <3>2. CASE x = l
      <4>1. claimCall'[l] = Nobody /\ told' = told /\ claims' = claims /\ RecordsOf(claims, l) = told[l]
        BY <2>1, <1>1, <1>2, <1>3 DEF ClaimsInv, ClaimsTypeInv
      <4> QED
        BY <3>2, <4>1, <2>2 DEF HeldBy, RecordsOf
    <3> QED
      BY <3>1, <3>2
  <2> QED
    BY <2>3, <2>4 DEF ClaimsInv
<1>4. CASE call.left # {}
  <2>1. PICK p \in call.left : claims' = [claims EXCEPT ![p] = Nobody] /\ claimCall' = [claimCall EXCEPT ![l].left = @ \ {p}]
    BY <1>4 DEF RemoveOne, Without
  <2> DEFINE next == [call EXCEPT !.left = @ \ {p}]
  <2>2. next \in Removes /\ next \in Calls /\ next.left = call.left \ {p}
    BY <1>1 DEF Removes, Calls
  <2>3. claimCall' = [claimCall EXCEPT ![l] = next]
    BY <2>1
  <2> HIDE DEF next
  <2>4. claims[p] = l /\ p \in Paths
    BY <1>2 DEF RecordsOf
  <2>5. ClaimsTypeInv'
    <3>1. claims' \in [Paths -> Owners]
      BY <2>1 DEF ClaimsInv, ClaimsTypeInv, Owners
    <3>2. claimCall \in [Lanes -> Calls \cup {Nobody}] /\ next \notin Creates
      BY <2>2, CallKinds DEF ClaimsInv, ClaimsTypeInv
    <3>3. claimCall' \in [Lanes -> Calls \cup {Nobody}]
      BY <2>2, <2>3, <3>2
    <3>4. \A x \in Lanes : claimCall'[x] \in Creates => claimCall'[x].lane = x
      BY <2>3, <3>2 DEF ClaimsInv, ClaimsTypeInv
    <3>5. told' = told /\ grants' = grants /\ grantCall' = grantCall
      BY <1>1
    <3> QED
      BY <3>1, <3>3, <3>4, <3>5 DEF ClaimsInv, ClaimsTypeInv
  <2>6. \A x \in Lanes : RecordsOf(claims', x) = IF x = l THEN RecordsOf(claims, x) \ {p} ELSE RecordsOf(claims, x)
    BY <2>1, <2>4 DEF RecordsOf, ClaimsAssumption, ClaimsInv, ClaimsTypeInv
  <2>7. ASSUME NEW x \in Lanes PROVE HeldBy(x)'
    <3>1. CASE x # l
      BY <3>1, <2>3, <2>6, <1>1, HeldByStays DEF ClaimsInv, ClaimsTypeInv
    <3>2. CASE x = l
      <4>1. claimCall'[l] = next /\ told' = told
        BY <2>3, <1>1 DEF ClaimsInv, ClaimsTypeInv
      <4>2. RecordsOf(claims', l) = told[l] \cup next.left /\ next.left \cap told[l] = {}
        BY <2>2, <2>6, <1>2
      <4> QED
        BY <3>2, <4>1, <4>2, <2>2, CallKinds DEF HeldBy
    <3> QED
      BY <3>1, <3>2
  <2> QED
    BY <2>5, <2>7 DEF ClaimsInv
<1> QED
  BY <1>3, <1>4

\* A release by hand takes what no call under way is about, and tells the lane.
LEMMA ReleaseAnyKeeps == ASSUME ClaimsAssumption, ClaimsInv, NEW p \in Paths, ReleaseAny(p) PROVE ClaimsInv'
<1>1. /\ claims' = [claims EXCEPT ![p] = Nobody] /\ told' = [l \in Lanes |-> told[l] \ {p}]
      /\ UNCHANGED <<grants, claimCall, grantCall>> /\ \A l \in Lanes : p \notin UnderWay(l)
  BY DEF ReleaseAny, Without
<1>2. ClaimsTypeInv'
  BY <1>1 DEF ClaimsInv, ClaimsTypeInv, Owners
<1>3. ASSUME NEW l \in Lanes PROVE HeldBy(l)'
  <2>1. RecordsOf(claims', l) = RecordsOf(claims, l) \ {p} /\ told'[l] = told[l] \ {p} /\ claimCall' = claimCall
    BY <1>1 DEF RecordsOf, ClaimsAssumption, ClaimsInv, ClaimsTypeInv
  <2>2. /\ claimCall[l] \in Creates => p \notin claimCall[l].created \cup claimCall[l].held
        /\ claimCall[l] \in Removes => p \notin claimCall[l].left
    BY <1>1, CallKinds DEF UnderWay, Calls, Creates, Removes
  <2> QED
    BY <2>1, <2>2 DEF HeldBy, ClaimsInv
<1> QED
  BY <1>2, <1>3 DEF ClaimsInv

\* A step that leaves the claims and their calls alone leaves what the lanes hold.
LEMMA ClaimsStay ==
    ASSUME ClaimsInv, UNCHANGED <<claims, claimCall, told>>, grants' \in [Paths -> Owners], grantCall' \in Creates \cup {Nobody}
    PROVE  ClaimsInv'
  BY DEF ClaimsInv, ClaimsTypeInv, HeldBy, RecordsOf

LEMMA BeginGrantTypes == ASSUME ClaimsInv, NEW l \in Lanes, BeginGrant(l) PROVE ClaimsInv'
<1>1. PICK paths \in Named : grantCall' = NewCall(l, paths)
  BY DEF BeginGrant
<1>2. grantCall' \in Creates
  BY <1>1, NewCallOf
<1> QED
  BY <1>2, ClaimsStay DEF BeginGrant, ClaimsInv, ClaimsTypeInv

LEMMA CreateGrantTypes == ASSUME ClaimsAssumption, ClaimsInv, CreateGrant PROVE ClaimsInv'
<1>1. grantCall \in Creates /\ grantCall.left # <<>> /\ grants \in [Paths -> Owners]
  BY DEF CreateGrant, ClaimsInv, ClaimsTypeInv
<1>2. TryCreateOne(grantCall, grants) \in Creates /\ Head(grantCall.left) \in Paths /\ grantCall.lane \in Lanes
  BY <1>1, TriedOne DEF Creates
<1>3. grantCall' \in Creates \cup {Nobody}
  BY <1>2 DEF CreateGrant
<1>4. grants' \in [Paths -> Owners]
  BY <1>1, <1>2 DEF CreateGrant, WithRecord, Owners
<1> QED
  BY <1>3, <1>4, ClaimsStay DEF CreateGrant

LEMMA EndGrantTypes == ASSUME ClaimsInv, NEW p \in Paths, EndGrant(p) PROVE ClaimsInv'
<1>1. grants' \in [Paths -> Owners] /\ grantCall' \in Creates \cup {Nobody}
  BY DEF EndGrant, Without, Owners, ClaimsInv, ClaimsTypeInv
<1> QED
  BY <1>1, ClaimsStay DEF EndGrant

LEMMA ClaimsStepInv == ASSUME ClaimsAssumption, ClaimsInv, [ClaimsNext]_claimVars PROVE ClaimsInv'
<1>1. CASE \E l \in Lanes : BeginClaim(l) \/ CreateClaim(l) \/ EndClaim(l) \/ BeginRelease(l) \/ RemoveOne(l) \/ BeginGrant(l)
  BY <1>1, BeginClaimKeeps, CreateClaimKeeps, EndClaimKeeps, BeginReleaseKeeps, RemoveOneKeeps, BeginGrantTypes
<1>2. CASE \E p \in Paths : ReleaseAny(p) \/ EndGrant(p)
  BY <1>2, ReleaseAnyKeeps, EndGrantTypes
<1>3. CASE CreateGrant
  BY <1>3, CreateGrantTypes
<1>4. CASE UNCHANGED claimVars
  <2>1. grants' \in [Paths -> Owners] /\ grantCall' \in Creates \cup {Nobody}
    BY <1>4 DEF claimVars, ClaimsInv, ClaimsTypeInv
  <2> QED
    BY <1>4, <2>1, ClaimsStay DEF claimVars
<1> QED
  BY <1>1, <1>2, <1>3, <1>4 DEF ClaimsNext

-----------------------------------------------------------------------------
(* Grants *)

\* Paths overlap either way round.
LEMMA OverlapsBoth == \A a, b : Overlaps(a, b) <=> Overlaps(b, a)
  BY DEF Overlaps

LEMMA BeginGrantKeeps == ASSUME ClaimsInv, GrantInv, NEW l \in Lanes, BeginGrant(l) PROVE GrantInv'
<1>1. PICK paths \in Named : grantCall' = NewCall(l, paths) /\ \A p \in ToSet(paths) : ~Conflicts(l, p)
  BY DEF BeginGrant
<1>2. \A i \in 1..Len(paths) : ~Conflicts(l, paths[i])
  BY <1>1, NamedPaths
<1>3. grantCall'.left = paths /\ grantCall'.lane = l
  BY <1>1, NewCallOf
<1>4. grants' = grants
  BY DEF BeginGrant
<1> QED
  BY <1>2, <1>3, <1>4 DEF GrantInv, GrantsDisjoint, Conflicts

LEMMA CreateGrantKeeps == ASSUME ClaimsAssumption, ClaimsInv, GrantInv, CreateGrant PROVE GrantInv'
<1> DEFINE p == Head(grantCall.left)
           l == grantCall.lane
           next == TryCreateOne(grantCall, grants)
<1>1. grantCall \in Creates /\ grantCall # Nobody /\ grantCall.left # <<>> /\ grants \in [Paths -> Owners]
  BY DEF CreateGrant, ClaimsInv, ClaimsTypeInv
<1>2. p \in Paths /\ l \in Lanes /\ next.lane = l /\ next.left = Tail(grantCall.left)
  BY <1>1, TriedOne DEF Creates
<1>3. ~Conflicts(l, p) /\ \A i \in 1..Len(next.left) : ~Conflicts(l, next.left[i])
  BY <1>1, <1>2, NextPath DEF GrantInv
<1>4. grants' = IF grants[p] = Nobody THEN [grants EXCEPT ![p] = l] ELSE grants
  BY DEF CreateGrant, WithRecord
<1>5. grantCall' = Nobody \/ grantCall' = next
  BY DEF CreateGrant
<1> HIDE DEF p, l, next
<1>6. \A q, g \in Paths : grants'[g] \notin {Nobody, l} /\ Overlaps(g, q) => Conflicts(l, q)
  BY <1>1, <1>2, <1>4 DEF Conflicts
<1>7. GrantsDisjoint'
  <2> SUFFICES ASSUME NEW a \in Paths, NEW b \in Paths, grants'[a] # Nobody, grants'[b] # Nobody, Overlaps(a, b)
               PROVE  grants'[a] = grants'[b]
    BY DEF GrantsDisjoint, Overlaps, Covers
  <2>1. CASE grants' = grants
    BY <2>1 DEF GrantInv, GrantsDisjoint
  <2>2. CASE grants[p] = Nobody /\ grants' = [grants EXCEPT ![p] = l]
    <3>1. \A q \in Paths : grants[q] # Nobody /\ Overlaps(q, p) => grants[q] = l
      BY <1>3 DEF Conflicts
    <3>2. CASE a # p /\ b # p
      BY <3>2, <2>2 DEF GrantInv, GrantsDisjoint
    <3>3. CASE a = p
      BY <3>1, <3>3, <2>2, <1>1, <1>2, OverlapsBoth
    <3>4. CASE b = p
      BY <3>1, <3>4, <2>2, <1>1, <1>2
    <3> QED
      BY <3>2, <3>3, <3>4
  <2> QED
    BY <1>4, <2>1, <2>2
<1>8. ASSUME grantCall' # Nobody 
      PROVE  \A i \in 1..Len(grantCall'.left), g \in Paths : ~(grants'[g] \notin {Nobody, grantCall'.lane} /\ Overlaps(g, grantCall'.left[i]))
  <2>1. grantCall' = next
    BY <1>5, <1>8
  <2>2. \A i \in 1..Len(next.left) : next.left[i] \in Paths
    BY <1>1, <1>2, NextPath DEF Creates
  <2> QED
    BY <2>1, <2>2, <1>2, <1>3, <1>6
<1> QED
  BY <1>7, <1>8 DEF GrantInv, Conflicts, Overlaps, Covers

LEMMA EndGrantKeeps == ASSUME ClaimsInv, GrantInv, NEW p \in Paths, EndGrant(p) PROVE GrantInv'
<1>1. grants' = [grants EXCEPT ![p] = Nobody] /\ grantCall = Nobody /\ grantCall' = Nobody
  BY DEF EndGrant, Without
<1> QED
  BY <1>1 DEF GrantInv, GrantsDisjoint, ClaimsInv, ClaimsTypeInv, Overlaps, Covers

LEMMA GrantStays == ASSUME GrantInv, UNCHANGED <<grants, grantCall>> PROVE GrantInv'
  BY DEF GrantInv, GrantsDisjoint, Conflicts

LEMMA GrantStepInv == ASSUME ClaimsAssumption, ClaimsInv, GrantInv, [ClaimsNext]_claimVars PROVE GrantInv'
<1>1. CASE \E l \in Lanes : BeginGrant(l)
  BY <1>1, BeginGrantKeeps
<1>2. CASE CreateGrant
  BY <1>2, CreateGrantKeeps
<1>3. CASE \E p \in Paths : EndGrant(p)
  BY <1>3, EndGrantKeeps
<1>4. ASSUME NEW l \in Lanes, BeginClaim(l) \/ CreateClaim(l) \/ EndClaim(l) \/ BeginRelease(l) \/ RemoveOne(l)
      PROVE  GrantInv'
  BY <1>4, GrantStays DEF BeginClaim, CreateClaim, EndClaim, BeginRelease, RemoveOne
<1>5. ASSUME NEW p \in Paths, ReleaseAny(p) PROVE GrantInv'
  BY <1>5, GrantStays DEF ReleaseAny
<1>6. CASE UNCHANGED claimVars
  BY <1>6, GrantStays DEF claimVars
<1> QED
  BY <1>1, <1>2, <1>3, <1>4, <1>5, <1>6 DEF ClaimsNext

-----------------------------------------------------------------------------
\* A lane holds between its calls exactly what it was told it holds, and no path is under the grants of two lanes, for any
\* lanes, paths and calls that interleave record by record (createAll, releasePaths, grantPaths).
THEOREM LanesHoldTheirOwn == ASSUME ClaimsAssumption PROVE ClaimsSpec => []ClaimsAreOwn
<1>1. ClaimsInit => ClaimsInv /\ GrantInv
  <2>1. ClaimsInit => GrantInv
    BY DEF ClaimsInit, GrantInv, GrantsDisjoint
  <2> QED
    BY <2>1, ClaimsInitInv
<1>2. ClaimsInv /\ GrantInv /\ [ClaimsNext]_claimVars => (ClaimsInv /\ GrantInv)'
  BY ClaimsStepInv, GrantStepInv
<1>3. ClaimsInv /\ GrantInv => ClaimsAreOwn
  BY DEF ClaimsInv, GrantInv, HeldBy, HoldsWhatWasTold, ClaimsAreOwn
<1> QED
  BY <1>1, <1>2, <1>3, PTL DEF ClaimsSpec

-----------------------------------------------------------------------------
(* The run lease *)

Entries == [pid : Wrappers, at : Nat, beat : Nat, child : {Nothing}, since : Nat]
HoldPhases == {"holding", "beating hold"}
RunPhases == {"starting", "recording", "rewriting own", "running", "beating run"}
JoinPhases == {"joining", "rewriting hold", "starting under hold", "under hold"}
QueuePhases == {"queueing", "queueing again"}
WaitPhases == {"waiting", "judged", "beating entry"}
Phases == {"idle"} \cup QueuePhases \cup WaitPhases \cup JoinPhases \cup RunPhases \cup HoldPhases \cup Gone
Places == [phase : Phases, at : Nat \cup {Nothing}, position : Nat \cup {Nothing}, judged : Leases \cup {Nothing},
           stale : BOOLEAN, hold : Acquirers \cup {Nothing}]

\* No time a wrapper took is to come, and one that judged its turn took one.
TimeOk(p) ==
    /\ wrapper[p].at # Nothing => wrapper[p].at <= now
    /\ Phase(p) = "judged" => wrapper[p].at # Nothing

LeaseTypeInv ==
    /\ now \in Nat
    /\ lease \in Leases \cup {Nothing}
    /\ lease # Nothing => lease.beat <= now
    /\ queue \subseteq Entries /\ IsFiniteSet(queue)
    /\ \A e \in queue : e.beat <= now /\ e.since <= now
    /\ wrapper \in [Wrappers -> Places]
    /\ \A p \in Wrappers : TimeOk(p)
    /\ run \in [Wrappers -> {"none", "live", "ended"}]

\* Who holds by hand starts no run, and a wrapper's run starts where its phase says.
RunOk(p) ==
    /\ p \in Acquirers => Phase(p) \notin JoinPhases \cup RunPhases
    /\ p \notin Acquirers => Phase(p) \notin HoldPhases
    /\ run[p] # "none" =>
          p \notin Acquirers /\ Phase(p) \in {"recording", "rewriting own", "running", "beating run", "under hold"} \cup Gone
    /\ Phase(p) \in {"recording", "rewriting own"} => run[p] # "none"
    /\ Phase(p) \in {"joining", "rewriting hold"} => wrapper[p].hold # Nothing /\ LaneOf[wrapper[p].hold] = LaneOf[p]

RunsInv == \A p \in Wrappers : RunOk(p)

\* A recorded run has started when it is the holder's own, and is a joined wrapper's when the holder holds by hand.
ChildOf(r) ==
    r.child # Nothing =>
        /\ r.child.kind = "run" => r.child.of = r.pid /\ run[r.pid] # "none"
        /\ r.child.kind = "wrapper" => r.pid \in Acquirers

\* The holder no longer waits, and holds by hand or with a run.
OwnerPhases == RunPhases \cup HoldPhases \cup Gone

OwnerInv ==
    lease # Nothing =>
        /\ Phase(lease.pid) \in OwnerPhases
        /\ lease.hold <=> lease.pid \in Acquirers
        /\ ChildOf(lease)

\* One wrapper at a time rewrites the record, of the lease it holds or of the hold it joins.
RewritingOk(p) ==
    Phase(p) \in Rewriting =>
        /\ lease # Nothing
        /\ Phase(p) = "rewriting own" => lease.pid = p
        /\ Phase(p) = "rewriting hold" => lease.pid = wrapper[p].hold

RewritingInv ==
    /\ \A p \in Wrappers : RewritingOk(p)
    /\ \A p, q \in Wrappers : Phase(p) \in Rewriting /\ Phase(q) \in Rewriting => p = q

\* The lease speaks for a wrapper whose run it does not name yet, for a run it names, or for who joined its hold.
Joined(p) == lease.child = RunIs("wrapper", p) /\ LaneOf[lease.pid] = LaneOf[p]

SpokenFor(p) ==
    /\ lease # Nothing
    /\ \/ lease.pid = p /\ IsRunning(p) /\ lease.child = Nothing /\ now - lease.beat <= StaleAfter
       \/ lease.pid = p /\ run[p] = "live" /\ lease.child = RunIs("run", p) /\ now - lease.beat <= OrphanLimit
       \/ Phase(p) \in {"starting under hold", "under hold"} /\ Joined(p) /\ now - lease.beat <= OrphanLimit

\* The wrappers that have a run, or start one.
Runs(p) == run[p] = "live" \/ Phase(p) \in {"starting", "starting under hold"}

SpokenInv == \A p \in Wrappers : Runs(p) => p \in excused \/ SpokenFor(p)

\* A record judged stale is stale for good.
JudgedInv ==
    \A p \in Wrappers :
        wrapper[p].judged # Nothing => ChildOf(wrapper[p].judged) /\ (wrapper[p].stale => IsStale(wrapper[p].judged, now))

\* One who waits and kept its heartbeat has a live entry.
HeartInv ==
    /\ \A e \in queue : e.pid \notin lapsed /\ Phase(e.pid) \in WaitPhases => now - e.beat <= StaleAfter
    /\ PlaceKept

\* The head of the queue joined no later than the others, or was there before them.
HeadInv ==
    \A p \in Wrappers : Phase(p) = "judged" /\ wrapper[p].position = 0 =>
        \A e, own \in queue : own.pid = p => own.at <= e.at \/ own.since <= e.since

LeaseInv ==
    LeaseTypeInv /\ RunsInv /\ OwnerInv /\ RewritingInv /\ SpokenInv /\ JudgedInv /\ HeartInv /\ HeadInv

-----------------------------------------------------------------------------
(* Lemmas on the lease *)

RunTypes == [Wrappers -> {"none", "live", "ended"}]

LEMMA NothingApart ==
    LeaseAssumption => /\ Nothing \notin Nat /\ Nothing \notin Children /\ Nothing \notin Leases
                       /\ \A p \in Wrappers : p # Nothing /\ p \in Nat
                       /\ StaleAfter \in Nat /\ OrphanLimit \in Nat /\ StaleAfter < OrphanLimit
  BY DEF LeaseAssumption

\* The record of a run or of a joined wrapper is no other's.
LEMMA NamedApart ==
    ASSUME LeaseAssumption, NEW kind \in {"run", "wrapper"}, NEW p \in Wrappers
    PROVE  RunIs(kind, p) \in Children /\ RunIs(kind, p) # Nothing /\ RunIs(kind, p).kind = kind /\ RunIs(kind, p).of = p
  BY NothingApart DEF RunIs, Children

\* The record's parts are of their types.
LEMMA LeaseParts ==
    ASSUME LeaseTypeInv, lease # Nothing
    PROVE  lease \in Leases /\ lease.pid \in Wrappers /\ lease.beat \in Nat /\ lease.beat <= now /\ now \in Nat
           /\ lease.child \in Children \cup {Nothing} /\ lease.hold \in BOOLEAN
  BY DEF LeaseTypeInv, Leases

\* No one else moves, and the places stay of their type.
OnlyMoves(p) ==
    /\ wrapper' \in [Wrappers -> Places]
    /\ \A q \in Wrappers : q # p => wrapper'[q] = wrapper[q] /\ Phase(q)' = Phase(q)

\* A step of one wrapper leaves the runs of the others where they were.
LEMMA RunsStay ==
    ASSUME RunsInv, NEW p \in Wrappers, OnlyMoves(p), RunOk(p)', run' = run \/ \A q \in Wrappers : q # p => run'[q] = run[q]
    PROVE  RunsInv'
<1> SUFFICES ASSUME NEW q \in Wrappers PROVE RunOk(q)'
  BY DEF RunsInv
<1>1. CASE q = p
  BY <1>1
<1>2. CASE q # p
  <2>1. wrapper'[q] = wrapper[q] /\ Phase(q)' = Phase(q) /\ run'[q] = run[q] /\ RunOk(q)
    BY <1>2 DEF RunsInv, OnlyMoves
  <2> QED
    BY <2>1 DEF RunOk
<1> QED
  BY <1>1, <1>2

\* What a wrapper's move changes.
LEMMA MovesTo ==
    ASSUME wrapper \in [Wrappers -> Places], NEW p \in Wrappers, NEW phase \in Phases, Moves(p, phase)
    PROVE  /\ OnlyMoves(p) /\ Phase(p)' = phase
           /\ wrapper'[p].at = Nothing /\ wrapper'[p].judged = Nothing
<1> DEFINE place == [AtStart EXCEPT !.phase = phase]
<1>1. place \in Places /\ place.phase = phase /\ place.at = Nothing /\ place.judged = Nothing
  BY DEF Places, AtStart
<1>2. wrapper' = [wrapper EXCEPT ![p] = place]
  BY DEF Moves
<1> HIDE DEF place
<1> QED
  BY <1>1, <1>2 DEF Phase, OnlyMoves

\* What a wrapper's next phase changes, when it keeps what it judged or joined.
LEMMA GoesOn ==
    ASSUME wrapper \in [Wrappers -> Places], NEW p \in Wrappers, NEW phase \in Phases,
           wrapper' = [wrapper EXCEPT ![p].phase = phase]
    PROVE  /\ OnlyMoves(p) /\ Phase(p)' = phase
           /\ wrapper'[p].at = wrapper[p].at /\ wrapper'[p].hold = wrapper[p].hold
           /\ wrapper'[p].judged = wrapper[p].judged /\ wrapper'[p].stale = wrapper[p].stale
<1>1. wrapper[p] \in Places
  OBVIOUS
<1> DEFINE place == [wrapper[p] EXCEPT !.phase = phase]
<1>2. /\ place \in Places /\ place.phase = phase /\ place.at = wrapper[p].at /\ place.hold = wrapper[p].hold
      /\ place.judged = wrapper[p].judged /\ place.stale = wrapper[p].stale
  BY <1>1 DEF Places
<1>3. wrapper' = [wrapper EXCEPT ![p] = place]
  BY <1>1 DEF Places
<1> HIDE DEF place
<1> QED
  BY <1>2, <1>3 DEF Phase, OnlyMoves

\* The time a wrapper goes by is no later than now.
LEMMA TimesBefore ==
    ASSUME LeaseTypeInv, NEW p \in Wrappers, NEW t \in Times(p)
    PROVE  t \in Nat /\ t <= now /\ now \in Nat
<1>1. now \in Nat /\ wrapper[p].at \in Nat \cup {Nothing}
  BY DEF LeaseTypeInv, Places
<1>2. CASE wrapper[p].at = Nothing
  BY <1>1, <1>2 DEF Times
<1>3. CASE wrapper[p].at # Nothing
  <2>1. t \in wrapper[p].at..now /\ wrapper[p].at \in Nat
    BY <1>1, <1>3 DEF Times
  <2> QED
    BY <2>1, <1>1
<1> QED
  BY <1>2, <1>3

\* A record stale at one time is stale at any later one, its processes being as they are.
LEMMA StaleLater ==
    ASSUME LeaseAssumption, NEW r, r.beat \in Nat, NEW t \in Nat, NEW u \in Nat, t <= u, IsStale(r, t) PROVE IsStale(r, u)
<1>1. ~OwnerRuns(r, u)
  BY NothingApart DEF IsStale, OwnerRuns
<1>2. ~RecordedRunRuns(r, u)
  BY NothingApart DEF IsStale, RecordedRunRuns
<1> QED
  BY <1>1, <1>2 DEF IsStale

\* Time goes on, and no process or run that has ended comes back.
PastStep ==
    /\ now <= now'
    /\ \A p \in Wrappers : /\ Phase(p) \in Gone => Phase(p)' \in Gone
                           /\ run[p] = "ended" => run'[p] = "ended"
                           /\ run[p] = "live" => run'[p] \in {"live", "ended"}

\* A record judged stale stays so.
LEMMA StaleStays ==
    ASSUME LeaseAssumption, LeaseTypeInv, now' \in Nat, run' \in RunTypes, PastStep, NEW r \in Leases, ChildOf(r)
    PROVE  ChildOf(r)' /\ (IsStale(r, now) => IsStale(r, now)')
<1>1. r.pid \in Wrappers /\ r.beat \in Nat /\ (r.child # Nothing => r.child.kind \in {"run", "wrapper"} /\ r.child.of \in Wrappers)
  BY DEF Leases, Children
<1>2. ChildOf(r)'
  BY <1>1 DEF ChildOf, PastStep, LeaseTypeInv, RunTypes
<1>3. OwnerRuns(r, now)' => OwnerRuns(r, now)
  BY <1>1, NothingApart DEF OwnerRuns, IsRunning, PastStep, LeaseTypeInv
<1>4. RecordedRunRuns(r, now)' => RecordedRunRuns(r, now)
  <2>1. r.child # Nothing /\ RecordedAlive(r.child)' => RecordedAlive(r.child)
    BY <1>1 DEF RecordedAlive, IsRunning, PastStep, ChildOf, LeaseTypeInv, RunTypes
  <2>2. now' - r.beat <= OrphanLimit => now - r.beat <= OrphanLimit
    BY <1>1, NothingApart DEF PastStep, LeaseTypeInv
  <2> QED
    BY <2>1, <2>2 DEF RecordedRunRuns
<1> QED
  BY <1>2, <1>3, <1>4 DEF IsStale

\* What was judged before the lock stays as it was judged.
JudgedSame(p) == wrapper'[p].judged = wrapper[p].judged /\ wrapper'[p].stale = wrapper[p].stale

LEMMA JudgedStays ==
    ASSUME LeaseAssumption, LeaseTypeInv, JudgedInv, now' \in Nat, run' \in RunTypes, PastStep,
           \A p \in Wrappers : wrapper'[p].judged = Nothing \/ JudgedSame(p)
    PROVE  JudgedInv'
<1> SUFFICES ASSUME NEW p \in Wrappers, wrapper'[p].judged # Nothing
             PROVE  (ChildOf(wrapper[p].judged) /\ (wrapper[p].stale => IsStale(wrapper[p].judged, now)))'
  BY DEF JudgedInv
<1>1. wrapper'[p].judged = wrapper[p].judged /\ wrapper'[p].stale = wrapper[p].stale
  BY DEF JudgedSame
<1>2. PICK r : r = wrapper[p].judged
  OBVIOUS
<1>3. r \in Leases /\ ChildOf(r) /\ (wrapper[p].stale => IsStale(r, now))
  BY <1>1, <1>2 DEF JudgedInv, LeaseTypeInv, Places
<1>4. ChildOf(r)' /\ (IsStale(r, now) => IsStale(r, now)')
  BY <1>3, StaleStays
<1> QED
  BY <1>1, <1>2, <1>3, <1>4 DEF ChildOf, IsStale, OwnerRuns, RecordedRunRuns, RecordedAlive, IsRunning, Phase

\* A step that leaves the entries of those who wait, while no one begins to wait or is judged anew.
LEMMA QueueStays ==
    ASSUME HeartInv, HeadInv, queue' \subseteq queue, queue \subseteq Entries, now' = now, lapsed' = lapsed,
           \A e \in queue : Phase(e.pid)' \in WaitPhases => e \in queue',
           \A p \in Wrappers : /\ Phase(p)' \in WaitPhases => Phase(p) \in WaitPhases
                               /\ Phase(p)' = "judged" => wrapper'[p] = wrapper[p]
    PROVE  HeartInv' /\ HeadInv'
<1>1. ASSUME NEW e \in queue', e.pid \notin lapsed', Phase(e.pid)' \in WaitPhases PROVE now' - e.beat <= StaleAfter
  BY <1>1 DEF HeartInv, Entries
<1>2. PlaceKept'
  BY DEF HeartInv, PlaceKept, WaitPhases
<1>3. ASSUME NEW p \in Wrappers, Phase(p)' = "judged", wrapper'[p].position = 0,
             NEW e \in queue', NEW own \in queue', own.pid = p
      PROVE  own.at <= e.at \/ own.since <= e.since
  <2>1. wrapper'[p] = wrapper[p] /\ e \in queue /\ own \in queue
    BY <1>3
  <2> QED
    BY <1>3, <2>1 DEF HeadInv, Phase
<1> QED
  BY <1>1, <1>2, <1>3 DEF HeartInv, HeadInv

\* A wrapper the lease speaks for, and that goes on as it was or by a phase the lease speaks for too, is spoken for.
LEMMA SpokenSame ==
    ASSUME NEW p \in Wrappers, SpokenFor(p), UNCHANGED <<now, lease>>, run'[p] = run[p], IsRunning(p) => IsRunning(p)',
           Phase(p) \in {"starting under hold", "under hold"} => Phase(p)' \in {"starting under hold", "under hold"}
    PROVE  SpokenFor(p)'
<1>1. Joined(p)' = Joined(p)
  BY DEF Joined
<1> QED
  BY <1>1 DEF SpokenFor

\* A lease that speaks for someone is not stale.
LEMMA SpokenIsLive ==
    ASSUME LeaseAssumption, LeaseTypeInv, NEW p \in Wrappers, SpokenFor(p)
    PROVE  lease # Nothing /\ ~IsStale(lease, now)
<1>1. lease # Nothing
  BY DEF SpokenFor
<1>2. CASE lease.pid = p /\ IsRunning(p) /\ now - lease.beat <= StaleAfter
  BY <1>1, <1>2 DEF IsStale, OwnerRuns
<1>3. CASE run[p] = "live" /\ lease.child = RunIs("run", p) /\ now - lease.beat <= OrphanLimit
  BY <1>1, <1>3, NamedApart DEF IsStale, RecordedRunRuns, RecordedAlive
<1>4. CASE Phase(p) \in {"starting under hold", "under hold"} /\ Joined(p) /\ now - lease.beat <= OrphanLimit
  <2>1. RecordedAlive(lease.child) /\ lease.child # Nothing
    BY <1>4, NamedApart DEF RecordedAlive, IsRunning, Gone, Joined
  <2> QED
    BY <1>1, <1>4, <2>1 DEF IsStale, RecordedRunRuns
<1> QED
  BY <1>1, <1>2, <1>3, <1>4 DEF SpokenFor

\* Whom the lease speaks for as its holder has no hold by hand.
LEMMA RunnerHoldsNoneByHand ==
    ASSUME RunsInv, NEW p \in Wrappers, Runs(p) PROVE p \notin Acquirers
  BY DEF RunsInv, RunOk, Runs, RunPhases, JoinPhases

\* A lease that no other has joined, or that is no hold by hand, speaks for its owner alone.
LEMMA OwnerAlone ==
    ASSUME LeaseAssumption, LeaseInv, NEW q \in Wrappers, lease # Nothing => lease.pid \notin Acquirers /\ lease.pid # q
    PROVE  ~SpokenFor(q)
<1> SUFFICES ASSUME lease # Nothing, Joined(q) PROVE FALSE
  BY DEF SpokenFor
<1>1. lease.child = RunIs("wrapper", q) /\ ChildOf(lease)
  BY DEF LeaseInv, OwnerInv, Joined
<1> QED
  BY <1>1, NamedApart DEF ChildOf

\* A hold by hand speaks for none that runs but who joined it.
LEMMA HoldAlone ==
    ASSUME LeaseAssumption, LeaseInv, NEW q \in Wrappers, Runs(q), SpokenFor(q), lease.pid \in Acquirers
    PROVE  Joined(q) /\ q \in NamedRun(lease)
<1>1. Joined(q) /\ lease # Nothing
  BY RunnerHoldsNoneByHand DEF SpokenFor, LeaseInv
<1> QED
  BY <1>1, NamedApart DEF NamedRun, Joined

\* Two wrappers the lease speaks for are of one hold.
LEMMA SpokenTogether ==
    ASSUME LeaseAssumption, LeaseInv, NEW p \in Wrappers, NEW q \in Wrappers, p # q,
           SpokenFor(p), SpokenFor(q), Runs(p), Runs(q)
    PROVE  SameHold(p, q)
<1>1. lease # Nothing /\ lease.pid \in Wrappers
  BY LeaseParts DEF SpokenFor, LeaseInv
<1>2. CASE lease.pid \notin Acquirers
  <2>1. lease.pid = p /\ lease.pid = q
    BY <1>2, OwnerAlone
  <2> QED
    BY <2>1
<1>3. CASE lease.pid \in Acquirers
  <2>1. Joined(p) /\ Joined(q)
    BY <1>3, HoldAlone
  <2> QED
    BY <2>1, NamedApart DEF Joined
<1> QED
  BY <1>2, <1>3

\* Whom the lease spoke for it speaks for once its beat is another, unless it has gone too old to.
LEMMA SpokenUnless ==
    ASSUME LeaseAssumption, LeaseInv, NEW q \in Wrappers, Runs(q), SpokenFor(q), NEW l, NEW t \in Nat, l.beat \in Nat,
           l # Nothing, l.pid = lease.pid, l.child = lease.child, l.hold = lease.hold, q \notin Unspoken(l, t)
    PROVE  /\ lease.pid = q /\ lease.child = Nothing => t - l.beat <= StaleAfter
           /\ lease.child # Nothing => t - l.beat <= OrphanLimit
<1>1. q \notin Acquirers /\ lease # Nothing
  BY RunnerHoldsNoneByHand DEF LeaseInv, SpokenFor
<1>2. ASSUME lease.pid = q, lease.child = Nothing PROVE t - l.beat <= StaleAfter
  <2>1. ~l.hold
    BY <1>1, <1>2 DEF LeaseInv, OwnerInv
  <2>2. ~(t - l.beat > StaleAfter)
    BY <1>2, <2>1 DEF Unspoken
  <2> QED
    BY <2>2, NothingApart
<1>3. ASSUME lease.child # Nothing PROVE t - l.beat <= OrphanLimit
  <2>1. lease.child.of = q
    BY <1>3, NamedApart DEF SpokenFor, Joined
  <2>2. ~(t - l.beat > OrphanLimit)
    BY <1>3, <2>1 DEF Unspoken
  <2> QED
    BY <2>2, NothingApart
<1> QED
  BY <1>2, <1>3

-----------------------------------------------------------------------------
(* The steps of the lease *)

RunsGoOn ==
    \A q \in Wrappers : (run[q] = "ended" => run'[q] = "ended") /\ (run[q] = "live" => run'[q] \in {"live", "ended"})

\* The queue stays one of entries of the past.
QueueOk == queue' \subseteq Entries /\ IsFiniteSet(queue') /\ \A e \in queue' : e.beat <= now' /\ e.since <= now'

\* What a step shares with the others in which one wrapper moves and nobody begins to wait.
LEMMA MoveShares ==
    ASSUME LeaseAssumption, LeaseInv, NEW p \in Wrappers, OnlyMoves(p), wrapper'[p].judged = Nothing \/ JudgedSame(p),
           Phase(p)' \in WaitPhases =>
              Phase(p) \in WaitPhases /\ queue' = queue /\ (Phase(p)' = "judged" => wrapper'[p] = wrapper[p]),
           Phase(p) \in Gone => Phase(p)' \in Gone,
           now' = now, lapsed' = lapsed, queue' \subseteq queue, (\A e \in queue : e.pid # p => e \in queue'),
           run' \in RunTypes, RunsGoOn
    PROVE  JudgedInv' /\ HeartInv' /\ HeadInv' /\ QueueOk
<1>1. \A q \in Wrappers : q # p => wrapper'[q] = wrapper[q] /\ Phase(q)' = Phase(q)
  BY DEF OnlyMoves
<1>2. now' \in Nat /\ now <= now'
  BY DEF LeaseInv, LeaseTypeInv
<1>3. PastStep
  BY <1>1, <1>2 DEF PastStep, RunsGoOn
<1>4. JudgedInv'
  <2>1. \A q \in Wrappers : wrapper'[q].judged = Nothing \/ JudgedSame(q)
    BY <1>1 DEF JudgedSame
  <2>2. LeaseTypeInv /\ JudgedInv
    BY DEF LeaseInv
  <2> QED
    BY <2>1, <2>2, <1>2, <1>3, JudgedStays
<1>5. \A q \in Wrappers : /\ Phase(q)' \in WaitPhases => Phase(q) \in WaitPhases
                          /\ Phase(q)' = "judged" => wrapper'[q] = wrapper[q]
  BY <1>1 DEF WaitPhases
<1>6. HeartInv' /\ HeadInv'
  <2>1. \A e \in queue : Phase(e.pid)' \in WaitPhases => e \in queue'
    OBVIOUS
  <2>2. HeartInv /\ HeadInv /\ queue \subseteq Entries
    BY DEF LeaseInv, LeaseTypeInv
  <2> QED
    BY <2>1, <2>2, <1>5, QueueStays
<1>7. IsFiniteSet(queue')
  BY FS_Subset DEF LeaseInv, LeaseTypeInv
<1>8. QueueOk
  BY <1>7 DEF QueueOk, LeaseInv, LeaseTypeInv
<1> QED
  BY <1>4, <1>6, <1>8

\* The same of a step in which no wrapper moves.
LEMMA StillShares ==
    ASSUME LeaseAssumption, LeaseInv, UNCHANGED <<now, queue, wrapper, lapsed>>, run' \in RunTypes, RunsGoOn
    PROVE  JudgedInv' /\ HeartInv' /\ HeadInv'
<1>1. now' \in Nat /\ PastStep
  BY DEF LeaseInv, LeaseTypeInv, PastStep, RunsGoOn, Phase
<1>2. JudgedInv'
  BY <1>1, JudgedStays DEF LeaseInv, JudgedSame
<1>3. HeartInv' /\ HeadInv'
  BY QueueStays DEF LeaseInv, LeaseTypeInv, Phase
<1> QED
  BY <1>2, <1>3

\* The types after a step that takes no time.
LEMMA TypesStay ==
    ASSUME LeaseInv, NEW p \in Wrappers, OnlyMoves(p), TimeOk(p)', QueueOk, now' = now, run' \in RunTypes,
           lease' = lease \/ lease' = Nothing \/ (lease' \in Leases /\ lease'.beat <= now)
    PROVE  LeaseTypeInv'
<1>1. \A q \in Wrappers : TimeOk(q)'
  <2> SUFFICES ASSUME NEW q \in Wrappers, q # p PROVE TimeOk(q)'
    OBVIOUS
  <2>1. wrapper'[q] = wrapper[q] /\ Phase(q)' = Phase(q) /\ TimeOk(q)
    BY DEF OnlyMoves, LeaseInv, LeaseTypeInv
  <2> QED
    BY <2>1 DEF TimeOk
<1>2. now' \in Nat
  BY DEF LeaseInv, LeaseTypeInv
<1>3. lease' \in Leases \cup {Nothing} /\ (lease' # Nothing => lease'.beat <= now')
  BY DEF LeaseInv, LeaseTypeInv
<1> QED
  BY <1>1, <1>2, <1>3 DEF LeaseTypeInv, OnlyMoves, QueueOk, RunTypes

\* A lease left alone, or only stamped or rewritten, keeps its owner, whatever other wrappers do.
LEMMA OwnerStays ==
    ASSUME LeaseInv, lease' = Nothing \/ (lease # Nothing /\ lease'.pid = lease.pid /\ lease'.hold = lease.hold
                                          /\ lease'.child = lease.child),
           \A q \in Wrappers : (Phase(q) \in OwnerPhases => Phase(q)' \in OwnerPhases) /\ (run[q] # "none" => run'[q] # "none")
    PROVE  OwnerInv'
<1> SUFFICES ASSUME lease' # Nothing PROVE OwnerInv'
  BY DEF OwnerInv
<1>1. lease.pid \in Wrappers /\ lease'.pid = lease.pid /\ lease'.hold = lease.hold /\ lease'.child = lease.child
  BY LeaseParts DEF LeaseInv
<1>2. Phase(lease.pid)' \in OwnerPhases /\ (lease.hold <=> lease.pid \in Acquirers) /\ ChildOf(lease)
  BY <1>1 DEF LeaseInv, OwnerInv
<1>3. \A q \in Wrappers : q = lease'.pid => Phase(q)' \in OwnerPhases
  BY <1>1, <1>2
<1> QED
  BY <1>1, <1>2, <1>3 DEF OwnerInv, ChildOf

\* Who rewrites the record goes on to while another moves, which leaves the record to its holder.
LEMMA RewritingStays ==
    ASSUME LeaseInv, NEW p \in Wrappers, OnlyMoves(p), Phase(p)' \notin Rewriting,
           \/ \A q \in Wrappers : q # p => Phase(q) \notin Rewriting
           \/ lease' = lease
           \/ lease' # Nothing /\ lease'.pid = lease.pid
    PROVE  RewritingInv'
<1>1. \A q \in Wrappers : Phase(q)' \in Rewriting => q # p /\ Phase(q)' = Phase(q) /\ wrapper'[q] = wrapper[q]
  BY DEF OnlyMoves
<1>2. \A q \in Wrappers : RewritingOk(q)'
  <2> SUFFICES ASSUME NEW q \in Wrappers, Phase(q)' \in Rewriting PROVE RewritingOk(q)'
    BY DEF RewritingOk
  <2>1. Phase(q)' = Phase(q) /\ wrapper'[q] = wrapper[q] /\ RewritingOk(q)
    BY <1>1 DEF LeaseInv, RewritingInv
  <2>2. lease' = lease \/ (lease' # Nothing /\ lease'.pid = lease.pid)
    BY <1>1, <2>1
  <2> QED
    BY <2>1, <2>2 DEF RewritingOk
<1> QED
  BY <1>1, <1>2 DEF LeaseInv, RewritingInv

\* Who begins to rewrite the record finds the lock free.
LEMMA RewritingBegins ==
    ASSUME LeaseInv, NEW p \in Wrappers, OnlyMoves(p), LockFree, RewritingOk(p)'
    PROVE  RewritingInv'
<1>1. \A q \in Wrappers : Phase(q)' \in Rewriting => q = p
  BY DEF OnlyMoves, LockFree
<1>2. \A q \in Wrappers : RewritingOk(q)'
  BY <1>1 DEF RewritingOk
<1> QED
  BY <1>1, <1>2 DEF RewritingInv

\* While one rewrites the record none else does.
LEMMA RewriterAlone ==
    ASSUME LeaseInv, NEW p \in Wrappers, Phase(p) \in Rewriting
    PROVE  /\ \A q \in Wrappers : q # p => Phase(q) \notin Rewriting
           /\ lease # Nothing
           /\ Phase(p) = "rewriting own" => lease.pid = p /\ p \notin Acquirers
           /\ Phase(p) = "rewriting hold" =>
                 lease.pid \in Acquirers /\ lease.pid # p /\ p \notin Acquirers /\ LaneOf[lease.pid] = LaneOf[p]
<1>1. lease # Nothing /\ RewritingOk(p) /\ RunOk(p) /\ \A q \in Wrappers : q # p => Phase(q) \notin Rewriting
  BY DEF LeaseInv, RewritingInv, RewritingOk, RunsInv
<1>2. p \notin Acquirers
  BY <1>1 DEF RunOk, RunPhases, JoinPhases, Rewriting
<1>3. wrapper[p].hold \in Acquirers \cup {Nothing}
  BY DEF LeaseInv, LeaseTypeInv, Places
<1> QED
  BY <1>1, <1>2, <1>3 DEF RewritingOk, RunOk

\* A run starts where the lease speaks for its wrapper, or the wrapper is excused.
LEMMA StartKeeps == ASSUME LeaseAssumption, LeaseInv, NEW p \in Wrappers, Start(p) PROVE LeaseInv'
<1>1. /\ Phase(p) \in {"starting", "starting under hold"}
      /\ UNCHANGED <<now, lease, queue, paused, budget, lapsed, excused>>
  BY DEF Start
<1>2. PICK phase \in {"recording", "running", "under hold"} :
          /\ Moves(p, phase)
          /\ Phase(p) = "starting" <=> phase # "under hold"
          /\ \/ run' = [run EXCEPT ![p] = "live"] /\ phase # "running"
             \/ run' = [run EXCEPT ![p] = "ended"] /\ phase # "recording"
  BY DEF Start
<1>3. run[p] = "none" /\ run' \in RunTypes /\ RunsGoOn /\ run'[p] # "none" /\ \A q \in Wrappers : q # p => run'[q] = run[q]
  BY <1>1, <1>2 DEF LeaseInv, LeaseTypeInv, RunsInv, RunOk, Gone, RunTypes, RunsGoOn
<1>4. phase \in Phases /\ phase \notin WaitPhases \cup HoldPhases \cup Rewriting
  BY DEF Phases, WaitPhases, RunPhases, JoinPhases, HoldPhases, Rewriting
<1>5. OnlyMoves(p) /\ Phase(p)' = phase /\ wrapper'[p].at = Nothing /\ wrapper'[p].judged = Nothing
  BY <1>2, <1>4, MovesTo DEF LeaseInv, LeaseTypeInv
<1>6. JudgedInv' /\ HeartInv' /\ HeadInv' /\ QueueOk
  <2>1. Phase(p) \notin Gone /\ lapsed' = lapsed /\ queue' = queue /\ now' = now
    BY <1>1 DEF Gone
  <2> QED
    BY <2>1, <1>3, <1>4, <1>5, MoveShares
<1>7. LeaseTypeInv'
  <2>1. now' = now /\ lease' = lease
    BY <1>1
  <2>2. TimeOk(p)'
    BY <1>4, <1>5 DEF TimeOk, WaitPhases
  <2> QED
    BY <2>1, <2>2, <1>3, <1>5, <1>6, TypesStay
<1>8. RunsInv'
  <2>1. p \notin Acquirers
    BY <1>1 DEF LeaseInv, RunsInv, RunOk, RunPhases, JoinPhases
  <2>2. RunOk(p)'
    BY <2>1, <1>3, <1>4, <1>5 DEF RunOk
  <2> QED
    BY <2>2, <1>3, <1>5, RunsStay DEF LeaseInv
<1>9. OwnerInv'
  <2>1. \A q \in Wrappers : Phase(q) \in OwnerPhases => Phase(q)' \in OwnerPhases
    BY <1>1, <1>2, <1>5 DEF OnlyMoves, OwnerPhases, RunPhases, HoldPhases, Gone
  <2>2. \A q \in Wrappers : run[q] # "none" => run'[q] # "none"
    BY <1>3
  <2> QED
    BY <2>1, <2>2, <1>1, OwnerStays
<1>10. RewritingInv'
  BY <1>1, <1>4, <1>5, RewritingStays
<1>11. ASSUME NEW q \in Wrappers, Runs(q)' PROVE q \in excused' \/ SpokenFor(q)'
  <2>1. CASE q # p
    <3>1. run'[q] = run[q] /\ Phase(q)' = Phase(q) /\ Runs(q)
      BY <2>1, <1>3, <1>5, <1>11 DEF OnlyMoves, Runs
    <3> QED
      BY <3>1, <1>1, SpokenSame DEF LeaseInv, SpokenInv, IsRunning
  <2>2. CASE q = p
    <3>1. p \in excused \/ SpokenFor(p)
      BY <1>1 DEF LeaseInv, SpokenInv, Runs
    <3>2. SpokenFor(p) => SpokenFor(p)'
      <4>1. Joined(p)' = Joined(p) /\ lease' = lease /\ now' = now /\ run[p] # "live"
        BY <1>1, <1>3 DEF Joined
      <4>2. IsRunning(p)' /\ (Phase(p) = "starting under hold" => Phase(p)' = "under hold") /\ Phase(p) # "under hold"
        BY <1>1, <1>2, <1>5 DEF IsRunning, Gone
      <4> QED
        BY <4>1, <4>2 DEF SpokenFor
    <3> QED
      BY <2>2, <3>1, <3>2, <1>1
  <2> QED
    BY <2>1, <2>2
<1> QED
  BY <1>6, <1>7, <1>8, <1>9, <1>10, <1>11 DEF LeaseInv, SpokenInv

\* The record is about to be rewritten by the wrapper that still holds the lease, or is not.
LEMMA RecordKeeps == ASSUME LeaseAssumption, LeaseInv, NEW p \in Wrappers, Record(p) PROVE LeaseInv'
<1>1. Phase(p) = "recording" /\ LockFree /\ UNCHANGED <<now, lease, queue, run, paused, budget, lapsed, excused>>
  BY DEF Record
<1>2. run' \in RunTypes /\ RunsGoOn /\ run[p] # "none" /\ p \notin Acquirers
  BY <1>1 DEF LeaseInv, LeaseTypeInv, RunTypes, RunsGoOn, RunsInv, RunOk, RunPhases
<1>3. /\ OnlyMoves(p) /\ Phase(p)' \in {"rewriting own", "running"}
      /\ wrapper'[p].at = Nothing \/ wrapper'[p].at = wrapper[p].at
      /\ wrapper'[p].judged = Nothing \/ JudgedSame(p)
      /\ Phase(p)' = "rewriting own" => lease # Nothing /\ lease.pid = p
  <2>1. wrapper \in [Wrappers -> Places] /\ "rewriting own" \in Phases /\ "running" \in Phases
    BY DEF LeaseInv, LeaseTypeInv, Phases, RunPhases
  <2>2. CASE lease # Nothing /\ lease.pid = p /\ wrapper' = [wrapper EXCEPT ![p].phase = "rewriting own"]
    BY <2>1, <2>2, GoesOn DEF JudgedSame
  <2>3. CASE Moves(p, "running")
    BY <2>1, <2>3, MovesTo
  <2> QED
    BY <2>2, <2>3 DEF Record
<1>4. Phase(p)' \notin WaitPhases \cup HoldPhases \cup JoinPhases \cup Gone /\ Phase(p) \notin Gone /\ Phase(p)' # "judged"
  BY <1>1, <1>3 DEF WaitPhases, HoldPhases, JoinPhases, Gone
<1>5. JudgedInv' /\ HeartInv' /\ HeadInv' /\ QueueOk
  <2>1. lapsed' = lapsed /\ queue' = queue /\ now' = now
    BY <1>1
  <2> QED
    BY <2>1, <1>2, <1>3, <1>4, MoveShares
<1>6. LeaseTypeInv'
  <2>1. TimeOk(p) /\ now' = now /\ lease' = lease
    BY <1>1 DEF LeaseInv, LeaseTypeInv
  <2>2. TimeOk(p)'
    BY <2>1, <1>3, <1>4 DEF TimeOk
  <2> QED
    BY <2>1, <2>2, <1>2, <1>3, <1>5, TypesStay
<1>7. RunsInv'
  <2>1. run' = run
    BY <1>1
  <2>2. RunOk(p)'
    BY <2>1, <1>2, <1>3, <1>4 DEF RunOk
  <2> QED
    BY <2>1, <2>2, <1>3, RunsStay DEF LeaseInv
<1>8. OwnerInv'
  <2>1. \A q \in Wrappers : Phase(q) \in OwnerPhases => Phase(q)' \in OwnerPhases
    BY <1>3 DEF OnlyMoves, OwnerPhases, RunPhases
  <2> QED
    BY <2>1, <1>1, OwnerStays
<1>9. RewritingInv'
  <2>1. RewritingOk(p)'
    BY <1>1, <1>3 DEF RewritingOk, Rewriting
  <2> QED
    BY <2>1, <1>1, <1>3, RewritingBegins
<1>10. ASSUME NEW q \in Wrappers, Runs(q)' PROVE q \in excused' \/ SpokenFor(q)'
  <2>1. Runs(q) /\ run'[q] = run[q] /\ (IsRunning(q) => IsRunning(q)')
    BY <1>1, <1>3, <1>4, <1>10 DEF OnlyMoves, Runs, IsRunning
  <2>2. Phase(q) \in {"starting under hold", "under hold"} => Phase(q)' = Phase(q)
    BY <1>1, <1>3 DEF OnlyMoves
  <2> QED
    BY <2>1, <2>2, <1>1, SpokenSame DEF LeaseInv, SpokenInv
<1> QED
  BY <1>5, <1>6, <1>7, <1>8, <1>9, <1>10 DEF LeaseInv, SpokenInv

\* The record written names the run of the wrapper that holds the lease, or the wrapper that joined the hold; whom it named
\* before, and whom it is too old by now to speak for, is excused.
LEMMA WriteRecordKeeps == ASSUME LeaseAssumption, LeaseInv, NEW p \in Wrappers, WriteRecord(p) PROVE LeaseInv'
<1> DEFINE kind == IF Phase(p) = "rewriting own" THEN "run" ELSE "wrapper"
           child == RunIs(kind, p)
<1>1. PICK t \in Times(p) :
          /\ lease' = [lease EXCEPT !.child = child, !.beat = t]
          /\ excused' = excused \cup (NamedRun(lease) \ {p}) \cup Unspoken(lease', now)
  BY DEF WriteRecord
<1>2. Phase(p) \in Rewriting /\ UNCHANGED <<now, queue, run, paused, budget, lapsed>>
  BY DEF WriteRecord
<1>18. ~(now - t > OrphanLimit) => now - t <= OrphanLimit
  BY TimesBefore, NothingApart DEF LeaseInv
<1>3. PICK phase \in {"running", "recording", "starting under hold"} :
          Moves(p, phase) /\ (Phase(p) = "rewriting own" <=> phase # "starting under hold")
  BY <1>2 DEF WriteRecord, Rewriting
<1>4. kind \in {"run", "wrapper"}
  OBVIOUS
<1>5. child \in Children /\ child # Nothing /\ child.kind = kind /\ child.of = p
  BY <1>4, NamedApart
<1>6. lease # Nothing /\ lease \in Leases /\ lease.pid \in Wrappers /\ t \in Nat /\ t <= now /\ now \in Nat
  BY <1>2, RewriterAlone, LeaseParts, TimesBefore DEF LeaseInv
<1>7. /\ lease' \in Leases /\ lease' # Nothing /\ lease'.pid = lease.pid /\ lease'.hold = lease.hold
      /\ lease'.beat = t /\ lease'.child = child
  <2>1. lease' \in Leases /\ lease'.pid = lease.pid /\ lease'.hold = lease.hold /\ lease'.beat = t /\ lease'.child = child
    BY <1>1, <1>5, <1>6 DEF Leases
  <2> QED
    BY <2>1, NothingApart
<1> HIDE DEF kind, child
<1>8. /\ \A q \in Wrappers : q # p => Phase(q) \notin Rewriting
      /\ p \notin Acquirers
      /\ phase # "starting under hold" => lease.pid = p /\ run[p] # "none" /\ kind = "run"
      /\ phase = "starting under hold" =>
            lease.pid \in Acquirers /\ lease.pid # p /\ LaneOf[lease.pid] = LaneOf[p] /\ run[p] = "none" /\ kind = "wrapper"
  <2>1. Phase(p) = "rewriting own" => run[p] # "none"
    BY DEF LeaseInv, RunsInv, RunOk
  <2>2. Phase(p) = "rewriting hold" => run[p] = "none"
    BY DEF LeaseInv, RunsInv, RunOk, Gone
  <2> QED
    BY <2>1, <2>2, <1>2, <1>3, RewriterAlone DEF Rewriting, kind
<1>9. phase \in Phases /\ phase \notin WaitPhases \cup HoldPhases \cup Rewriting \cup Gone /\ Phase(p) \notin Gone
  BY <1>2 DEF Phases, WaitPhases, RunPhases, JoinPhases, HoldPhases, Rewriting, Gone
<1>10. OnlyMoves(p) /\ Phase(p)' = phase /\ wrapper'[p].at = Nothing /\ wrapper'[p].judged = Nothing
  BY <1>3, <1>9, MovesTo DEF LeaseInv, LeaseTypeInv
<1>11. run' = run /\ run' \in RunTypes /\ RunsGoOn
  BY <1>2 DEF LeaseInv, LeaseTypeInv, RunTypes, RunsGoOn
<1>12. JudgedInv' /\ HeartInv' /\ HeadInv' /\ QueueOk
  <2>1. lapsed' = lapsed /\ queue' = queue /\ now' = now
    BY <1>2
  <2> QED
    BY <2>1, <1>9, <1>10, <1>11, MoveShares
<1>13. LeaseTypeInv'
  <2>1. TimeOk(p)'
    BY <1>9, <1>10 DEF TimeOk, WaitPhases
  <2> QED
    BY <2>1, <1>2, <1>6, <1>7, <1>10, <1>11, <1>12, TypesStay
<1>14. RunsInv'
  <2>1. RunOk(p)'
    BY <1>3, <1>8, <1>9, <1>10, <1>11 DEF RunOk
  <2> QED
    BY <2>1, <1>10, <1>11, RunsStay DEF LeaseInv
<1>15. OwnerInv'
  <2>1. \A q \in Wrappers : Phase(q) \in OwnerPhases => Phase(q)' \in OwnerPhases
    BY <1>2, <1>3, <1>10 DEF OnlyMoves, OwnerPhases, RunPhases, HoldPhases, Gone, Rewriting
  <2>2. Phase(lease.pid) \in OwnerPhases /\ (lease.hold <=> lease.pid \in Acquirers)
    BY <1>6 DEF LeaseInv, OwnerInv
  <2>3. \A q \in Wrappers : q = lease'.pid => Phase(q)' \in OwnerPhases
    BY <2>1, <2>2, <1>7
  <2>4. /\ kind = "run" => lease'.child.of = lease'.pid /\ run'[lease'.pid] # "none"
        /\ kind = "wrapper" => lease'.pid \in Acquirers
    BY <1>5, <1>7, <1>8, <1>11
  <2> QED
    BY <2>2, <2>3, <2>4, <1>5, <1>6, <1>7 DEF OwnerInv, ChildOf
<1>16. RewritingInv'
  BY <1>8, <1>9, <1>10, RewritingStays
<1>17. ASSUME NEW q \in Wrappers, Runs(q)' PROVE q \in excused' \/ SpokenFor(q)'
  <2>1. CASE q = p
    <3>1. CASE now - t > OrphanLimit
      <4>1. p \in Unspoken(lease', now)
        BY <3>1, <1>5, <1>7 DEF Unspoken
      <4> QED
        BY <4>1, <2>1, <1>1
    <3>2. CASE ~(now - t > OrphanLimit)
      <4>1. now' - lease'.beat <= OrphanLimit
        BY <3>2, <1>2, <1>7, <1>18
      <4>2. CASE phase = "starting under hold"
        <5>1. Joined(p)'
          BY <4>2, <1>7, <1>8 DEF Joined, child
        <5> QED
          BY <5>1, <2>1, <4>1, <4>2, <1>7, <1>10 DEF SpokenFor
      <4>3. CASE phase # "starting under hold"
        <5>1. run'[p] = "live"
          BY <2>1, <4>3, <1>3, <1>10, <1>17 DEF Runs
        <5>2. lease'.child = RunIs("run", p) /\ lease'.pid = p
          BY <4>3, <1>7, <1>8 DEF child
        <5> QED
          BY <2>1, <4>1, <5>1, <5>2, <1>7 DEF SpokenFor
      <4> QED
        BY <4>2, <4>3
    <3> QED
      BY <3>1, <3>2
  <2>2. CASE q # p
    <3>1. Runs(q)
      BY <2>2, <1>10, <1>11, <1>17 DEF Runs, OnlyMoves
    <3>2. CASE q \in excused
      BY <3>2, <1>1
    <3>3. CASE SpokenFor(q) /\ lease.pid = p
      BY <2>2, <3>3, <1>8, OwnerAlone
    <3>4. CASE SpokenFor(q) /\ lease.pid \in Acquirers
      <4>1. q \in NamedRun(lease)
        BY <3>1, <3>4, HoldAlone
      <4> QED
        BY <4>1, <2>2, <1>1
    <3> QED
      BY <3>1, <3>2, <3>3, <3>4, <1>8 DEF LeaseInv, SpokenInv
  <2> QED
    BY <2>1, <2>2
<1> QED
  BY <1>12, <1>13, <1>14, <1>15, <1>16, <1>17 DEF LeaseInv, SpokenInv

\* A heartbeat's check under the lock moves its wrapper only.
LEMMA KeepAliveKeeps == ASSUME LeaseAssumption, LeaseInv, NEW p \in Wrappers, KeepAlive(p) PROVE LeaseInv'
<1>1. Phase(p) \in {"running", "holding"} /\ UNCHANGED <<now, lease, queue, run, paused, budget, lapsed, excused>>
  BY DEF KeepAlive
<1>2. PICK phase \in {"beating run", "beating hold", "done"} :
          Moves(p, phase) /\ (Phase(p) = "running" <=> phase = "beating run")
  BY DEF KeepAlive
<1>3. phase \in Phases /\ phase \notin WaitPhases \cup Rewriting /\ Phase(p) \notin Gone
  BY <1>1 DEF Phases, WaitPhases, RunPhases, HoldPhases, Rewriting, Gone
<1>4. OnlyMoves(p) /\ Phase(p)' = phase /\ wrapper'[p].at = Nothing /\ wrapper'[p].judged = Nothing
  BY <1>2, <1>3, MovesTo DEF LeaseInv, LeaseTypeInv
<1>5. run' = run /\ run' \in RunTypes /\ RunsGoOn /\ lapsed' = lapsed /\ queue' = queue /\ now' = now /\ lease' = lease
  BY <1>1 DEF LeaseInv, LeaseTypeInv, RunTypes, RunsGoOn
<1>6. JudgedInv' /\ HeartInv' /\ HeadInv' /\ QueueOk
  BY <1>3, <1>4, <1>5, MoveShares
<1>7. LeaseTypeInv'
  <2>1. TimeOk(p)'
    BY <1>3, <1>4 DEF TimeOk, WaitPhases
  <2> QED
    BY <2>1, <1>4, <1>5, <1>6, TypesStay
<1>8. RunsInv'
  <2>1. RunOk(p)'
    BY <1>1, <1>2, <1>4, <1>5 DEF LeaseInv, RunsInv, RunOk, RunPhases, JoinPhases, HoldPhases, Gone
  <2> QED
    BY <2>1, <1>4, <1>5, RunsStay DEF LeaseInv
<1>9. OwnerInv'
  <2>1. \A q \in Wrappers : Phase(q) \in OwnerPhases => Phase(q)' \in OwnerPhases
    BY <1>4 DEF OnlyMoves, OwnerPhases, RunPhases, HoldPhases, Gone
  <2> QED
    BY <2>1, <1>1, OwnerStays
<1>10. RewritingInv'
  BY <1>3, <1>4, <1>5, RewritingStays
<1>11. ASSUME NEW q \in Wrappers, Runs(q)' PROVE q \in excused' \/ SpokenFor(q)'
  <2>1. Runs(q) /\ run'[q] = run[q] /\ (q = p => run[p] = "live")
    BY <1>2, <1>4, <1>5, <1>11 DEF OnlyMoves, Runs
  <2>2. q = p => phase = "beating run"
    BY <2>1, <1>1, <1>2 DEF LeaseInv, RunsInv, RunOk, HoldPhases, Gone
  <2>3. IsRunning(q) => IsRunning(q)'
    BY <2>2, <1>4 DEF OnlyMoves, IsRunning, Gone
  <2>4. Phase(q) \in {"starting under hold", "under hold"} => Phase(q)' = Phase(q)
    BY <1>1, <1>4 DEF OnlyMoves
  <2> QED
    BY <2>1, <2>3, <2>4, <1>1, SpokenSame DEF LeaseInv, SpokenInv
<1> QED
  BY <1>6, <1>7, <1>8, <1>9, <1>10, <1>11 DEF LeaseInv, SpokenInv

\* A heartbeat stamps whatever lease is there by now; whom a late one leaves too old a record is excused.
LEMMA BeatKeeps == ASSUME LeaseAssumption, LeaseInv, NEW p \in Wrappers, Beat(p) PROVE LeaseInv'
<1>1. Phase(p) \in {"beating run", "beating hold"} /\ UNCHANGED <<now, queue, run, paused, budget, lapsed>>
  BY DEF Beat
<1>2. PICK phase \in {"running", "holding"} : Moves(p, phase) /\ (Phase(p) = "beating run" <=> phase = "running")
  BY DEF Beat
<1>3. PICK t \in Times(p) :
          /\ lease' = IF lease = Nothing THEN Nothing ELSE [lease EXCEPT !.beat = t]
          /\ excused' = excused \cup Unspoken(lease', now)
  BY DEF Beat
<1>4. t \in Nat /\ t <= now /\ now \in Nat
  BY TimesBefore DEF LeaseInv
<1>5. lease # Nothing => /\ lease' \in Leases /\ lease'.beat = t /\ lease'.pid = lease.pid /\ lease'.child = lease.child
                         /\ lease'.hold = lease.hold
  <2>1. lease # Nothing => lease \in Leases /\ lease' = [lease EXCEPT !.beat = t]
    BY <1>3, LeaseParts DEF LeaseInv
  <2> QED
    BY <2>1, <1>4 DEF Leases
<1>6. lease' = Nothing <=> lease = Nothing
  BY <1>3, <1>5, NothingApart
<1>7. phase \in Phases /\ phase \notin WaitPhases \cup Rewriting \cup Gone /\ Phase(p) \notin Gone
  BY <1>1 DEF Phases, WaitPhases, RunPhases, HoldPhases, Rewriting, Gone
<1>8. OnlyMoves(p) /\ Phase(p)' = phase /\ wrapper'[p].at = Nothing /\ wrapper'[p].judged = Nothing
  BY <1>2, <1>7, MovesTo DEF LeaseInv, LeaseTypeInv
<1>9. run' = run /\ run' \in RunTypes /\ RunsGoOn /\ lapsed' = lapsed /\ queue' = queue /\ now' = now
  BY <1>1 DEF LeaseInv, LeaseTypeInv, RunTypes, RunsGoOn
<1>10. JudgedInv' /\ HeartInv' /\ HeadInv' /\ QueueOk
  BY <1>7, <1>8, <1>9, MoveShares
<1>11. LeaseTypeInv'
  <2>1. TimeOk(p)'
    BY <1>7, <1>8 DEF TimeOk, WaitPhases
  <2>2. lease' = Nothing \/ (lease' \in Leases /\ lease'.beat <= now)
    BY <1>4, <1>5, <1>6
  <2> QED
    BY <2>1, <2>2, <1>8, <1>9, <1>10, TypesStay
<1>12. RunsInv'
  <2>1. RunOk(p)'
    BY <1>1, <1>2, <1>8, <1>9 DEF LeaseInv, RunsInv, RunOk, RunPhases, JoinPhases, HoldPhases, Gone
  <2> QED
    BY <2>1, <1>8, <1>9, RunsStay DEF LeaseInv
<1>13. OwnerInv'
  <2>1. \A q \in Wrappers : Phase(q) \in OwnerPhases => Phase(q)' \in OwnerPhases
    BY <1>8 DEF OnlyMoves, OwnerPhases, RunPhases, HoldPhases, Gone
  <2> QED
    BY <2>1, <1>5, <1>6, <1>9, OwnerStays
<1>14. RewritingInv'
  BY <1>5, <1>6, <1>7, <1>8, RewritingStays
<1>15. ASSUME NEW q \in Wrappers, Runs(q)' PROVE q \in excused' \/ SpokenFor(q)'
  <2>1. Runs(q) /\ (q \in excused \/ SpokenFor(q))
    BY <1>2, <1>8, <1>9, <1>15 DEF OnlyMoves, Runs, LeaseInv, SpokenInv
  <2> SUFFICES ASSUME SpokenFor(q), q \notin Unspoken(lease', now) PROVE SpokenFor(q)'
    BY <2>1, <1>3
  <2>2. lease # Nothing
    BY DEF SpokenFor
  <2>3. PICK l : l = lease'
    OBVIOUS
  <2>4. l.beat \in Nat /\ l # Nothing /\ l.pid = lease.pid /\ l.child = lease.child /\ l.hold = lease.hold
    BY <2>2, <2>3, <1>4, <1>5, <1>6
  <2>5. /\ lease.pid = q /\ lease.child = Nothing => now - l.beat <= StaleAfter
        /\ lease.child # Nothing => now - l.beat <= OrphanLimit
    BY <2>1, <2>3, <2>4, <1>4, SpokenUnless
  <2>6. IsRunning(q) => IsRunning(q)'
    BY <1>7, <1>8 DEF OnlyMoves, IsRunning
  <2>7. Phase(q) \in {"starting under hold", "under hold"} => Phase(q)' = Phase(q)
    BY <1>1, <1>8 DEF OnlyMoves
  <2>8. Joined(q) => Joined(q)'
    BY <2>3, <2>4 DEF Joined
  <2>9. lease' # Nothing /\ lease'.pid = lease.pid /\ lease'.child = lease.child /\ lease'.beat = l.beat /\ now' = now
    BY <2>3, <2>4, <1>9
  <2>10. RunIs("run", q) # Nothing /\ RunIs("wrapper", q) # Nothing
    BY NamedApart
  <2> QED
    BY <2>5, <2>6, <2>7, <2>8, <2>9, <2>10, <1>9 DEF SpokenFor, Joined
<1> QED
  BY <1>10, <1>11, <1>12, <1>13, <1>14, <1>15 DEF LeaseInv, SpokenInv

\* A run that ended gives back the lease its wrapper holds, which spoke for no other.
LEMMA FinishKeeps == ASSUME LeaseAssumption, LeaseInv, NEW p \in Wrappers, Finish(p) PROVE LeaseInv'
<1>1. /\ Phase(p) \in {"running", "under hold"} /\ run[p] = "ended" /\ Moves(p, "done")
      /\ UNCHANGED <<now, queue, run, paused, budget, lapsed, excused>>
  BY DEF Finish
<1>2. lease' = lease \/ (lease' = Nothing /\ lease # Nothing /\ lease.pid = p /\ LockFree)
  BY DEF Finish, ReleaseOwn
<1>3. "done" \in Phases /\ "done" \notin WaitPhases \cup Rewriting /\ "done" \in Gone /\ p \notin Acquirers
  BY <1>1 DEF Phases, WaitPhases, Rewriting, Gone, LeaseInv, RunsInv, RunOk, RunPhases, JoinPhases
<1>4. OnlyMoves(p) /\ Phase(p)' = "done" /\ wrapper'[p].at = Nothing /\ wrapper'[p].judged = Nothing
  BY <1>1, <1>3, MovesTo DEF LeaseInv, LeaseTypeInv
<1>5. run' = run /\ run' \in RunTypes /\ RunsGoOn /\ lapsed' = lapsed /\ queue' = queue /\ now' = now
  BY <1>1 DEF LeaseInv, LeaseTypeInv, RunTypes, RunsGoOn
<1>6. JudgedInv' /\ HeartInv' /\ HeadInv' /\ QueueOk
  BY <1>3, <1>4, <1>5, MoveShares
<1>7. LeaseTypeInv'
  <2>1. TimeOk(p)'
    BY <1>4 DEF TimeOk
  <2> QED
    BY <2>1, <1>2, <1>4, <1>5, <1>6, TypesStay
<1>8. RunsInv'
  <2>1. RunOk(p)'
    BY <1>3, <1>4 DEF RunOk, RunPhases, JoinPhases, HoldPhases
  <2> QED
    BY <2>1, <1>4, <1>5, RunsStay DEF LeaseInv
<1>9. OwnerInv'
  <2>1. \A q \in Wrappers : Phase(q) \in OwnerPhases => Phase(q)' \in OwnerPhases
    BY <1>3, <1>4 DEF OnlyMoves, OwnerPhases
  <2> QED
    BY <2>1, <1>2, <1>5, OwnerStays
<1>10. RewritingInv'
  BY <1>2, <1>3, <1>4, RewritingStays DEF LockFree
<1>11. ASSUME NEW q \in Wrappers, Runs(q)' PROVE q \in excused' \/ SpokenFor(q)'
  <2>1. q # p /\ Runs(q) /\ run'[q] = run[q] /\ Phase(q)' = Phase(q) /\ (q \in excused \/ SpokenFor(q))
    BY <1>1, <1>4, <1>5, <1>11 DEF OnlyMoves, Runs, LeaseInv, SpokenInv
  <2>2. CASE lease' = lease
    BY <2>1, <2>2, <1>1, SpokenSame DEF IsRunning
  <2>3. CASE lease.pid = p
    BY <2>1, <2>3, <1>1, <1>3, OwnerAlone
  <2> QED
    BY <2>2, <2>3, <1>2
<1> QED
  BY <1>6, <1>7, <1>8, <1>9, <1>10, <1>11 DEF LeaseInv, SpokenInv

LEMMA RunEndsKeeps == ASSUME LeaseAssumption, LeaseInv, NEW p \in Wrappers, RunEnds(p) PROVE LeaseInv'
<1>1. /\ run[p] = "live" /\ run' = [run EXCEPT ![p] = "ended"]
      /\ UNCHANGED <<now, lease, queue, wrapper, paused, budget, lapsed, excused>>
  BY DEF RunEnds
<1>2. run' \in RunTypes /\ RunsGoOn /\ run'[p] = "ended" /\ \A q \in Wrappers : q # p => run'[q] = run[q]
  BY <1>1 DEF LeaseInv, LeaseTypeInv, RunTypes, RunsGoOn
<1>3. \A q \in Wrappers : Phase(q)' = Phase(q)
  BY <1>1 DEF Phase
<1>4. JudgedInv' /\ HeartInv' /\ HeadInv'
  BY <1>1, <1>2, StillShares
<1>5. LeaseTypeInv'
  BY <1>1, <1>2, <1>3 DEF LeaseInv, LeaseTypeInv, TimeOk, RunTypes
<1>6. RunsInv'
  BY <1>1, <1>2, <1>3 DEF LeaseInv, RunsInv, RunOk
<1>7. OwnerInv'
  BY <1>1, <1>2, <1>3, OwnerStays
<1>8. RewritingInv'
  BY <1>1, <1>3 DEF LeaseInv, RewritingInv, RewritingOk
<1>9. ASSUME NEW q \in Wrappers, Runs(q)' PROVE q \in excused' \/ SpokenFor(q)'
  <2>1. q # p
    BY <1>1, <1>2, <1>3, <1>9 DEF LeaseInv, RunsInv, RunOk, Runs, Gone
  <2> QED
    BY <2>1, <1>1, <1>2, <1>3, <1>9, SpokenSame DEF LeaseInv, SpokenInv, Runs, IsRunning
<1> QED
  BY <1>4, <1>5, <1>6, <1>7, <1>8, <1>9 DEF LeaseInv, SpokenInv

\* A killed wrapper leaves a run the lease names, or is excused, as is the run named by a record it leaves cut short.
LEMMA KillKeeps == ASSUME LeaseAssumption, LeaseInv, NEW p \in Wrappers, Kill(p) PROVE LeaseInv'
<1>1. Phase(p) \notin Gone /\ Moves(p, "killed") /\ UNCHANGED <<now, queue, run, paused, lapsed>>
  BY DEF Kill, IsRunning
<1>2. /\ lease' = IF Phase(p) \in Rewriting THEN Nothing ELSE lease
      /\ excused' = excused \cup {q \in {p} : run[q] = "live" /\ (lease' = Nothing \/ lease'.child # RunIs("run", q))}
                            \cup (IF Phase(p) \in Rewriting THEN NamedRun(lease) ELSE {})
  BY DEF Kill
<1>3. "killed" \in Phases /\ "killed" \notin WaitPhases \cup Rewriting /\ "killed" \in Gone
  BY DEF Phases, WaitPhases, Rewriting, Gone
<1>4. OnlyMoves(p) /\ Phase(p)' = "killed" /\ wrapper'[p].at = Nothing /\ wrapper'[p].judged = Nothing
  BY <1>1, <1>3, MovesTo DEF LeaseInv, LeaseTypeInv
<1>5. run' = run /\ run' \in RunTypes /\ RunsGoOn /\ lapsed' = lapsed /\ queue' = queue /\ now' = now
  BY <1>1 DEF LeaseInv, LeaseTypeInv, RunTypes, RunsGoOn
<1>6. JudgedInv' /\ HeartInv' /\ HeadInv' /\ QueueOk
  BY <1>3, <1>4, <1>5, MoveShares
<1>7. LeaseTypeInv'
  <2>1. TimeOk(p)' /\ (lease' = lease \/ lease' = Nothing)
    BY <1>2, <1>4 DEF TimeOk
  <2> QED
    BY <2>1, <1>4, <1>5, <1>6, TypesStay
<1>8. RunsInv'
  <2>1. RunOk(p)
    BY DEF LeaseInv, RunsInv
  <2>2. RunOk(p)'
    BY <2>1, <1>4, <1>5 DEF RunOk, RunPhases, JoinPhases, HoldPhases, Gone
  <2> QED
    BY <2>2, <1>4, <1>5, RunsStay DEF LeaseInv
<1>9. OwnerInv'
  <2>1. \A q \in Wrappers : Phase(q) \in OwnerPhases => Phase(q)' \in OwnerPhases
    BY <1>3, <1>4 DEF OnlyMoves, OwnerPhases
  <2>2. lease' = Nothing \/ (lease # Nothing /\ lease' = lease)
    BY <1>2
  <2> QED
    BY <2>1, <2>2, <1>5, OwnerStays
<1>10. RewritingInv'
  <2>1. CASE Phase(p) \in Rewriting
    BY <2>1, <1>3, <1>4, RewriterAlone, RewritingStays
  <2>2. CASE Phase(p) \notin Rewriting
    BY <2>2, <1>2, <1>3, <1>4, RewritingStays
  <2> QED
    BY <2>1, <2>2
<1>11. ASSUME NEW q \in Wrappers, Runs(q)' PROVE q \in excused' \/ SpokenFor(q)'
  <2>1. Runs(q) /\ (q \in excused \/ SpokenFor(q))
    BY <1>4, <1>5, <1>11 DEF OnlyMoves, Runs, LeaseInv, SpokenInv
  <2> SUFFICES ASSUME SpokenFor(q), q \notin excused' PROVE SpokenFor(q)'
    BY <2>1, <1>2
  <2>2. CASE Phase(p) \in Rewriting
    <3>1. q # p
      BY <2>2, <1>2, <1>4, <1>5, <1>11 DEF Runs
    <3>2. lease.pid \in Acquirers
      BY <2>2, <3>1, RewriterAlone, OwnerAlone DEF Rewriting
    <3> QED
      BY <2>1, <2>2, <3>2, <1>2, HoldAlone
  <2>3. CASE Phase(p) \notin Rewriting /\ q # p
    <3>1. Phase(q)' = Phase(q) /\ run'[q] = run[q] /\ lease' = lease
      BY <2>3, <1>2, <1>4, <1>5 DEF OnlyMoves
    <3> QED
      BY <3>1, <1>5, SpokenSame DEF IsRunning
  <2>4. CASE Phase(p) \notin Rewriting /\ q = p
    <3>1. run[p] = "live" /\ lease' = lease
      BY <2>4, <1>2, <1>4, <1>5, <1>11 DEF Runs
    <3>2. lease.child = RunIs("run", p) /\ lease # Nothing
      BY <2>4, <3>1, <1>2 DEF SpokenFor
    <3>3. ~Joined(p) /\ RunIs("run", p) # Nothing
      BY <3>2, NamedApart DEF Joined
    <3> QED
      BY <2>4, <3>1, <3>2, <3>3, <1>5 DEF SpokenFor
  <2> QED
    BY <2>2, <2>3, <2>4
<1> QED
  BY <1>6, <1>7, <1>8, <1>9, <1>10, <1>11 DEF LeaseInv, SpokenInv

\* A step that only resumes or does nothing.
LEMMA PauseKeeps ==
    ASSUME LeaseAssumption, LeaseInv, UNCHANGED <<now, lease, queue, wrapper, run, lapsed, excused>> PROVE LeaseInv'
<1>1. run' \in RunTypes /\ RunsGoOn
  BY DEF LeaseInv, LeaseTypeInv, RunTypes, RunsGoOn
<1>2. JudgedInv' /\ HeartInv' /\ HeadInv'
  BY <1>1, StillShares
<1>3. \A q \in Wrappers : Phase(q)' = Phase(q)
  BY DEF Phase
<1>4. LeaseTypeInv' /\ RunsInv' /\ RewritingInv'
  <2>1. LeaseTypeInv'
    BY <1>3 DEF LeaseInv, LeaseTypeInv, TimeOk
  <2>2. RunsInv'
    BY <1>3 DEF LeaseInv, RunsInv, RunOk
  <2>3. RewritingInv'
    BY <1>3 DEF LeaseInv, RewritingInv, RewritingOk
  <2> QED
    BY <2>1, <2>2, <2>3
<1>5. OwnerInv'
  BY <1>3, OwnerStays
<1>6. SpokenInv'
  BY <1>3, SpokenSame DEF LeaseInv, SpokenInv, Runs, IsRunning
<1> QED
  BY <1>2, <1>4, <1>5, <1>6 DEF LeaseInv

\* One suspended goes on from where it was, by the time it had taken.
LEMMA SuspendKeeps == ASSUME LeaseAssumption, LeaseInv, NEW p \in Wrappers, Suspend(p) PROVE LeaseInv'
<1>1. /\ Phase(p) \notin Rewriting /\ UNCHANGED <<now, lease, queue, run, lapsed, excused>>
      /\ \/ wrapper' = wrapper
         \/ wrapper' = [wrapper EXCEPT ![p].at = now] /\ Phase(p) \in Timed
  BY DEF Suspend
<1>2. CASE wrapper' = wrapper
  BY <1>1, <1>2, PauseKeeps
<1>3. CASE wrapper' = [wrapper EXCEPT ![p].at = now] /\ Phase(p) \in Timed
  <2>1. wrapper[p] \in Places /\ wrapper \in [Wrappers -> Places] /\ now \in Nat
    BY DEF LeaseInv, LeaseTypeInv
  <2> DEFINE place == [wrapper[p] EXCEPT !.at = now]
  <2>2. /\ place \in Places /\ place.phase = wrapper[p].phase /\ place.at = now /\ place.hold = wrapper[p].hold
        /\ place.judged = wrapper[p].judged /\ place.stale = wrapper[p].stale
    BY <2>1 DEF Places
  <2>3. wrapper' = [wrapper EXCEPT ![p] = place]
    BY <1>3, <2>1 DEF Places
  <2> HIDE DEF place
  <2>4. /\ OnlyMoves(p) /\ Phase(p)' = Phase(p) /\ wrapper'[p].at = now /\ wrapper'[p].hold = wrapper[p].hold /\ JudgedSame(p)
    BY <2>1, <2>2, <2>3 DEF Phase, OnlyMoves, JudgedSame
  <2>5. \A q \in Wrappers : Phase(q)' = Phase(q)
    BY <2>4 DEF OnlyMoves
  <2>6. Phase(p) # "judged" /\ Phase(p) \notin Rewriting
    BY <1>1, <1>3 DEF Timed
  <2>7. run' = run /\ run' \in RunTypes /\ RunsGoOn /\ lapsed' = lapsed /\ queue' = queue /\ now' = now /\ lease' = lease
    BY <1>1 DEF LeaseInv, LeaseTypeInv, RunTypes, RunsGoOn
  <2>8. JudgedInv' /\ HeartInv' /\ HeadInv' /\ QueueOk
    BY <2>4, <2>6, <2>7, MoveShares
  <2>9. LeaseTypeInv'
    <3>1. now <= now
      BY <2>1
    <3>2. TimeOk(p)'
      BY <3>1, <2>4, <2>6, <2>7 DEF TimeOk
    <3> QED
      BY <3>2, <2>4, <2>7, <2>8, TypesStay
  <2>10. RunsInv'
    <3>1. RunOk(p)
      BY DEF LeaseInv, RunsInv
    <3>2. RunOk(p)'
      BY <3>1, <2>4, <2>7 DEF RunOk
    <3> QED
      BY <3>2, <2>4, <2>7, RunsStay DEF LeaseInv
  <2>11. OwnerInv'
    BY <2>5, <2>7, OwnerStays
  <2>12. RewritingInv'
    BY <2>4, <2>6, <2>7, RewritingStays
  <2>13. SpokenInv'
    BY <1>1, <2>5, <2>7, SpokenSame DEF LeaseInv, SpokenInv, Runs, IsRunning
  <2> QED
    BY <2>8, <2>9, <2>10, <2>11, <2>12, <2>13 DEF LeaseInv
<1> QED
  BY <1>1, <1>2, <1>3

\* Whoever a released lease spoke for is excused.
LEMMA ReleaseLaneKeeps == ASSUME LeaseAssumption, LeaseInv, NEW lane, ReleaseLane(lane) PROVE LeaseInv'
<1>1. /\ lease # Nothing /\ lease' = Nothing /\ LockFree /\ UNCHANGED <<now, queue, wrapper, run, paused, lapsed>>
      /\ excused' = excused \cup {lease.pid} \cup NamedRun(lease)
  BY DEF ReleaseLane
<1>2. run' \in RunTypes /\ RunsGoOn
  BY <1>1 DEF LeaseInv, LeaseTypeInv, RunTypes, RunsGoOn
<1>3. JudgedInv' /\ HeartInv' /\ HeadInv'
  BY <1>1, <1>2, StillShares
<1>4. \A q \in Wrappers : Phase(q)' = Phase(q)
  BY <1>1 DEF Phase
<1>5. LeaseTypeInv'
  BY <1>1, <1>4 DEF LeaseInv, LeaseTypeInv, TimeOk
<1>6. RunsInv' /\ OwnerInv' /\ RewritingInv'
  <2>1. RunsInv'
    BY <1>1, <1>4 DEF LeaseInv, RunsInv, RunOk
  <2>2. OwnerInv' /\ RewritingInv'
    BY <1>1, <1>4 DEF OwnerInv, RewritingInv, RewritingOk, LockFree
  <2> QED
    BY <2>1, <2>2
<1>7. ASSUME NEW q \in Wrappers, Runs(q)' PROVE q \in excused'
  <2>1. q \in excused \/ SpokenFor(q)
    BY <1>1, <1>4, <1>7 DEF LeaseInv, SpokenInv, Runs
  <2>2. RunIs("wrapper", q) # Nothing /\ RunIs("wrapper", q).of = q
    BY NamedApart
  <2> QED
    BY <2>1, <2>2, <1>1 DEF SpokenFor, Joined, NamedRun
<1> QED
  BY <1>3, <1>5, <1>6, <1>7 DEF LeaseInv, SpokenInv

\* What a step shares with the others in which a wrapper that has neither run nor lease moves and no lease changes.
LEMMA WaiterMoves ==
    ASSUME LeaseAssumption, LeaseInv, NEW p \in Wrappers, OnlyMoves(p), run[p] = "none",
           Phase(p) \notin OwnerPhases \cup {"starting under hold", "under hold"},
           Phase(p)' \in {"idle"} \cup QueuePhases \cup WaitPhases, UNCHANGED <<now, lease, run, excused>>,
           TimeOk(p)', QueueOk, JudgedInv', HeartInv', HeadInv'
    PROVE  LeaseInv'
<1>1. run' \in RunTypes /\ run' = run /\ lease' = lease /\ now' = now
  BY DEF LeaseInv, LeaseTypeInv, RunTypes
<1>2. Phase(p)' \notin HoldPhases \cup JoinPhases \cup RunPhases \cup Rewriting
  BY DEF HoldPhases, JoinPhases, RunPhases, Rewriting, QueuePhases, WaitPhases
<1>3. LeaseTypeInv'
  BY <1>1, TypesStay
<1>4. RunsInv'
  <2>1. RunOk(p)'
    BY <1>1, <1>2 DEF RunOk, JoinPhases, RunPhases
  <2> QED
    BY <2>1, <1>1, RunsStay DEF LeaseInv
<1>5. OwnerInv'
  <2>1. \A q \in Wrappers : Phase(q) \in OwnerPhases => Phase(q)' \in OwnerPhases
    BY DEF OnlyMoves
  <2> QED
    BY <2>1, <1>1, OwnerStays
<1>6. RewritingInv'
  BY <1>1, <1>2, RewritingStays
<1>7. ASSUME NEW q \in Wrappers, Runs(q)' PROVE q \in excused' \/ SpokenFor(q)'
  <2>1. Phase(p)' \notin {"starting", "starting under hold"}
    BY <1>2 DEF RunPhases, JoinPhases
  <2>2. q # p /\ Runs(q) /\ run'[q] = run[q] /\ Phase(q)' = Phase(q)
    BY <2>1, <1>1, <1>7 DEF OnlyMoves, Runs
  <2> QED
    BY <2>2, SpokenSame DEF LeaseInv, SpokenInv, IsRunning
<1> QED
  BY <1>3, <1>4, <1>5, <1>6, <1>7 DEF LeaseInv, SpokenInv

\* Who has no run yet.
LEMMA WaiterRunsNone ==
    ASSUME LeaseInv, NEW p \in Wrappers, Phase(p) \in {"idle", "joining"} \cup QueuePhases \cup WaitPhases
    PROVE  /\ run[p] = "none" /\ Phase(p) \notin Gone \cup Rewriting \cup HoldPhases \cup RunPhases
           /\ Phase(p) \notin OwnerPhases \cup {"starting under hold", "under hold"}
<1>1. Phase(p) \notin Gone \cup Rewriting \cup HoldPhases \cup RunPhases \cup {"starting under hold", "under hold"}
  BY DEF QueuePhases, WaitPhases, Gone, Rewriting, HoldPhases, RunPhases
<1>2. run[p] = "none"
  BY <1>1 DEF LeaseInv, RunsInv, RunOk, RunPhases, Rewriting
<1> QED
  BY <1>1, <1>2 DEF OwnerPhases

\* A wrapper that joins, or joins again, is there after the others, whatever its name, and is fresh or has lapsed.
LEMMA JoinQueueKeeps == ASSUME LeaseAssumption, LeaseInv, NEW p \in Wrappers, JoinQueue(p) PROVE LeaseInv'
<1>1. Phase(p) \in QueuePhases /\ UNCHANGED <<now, lease, run, paused, budget, excused>>
  BY DEF JoinQueue, QueuePhases
<1>2. PICK t \in Times(p) :
          /\ queue' = {e \in queue : e.pid # p} \cup {EntryOf(p, t)}
          /\ lapsed' = IF now - t > StaleAfter THEN lapsed \cup {p} ELSE lapsed
  BY DEF JoinQueue
<1>3. t \in Nat /\ t <= now /\ now \in Nat /\ now <= now /\ (~(now - t > StaleAfter) => now - t <= StaleAfter)
  BY TimesBefore, NothingApart DEF LeaseInv
<1> DEFINE new == EntryOf(p, t)
           rest == {e \in queue : e.pid # p}
<1>4. new \in Entries /\ new.pid = p /\ new.at = t /\ new.beat = t /\ new.since = now
  BY <1>3 DEF EntryOf, Entries
<1>5. queue' = rest \cup {new} /\ rest \subseteq queue /\ (\A e \in rest : e.pid # p) /\ (\A e \in queue : e.pid # p => e \in rest)
  BY <1>2
<1>6. IsFiniteSet(queue')
  BY <1>5, FS_Subset, FS_AddElement DEF LeaseInv, LeaseTypeInv
<1> HIDE DEF new, rest
<1>7. QueueOk
  BY <1>1, <1>3, <1>4, <1>5, <1>6 DEF QueueOk, LeaseInv, LeaseTypeInv
<1>8. PICK phase \in {"waiting", "beating entry"} : Moves(p, phase)
  BY DEF JoinQueue
<1>9. phase \in Phases /\ phase \in WaitPhases /\ phase # "judged"
  BY DEF Phases, WaitPhases
<1>10. OnlyMoves(p) /\ Phase(p)' = phase /\ wrapper'[p].at = Nothing /\ wrapper'[p].judged = Nothing
  BY <1>8, <1>9, MovesTo DEF LeaseInv, LeaseTypeInv
<1>11. run[p] = "none" /\ Phase(p) \notin OwnerPhases \cup {"starting under hold", "under hold"} /\ Phase(p) \notin Gone
  BY <1>1, WaiterRunsNone
<1>12. JudgedInv'
  <2>1. run' \in RunTypes /\ now' \in Nat /\ PastStep
    BY <1>1, <1>3, <1>10, <1>11 DEF OnlyMoves, LeaseInv, LeaseTypeInv, RunTypes, PastStep
  <2>2. \A q \in Wrappers : wrapper'[q].judged = Nothing \/ JudgedSame(q)
    BY <1>10 DEF OnlyMoves, JudgedSame
  <2> QED
    BY <2>1, <2>2, JudgedStays DEF LeaseInv
<1>13. lapsed \subseteq lapsed' /\ (p \notin lapsed' => now - t <= StaleAfter)
  BY <1>2, <1>3
<1>14. HeartInv'
  <2>1. ASSUME NEW e \in queue', e.pid \notin lapsed', Phase(e.pid)' \in WaitPhases PROVE now' - e.beat <= StaleAfter
    <3>1. CASE e = new
      BY <2>1, <3>1, <1>1, <1>4, <1>13
    <3>2. CASE e \in rest
      <4>1. e.pid \in Wrappers /\ e.pid # p /\ e \in queue /\ e.pid \notin lapsed
        BY <2>1, <3>2, <1>5, <1>13 DEF LeaseInv, LeaseTypeInv, Entries
      <4>2. Phase(e.pid) \in WaitPhases
        BY <2>1, <4>1, <1>10 DEF OnlyMoves
      <4> QED
        BY <4>1, <4>2, <1>1 DEF LeaseInv, HeartInv
    <3> QED
      BY <3>1, <3>2, <1>5
  <2>2. PlaceKept'
    <3> SUFFICES ASSUME NEW q \in Wrappers, Phase(q)' \in {"waiting", "judged", "beating entry"}, q \notin lapsed'
                 PROVE  \E e \in queue' : e.pid = q
      BY DEF PlaceKept
    <3>1. CASE q = p
      BY <3>1, <1>4, <1>5
    <3>2. CASE q # p
      <4>1. PICK e \in queue : e.pid = q
        BY <3>2, <1>10, <1>13 DEF OnlyMoves, LeaseInv, HeartInv, PlaceKept
      <4> QED
        BY <3>2, <4>1, <1>5
    <3> QED
      BY <3>1, <3>2
  <2> QED
    BY <2>1, <2>2 DEF HeartInv
<1>15. HeadInv'
  <2> SUFFICES ASSUME NEW q \in Wrappers, Phase(q)' = "judged", wrapper'[q].position = 0,
                      NEW e \in queue', NEW own \in queue', own.pid = q
               PROVE  own.at <= e.at \/ own.since <= e.since
    BY DEF HeadInv
  <2>1. q # p /\ wrapper'[q] = wrapper[q] /\ Phase(q) = "judged" /\ own \in queue
    BY <1>4, <1>5, <1>9, <1>10 DEF OnlyMoves
  <2>2. CASE e = new
    BY <2>1, <2>2, <1>4 DEF LeaseInv, LeaseTypeInv
  <2>3. CASE e \in queue
    BY <2>1, <2>3 DEF LeaseInv, HeadInv
  <2> QED
    BY <2>2, <2>3, <1>5
<1>16. TimeOk(p)'
  BY <1>9, <1>10 DEF TimeOk
<1> QED
  BY <1>1, <1>7, <1>9, <1>10, <1>11, <1>12, <1>14, <1>15, <1>16, WaiterMoves

\* A wrapper that waits on keeps its place, with a fresh heartbeat or as one that has lapsed.
LEMMA BeatEntryKeeps == ASSUME LeaseAssumption, LeaseInv, NEW p \in Wrappers, BeatEntry(p) PROVE LeaseInv'
<1>1. Phase(p) = "beating entry" /\ UNCHANGED <<now, lease, run, paused, budget, excused>> /\ Moves(p, "waiting")
  BY DEF BeatEntry
<1>2. PICK t \in Times(p) :
          /\ queue' = {IF e.pid = p THEN [e EXCEPT !.beat = t] ELSE e : e \in queue}
          /\ lapsed' = IF now - t > StaleAfter THEN lapsed \cup {p} ELSE lapsed
  BY DEF BeatEntry
<1> DEFINE Stamped(e) == IF e.pid = p THEN [e EXCEPT !.beat = t] ELSE e
<1>3. t \in Nat /\ t <= now /\ now \in Nat /\ (~(now - t > StaleAfter) => now - t <= StaleAfter)
  BY TimesBefore, NothingApart DEF LeaseInv
<1>4. queue' = {Stamped(e) : e \in queue}
  BY <1>2
<1>5. \A e \in queue : /\ Stamped(e) \in Entries /\ Stamped(e).pid = e.pid /\ Stamped(e).at = e.at /\ Stamped(e).since = e.since
                       /\ Stamped(e).beat = IF e.pid = p THEN t ELSE e.beat
  BY <1>3 DEF Entries, LeaseInv, LeaseTypeInv
<1>6. IsFiniteSet(queue')
  <2> DEFINE stamp == [e \in queue |-> Stamped(e)]
  <2>1. stamp \in Surjection(queue, queue')
    BY <1>4 DEF Surjection
  <2> QED
    BY <2>1, FS_Surjection DEF LeaseInv, LeaseTypeInv
<1>7. \A e \in queue' : \E f \in queue : /\ e.pid = f.pid /\ e.at = f.at /\ e.since = f.since /\ e \in Entries
                                         /\ e.beat = IF f.pid = p THEN t ELSE f.beat
  BY <1>4, <1>5
<1>8. \A f \in queue : \E e \in queue' : e.pid = f.pid
  BY <1>4, <1>5
<1> HIDE DEF Stamped
<1>9. "waiting" \in Phases /\ "waiting" \in WaitPhases
  BY DEF Phases, WaitPhases
<1>10. OnlyMoves(p) /\ Phase(p)' = "waiting" /\ wrapper'[p].at = Nothing /\ wrapper'[p].judged = Nothing
  BY <1>1, <1>9, MovesTo DEF LeaseInv, LeaseTypeInv
<1>11. run[p] = "none" /\ Phase(p) \notin OwnerPhases \cup {"starting under hold", "under hold"} /\ Phase(p) \notin Gone
  BY <1>1, WaiterRunsNone DEF WaitPhases
<1>12. QueueOk
  <2>1. ASSUME NEW e \in queue' PROVE e \in Entries /\ e.beat <= now' /\ e.since <= now'
    <3>1. PICK f \in queue : e.since = f.since /\ e \in Entries /\ e.beat = IF f.pid = p THEN t ELSE f.beat
      BY <1>7
    <3>2. f.beat <= now /\ f.since <= now /\ now' = now
      BY <1>1 DEF LeaseInv, LeaseTypeInv
    <3> QED
      BY <3>1, <3>2, <1>3
  <2> QED
    BY <2>1, <1>6 DEF QueueOk
<1>13. JudgedInv'
  <2>1. run' \in RunTypes /\ now' \in Nat /\ PastStep
    <3>1. now <= now
      BY <1>3
    <3> QED
      BY <3>1, <1>1, <1>3, <1>10, <1>11 DEF OnlyMoves, LeaseInv, LeaseTypeInv, RunTypes, PastStep
  <2>2. \A q \in Wrappers : wrapper'[q].judged = Nothing \/ JudgedSame(q)
    BY <1>10 DEF OnlyMoves, JudgedSame
  <2> QED
    BY <2>1, <2>2, JudgedStays DEF LeaseInv
<1>14. lapsed \subseteq lapsed' /\ (p \notin lapsed' => now - t <= StaleAfter)
  BY <1>2, <1>3
<1>15. HeartInv'
  <2>1. ASSUME NEW e \in queue', e.pid \notin lapsed', Phase(e.pid)' \in WaitPhases PROVE now' - e.beat <= StaleAfter
    <3>1. PICK f \in queue : e.pid = f.pid /\ e.beat = IF f.pid = p THEN t ELSE f.beat
      BY <1>7
    <3>2. f.pid \in Wrappers
      BY DEF LeaseInv, LeaseTypeInv, Entries
    <3>3. CASE f.pid = p
      BY <2>1, <3>1, <3>3, <1>1, <1>14
    <3>4. CASE f.pid # p
      BY <2>1, <3>1, <3>2, <3>4, <1>1, <1>10, <1>14 DEF OnlyMoves, LeaseInv, HeartInv
    <3> QED
      BY <3>3, <3>4
  <2>2. PlaceKept'
    <3> SUFFICES ASSUME NEW q \in Wrappers, Phase(q)' \in {"waiting", "judged", "beating entry"}, q \notin lapsed'
                 PROVE  \E e \in queue' : e.pid = q
      BY DEF PlaceKept
    <3>1. Phase(q) \in {"waiting", "judged", "beating entry"} /\ q \notin lapsed
      BY <1>1, <1>10, <1>14 DEF OnlyMoves
    <3>2. PICK f \in queue : f.pid = q
      BY <3>1 DEF LeaseInv, HeartInv, PlaceKept
    <3> QED
      BY <3>2, <1>8
  <2> QED
    BY <2>1, <2>2 DEF HeartInv
<1>16. HeadInv'
  <2> SUFFICES ASSUME NEW q \in Wrappers, Phase(q)' = "judged", wrapper'[q].position = 0,
                      NEW e \in queue', NEW own \in queue', own.pid = q
               PROVE  own.at <= e.at \/ own.since <= e.since
    BY DEF HeadInv
  <2>1. PICK f \in queue : e.at = f.at /\ e.since = f.since
    BY <1>7
  <2>2. PICK g \in queue : own.at = g.at /\ own.since = g.since /\ g.pid = q
    BY <1>7
  <2>3. q # p /\ Phase(q) = "judged" /\ wrapper[q].position = 0
    BY <1>10 DEF OnlyMoves
  <2> QED
    BY <2>1, <2>2, <2>3 DEF LeaseInv, HeadInv
<1>17. TimeOk(p)'
  BY <1>10 DEF TimeOk
<1> QED
  BY <1>1, <1>9, <1>10, <1>11, <1>12, <1>13, <1>15, <1>16, <1>17, WaiterMoves

\* Who finds a live hold of its own lane goes on to join it, and who finds none to the queue.
LEMMA BeginKeeps == ASSUME LeaseAssumption, LeaseInv, NEW p \in Wrappers, Begin(p) PROVE LeaseInv'
<1>1. Phase(p) = "idle" /\ LockFree /\ UNCHANGED <<now, lease, queue, run, paused, budget, lapsed, excused>>
  BY DEF Begin
<1>2. /\ run[p] = "none" /\ Phase(p) \notin OwnerPhases \cup {"starting under hold", "under hold"}
      /\ Phase(p) \notin Gone
  BY <1>1, WaiterRunsNone
<1>3. wrapper \in [Wrappers -> Places] /\ lapsed' = lapsed /\ queue' = queue /\ now' = now /\ run' = run /\ lease' = lease
  BY <1>1 DEF LeaseInv, LeaseTypeInv
<1>4. run' \in RunTypes /\ RunsGoOn
  BY <1>3 DEF LeaseInv, LeaseTypeInv, RunTypes, RunsGoOn
<1>5. CASE Moves(p, "queueing")
  <2>1. "queueing" \in Phases /\ "queueing" \in QueuePhases /\ "queueing" \notin WaitPhases
    BY DEF Phases, QueuePhases, WaitPhases
  <2>2. OnlyMoves(p) /\ Phase(p)' = "queueing" /\ wrapper'[p].at = Nothing /\ wrapper'[p].judged = Nothing
    BY <2>1, <1>3, <1>5, MovesTo
  <2>3. JudgedInv' /\ HeartInv' /\ HeadInv' /\ QueueOk
    BY <2>1, <2>2, <1>2, <1>3, <1>4, MoveShares
  <2>4. TimeOk(p)'
    BY <2>2 DEF TimeOk
  <2> QED
    BY <2>1, <2>2, <2>3, <2>4, <1>1, <1>2, WaiterMoves
<1>6. CASE OwnHold(p) # Nothing
  <2>1. PICK h : h = OwnHold(p)
    OBVIOUS
  <2>2. h = lease.pid /\ lease # Nothing /\ p \notin Acquirers /\ lease.hold /\ LaneOf[lease.pid] = LaneOf[p]
    BY <2>1, <1>6 DEF OwnHold
  <2>3. h \in Acquirers /\ h # Nothing /\ LaneOf[h] = LaneOf[p]
    BY <2>1, <2>2, <1>6 DEF LeaseInv, OwnerInv
  <2>4. wrapper' = [wrapper EXCEPT ![p].phase = "joining", ![p].hold = h]
    BY <2>1, <1>6 DEF Begin
  <2>5. "joining" \in Phases /\ "joining" \notin WaitPhases \cup HoldPhases \cup Rewriting \cup Gone
    BY DEF Phases, JoinPhases, WaitPhases, HoldPhases, Rewriting, Gone
  <2>6. /\ OnlyMoves(p) /\ Phase(p)' = "joining" /\ wrapper'[p].hold = h /\ wrapper'[p].at = wrapper[p].at /\ JudgedSame(p)
    <3> DEFINE place == [wrapper[p] EXCEPT !.phase = "joining", !.hold = h]
    <3>1. wrapper[p] \in Places
      BY <1>3
    <3>2. /\ place \in Places /\ place.phase = "joining" /\ place.at = wrapper[p].at /\ place.hold = h
          /\ place.judged = wrapper[p].judged /\ place.stale = wrapper[p].stale
      BY <3>1, <2>3, <2>5 DEF Places
    <3>3. wrapper' = [wrapper EXCEPT ![p] = place]
      BY <3>1, <2>4, <1>3 DEF Places
    <3> HIDE DEF place
    <3> QED
      BY <3>2, <3>3, <1>3 DEF Phase, OnlyMoves, JudgedSame
  <2>7. JudgedInv' /\ HeartInv' /\ HeadInv' /\ QueueOk
    BY <2>5, <2>6, <1>2, <1>3, <1>4, MoveShares
  <2>8. LeaseTypeInv'
    <3>1. TimeOk(p)'
      BY <2>6, <1>3 DEF TimeOk, LeaseInv, LeaseTypeInv
    <3> QED
      BY <3>1, <2>6, <2>7, <1>3, <1>4, TypesStay
  <2>9. RunsInv'
    <3>1. RunOk(p)'
      BY <2>2, <2>3, <2>5, <2>6, <1>2, <1>3 DEF RunOk
    <3> QED
      BY <3>1, <2>6, <1>3, RunsStay DEF LeaseInv
  <2>10. OwnerInv'
    <3>1. \A q \in Wrappers : Phase(q) \in OwnerPhases => Phase(q)' \in OwnerPhases
      BY <2>6, <1>2 DEF OnlyMoves
    <3> QED
      BY <3>1, <2>2, <1>3, OwnerStays
  <2>11. RewritingInv'
    BY <2>5, <2>6, <1>3, RewritingStays
  <2>12. ASSUME NEW q \in Wrappers, Runs(q)' PROVE q \in excused' \/ SpokenFor(q)'
    <3>1. q # p /\ Runs(q) /\ run'[q] = run[q] /\ Phase(q)' = Phase(q)
      BY <2>6, <2>12, <1>2, <1>3 DEF OnlyMoves, Runs
    <3> QED
      BY <3>1, <1>1, SpokenSame DEF LeaseInv, SpokenInv, IsRunning
  <2> QED
    BY <2>7, <2>8, <2>9, <2>10, <2>11, <2>12 DEF LeaseInv, SpokenInv
<1> QED
  BY <1>5, <1>6 DEF Begin

\* The record of a hold still there is about to be rewritten by the wrapper that joins it.
LEMMA JoinHoldKeeps == ASSUME LeaseAssumption, LeaseInv, NEW p \in Wrappers, JoinHold(p) PROVE LeaseInv'
<1>1. Phase(p) = "joining" /\ LockFree /\ UNCHANGED <<now, lease, queue, run, paused, budget, lapsed, excused>>
  BY DEF JoinHold
<1>2. /\ run[p] = "none" /\ Phase(p) \notin OwnerPhases \cup {"starting under hold", "under hold"}
      /\ Phase(p) \notin Gone
  BY <1>1, WaiterRunsNone
<1>3. wrapper \in [Wrappers -> Places] /\ lapsed' = lapsed /\ queue' = queue /\ now' = now /\ run' = run /\ lease' = lease
  BY <1>1 DEF LeaseInv, LeaseTypeInv
<1>4. run' \in RunTypes /\ RunsGoOn
  BY <1>3 DEF LeaseInv, LeaseTypeInv, RunTypes, RunsGoOn
<1>5. CASE Moves(p, "queueing")
  <2>1. "queueing" \in Phases /\ "queueing" \in QueuePhases /\ "queueing" \notin WaitPhases
    BY DEF Phases, QueuePhases, WaitPhases
  <2>2. OnlyMoves(p) /\ Phase(p)' = "queueing" /\ wrapper'[p].at = Nothing /\ wrapper'[p].judged = Nothing
    BY <2>1, <1>3, <1>5, MovesTo
  <2>3. JudgedInv' /\ HeartInv' /\ HeadInv' /\ QueueOk
    BY <2>1, <2>2, <1>2, <1>3, <1>4, MoveShares
  <2>4. TimeOk(p)'
    BY <2>2 DEF TimeOk
  <2> QED
    BY <2>1, <2>2, <2>3, <2>4, <1>1, <1>2, WaiterMoves
<1>6. CASE lease # Nothing /\ lease.pid = wrapper[p].hold /\ wrapper' = [wrapper EXCEPT ![p].phase = "rewriting hold"]
  <2>1. "rewriting hold" \in Phases /\ "rewriting hold" \notin WaitPhases \cup HoldPhases \cup Gone
    BY DEF Phases, JoinPhases, WaitPhases, HoldPhases, Gone
  <2>2. /\ OnlyMoves(p) /\ Phase(p)' = "rewriting hold" /\ JudgedSame(p)
        /\ wrapper'[p].at = wrapper[p].at /\ wrapper'[p].hold = wrapper[p].hold
    BY <2>1, <1>3, <1>6, GoesOn DEF JudgedSame
  <2>3. JudgedInv' /\ HeartInv' /\ HeadInv' /\ QueueOk
    BY <2>1, <2>2, <1>2, <1>3, <1>4, MoveShares
  <2>4. LeaseTypeInv'
    <3>1. TimeOk(p)'
      BY <2>2, <1>3 DEF TimeOk, LeaseInv, LeaseTypeInv
    <3> QED
      BY <3>1, <2>2, <2>3, <1>3, <1>4, TypesStay
  <2>5. RunsInv'
    <3>1. RunOk(p) /\ p \notin Acquirers
      BY <1>1 DEF LeaseInv, RunsInv, RunOk, JoinPhases
    <3>2. RunOk(p)'
      BY <3>1, <2>1, <2>2, <1>1, <1>2, <1>3 DEF RunOk
    <3> QED
      BY <3>2, <2>2, <1>3, RunsStay DEF LeaseInv
  <2>6. OwnerInv'
    <3>1. \A q \in Wrappers : Phase(q) \in OwnerPhases => Phase(q)' \in OwnerPhases
      BY <2>2, <1>2 DEF OnlyMoves
    <3> QED
      BY <3>1, <1>3, <1>6, OwnerStays
  <2>7. RewritingInv'
    <3>1. RewritingOk(p)'
      BY <2>2, <1>3, <1>6 DEF RewritingOk
    <3> QED
      BY <3>1, <2>2, <1>1, RewritingBegins
  <2>8. ASSUME NEW q \in Wrappers, Runs(q)' PROVE q \in excused' \/ SpokenFor(q)'
    <3>1. q # p /\ Runs(q) /\ run'[q] = run[q] /\ Phase(q)' = Phase(q)
      BY <2>2, <2>8, <1>2, <1>3 DEF OnlyMoves, Runs
    <3> QED
      BY <3>1, <1>1, SpokenSame DEF LeaseInv, SpokenInv, IsRunning
  <2> QED
    BY <2>3, <2>4, <2>5, <2>6, <2>7, <2>8 DEF LeaseInv, SpokenInv
<1> QED
  BY <1>5, <1>6 DEF JoinHold

\* Position 0 is the head of the live entries.
LEMMA HeadOfQueue ==
    ASSUME LeaseTypeInv, NEW p, NEW t, Position(p, t) = 0, NEW e \in LiveQueue(t), NEW own \in LiveQueue(t), own.pid = p,
           Nothing \notin Nat
    PROVE  own.at <= e.at
<1> DEFINE earlier == {f \in LiveQueue(t) : \E g \in LiveQueue(t) : g.pid = p /\ Before(f, g)}
<1>1. IsFiniteSet(earlier)
  BY FS_Subset DEF LeaseTypeInv, LiveQueue
<1>2. Cardinality(earlier) = 0
  BY DEF Position
<1>3. earlier = {}
  BY <1>1, <1>2, FS_EmptySet
<1>4. ~Before(e, own)
  BY <1>3
<1>5. e.at \in Nat /\ own.at \in Nat
  BY DEF LiveQueue, LeaseTypeInv, Entries
<1> QED
  BY <1>4, <1>5 DEF Before

\* The queue keeps its live entries, and the wrapper is judged by them and by the record read.
LEMMA JudgeKeeps == ASSUME LeaseAssumption, LeaseInv, NEW p \in Wrappers, Judge(p) PROVE LeaseInv'
<1>1. Phase(p) = "waiting" /\ UNCHANGED <<now, lease, run, paused, budget, lapsed, excused>>
  BY DEF Judge
<1>2. PICK t \in Times(p) :
          /\ queue' = LiveQueue(t)
          /\ wrapper' = [wrapper EXCEPT ![p] = [AtStart EXCEPT !.phase = "judged", !.at = t, !.position = Position(p, t),
                            !.judged = ReadLease, !.stale = ReadLease # Nothing /\ IsStale(ReadLease, t)]]
  BY DEF Judge
<1>3. PICK position : position = Position(p, t)
  OBVIOUS
<1>4. PICK r : r = ReadLease
  OBVIOUS
<1>5. PICK stale \in BOOLEAN : stale = (r # Nothing /\ IsStale(r, t))
  OBVIOUS
<1> DEFINE place == [AtStart EXCEPT !.phase = "judged", !.at = t, !.position = position, !.judged = r, !.stale = stale]
<1>6. t \in Nat /\ t <= now /\ now \in Nat /\ now <= now
  BY TimesBefore DEF LeaseInv
<1>7. position \in Nat \cup {Nothing}
  <2>1. IsFiniteSet({e \in LiveQueue(t) : \E own \in LiveQueue(t) : own.pid = p /\ Before(e, own)})
    BY FS_Subset DEF LeaseInv, LeaseTypeInv, LiveQueue
  <2> QED
    BY <2>1, <1>3, FS_CardinalityType DEF Position
<1>8. r \in Leases \cup {Nothing} /\ (r # Nothing => ChildOf(r) /\ (stale => IsStale(r, now)))
  <2>1. r = Nothing \/ r = lease
    BY <1>4 DEF ReadLease
  <2>2. r # Nothing => r \in Leases /\ r.beat \in Nat /\ ChildOf(r)
    BY <2>1, LeaseParts DEF LeaseInv, OwnerInv
  <2>3. ASSUME r # Nothing, stale PROVE IsStale(r, now)
    BY <2>2, <2>3, <1>5, <1>6, StaleLater
  <2> QED
    BY <2>2, <2>3
<1>9. /\ place \in Places /\ place.phase = "judged" /\ place.at = t /\ place.position = position /\ place.judged = r
      /\ place.stale = stale
  <2>1. "judged" \in Phases
    BY DEF Phases, WaitPhases
  <2> QED
    BY <2>1, <1>5, <1>6, <1>7, <1>8 DEF Places, AtStart
<1>10. wrapper' = [wrapper EXCEPT ![p] = place]
  BY <1>2, <1>3, <1>4, <1>5
<1> HIDE DEF place
<1>11. wrapper' \in [Wrappers -> Places] /\ wrapper'[p] = place /\ \A q \in Wrappers : q # p => wrapper'[q] = wrapper[q]
  BY <1>9, <1>10 DEF LeaseInv, LeaseTypeInv
<1>12. OnlyMoves(p) /\ Phase(p)' = "judged"
  BY <1>9, <1>11 DEF Phase, OnlyMoves
<1>13. run[p] = "none" /\ Phase(p) \notin OwnerPhases \cup {"starting under hold", "under hold"} /\ Phase(p) \notin Gone
  BY <1>1, WaiterRunsNone DEF WaitPhases
<1>14. run' \in RunTypes /\ now' \in Nat /\ PastStep
  BY <1>1, <1>6, <1>12, <1>13 DEF OnlyMoves, LeaseInv, LeaseTypeInv, RunTypes, PastStep
<1>15. \A l \in Leases : ChildOf(l) => ChildOf(l)' /\ (IsStale(l, now) => IsStale(l, now)')
  BY <1>14, StaleStays DEF LeaseInv
<1>16. ASSUME NEW q \in Wrappers, wrapper'[q].judged # Nothing
       PROVE  \E l \in Leases : l = wrapper'[q].judged /\ ChildOf(l)' /\ (wrapper'[q].stale => IsStale(l, now)')
  <2>1. CASE q = p
    BY <2>1, <1>8, <1>9, <1>11, <1>15, <1>16
  <2>2. CASE q # p
    <3>1. wrapper'[q] = wrapper[q]
      BY <2>2, <1>11
    <3>2. PICK l \in Leases : l = wrapper[q].judged
      BY <3>1, <1>16 DEF LeaseInv, LeaseTypeInv, Places
    <3>3. ChildOf(l) /\ (wrapper[q].stale => IsStale(l, now))
      BY <3>1, <3>2, <1>16 DEF LeaseInv, JudgedInv
    <3> QED
      BY <3>1, <3>2, <3>3, <1>15
  <2> QED
    BY <2>1, <2>2
<1>17. JudgedInv'
  <2> SUFFICES ASSUME NEW q \in Wrappers, wrapper'[q].judged # Nothing
               PROVE  (ChildOf(wrapper[q].judged) /\ (wrapper[q].stale => IsStale(wrapper[q].judged, now)))'
    BY DEF JudgedInv
  <2>1. PICK l \in Leases : l = wrapper'[q].judged /\ ChildOf(l)' /\ (wrapper'[q].stale => IsStale(l, now)')
    BY <1>16
  <2> QED
    BY <2>1 DEF ChildOf, IsStale, OwnerRuns, RecordedRunRuns, RecordedAlive, IsRunning, Phase
<1>18. queue' = LiveQueue(t) /\ queue' \subseteq queue /\ QueueOk
  <2>1. queue' = LiveQueue(t) /\ queue' \subseteq queue /\ IsFiniteSet(queue')
    BY <1>2, FS_Subset DEF LiveQueue, LeaseInv, LeaseTypeInv
  <2> QED
    BY <2>1, <1>1 DEF QueueOk, LeaseInv, LeaseTypeInv
<1>19. HeartInv'
  <2>1. ASSUME NEW e \in queue', e.pid \notin lapsed', Phase(e.pid)' \in WaitPhases PROVE now' - e.beat <= StaleAfter
    <3>1. e \in queue /\ e.pid \in Wrappers
      BY <1>18 DEF LeaseInv, LeaseTypeInv, Entries
    <3>2. Phase(e.pid) \in WaitPhases
      BY <2>1, <3>1, <1>1, <1>12 DEF OnlyMoves, WaitPhases
    <3> QED
      BY <2>1, <3>1, <3>2, <1>1 DEF LeaseInv, HeartInv
  <2>2. ASSUME NEW q \in Wrappers, Phase(q)' \in {"waiting", "judged", "beating entry"}, q \notin lapsed'
        PROVE  \E e \in queue' : e.pid = q
    <3>1. Phase(q) \in {"waiting", "judged", "beating entry"} /\ q \notin lapsed
      BY <2>2, <1>1, <1>12 DEF OnlyMoves
    <3>2. PICK e \in queue : e.pid = q
      BY <3>1 DEF LeaseInv, HeartInv, PlaceKept
    <3>3. now - e.beat <= StaleAfter
      BY <3>1, <3>2 DEF LeaseInv, HeartInv, WaitPhases
    <3>4. e.beat \in Nat /\ StaleAfter \in Nat
      BY <3>2, NothingApart DEF LeaseInv, LeaseTypeInv, Entries
    <3>5. t - e.beat <= StaleAfter
      BY <3>3, <3>4, <1>6
    <3>6. OwnerRuns(e, t)
      BY <3>1, <3>2, <3>5 DEF OwnerRuns, IsRunning, Gone
    <3> QED
      BY <3>2, <3>6, <1>18 DEF LiveQueue, IsStale
  <2> QED
    BY <2>1, <2>2 DEF HeartInv, PlaceKept
<1>20. HeadInv'
  <2> SUFFICES ASSUME NEW q \in Wrappers, Phase(q)' = "judged", wrapper'[q].position = 0,
                      NEW e \in queue', NEW own \in queue', own.pid = q
               PROVE  own.at <= e.at \/ own.since <= e.since
    BY DEF HeadInv
  <2>1. CASE q = p
    <3>1. Position(p, t) = 0 /\ e \in LiveQueue(t) /\ own \in LiveQueue(t) /\ own.pid = p
      BY <2>1, <1>3, <1>9, <1>11, <1>18
    <3> QED
      BY <3>1, HeadOfQueue, NothingApart DEF LeaseInv
  <2>2. CASE q # p
    BY <2>2, <1>11, <1>12, <1>18 DEF OnlyMoves, LeaseInv, HeadInv
  <2> QED
    BY <2>1, <2>2
<1>21. TimeOk(p)'
  <2>1. wrapper'[p].at = t /\ t # Nothing
    BY <1>6, <1>9, <1>11, NothingApart
  <2> QED
    BY <2>1, <1>1, <1>6 DEF TimeOk
<1>22. Phase(p)' \in WaitPhases
  BY <1>12 DEF WaitPhases
<1> QED
  BY <1>1, <1>12, <1>13, <1>17, <1>18, <1>19, <1>20, <1>21, <1>22, WaiterMoves

\* A lease that may be taken speaks for nobody.
LEMMA TakenSpeaksForNone ==
    ASSUME LeaseAssumption, LeaseInv, NEW p \in Wrappers, Phase(p) = "judged", MayTake(p), NEW q \in Wrappers
    PROVE  ~SpokenFor(q)
<1> SUFFICES ASSUME lease # Nothing, HolderStale(p) PROVE IsStale(lease, now)
  BY SpokenIsLive DEF MayTake, LeaseInv, SpokenFor
<1>1. CASE SameRecord(lease, wrapper[p].judged)
  <2>1. PICK r : r = wrapper[p].judged
    OBVIOUS
  <2>2. r # Nothing /\ lease.beat = r.beat /\ lease.pid = r.pid /\ lease.child = r.child
    BY <1>1, <2>1 DEF SameRecord
  <2>3. IsStale(r, now)
    BY <1>1, <2>1, <2>2 DEF HolderStale, LeaseInv, JudgedInv
  <2> QED
    BY <2>2, <2>3 DEF IsStale, OwnerRuns, RecordedRunRuns
<1>2. CASE ~SameRecord(lease, wrapper[p].judged)
  <2>1. PICK t : t = wrapper[p].at
    OBVIOUS
  <2>2. PICK r : r = lease
    OBVIOUS
  <2>3. t \in Nat /\ t <= now /\ now \in Nat /\ r.beat \in Nat
    BY <2>1, <2>2, LeaseParts DEF LeaseInv, LeaseTypeInv, TimeOk, Places
  <2>4. IsStale(r, t)
    BY <2>1, <2>2, <1>2 DEF HolderStale
  <2>5. IsStale(r, now)
    BY <2>3, <2>4, StaleLater
  <2> QED
    BY <2>2, <2>5
<1> QED
  BY <1>1, <1>2

\* A wrapper that takes the lease finds none, or one that speaks for nobody; one that takes it by a time so long ago that
\* the lease has lapsed already is excused.
LEMMA TakenKeeps ==
    ASSUME LeaseAssumption, LeaseInv, NEW p \in Wrappers, TakeTurn(p), MayTake(p) PROVE LeaseInv'
<1> DEFINE phase == IF p \in Acquirers THEN "holding" ELSE "starting"
           taken == [pid |-> p, beat |-> wrapper[p].at, child |-> Nothing, hold |-> p \in Acquirers]
<1>1. /\ Phase(p) = "judged" /\ lease' = taken /\ queue' = {e \in queue : e.pid # p} /\ Moves(p, phase)
      /\ excused' = excused \cup Unspoken(lease', now) /\ UNCHANGED <<now, run, paused, budget, lapsed>>
  BY DEF TakeTurn
<1>2. run[p] = "none" /\ Phase(p) \notin Gone
  BY <1>1, WaiterRunsNone DEF WaitPhases
<1>3. PICK t : t = wrapper[p].at
  OBVIOUS
<1>4. t \in Nat /\ t <= now /\ now \in Nat /\ (~(now - t > StaleAfter) => now - t <= StaleAfter)
  <2>1. t \in Nat /\ t <= now /\ now \in Nat
    BY <1>1, <1>3 DEF LeaseInv, LeaseTypeInv, TimeOk, Places
  <2> QED
    BY <2>1, NothingApart
<1>5. taken \in Leases /\ taken.pid = p /\ taken.beat = t /\ taken.child = Nothing /\ (taken.hold <=> p \in Acquirers)
  <2>1. (p \in Acquirers) \in BOOLEAN
    OBVIOUS
  <2> QED
    BY <2>1, <1>3, <1>4 DEF Leases
<1>6. /\ phase \in Phases /\ phase \in OwnerPhases /\ phase \notin WaitPhases \cup Rewriting
      /\ (phase = "holding" <=> p \in Acquirers) /\ (phase = "starting" <=> p \notin Acquirers)
  BY DEF Phases, OwnerPhases, WaitPhases, Rewriting, HoldPhases, RunPhases
<1> HIDE DEF phase, taken
<1>7. OnlyMoves(p) /\ Phase(p)' = phase /\ wrapper'[p].at = Nothing /\ wrapper'[p].judged = Nothing
  BY <1>1, <1>6, MovesTo DEF LeaseInv, LeaseTypeInv
<1>8. run' = run /\ run' \in RunTypes /\ RunsGoOn /\ lapsed' = lapsed /\ now' = now
  BY <1>1 DEF LeaseInv, LeaseTypeInv, RunTypes, RunsGoOn
<1>9. JudgedInv' /\ HeartInv' /\ HeadInv' /\ QueueOk
  <2>1. queue' \subseteq queue /\ \A e \in queue : e.pid # p => e \in queue'
    BY <1>1
  <2> QED
    BY <2>1, <1>2, <1>6, <1>7, <1>8, MoveShares
<1>10. lease' # Nothing /\ lease' = taken
  BY <1>1, <1>5, NothingApart
<1>11. LeaseTypeInv'
  <2>1. TimeOk(p)'
    BY <1>6, <1>7 DEF TimeOk, WaitPhases
  <2> QED
    BY <2>1, <1>4, <1>5, <1>7, <1>8, <1>9, <1>10, TypesStay
<1>12. RunsInv'
  <2>1. Phase(p)' \in {"holding", "starting"}
    BY <1>6, <1>7
  <2>2. RunOk(p)'
    BY <2>1, <1>2, <1>6, <1>7, <1>8 DEF RunOk, RunPhases, JoinPhases, HoldPhases
  <2> QED
    BY <2>2, <1>7, <1>8, RunsStay DEF LeaseInv
<1>13. OwnerInv'
  BY <1>5, <1>6, <1>7, <1>10 DEF OwnerInv, ChildOf
<1>14. RewritingInv'
  <2>1. LockFree
    BY DEF TakeTurn
  <2> QED
    BY <2>1, <1>6, <1>7, RewritingStays DEF LockFree
<1>15. ASSUME NEW q \in Wrappers, Runs(q)' PROVE q \in excused' \/ SpokenFor(q)'
  <2>1. CASE q = p
    <3>1. ~lease'.hold
      BY <2>1, <1>2, <1>5, <1>6, <1>7, <1>8, <1>10, <1>15 DEF Runs
    <3>2. CASE now - t > StaleAfter
      <4>1. p \in Unspoken(lease', now)
        BY <3>1, <3>2, <1>5, <1>10 DEF Unspoken
      <4> QED
        BY <4>1, <2>1, <1>1
    <3>3. CASE now - t <= StaleAfter
      <4>1. IsRunning(p)' /\ now' - lease'.beat <= StaleAfter
        BY <3>3, <1>5, <1>6, <1>7, <1>8, <1>10 DEF IsRunning, Gone
      <4> QED
        BY <4>1, <2>1, <1>5, <1>10 DEF SpokenFor
    <3> QED
      BY <3>2, <3>3, <1>4
  <2>2. CASE q # p
    <3>1. Runs(q)
      BY <2>2, <1>7, <1>8, <1>15 DEF OnlyMoves, Runs
    <3> QED
      BY <3>1, <1>1, TakenSpeaksForNone DEF LeaseInv, SpokenInv
  <2> QED
    BY <2>1, <2>2
<1> QED
  BY <1>9, <1>11, <1>12, <1>13, <1>14, <1>15 DEF LeaseInv, SpokenInv

\* A wrapper whose turn it is not goes on waiting, or joins again.
LEMMA TakeTurnKeeps == ASSUME LeaseAssumption, LeaseInv, NEW p \in Wrappers, TakeTurn(p) PROVE LeaseInv'
<1>1. CASE MayTake(p)
  BY <1>1, TakenKeeps
<1>2. CASE ~MayTake(p)
  <2>1. Phase(p) = "judged" /\ UNCHANGED <<now, lease, queue, run, paused, budget, lapsed, excused>>
    BY <1>2 DEF TakeTurn
  <2>2. PICK phase \in {"queueing again", "beating entry"} : Moves(p, phase)
    BY <1>2 DEF TakeTurn
  <2>3. phase \in Phases /\ phase \in QueuePhases \cup WaitPhases /\ phase # "judged" /\ Phase(p) \in WaitPhases
    BY <2>1 DEF Phases, QueuePhases, WaitPhases
  <2>4. OnlyMoves(p) /\ Phase(p)' = phase /\ wrapper'[p].at = Nothing /\ wrapper'[p].judged = Nothing
    BY <2>2, <2>3, MovesTo DEF LeaseInv, LeaseTypeInv
  <2>5. run[p] = "none" /\ Phase(p) \notin OwnerPhases \cup {"starting under hold", "under hold"} /\ Phase(p) \notin Gone
    BY <2>3, WaiterRunsNone
  <2>6. JudgedInv' /\ HeartInv' /\ HeadInv' /\ QueueOk
    <3>1. run' \in RunTypes /\ RunsGoOn /\ lapsed' = lapsed /\ queue' = queue /\ now' = now
      BY <2>1 DEF LeaseInv, LeaseTypeInv, RunTypes, RunsGoOn
    <3> QED
      BY <3>1, <2>3, <2>4, <2>5, MoveShares
  <2>7. TimeOk(p)'
    BY <2>3, <2>4 DEF TimeOk
  <2> QED
    BY <2>1, <2>3, <2>4, <2>5, <2>6, <2>7, WaiterMoves
<1> QED
  BY <1>1, <1>2

\* Time excuses whom the lease no longer speaks for, and marks who let its heartbeat lapse.
LEMMA TickKeeps == ASSUME LeaseAssumption, LeaseInv, Tick PROVE LeaseInv'
<1>1. /\ now' = now + 1 /\ UNCHANGED <<lease, queue, wrapper, run, paused, budget>>
      /\ lapsed' = lapsed \cup {p \in Wrappers : \E b \in BeatOf(p) : now' - b > StaleAfter}
      /\ excused' = excused \cup Unspoken(lease, now')
  BY DEF Tick
<1>2. now \in Nat /\ now' \in Nat /\ now <= now' /\ run' \in RunTypes /\ RunsGoOn
  BY <1>1 DEF LeaseInv, LeaseTypeInv, RunTypes, RunsGoOn
<1>3. \A q \in Wrappers : Phase(q)' = Phase(q)
  BY <1>1 DEF Phase
<1>4. JudgedInv'
  <2>1. PastStep
    BY <1>2, <1>3 DEF PastStep, RunsGoOn
  <2>2. \A q \in Wrappers : JudgedSame(q)
    BY <1>1 DEF JudgedSame
  <2> QED
    BY <2>1, <2>2, <1>2, JudgedStays DEF LeaseInv
<1>5. LeaseTypeInv'
  <2>1. lease # Nothing => lease.beat <= now'
    BY <1>2, LeaseParts DEF LeaseInv
  <2>2. \A e \in queue : e.beat <= now' /\ e.since <= now'
    BY <1>1, <1>2 DEF LeaseInv, LeaseTypeInv, Entries
  <2>3. \A q \in Wrappers : TimeOk(q)'
    <3> SUFFICES ASSUME NEW q \in Wrappers PROVE TimeOk(q)'
      OBVIOUS
    <3>1. PICK t : t = wrapper[q].at
      OBVIOUS
    <3>2. (t # Nothing => t \in Nat /\ t <= now) /\ (Phase(q) = "judged" => t # Nothing)
      BY <3>1 DEF LeaseInv, LeaseTypeInv, TimeOk, Places
    <3>3. t # Nothing => t <= now'
      BY <3>2, <1>2
    <3> QED
      BY <3>1, <3>2, <3>3, <1>1, <1>3 DEF TimeOk
  <2> QED
    BY <2>1, <2>2, <2>3, <1>1, <1>2 DEF LeaseInv, LeaseTypeInv
<1>6. RunsInv'
  BY <1>1, <1>3 DEF LeaseInv, RunsInv, RunOk
<1>7. OwnerInv'
  BY <1>1, <1>3, OwnerStays
<1>8. RewritingInv'
  BY <1>1, <1>3 DEF LeaseInv, RewritingInv, RewritingOk
<1>9. HeartInv'
  <2>1. ASSUME NEW e \in queue', e.pid \notin lapsed', Phase(e.pid)' \in WaitPhases PROVE now' - e.beat <= StaleAfter
    <3>1. e \in queue /\ e.pid \in Wrappers /\ e.beat \in Nat
      BY <1>1 DEF LeaseInv, LeaseTypeInv, Entries
    <3>2. Phase(e.pid) \in WaitPhases
      BY <2>1, <3>1, <1>3
    <3>3. ~(lease # Nothing /\ lease.pid = e.pid)
      BY <3>1, <3>2, WaiterRunsNone DEF LeaseInv, OwnerInv
    <3>4. e.beat \in BeatOf(e.pid)
      BY <3>1, <3>3 DEF BeatOf
    <3>5. ~(now' - e.beat > StaleAfter)
      BY <2>1, <3>1, <3>4, <1>1
    <3> QED
      BY <3>1, <3>5, <1>2, NothingApart
  <2>2. PlaceKept'
    BY <1>1, <1>3 DEF LeaseInv, HeartInv, PlaceKept
  <2> QED
    BY <2>1, <2>2 DEF HeartInv
<1>10. HeadInv'
  BY <1>1, <1>3 DEF LeaseInv, HeadInv
<1>11. ASSUME NEW q \in Wrappers, Runs(q)' PROVE q \in excused' \/ SpokenFor(q)'
  <2>1. Runs(q) /\ (q \in excused \/ SpokenFor(q))
    BY <1>1, <1>3, <1>11 DEF LeaseInv, SpokenInv, Runs
  <2> SUFFICES ASSUME SpokenFor(q), q \notin Unspoken(lease, now') PROVE SpokenFor(q)'
    BY <2>1, <1>1
  <2>2. lease # Nothing
    BY DEF SpokenFor
  <2>3. PICK l : l = lease
    OBVIOUS
  <2>4. PICK t : t = now'
    OBVIOUS
  <2>5. l.beat \in Nat /\ t \in Nat
    BY <2>2, <2>3, <2>4, <1>2, LeaseParts DEF LeaseInv
  <2>6. /\ lease.pid = q /\ lease.child = Nothing => t - l.beat <= StaleAfter
        /\ lease.child # Nothing => t - l.beat <= OrphanLimit
    BY <2>1, <2>2, <2>3, <2>4, <2>5, SpokenUnless
  <2>7. RunIs("run", q) # Nothing /\ RunIs("wrapper", q) # Nothing
    BY NamedApart
  <2>8. lease' = lease /\ run' = run /\ Phase(q)' = Phase(q) /\ (IsRunning(q)' <=> IsRunning(q))
    BY <1>1, <1>3 DEF IsRunning
  <2> QED
    BY <2>3, <2>4, <2>6, <2>7, <2>8 DEF SpokenFor, Joined
<1> QED
  BY <1>4, <1>5, <1>6, <1>7, <1>8, <1>9, <1>10, <1>11 DEF LeaseInv, SpokenInv

LEMMA LeaseInitInv == ASSUME LeaseAssumption, LeaseInit PROVE LeaseInv
<1>1. AtStart \in Places /\ AtStart.phase = "idle" /\ AtStart.at = Nothing /\ AtStart.judged = Nothing
  BY DEF AtStart, Places, Phases
<1>2. \A p \in Wrappers : wrapper[p] = AtStart /\ Phase(p) = "idle" /\ run[p] = "none"
  BY <1>1 DEF LeaseInit, Phase
<1>3. LeaseTypeInv
  BY <1>1, <1>2, FS_EmptySet DEF LeaseInit, LeaseTypeInv, TimeOk
<1>4. RunsInv /\ OwnerInv /\ SpokenInv /\ RewritingInv
  <2>1. \A p \in Wrappers : RunOk(p)
    BY <1>2 DEF RunOk, JoinPhases, RunPhases, HoldPhases
  <2>2. \A p \in Wrappers : ~Runs(p) /\ Phase(p) \notin Rewriting
    BY <1>2 DEF Runs, Rewriting
  <2> QED
    BY <2>1, <2>2 DEF LeaseInit, RunsInv, OwnerInv, SpokenInv, RewritingInv, RewritingOk
<1>5. JudgedInv /\ HeartInv /\ HeadInv
  BY <1>1, <1>2 DEF LeaseInit, JudgedInv, HeartInv, PlaceKept, HeadInv
<1> QED
  BY <1>3, <1>4, <1>5 DEF LeaseInv

LEMMA LeaseStepInv == ASSUME LeaseAssumption, LeaseInv, [LeaseNext]_leaseVars PROVE LeaseInv'
<1>1. ASSUME NEW p \in Wrappers, Begin(p) \/ JoinQueue(p) \/ BeatEntry(p) \/ JoinHold(p) \/ Judge(p) \/ TakeTurn(p)
      PROVE  LeaseInv'
  BY <1>1, BeginKeeps, JoinQueueKeeps, BeatEntryKeeps, JoinHoldKeeps, JudgeKeeps, TakeTurnKeeps
<1>2. ASSUME NEW p \in Wrappers, Start(p) \/ Record(p) \/ WriteRecord(p) \/ KeepAlive(p) \/ Beat(p) PROVE LeaseInv'
  BY <1>2, StartKeeps, RecordKeeps, WriteRecordKeeps, KeepAliveKeeps, BeatKeeps
<1>3. ASSUME NEW p \in Wrappers, Finish(p) \/ RunEnds(p) \/ Kill(p) \/ Suspend(p) PROVE LeaseInv'
  BY <1>3, FinishKeeps, RunEndsKeeps, KillKeeps, SuspendKeeps
<1>4. ASSUME NEW p \in Wrappers, Resume(p) PROVE LeaseInv'
  BY <1>4, PauseKeeps DEF Resume
<1>5. ASSUME NEW lane, ReleaseLane(lane) PROVE LeaseInv'
  BY <1>5, ReleaseLaneKeeps
<1>6. CASE UNCHANGED leaseVars
  BY <1>6, PauseKeeps DEF leaseVars
<1> QED
  BY <1>1, <1>2, <1>3, <1>4, <1>5, <1>6, TickKeeps DEF LeaseNext

\* Only a wrapper at the head of the queue takes the lease; any other step leaves it to its owner or to nobody.
LEMMA TakenInTurnStep == ASSUME LeaseAssumption, LeaseInv, [LeaseNext]_leaseVars PROVE TakenInTurn \/ UNCHANGED leaseVars
<1> SUFFICES ASSUME LeaseNext, NEW p \in Wrappers, lease' # lease, lease' # Nothing, lease'.pid = p, Phase(p) = "judged",
                    NEW e \in queue, NEW own \in queue, own.pid = p
             PROVE  ~(e.at < own.at /\ e.since < own.since)
  BY DEF TakenInTurn
<1>1. ~(lease # Nothing /\ lease'.pid = lease.pid)
  <2>1. Phase(p) \notin OwnerPhases
    BY WaiterRunsNone DEF WaitPhases
  <2> QED
    BY <2>1 DEF LeaseInv, OwnerInv
<1>2. ASSUME NEW q \in Wrappers, WriteRecord(q) PROVE FALSE
  <2>1. lease # Nothing /\ lease \in Leases
    BY <1>2, RewriterAlone, LeaseParts DEF WriteRecord, LeaseInv
  <2>2. \E child, beat : lease' = [lease EXCEPT !.child = child, !.beat = beat]
    BY <1>2 DEF WriteRecord
  <2>3. lease'.pid = lease.pid
    BY <2>1, <2>2 DEF Leases
  <2> QED
    BY <2>1, <2>3, <1>1
<1>3. ASSUME NEW q \in Wrappers, Beat(q) PROVE FALSE
  <2>1. lease # Nothing /\ \E beat : lease' = [lease EXCEPT !.beat = beat]
    BY <1>3 DEF Beat
  <2>2. lease \in Leases
    BY <2>1, LeaseParts DEF LeaseInv
  <2>3. lease'.pid = lease.pid
    BY <2>1, <2>2 DEF Leases
  <2> QED
    BY <2>1, <2>3, <1>1
<1>4. ASSUME NEW q \in Wrappers, TakeTurn(q) PROVE ~(e.at < own.at /\ e.since < own.since)
  <2>1. MayTake(q) /\ q = p
    <3>1. MayTake(q)
      BY <1>4 DEF TakeTurn
    <3>2. lease' = [pid |-> q, beat |-> wrapper[q].at, child |-> Nothing, hold |-> q \in Acquirers]
      BY <3>1, <1>4 DEF TakeTurn
    <3> QED
      BY <3>1, <3>2
  <2>2. own.at <= e.at \/ own.since <= e.since
    BY <2>1 DEF MayTake, LeaseInv, HeadInv
  <2>3. e.at \in Nat /\ own.at \in Nat /\ e.since \in Nat /\ own.since \in Nat
    BY DEF LeaseInv, LeaseTypeInv, Entries
  <2>4. PICK a \in Nat, b \in Nat, c \in Nat, d \in Nat : a = e.at /\ b = own.at /\ c = e.since /\ d = own.since
    BY <2>3
  <2> QED
    BY <2>2, <2>4
<1>5. ASSUME NEW q \in Wrappers, Begin(q) \/ JoinQueue(q) \/ BeatEntry(q) \/ JoinHold(q) \/ Judge(q) \/ Start(q) \/ Record(q)
      PROVE  FALSE
  BY <1>5 DEF Begin, JoinQueue, BeatEntry, JoinHold, Judge, Start, Record
<1>6. ASSUME NEW q \in Wrappers, KeepAlive(q) \/ Finish(q) \/ RunEnds(q) \/ Kill(q) \/ Suspend(q) \/ Resume(q) PROVE FALSE
  BY <1>6 DEF KeepAlive, Finish, ReleaseOwn, RunEnds, Kill, Suspend, Resume
<1>7. ASSUME NEW lane, ReleaseLane(lane) PROVE FALSE
  BY <1>7 DEF ReleaseLane
<1>8. ~Tick
  BY DEF Tick
<1> QED
  BY <1>2, <1>3, <1>4, <1>5, <1>6, <1>7, <1>8 DEF LeaseNext

-----------------------------------------------------------------------------
\* For any wrappers, limits and interleaving, kills, suspensions, lapses and torn readings included: two runs of different
\* lanes go on together only when the lease could not speak for one of them, NORUN is said of a record read whole only when
\* it speaks for none, who keeps its heartbeat keeps its place, and the lease is taken in the order of joining (takeTurn,
\* recordRun, keepAlive, releaseOwn, leaseStatus).
THEOREM OneRunAtATime == ASSUME LeaseAssumption PROVE LeaseSpec => OneRunInTurn
<1>1. LeaseInit => LeaseInv
  BY LeaseInitInv
<1>2. LeaseInv /\ [LeaseNext]_leaseVars => LeaseInv'
  BY LeaseStepInv
<1>3. LeaseInv => OneRun
  <2> SUFFICES ASSUME LeaseInv, NEW p \in Wrappers, NEW q \in Wrappers, p # q, run[p] = "live", run[q] = "live",
                      p \notin excused, q \notin excused
               PROVE  SameHold(p, q)
    BY DEF OneRun
  <2>1. Runs(p) /\ Runs(q) /\ SpokenFor(p) /\ SpokenFor(q)
    BY DEF LeaseInv, SpokenInv, Runs
  <2> QED
    BY <2>1, SpokenTogether
<1>4. LeaseInv => NorunIsTrue
  <2> SUFFICES ASSUME LeaseInv, LeaseStatus.holder = Nothing, ~LeaseStatus.unreadable,
                      NEW p \in Wrappers, run[p] = "live", p \notin excused
               PROVE  FALSE
    BY DEF NorunIsTrue
  <2>1. SpokenFor(p)
    BY DEF LeaseInv, SpokenInv, Runs
  <2>2. lease # Nothing /\ ~IsStale(lease, now)
    BY <2>1, SpokenIsLive DEF LeaseInv
  <2>3. ReadLease = lease
    BY DEF LeaseStatus, ReadLease
  <2> QED
    BY <2>2, <2>3 DEF LeaseStatus, IsStale
<1>5. LeaseInv => PlaceKept
  BY DEF LeaseInv, HeartInv
<1>6. LeaseInv /\ [LeaseNext]_leaseVars => [TakenInTurn]_leaseVars
  BY TakenInTurnStep
<1> QED
  BY <1>1, <1>2, <1>3, <1>4, <1>5, <1>6, PTL DEF LeaseSpec, OneRunInTurn, InTurn

-----------------------------------------------------------------------------
(* The daemon's start *)

\* Where a start takes a lock, and where it has the start lock.
LockSteps == {"link", "read", "move", "inspect", "relink"}
StartSteps == {"listen", "probe", "unlink", "relisten", "check", "release"}

\* What has a lock: the start lock until its release, the store lock until the end of the closing that gives it up.
Holds(p, l) == IF l = "start" THEN pc[p] \in StartSteps ELSE pc[p] = "open" \/ (Running(p) /\ "lock" \in owes[p])

\* Those that run are no more than the bound lets.
Up == {p \in Starts : Running(p)}
NumberInv == IsFiniteSet(Up) /\ Cardinality(Up) \leq MaxAtOnce

\* What a start has taken and owes at each step, and where it has a file aside.
StepOf(p) ==
    /\ starter[p] = "idle" => pc[p] = "none"
    /\ aside[p] # None <=> pc[p] \in {"inspect", "keyback"}
    /\ owes[p] \in {{}, {"key"}, {"key", "lock"}}
    /\ taking[p] = "start" <=> owes[p] = {}
    /\ pc[p] \in StartSteps \cup {"key", "none"} => owes[p] = {}
    /\ pc[p] \in LockSteps => "lock" \notin owes[p]
    /\ pc[p] = "open" => owes[p] = {"key"}
    /\ pc[p] \in {"serving", "running", "checkstore", "releasestore"} => "lock" \in owes[p]
    /\ pc[p] \in {"keymove", "keyback"} => "key" \in owes[p]

StepInv == \A p \in Starts : StepOf(p)

\* A process that listens is the one the socket names; a start that found nobody listening may unlink it.
ServerOf(p) ==
    /\ p \in listening => /\ socket = p
                          /\ \/ pc[p] \in {"check", "release", "key", "open", "serving", "running", "close"}
                             \/ pc[p] \in LockSteps /\ taking[p] = "store"
    /\ pc[p] \in {"key", "open", "serving", "running", "close"} => p \in listening
    /\ pc[p] \in LockSteps /\ taking[p] = "store" => p \in listening
    /\ pc[p] \in {"serving", "running"} => p \in open \cap handled
    /\ p \in open => pc[p] \in {"serving", "running", "close"} /\ "lock" \in owes[p]
    /\ pc[p] = "unlink" => listening = {}

ServerInv == \A p \in Starts : ServerOf(p)

Ended(pid) == pid \in Starts => pc[pid] \in {"refused", "ended"}

\* A lock names who began; the holder a start read as ended is no process that runs.
NamedInv ==
    /\ \A l \in Locks : fileLock[l] \in Starts => pc[fileLock[l]] # "none"
    /\ \A p \in Starts : pc[p] = "inspect" /\ aside[p] \in Starts => pc[aside[p]] # "none"
    /\ \A p \in Starts : pc[p] \in {"move", "inspect"} => saw[p] # None /\ Ended(saw[p])

\* The lock names its holder, or another start has moved it aside, will put it back and left its place empty.
HeldOf(p, l) ==
    \/ fileLock[l] = p
    \/ fileLock[l] = None /\ \E q \in Starts : pc[q] = "inspect" /\ taking[q] = l /\ aside[q] = p

LockInv == \A l \in Locks, p \in Starts : Holds(p, l) => HeldOf(p, l)

\* The same of the key of a daemon that listens.
KeyOf(p) ==
    \/ key = p
    \/ key = None /\ \E q \in Starts : pc[q] = "keyback" /\ aside[q] = p

KeyInv == \A p \in Starts : p \in listening /\ "key" \in owes[p] => KeyOf(p)

\* No three run at once.
TwoInv == \A p, q, r \in Starts : Running(p) /\ Running(q) /\ Running(r) => p = q \/ p = r \/ q = r

-----------------------------------------------------------------------------

\* Each part of the invariant is kept by every step.
LEMMA TypesKept ==
    ASSUME StartAssumption, TypeOK, [Next]_vars
    PROVE  TypeOK'
<1> USE DEF TypeOK, Over, Locks, Pids, processVars, fileVars, Goto, StartAssumption
<1>1. ASSUME NEW p \in Starts, StartDaemon(p) PROVE TypeOK'
  BY <1>1 DEF StartDaemon, Spawned
<1>2. ASSUME NEW p \in Starts, AcceptStart(p) PROVE TypeOK'
  BY <1>2 DEF AcceptStart
<1>3. ASSUME NEW p \in Starts, Abandon(p) PROVE TypeOK'
  BY <1>3 DEF Abandon, Ends
<1>4. ASSUME NEW p \in Starts, StarterEnds(p) PROVE TypeOK'
  BY <1>4 DEF StarterEnds
<1>5. ASSUME NEW p \in Starts, StopDaemon(p) PROVE TypeOK'
  BY <1>5 DEF StopDaemon
<1>6. ASSUME NEW p \in Starts, DirectoryRefuses(p) PROVE TypeOK'
  BY <1>6 DEF DirectoryRefuses
<1>7. ASSUME NEW p \in Starts, Link(p) PROVE TypeOK'
  BY <1>7 DEF Link, Taken, NotTaken
<1>8. ASSUME NEW p \in Starts, ReadHolder(p) PROVE TypeOK'
  BY <1>8 DEF ReadHolder, NotTaken
<1>9. ASSUME NEW p \in Starts, MoveAside(p) PROVE TypeOK'
  BY <1>9 DEF MoveAside
<1>10. ASSUME NEW p \in Starts, Inspect(p) PROVE TypeOK'
  BY <1>10 DEF Inspect
<1>11. ASSUME NEW p \in Starts, Release(p) PROVE TypeOK'
  BY <1>11 DEF Release
<1>12. ASSUME NEW p \in Starts, TryListen(p) PROVE TypeOK'
  BY <1>12 DEF TryListen
<1>13. ASSUME NEW p \in Starts, Probe(p) PROVE TypeOK'
  BY <1>13 DEF Probe
<1>14. ASSUME NEW p \in Starts, UnlinkSocket(p) PROVE TypeOK'
  BY <1>14 DEF UnlinkSocket
<1>15. ASSUME NEW p \in Starts, CreateKey(p) PROVE TypeOK'
  BY <1>15 DEF CreateKey
<1>16. ASSUME NEW p \in Starts, OpenStore(p) PROVE TypeOK'
  BY <1>16 DEF OpenStore, Serves
<1>17. ASSUME NEW p \in Starts, StartAccepted(p) PROVE TypeOK'
  BY <1>17 DEF StartAccepted
<1>18. ASSUME NEW p \in Starts, CloseListening(p) PROVE TypeOK'
  BY <1>18 DEF CloseListening
<1>19. ASSUME NEW p \in Starts, RemoveKey(p) PROVE TypeOK'
  BY <1>19 DEF RemoveKey, AfterKey
<1>20. ASSUME NEW p \in Starts, PutBack(p) PROVE TypeOK'
  BY <1>20 DEF PutBack, AfterKey
<1>21. ASSUME NEW p \in Starts, StopSignal(p) PROVE TypeOK'
  BY <1>21 DEF StopSignal
<1>22. ASSUME NEW p \in Starts, Killed(p) PROVE TypeOK'
  BY <1>22 DEF Killed, Ends
<1>23. CASE WaitForExit \/ StopDeadline \/ UNCHANGED vars
  BY <1>23 DEF WaitForExit, StopDeadline, vars
<1> HIDE DEF TypeOK, Over, Locks, Pids, processVars, fileVars, Goto, StartAssumption
<1> QED
  BY <1>1, <1>2, <1>3, <1>4, <1>5, <1>6, <1>7, <1>8, <1>9, <1>10, <1>11, <1>12, <1>13, <1>14, <1>15, <1>16, <1>17,
     <1>18, <1>19, <1>20, <1>21, <1>22, <1>23 DEF Next, Step

LEMMA StepsKept ==
    ASSUME StartAssumption, TypeOK, StepInv, KeepsAside, [Next]_vars
    PROVE  StepInv'
<1> USE DEF TypeOK, Over, Locks, Pids, processVars, fileVars, Goto, StartAssumption, StepInv, StepOf, KeepsAside,
    StartSteps, LockSteps
<1>1. ASSUME NEW p \in Starts, StartDaemon(p) PROVE StepInv'
  BY <1>1 DEF StartDaemon, Spawned
<1>2. ASSUME NEW p \in Starts, AcceptStart(p) PROVE StepInv'
  BY <1>2 DEF AcceptStart
<1>3. ASSUME NEW p \in Starts, Abandon(p) PROVE StepInv'
  BY <1>3 DEF Abandon, Ends, Running
<1>4. ASSUME NEW p \in Starts, StarterEnds(p) PROVE StepInv'
  BY <1>4 DEF StarterEnds
<1>5. ASSUME NEW p \in Starts, StopDaemon(p) PROVE StepInv'
  BY <1>5 DEF StopDaemon
<1>6. ASSUME NEW p \in Starts, DirectoryRefuses(p) PROVE StepInv'
  BY <1>6 DEF DirectoryRefuses
<1>7. ASSUME NEW p \in Starts, Link(p) PROVE StepInv'
  BY <1>7 DEF Link, Taken, NotTaken
<1>8. ASSUME NEW p \in Starts, ReadHolder(p) PROVE StepInv'
  BY <1>8 DEF ReadHolder, NotTaken
<1>9. ASSUME NEW p \in Starts, MoveAside(p) PROVE StepInv'
  BY <1>9 DEF MoveAside
<1>10. ASSUME NEW p \in Starts, Inspect(p) PROVE StepInv'
  BY <1>10 DEF Inspect
<1>11. ASSUME NEW p \in Starts, Release(p) PROVE StepInv'
  BY <1>11 DEF Release
<1>12. ASSUME NEW p \in Starts, TryListen(p) PROVE StepInv'
  BY <1>12 DEF TryListen
<1>13. ASSUME NEW p \in Starts, Probe(p) PROVE StepInv'
  BY <1>13 DEF Probe
<1>14. ASSUME NEW p \in Starts, UnlinkSocket(p) PROVE StepInv'
  BY <1>14 DEF UnlinkSocket
<1>15. ASSUME NEW p \in Starts, CreateKey(p) PROVE StepInv'
  BY <1>15 DEF CreateKey
<1>16. ASSUME NEW p \in Starts, OpenStore(p) PROVE StepInv'
  BY <1>16 DEF OpenStore, Serves
<1>17. ASSUME NEW p \in Starts, StartAccepted(p) PROVE StepInv'
  BY <1>17 DEF StartAccepted
<1>18. ASSUME NEW p \in Starts, CloseListening(p) PROVE StepInv'
  BY <1>18 DEF CloseListening
<1>19. ASSUME NEW p \in Starts, RemoveKey(p) PROVE StepInv'
  BY <1>19 DEF RemoveKey, AfterKey
<1>20. ASSUME NEW p \in Starts, PutBack(p) PROVE StepInv'
  BY <1>20 DEF PutBack, AfterKey
<1>21. ASSUME NEW p \in Starts, StopSignal(p) PROVE StepInv'
  BY <1>21 DEF StopSignal
<1>22. ASSUME NEW p \in Starts, Killed(p) PROVE StepInv'
  BY <1>22 DEF Killed, Ends, Running
<1>23. CASE WaitForExit \/ StopDeadline \/ UNCHANGED vars
  BY <1>23 DEF WaitForExit, StopDeadline, vars
<1> HIDE DEF TypeOK, Over, Locks, Pids, processVars, fileVars, Goto, StartAssumption, StepInv, StepOf, KeepsAside,
    StartSteps, LockSteps
<1> QED
  BY <1>1, <1>2, <1>3, <1>4, <1>5, <1>6, <1>7, <1>8, <1>9, <1>10, <1>11, <1>12, <1>13, <1>14, <1>15, <1>16, <1>17,
     <1>18, <1>19, <1>20, <1>21, <1>22, <1>23 DEF Next, Step

LEMMA NamesKept ==
    ASSUME StartAssumption, TypeOK, StepInv, NamedInv, KeepsAside, [Next]_vars
    PROVE  NamedInv'
<1> USE DEF TypeOK, Over, Locks, Pids, processVars, fileVars, Goto, StartAssumption, StepInv, StepOf, KeepsAside,
    StartSteps, LockSteps, NamedInv, Ended
<1>1. ASSUME NEW p \in Starts, StartDaemon(p) PROVE NamedInv'
  BY <1>1 DEF StartDaemon, Spawned
<1>2. ASSUME NEW p \in Starts, AcceptStart(p) PROVE NamedInv'
  BY <1>2 DEF AcceptStart
<1>3. ASSUME NEW p \in Starts, Abandon(p) PROVE NamedInv'
  BY <1>3 DEF Abandon, Ends, Running
<1>4. ASSUME NEW p \in Starts, StarterEnds(p) PROVE NamedInv'
  BY <1>4 DEF StarterEnds
<1>5. ASSUME NEW p \in Starts, StopDaemon(p) PROVE NamedInv'
  BY <1>5 DEF StopDaemon
<1>6. ASSUME NEW p \in Starts, DirectoryRefuses(p) PROVE NamedInv'
  BY <1>6 DEF DirectoryRefuses
<1>7. ASSUME NEW p \in Starts, Link(p) PROVE NamedInv'
  BY <1>7 DEF Link, Taken, NotTaken
<1>8. ASSUME NEW p \in Starts, ReadHolder(p) PROVE NamedInv'
  BY <1>8 DEF ReadHolder, NotTaken, Running
<1>9. ASSUME NEW p \in Starts, MoveAside(p) PROVE NamedInv'
  BY <1>9 DEF MoveAside
<1>10. ASSUME NEW p \in Starts, Inspect(p) PROVE NamedInv'
  BY <1>10 DEF Inspect
<1>11. ASSUME NEW p \in Starts, Release(p) PROVE NamedInv'
  BY <1>11 DEF Release
<1>12. ASSUME NEW p \in Starts, TryListen(p) PROVE NamedInv'
  BY <1>12 DEF TryListen
<1>13. ASSUME NEW p \in Starts, Probe(p) PROVE NamedInv'
  BY <1>13 DEF Probe
<1>14. ASSUME NEW p \in Starts, UnlinkSocket(p) PROVE NamedInv'
  BY <1>14 DEF UnlinkSocket
<1>15. ASSUME NEW p \in Starts, CreateKey(p) PROVE NamedInv'
  BY <1>15 DEF CreateKey
<1>16. ASSUME NEW p \in Starts, OpenStore(p) PROVE NamedInv'
  BY <1>16 DEF OpenStore, Serves
<1>17. ASSUME NEW p \in Starts, StartAccepted(p) PROVE NamedInv'
  BY <1>17 DEF StartAccepted
<1>18. ASSUME NEW p \in Starts, CloseListening(p) PROVE NamedInv'
  BY <1>18 DEF CloseListening
<1>19. ASSUME NEW p \in Starts, RemoveKey(p) PROVE NamedInv'
  BY <1>19 DEF RemoveKey, AfterKey
<1>20. ASSUME NEW p \in Starts, PutBack(p) PROVE NamedInv'
  BY <1>20 DEF PutBack, AfterKey
<1>21. ASSUME NEW p \in Starts, StopSignal(p) PROVE NamedInv'
  BY <1>21 DEF StopSignal
<1>22. ASSUME NEW p \in Starts, Killed(p) PROVE NamedInv'
  BY <1>22 DEF Killed, Ends, Running
<1>23. CASE WaitForExit \/ StopDeadline \/ UNCHANGED vars
  BY <1>23 DEF WaitForExit, StopDeadline, vars
<1> HIDE DEF TypeOK, Over, Locks, Pids, processVars, fileVars, Goto, StartAssumption, StepInv, StepOf, KeepsAside,
    StartSteps, LockSteps, NamedInv, Ended
<1> QED
  BY <1>1, <1>2, <1>3, <1>4, <1>5, <1>6, <1>7, <1>8, <1>9, <1>10, <1>11, <1>12, <1>13, <1>14, <1>15, <1>16, <1>17,
     <1>18, <1>19, <1>20, <1>21, <1>22, <1>23 DEF Next, Step

\* Only a start adds to those that run.
LEMMA UpShrinks ==
    ASSUME StartAssumption, TypeOK, StepInv, [Next]_vars, \A p \in Starts : ~StartDaemon(p)
    PROVE  Up' \subseteq Up
<1> USE DEF TypeOK, Over, Locks, Pids, processVars, fileVars, Goto, StartAssumption, Up, Running, StepInv, StepOf
<1>2. ASSUME NEW p \in Starts, AcceptStart(p) PROVE Up' \subseteq Up
  BY <1>2 DEF AcceptStart
<1>3. ASSUME NEW p \in Starts, Abandon(p) PROVE Up' \subseteq Up
  BY <1>3 DEF Abandon, Ends
<1>4. ASSUME NEW p \in Starts, StarterEnds(p) PROVE Up' \subseteq Up
  BY <1>4 DEF StarterEnds
<1>5. ASSUME NEW p \in Starts, StopDaemon(p) PROVE Up' \subseteq Up
  BY <1>5 DEF StopDaemon
<1>6. ASSUME NEW p \in Starts, DirectoryRefuses(p) PROVE Up' \subseteq Up
  BY <1>6 DEF DirectoryRefuses
<1>7. ASSUME NEW p \in Starts, Link(p) PROVE Up' \subseteq Up
  BY <1>7 DEF Link, Taken, NotTaken
<1>8. ASSUME NEW p \in Starts, ReadHolder(p) PROVE Up' \subseteq Up
  BY <1>8 DEF ReadHolder, NotTaken
<1>9. ASSUME NEW p \in Starts, MoveAside(p) PROVE Up' \subseteq Up
  BY <1>9 DEF MoveAside
<1>10. ASSUME NEW p \in Starts, Inspect(p) PROVE Up' \subseteq Up
  BY <1>10 DEF Inspect
<1>11. ASSUME NEW p \in Starts, Release(p) PROVE Up' \subseteq Up
  BY <1>11 DEF Release
<1>12. ASSUME NEW p \in Starts, TryListen(p) PROVE Up' \subseteq Up
  BY <1>12 DEF TryListen
<1>13. ASSUME NEW p \in Starts, Probe(p) PROVE Up' \subseteq Up
  BY <1>13 DEF Probe
<1>14. ASSUME NEW p \in Starts, UnlinkSocket(p) PROVE Up' \subseteq Up
  BY <1>14 DEF UnlinkSocket
<1>15. ASSUME NEW p \in Starts, CreateKey(p) PROVE Up' \subseteq Up
  BY <1>15 DEF CreateKey
<1>16. ASSUME NEW p \in Starts, OpenStore(p) PROVE Up' \subseteq Up
  BY <1>16 DEF OpenStore, Serves
<1>17. ASSUME NEW p \in Starts, StartAccepted(p) PROVE Up' \subseteq Up
  BY <1>17 DEF StartAccepted
<1>18. ASSUME NEW p \in Starts, CloseListening(p) PROVE Up' \subseteq Up
  BY <1>18 DEF CloseListening
<1>19. ASSUME NEW p \in Starts, RemoveKey(p) PROVE Up' \subseteq Up
  BY <1>19 DEF RemoveKey, AfterKey
<1>20. ASSUME NEW p \in Starts, PutBack(p) PROVE Up' \subseteq Up
  BY <1>20 DEF PutBack, AfterKey
<1>21. ASSUME NEW p \in Starts, StopSignal(p) PROVE Up' \subseteq Up
  BY <1>21 DEF StopSignal
<1>22. ASSUME NEW p \in Starts, Killed(p) PROVE Up' \subseteq Up
  BY <1>22 DEF Killed, Ends
<1>23. CASE WaitForExit \/ StopDeadline \/ UNCHANGED vars
  BY <1>23 DEF WaitForExit, StopDeadline, vars
<1> QED
  BY <1>2, <1>3, <1>4, <1>5, <1>6, <1>7, <1>8, <1>9, <1>10, <1>11, <1>12, <1>13, <1>14, <1>15, <1>16, <1>17, <1>18,
     <1>19, <1>20, <1>21, <1>22, <1>23 DEF Next, Step

\* A start begins only below the bound.
LEMMA StartsCounted ==
    ASSUME StartAssumption, TypeOK, StepInv, NumberInv, [Next]_vars
    PROVE  NumberInv'
<1>1. CASE \A p \in Starts : ~StartDaemon(p)
  <2>1. Up' \subseteq Up
    BY <1>1, UpShrinks
  <2>2. IsFiniteSet(Up') /\ Cardinality(Up') \leq Cardinality(Up) /\ Cardinality(Up) \in Nat /\ Cardinality(Up') \in Nat
    BY <2>1, FS_Subset, FS_CardinalityType DEF NumberInv
  <2> QED
    BY <2>2 DEF NumberInv, StartAssumption
<1>2. ASSUME NEW p \in Starts, StartDaemon(p) PROVE NumberInv'
  <2>1. Cardinality(Up) < MaxAtOnce
    BY <1>2 DEF StartDaemon, Up
  <2>2. Up' \subseteq Up \cup {p}
    BY <1>2 DEF StartDaemon, Spawned, Goto, Up, Running, TypeOK
  <2>3. IsFiniteSet(Up \cup {p}) /\ Cardinality(Up \cup {p}) \leq Cardinality(Up) + 1 /\ Cardinality(Up) \in Nat
    <3>1. IsFiniteSet(Up) /\ Cardinality(Up) \in Nat
      BY FS_CardinalityType DEF NumberInv
    <3>2. /\ IsFiniteSet(Up \cup {p})
          /\ Cardinality(Up \cup {p}) = Cardinality(Up) \/ Cardinality(Up \cup {p}) = Cardinality(Up) + 1
      BY <3>1, FS_AddElement, Zenon
    <3> QED
      BY <3>1, <3>2
  <2>4. IsFiniteSet(Up') /\ Cardinality(Up') \leq Cardinality(Up \cup {p})
    BY <2>2, <2>3, FS_Subset
  <2>5. Cardinality(Up') \in Nat /\ Cardinality(Up \cup {p}) \in Nat
    BY <2>3, <2>4, FS_CardinalityType
  <2> QED
    BY <2>1, <2>3, <2>4, <2>5 DEF NumberInv, StartAssumption
<1> QED
  BY <1>1, <1>2

\* With the bound at two, of three that run two are one.
LEMMA TwoRun ==
    ASSUME StartAssumption, MaxAtOnce \leq 2, NumberInv
    PROVE  TwoInv
<1> SUFFICES ASSUME NEW p \in Starts, NEW q \in Starts, NEW r \in Starts, Running(p), Running(q), Running(r),
                    p # q, p # r, q # r
             PROVE  FALSE
  BY DEF TwoInv
<1>1. {p, q, r} \subseteq Up
  BY DEF Up
<1>2. IsFiniteSet({p}) /\ Cardinality({p}) = 1
  BY FS_Singleton
<1>3. IsFiniteSet({p} \cup {q}) /\ Cardinality({p} \cup {q}) = 2
  <2>1. q \notin {p}
    OBVIOUS
  <2>2. IsFiniteSet({p} \cup {q}) /\ Cardinality({p} \cup {q}) = Cardinality({p}) + 1
    BY <1>2, <2>1, FS_AddElement
  <2> QED
    BY <1>2, <2>2
<1>4. IsFiniteSet(({p} \cup {q}) \cup {r}) /\ Cardinality(({p} \cup {q}) \cup {r}) = 3
  <2>1. r \notin {p} \cup {q}
    OBVIOUS
  <2>2. Cardinality(({p} \cup {q}) \cup {r}) = Cardinality({p} \cup {q}) + 1 /\ IsFiniteSet(({p} \cup {q}) \cup {r})
    BY <1>3, <2>1, FS_AddElement
  <2> QED
    BY <1>3, <2>2
<1>5. {p, q, r} = ({p} \cup {q}) \cup {r}
  OBVIOUS
<1>6. Cardinality({p, q, r}) \leq Cardinality(Up) /\ Cardinality(Up) \in Nat
  BY <1>1, FS_Subset, FS_CardinalityType DEF NumberInv
<1> QED
  BY <1>4, <1>5, <1>6 DEF NumberInv, StartAssumption

\* A lock has one holder: a lock moved aside takes a second process, which leaves no third to take it.
LEMMA OneHolds ==
    ASSUME StartAssumption, TypeOK, StepInv, LockInv, TwoInv, NEW l \in Locks, NEW p \in Starts, NEW q \in Starts,
           Holds(p, l), Holds(q, l)
    PROVE  p = q
  BY DEF LockInv, HeldOf, TwoInv, Holds, Running, Over, StartSteps, LockSteps, StepInv, StepOf, Locks, TypeOK,
     StartAssumption

LEMMA ServersKept ==
    ASSUME StartAssumption, TypeOK, StepInv, ServerInv, LockInv, TwoInv, KeepsAside, [Next]_vars
    PROVE  ServerInv'
<1> USE DEF TypeOK, Over, Locks, Pids, processVars, fileVars, Goto, StartAssumption, StepInv, StepOf, KeepsAside,
    StartSteps, LockSteps, ServerInv, ServerOf
<1>1. ASSUME NEW p \in Starts, StartDaemon(p) PROVE ServerInv'
  BY <1>1 DEF StartDaemon, Spawned
<1>2. ASSUME NEW p \in Starts, AcceptStart(p) PROVE ServerInv'
  BY <1>2 DEF AcceptStart
<1>3. ASSUME NEW p \in Starts, Abandon(p) PROVE ServerInv'
  BY <1>3 DEF Abandon, Ends, Running
<1>4. ASSUME NEW p \in Starts, StarterEnds(p) PROVE ServerInv'
  BY <1>4 DEF StarterEnds
<1>5. ASSUME NEW p \in Starts, StopDaemon(p) PROVE ServerInv'
  BY <1>5 DEF StopDaemon
<1>6. ASSUME NEW p \in Starts, DirectoryRefuses(p) PROVE ServerInv'
  BY <1>6 DEF DirectoryRefuses
<1>7. ASSUME NEW p \in Starts, Link(p) PROVE ServerInv'
  BY <1>7 DEF Link, Taken, NotTaken
<1>8. ASSUME NEW p \in Starts, ReadHolder(p) PROVE ServerInv'
  BY <1>8 DEF ReadHolder, NotTaken
<1>9. ASSUME NEW p \in Starts, MoveAside(p) PROVE ServerInv'
  BY <1>9 DEF MoveAside
<1>10. ASSUME NEW p \in Starts, Inspect(p) PROVE ServerInv'
  BY <1>10 DEF Inspect
<1>11. ASSUME NEW p \in Starts, Release(p) PROVE ServerInv'
  BY <1>11 DEF Release
<1>12. ASSUME NEW p \in Starts, TryListen(p) PROVE ServerInv'
  <2>1. \A q \in Starts : pc[q] = "unlink" => q = p
    <3> SUFFICES ASSUME NEW q \in Starts, pc[q] = "unlink" PROVE q = p
      OBVIOUS
    <3>1. Holds(p, "start") /\ Holds(q, "start") /\ "start" \in Locks
      BY <1>12 DEF TryListen, Holds
    <3> QED
      BY <3>1, OneHolds
  <2> QED
    BY <1>12, <2>1 DEF TryListen
<1>13. ASSUME NEW p \in Starts, Probe(p) PROVE ServerInv'
  BY <1>13 DEF Probe, Connects
<1>14. ASSUME NEW p \in Starts, UnlinkSocket(p) PROVE ServerInv'
  BY <1>14 DEF UnlinkSocket
<1>15. ASSUME NEW p \in Starts, CreateKey(p) PROVE ServerInv'
  BY <1>15 DEF CreateKey
<1>16. ASSUME NEW p \in Starts, OpenStore(p) PROVE ServerInv'
  BY <1>16 DEF OpenStore, Serves
<1>17. ASSUME NEW p \in Starts, StartAccepted(p) PROVE ServerInv'
  BY <1>17 DEF StartAccepted
<1>18. ASSUME NEW p \in Starts, CloseListening(p) PROVE ServerInv'
  BY <1>18 DEF CloseListening
<1>19. ASSUME NEW p \in Starts, RemoveKey(p) PROVE ServerInv'
  BY <1>19 DEF RemoveKey, AfterKey
<1>20. ASSUME NEW p \in Starts, PutBack(p) PROVE ServerInv'
  BY <1>20 DEF PutBack, AfterKey
<1>21. ASSUME NEW p \in Starts, StopSignal(p) PROVE ServerInv'
  BY <1>21 DEF StopSignal
<1>22. ASSUME NEW p \in Starts, Killed(p) PROVE ServerInv'
  BY <1>22 DEF Killed, Ends, Running
<1>23. CASE WaitForExit \/ StopDeadline \/ UNCHANGED vars
  BY <1>23 DEF WaitForExit, StopDeadline, vars
<1> HIDE DEF TypeOK, Over, Locks, Pids, processVars, fileVars, Goto, StartAssumption, StepInv, StepOf, KeepsAside,
    StartSteps, LockSteps, ServerInv, ServerOf
<1> QED
  BY <1>1, <1>2, <1>3, <1>4, <1>5, <1>6, <1>7, <1>8, <1>9, <1>10, <1>11, <1>12, <1>13, <1>14, <1>15, <1>16, <1>17,
     <1>18, <1>19, <1>20, <1>21, <1>22, <1>23 DEF Next, Step

\* A step that leaves the lock files, and the starts with one aside, keeps every lock that is held after it.
LEMMA LocksStay ==
    ASSUME LockInv, UNCHANGED fileLock, \A l \in Locks, r \in Starts : Holds(r, l)' => Holds(r, l),
           \A q \in Starts : pc[q] = "inspect" => pc'[q] = "inspect" /\ taking'[q] = taking[q] /\ aside'[q] = aside[q]
    PROVE  LockInv'
<1> SUFFICES ASSUME NEW l \in Locks, NEW r \in Starts, Holds(r, l)' PROVE HeldOf(r, l)'
  BY DEF LockInv
<1>1. HeldOf(r, l)
  BY DEF LockInv
<1>2. CASE fileLock[l] = r
  BY <1>2 DEF HeldOf
<1>3. CASE fileLock[l] # r
  <2>1. PICK q \in Starts : fileLock[l] = None /\ pc[q] = "inspect" /\ taking[q] = l /\ aside[q] = r
    BY <1>1, <1>3 DEF HeldOf
  <2> QED
    BY <2>1 DEF HeldOf
<1> QED
  BY <1>2, <1>3

LEMMA LocksKept ==
    ASSUME StartAssumption, TypeOK, StepInv, NamedInv, LockInv, TwoInv, KeepsAside, [Next]_vars
    PROVE  LockInv'
<1> USE DEF TypeOK, Over, Locks, Pids, processVars, fileVars, Goto, StartAssumption, StepInv, StepOf, KeepsAside,
    StartSteps, LockSteps, LockInv, Holds, HeldOf, Running, NamedInv, Ended, TwoInv
<1>1. ASSUME NEW p \in Starts, StartDaemon(p) PROVE LockInv'
  BY <1>1 DEF StartDaemon, Spawned
<1>2. ASSUME NEW p \in Starts, AcceptStart(p) PROVE LockInv'
  BY <1>2 DEF AcceptStart
<1>3. ASSUME NEW p \in Starts, Abandon(p) PROVE LockInv'
  BY <1>3 DEF Abandon, Ends
<1>4. ASSUME NEW p \in Starts, StarterEnds(p) PROVE LockInv'
  BY <1>4 DEF StarterEnds
<1>5. ASSUME NEW p \in Starts, StopDaemon(p) PROVE LockInv'
  BY <1>5 DEF StopDaemon
<1>6. ASSUME NEW p \in Starts, DirectoryRefuses(p) PROVE LockInv'
  BY <1>6 DEF DirectoryRefuses
<1>7. ASSUME NEW p \in Starts, Link(p) PROVE LockInv'
  <2> SUFFICES ASSUME NEW l \in Locks, NEW r \in Starts, Holds(r, l)' PROVE HeldOf(r, l)'
    BY DEF LockInv
  <2>1. CASE r = p
    BY <1>7, <2>1 DEF Link, Taken, NotTaken
  <2>2. CASE r # p
    <3>1. Holds(r, l) /\ HeldOf(r, l)
      BY <1>7, <2>2 DEF Link
    <3>2. ASSUME fileLock[l] # r PROVE FALSE
      <4>1. PICK q \in Starts : pc[q] = "inspect"
        BY <3>1, <3>2
      <4>2. q # r
        BY <3>1, <4>1
      <4>3. pc[p] \in {"link", "relink"} /\ q # p
        BY <1>7, <4>1 DEF Link
      <4>4. Running(p) /\ Running(q) /\ Running(r)
        BY <3>1, <4>1, <4>3
      <4> HIDE DEF Running
      <4> QED
        BY <2>2, <4>2, <4>3, <4>4
    <3> QED
      <4>1. fileLock[l] = r /\ r # None /\ l \in Locks
        BY <3>2
      <4>2. fileLock'[l] = r
        <5>1. \/ UNCHANGED fileLock
              \/ fileLock[taking[p]] = None /\ fileLock' = [fileLock EXCEPT ![taking[p]] = p]
          BY <1>7 DEF Link
        <5> QED
          BY <4>1, <5>1
      <4> QED
        BY <4>2
  <2> QED
    BY <2>1, <2>2
<1>8. ASSUME NEW p \in Starts, ReadHolder(p) PROVE LockInv'
  BY <1>8 DEF ReadHolder, NotTaken
<1>9. ASSUME NEW p \in Starts, MoveAside(p) PROVE LockInv'
  BY <1>9 DEF MoveAside
<1>10. ASSUME NEW p \in Starts, Inspect(p) PROVE LockInv'
  <2> SUFFICES ASSUME NEW l \in Locks, NEW r \in Starts, Holds(r, l)' PROVE HeldOf(r, l)'
    BY DEF LockInv
  <2>1. r # p /\ Holds(r, l) /\ HeldOf(r, l) /\ Running(r) /\ Running(p)
    BY <1>10 DEF Inspect
  <2>2. CASE fileLock[l] = r
    BY <1>10, <2>1, <2>2 DEF Inspect
  <2>3. CASE fileLock[l] # r
    <3>1. PICK q \in Starts : fileLock[l] = None /\ pc[q] = "inspect" /\ taking[q] = l /\ aside[q] = r
      BY <2>1, <2>3
    <3>2. q = p
      <4>1. pc[p] = "inspect" /\ q # r
        BY <2>1, <3>1, <1>10 DEF Inspect
      <4>2. Running(q)
        BY <3>1
      <4> HIDE DEF Running
      <4> QED
        BY <2>1, <4>1, <4>2
    <3>3. saw[p] # r
      BY <1>10, <2>1 DEF Inspect
    <3> QED
      <4>1. taking[p] = l /\ aside[p] = r /\ aside[p] # saw[p] /\ fileLock[taking[p]] = None
        BY <3>1, <3>2, <3>3
      <4>2. fileLock' = [fileLock EXCEPT ![l] = r]
        BY <1>10, <4>1 DEF Inspect
      <4>3. fileLock'[l] = r
        BY <4>2
      <4> QED
        BY <4>3
  <2> QED
    BY <2>2, <2>3
<1>11. ASSUME NEW p \in Starts, Release(p) PROVE LockInv'
  BY <1>11 DEF Release
<1>12. ASSUME NEW p \in Starts, TryListen(p) PROVE LockInv'
  BY <1>12 DEF TryListen
<1>13. ASSUME NEW p \in Starts, Probe(p) PROVE LockInv'
  BY <1>13 DEF Probe
<1>14. ASSUME NEW p \in Starts, UnlinkSocket(p) PROVE LockInv'
  BY <1>14 DEF UnlinkSocket
<1>15. ASSUME NEW p \in Starts, CreateKey(p) PROVE LockInv'
  <2>1. \A q \in Starts : pc[q] = "inspect" => pc'[q] = "inspect" /\ taking'[q] = taking[q] /\ aside'[q] = aside[q]
    BY <1>15 DEF CreateKey
  <2>2. \A l \in Locks, r \in Starts : Holds(r, l)' => Holds(r, l)
    BY <1>15 DEF CreateKey
  <2>3. UNCHANGED fileLock
    BY <1>15 DEF CreateKey
  <2> HIDE DEF Locks, Holds, LockInv
  <2> QED
    BY <2>1, <2>2, <2>3, LocksStay
<1>16. ASSUME NEW p \in Starts, OpenStore(p) PROVE LockInv'
  BY <1>16 DEF OpenStore, Serves
<1>17. ASSUME NEW p \in Starts, StartAccepted(p) PROVE LockInv'
  BY <1>17 DEF StartAccepted
<1>18. ASSUME NEW p \in Starts, CloseListening(p) PROVE LockInv'
  BY <1>18 DEF CloseListening
<1>19. ASSUME NEW p \in Starts, RemoveKey(p) PROVE LockInv'
  BY <1>19 DEF RemoveKey, AfterKey
<1>20. ASSUME NEW p \in Starts, PutBack(p) PROVE LockInv'
  BY <1>20 DEF PutBack, AfterKey
<1>21. ASSUME NEW p \in Starts, StopSignal(p) PROVE LockInv'
  BY <1>21 DEF StopSignal
<1>22. ASSUME NEW p \in Starts, Killed(p) PROVE LockInv'
  BY <1>22 DEF Killed, Ends
<1>23. CASE WaitForExit \/ StopDeadline \/ UNCHANGED vars
  BY <1>23 DEF WaitForExit, StopDeadline, vars
<1> HIDE DEF TypeOK, Over, Locks, Pids, processVars, fileVars, Goto, StartAssumption, StepInv, StepOf, KeepsAside,
    StartSteps, LockSteps, LockInv, Holds, HeldOf, Running, NamedInv, Ended, TwoInv
<1> QED
  BY <1>1, <1>2, <1>3, <1>4, <1>5, <1>6, <1>7, <1>8, <1>9, <1>10, <1>11, <1>12, <1>13, <1>14, <1>15, <1>16, <1>17,
     <1>18, <1>19, <1>20, <1>21, <1>22, <1>23 DEF Next, Step

LEMMA KeysKept ==
    ASSUME StartAssumption, TypeOK, StepInv, ServerInv, KeyInv, TwoInv, KeepsAside, [Next]_vars
    PROVE  KeyInv'
<1> USE DEF TypeOK, Over, Locks, Pids, processVars, fileVars, Goto, StartAssumption, StepInv, StepOf, KeepsAside,
    StartSteps, LockSteps, KeyInv, KeyOf, Running, ServerInv, ServerOf, TwoInv
<1>1. ASSUME NEW p \in Starts, StartDaemon(p) PROVE KeyInv'
  BY <1>1 DEF StartDaemon, Spawned
<1>2. ASSUME NEW p \in Starts, AcceptStart(p) PROVE KeyInv'
  BY <1>2 DEF AcceptStart
<1>3. ASSUME NEW p \in Starts, Abandon(p) PROVE KeyInv'
  BY <1>3 DEF Abandon, Ends
<1>4. ASSUME NEW p \in Starts, StarterEnds(p) PROVE KeyInv'
  BY <1>4 DEF StarterEnds
<1>5. ASSUME NEW p \in Starts, StopDaemon(p) PROVE KeyInv'
  BY <1>5 DEF StopDaemon
<1>6. ASSUME NEW p \in Starts, DirectoryRefuses(p) PROVE KeyInv'
  BY <1>6 DEF DirectoryRefuses
<1>7. ASSUME NEW p \in Starts, Link(p) PROVE KeyInv'
  BY <1>7 DEF Link, Taken, NotTaken
<1>8. ASSUME NEW p \in Starts, ReadHolder(p) PROVE KeyInv'
  BY <1>8 DEF ReadHolder, NotTaken
<1>9. ASSUME NEW p \in Starts, MoveAside(p) PROVE KeyInv'
  BY <1>9 DEF MoveAside
<1>10. ASSUME NEW p \in Starts, Inspect(p) PROVE KeyInv'
  BY <1>10 DEF Inspect
<1>11. ASSUME NEW p \in Starts, Release(p) PROVE KeyInv'
  BY <1>11 DEF Release
<1>12. ASSUME NEW p \in Starts, TryListen(p) PROVE KeyInv'
  BY <1>12 DEF TryListen
<1>13. ASSUME NEW p \in Starts, Probe(p) PROVE KeyInv'
  BY <1>13 DEF Probe
<1>14. ASSUME NEW p \in Starts, UnlinkSocket(p) PROVE KeyInv'
  BY <1>14 DEF UnlinkSocket
<1>15. ASSUME NEW p \in Starts, CreateKey(p) PROVE KeyInv'
  BY <1>15 DEF CreateKey
<1>16. ASSUME NEW p \in Starts, OpenStore(p) PROVE KeyInv'
  BY <1>16 DEF OpenStore, Serves
<1>17. ASSUME NEW p \in Starts, StartAccepted(p) PROVE KeyInv'
  BY <1>17 DEF StartAccepted
<1>18. ASSUME NEW p \in Starts, CloseListening(p) PROVE KeyInv'
  BY <1>18 DEF CloseListening
<1>19. ASSUME NEW p \in Starts, RemoveKey(p) PROVE KeyInv'
  BY <1>19 DEF RemoveKey, AfterKey
<1>20. ASSUME NEW p \in Starts, PutBack(p) PROVE KeyInv'
  <2> SUFFICES ASSUME NEW r \in Starts, (r \in listening /\ "key" \in owes[r])' PROVE KeyOf(r)'
    BY DEF KeyInv
  <2>1. r # p /\ KeyOf(r) /\ Running(r) /\ Running(p)
    BY <1>20 DEF PutBack
  <2>2. CASE key = r
    BY <1>20, <2>1, <2>2 DEF PutBack
  <2>3. CASE key # r
    <3>1. PICK q \in Starts : key = None /\ pc[q] = "keyback" /\ aside[q] = r
      BY <2>1, <2>3
    <3>2. q = p
      BY <2>1, <3>1, <1>20 DEF PutBack
    <3> QED
      BY <1>20, <2>1, <3>1, <3>2 DEF PutBack
  <2> QED
    BY <2>2, <2>3
<1>21. ASSUME NEW p \in Starts, StopSignal(p) PROVE KeyInv'
  BY <1>21 DEF StopSignal
<1>22. ASSUME NEW p \in Starts, Killed(p) PROVE KeyInv'
  BY <1>22 DEF Killed, Ends
<1>23. CASE WaitForExit \/ StopDeadline \/ UNCHANGED vars
  BY <1>23 DEF WaitForExit, StopDeadline, vars
<1> HIDE DEF TypeOK, Over, Locks, Pids, processVars, fileVars, Goto, StartAssumption, StepInv, StepOf, KeepsAside,
    StartSteps, LockSteps, KeyInv, KeyOf, Running, ServerInv, ServerOf, TwoInv
<1> QED
  BY <1>1, <1>2, <1>3, <1>4, <1>5, <1>6, <1>7, <1>8, <1>9, <1>10, <1>11, <1>12, <1>13, <1>14, <1>15, <1>16, <1>17,
     <1>18, <1>19, <1>20, <1>21, <1>22, <1>23 DEF Next, Step

\* The inductive invariant.
StartInv == TypeOK /\ NumberInv /\ StepInv /\ ServerInv /\ NamedInv /\ LockInv /\ KeyInv

LEMMA StartInitially ==
    ASSUME StartAssumption, Init
    PROVE  StartInv
<1> USE DEF Init, StartAssumption
<1>1. TypeOK
  BY DEF TypeOK, Over, Locks, Pids
<1>2. Up = {}
  BY DEF Up, Running, Over
<1>3. NumberInv
  BY <1>2, FS_EmptySet DEF NumberInv
<1>4. StepInv /\ ServerInv /\ NamedInv
  BY DEF StepInv, StepOf, ServerInv, ServerOf, NamedInv, Ended, Locks, StartSteps, LockSteps
<1>5. LockInv /\ KeyInv
  BY DEF LockInv, KeyInv, Holds, Running, Over, StartSteps
<1> QED
  BY <1>1, <1>3, <1>4, <1>5 DEF StartInv

LEMMA StartStep ==
    ASSUME StartAssumption, MaxAtOnce \leq 2, StartInv, [Next]_vars, [KeepsAside]_vars
    PROVE  StartInv'
<1>1. KeepsAside
  BY DEF KeepsAside, StartInv, TypeOK, StepInv, StepOf, vars, processVars
<1>2. TwoInv
  BY TwoRun DEF StartInv
<1>3. TypeOK' /\ StepInv' /\ NumberInv' /\ NamedInv'
  BY <1>1, TypesKept, StepsKept, StartsCounted, NamesKept DEF StartInv
<1>4. ServerInv' /\ LockInv' /\ KeyInv'
  BY <1>1, <1>2, ServersKept, LocksKept, KeysKept DEF StartInv
<1> QED
  BY <1>3, <1>4 DEF StartInv

\* The store is open in one process, since whoever has it open holds the store lock.
LEMMA OneOpens ==
    ASSUME StartAssumption, MaxAtOnce \leq 2, StartInv, NEW p \in open, NEW q \in open
    PROVE  p = q
<1>1. p \in Starts /\ q \in Starts /\ Holds(p, "store") /\ Holds(q, "store") /\ "store" \in Locks
  BY DEF StartInv, TypeOK, ServerInv, ServerOf, Holds, Running, Over, Locks
<1> QED
  BY <1>1, TwoRun, OneHolds DEF StartInv

\* Every step is one of StoreWriter or leaves what it sees alone.
LEMMA WriterSteps ==
    ASSUME StartAssumption, MaxAtOnce \leq 2, StartInv, StartInv', [Next]_vars
    PROVE  [Writer!Next]_<<OpenedBy, Executing>>
<1> USE DEF StartInv, TypeOK, Over, Locks, Pids, processVars, fileVars, Goto, StartAssumption
<1>1. ASSUME open = {} PROVE OpenedBy = None /\ Executing = FALSE
  BY <1>1 DEF OpenedBy, Executing
<1>2. ASSUME NEW p \in Starts, open = {p} PROVE OpenedBy = p /\ OpenedBy # None /\ (Executing <=> pc[p] = "running")
  BY <1>2, FS_Singleton DEF OpenedBy, Executing
<1>3. ASSUME open' = {} PROVE OpenedBy' = None /\ Executing' = FALSE
  BY <1>3 DEF OpenedBy, Executing
<1>4. ASSUME NEW p \in Starts, open' = {p} PROVE OpenedBy' = p /\ (Executing' <=> pc'[p] = "running")
  BY <1>4, FS_Singleton DEF OpenedBy, Executing
<1>5. open = {} \/ \E p \in Starts : open = {p}
  BY OneOpens
<1>6. ASSUME UNCHANGED open, \A p \in open : pc'[p] = "running" <=> pc[p] = "running" PROVE UNCHANGED <<OpenedBy,
    Executing>>
  BY <1>6 DEF OpenedBy, Executing
<1>7. ASSUME NEW p \in Starts, open' = open \ {p}, \A q \in open \ {p} : pc'[q] = pc[q]
      PROVE  [Writer!Next]_<<OpenedBy, Executing>>
  <2>1. CASE p \in open
    <3>1. open = {p} /\ open' = {}
      BY <1>5, <1>7, <2>1
    <3>2. Writer!End
      BY <1>2, <1>3, <3>1 DEF Writer!End
    <3> QED
      BY <3>2 DEF Writer!Next
  <2>2. CASE p \notin open
    BY <1>6, <1>7, <2>2
  <2> QED
    BY <2>1, <2>2
<1>8. ASSUME NEW p \in Starts, UNCHANGED open, pc' = [pc EXCEPT ![p] = pc'[p]], pc'[p] # "running"
      PROVE  [Writer!Next]_<<OpenedBy, Executing>>
  <2>1. CASE p \in open /\ pc[p] = "running"
    <3>1. open = {p} /\ open' = {p}
      BY <1>5, <1>8, <2>1
    <3>2. Writer!Halt
      BY <1>2, <1>4, <1>8, <2>1, <3>1 DEF Writer!Halt
    <3> QED
      BY <3>2 DEF Writer!Next
  <2>2. CASE p \notin open \/ pc[p] # "running"
    BY <1>6, <1>8, <2>2
  <2> QED
    BY <2>1, <2>2
<1>9. ASSUME NEW p \in Starts, StartAccepted(p) PROVE [Writer!Next]_<<OpenedBy, Executing>>
  <2>1. CASE starter[p] = "accepted"
    <3>1. open = {p} /\ open' = {p} /\ pc[p] # "running" /\ pc'[p] = "running"
      BY <1>5, <1>9, <2>1 DEF StartAccepted, ServerInv, ServerOf
    <3>2. Executing \in BOOLEAN /\ Executing' \in BOOLEAN
      BY DEF Executing
    <3>3. Writer!Begin
      BY <1>2, <1>4, <3>1, <3>2 DEF Writer!Begin
    <3> QED
      BY <3>3 DEF Writer!Next
  <2>2. CASE starter[p] # "accepted"
    <3>1. UNCHANGED open /\ pc' = [pc EXCEPT ![p] = pc'[p]] /\ pc'[p] # "running"
      BY <1>9, <2>2 DEF StartAccepted
    <3> QED
      BY <1>8, <3>1
  <2> QED
    BY <2>1, <2>2
<1>10. ASSUME NEW p \in Starts, OpenStore(p) PROVE [Writer!Next]_<<OpenedBy, Executing>>
  <2>1. CASE Serves(p)
    <3>1. open = {}
      <4> SUFFICES ASSUME NEW q \in open PROVE FALSE
        OBVIOUS
      <4>1. q \in Starts /\ Holds(q, "store") /\ Holds(p, "store") /\ "store" \in Locks /\ p # q
        BY <1>10 DEF OpenStore, ServerInv, ServerOf, Holds, Running
      <4> QED
        BY <4>1, TwoRun, OneHolds
    <3>2. open' = {p} /\ pc'[p] = "serving"
      BY <2>1, <3>1 DEF Serves
    <3>3. Executing' = FALSE
      BY <1>4, <3>2 DEF Executing
    <3>4. Writer!Open(p)
      BY <1>1, <1>4, <3>1, <3>2, <3>3 DEF Writer!Open
    <3> QED
      BY <3>4 DEF Writer!Next
  <2>2. CASE UNCHANGED open /\ Goto(p, "close")
    <3>1. pc' = [pc EXCEPT ![p] = pc'[p]] /\ pc'[p] # "running"
      BY <2>2
    <3> QED
      BY <1>8, <2>2, <3>1
  <2> QED
    BY <1>10, <2>1, <2>2 DEF OpenStore
<1>11. ASSUME NEW p \in Starts, CloseListening(p) PROVE [Writer!Next]_<<OpenedBy, Executing>>
  BY <1>7, <1>11 DEF CloseListening
<1>12. ASSUME NEW p \in Starts, Ends(p) PROVE [Writer!Next]_<<OpenedBy, Executing>>
  BY <1>7, <1>12 DEF Ends
<1>13. ASSUME NEW p \in Starts, Abandon(p) PROVE [Writer!Next]_<<OpenedBy, Executing>>
  <2>1. CASE Ends(p)
    BY <1>12, <2>1
  <2>2. CASE UNCHANGED open /\ Goto(p, "close")
    <3>1. pc' = [pc EXCEPT ![p] = pc'[p]] /\ pc'[p] # "running"
      BY <2>2
    <3> QED
      BY <1>8, <2>2, <3>1
  <2>3. CASE UNCHANGED <<pc, open>>
    BY <1>6, <2>3
  <2> QED
    BY <1>13, <2>1, <2>2, <2>3 DEF Abandon
<1>14. ASSUME NEW p \in Starts,
    StopDaemon(p) \/ StopSignal(p) \/ StartDaemon(p) \/ DirectoryRefuses(p) \/ Probe(p) \/ UnlinkSocket(p)
       PROVE  [Writer!Next]_<<OpenedBy, Executing>>
  BY <1>6, <1>8, <1>14 DEF StopDaemon, StopSignal, StartDaemon, Spawned, DirectoryRefuses, Probe, UnlinkSocket
<1>15. ASSUME NEW p \in Starts, Link(p) \/ ReadHolder(p) \/ MoveAside(p) \/ Inspect(p) \/ Release(p)
       PROVE  [Writer!Next]_<<OpenedBy, Executing>>
  BY <1>8, <1>15 DEF Link, Taken, NotTaken, ReadHolder, MoveAside, Inspect, Release
<1>16. ASSUME NEW p \in Starts, TryListen(p) \/ CreateKey(p) \/ RemoveKey(p) \/ PutBack(p)
       PROVE  [Writer!Next]_<<OpenedBy, Executing>>
  BY <1>8, <1>16 DEF TryListen, CreateKey, RemoveKey, PutBack, AfterKey
<1>17. ASSUME NEW p \in Starts, AcceptStart(p) \/ StarterEnds(p) PROVE [Writer!Next]_<<OpenedBy, Executing>>
  BY <1>6, <1>17 DEF AcceptStart, StarterEnds
<1>18. CASE WaitForExit \/ StopDeadline \/ UNCHANGED vars
  BY <1>6, <1>18 DEF WaitForExit, StopDeadline, vars
<1>19. ASSUME NEW p \in Starts, Killed(p) PROVE [Writer!Next]_<<OpenedBy, Executing>>
  BY <1>12, <1>19 DEF Killed
<1> QED
  BY <1>9, <1>10, <1>11, <1>13, <1>14, <1>15, <1>16, <1>17, <1>18, <1>19 DEF Next, Step

\* One process at a time has the store open, and it executes only while it has: the daemon's start (daemon-main.ts,
\* runtime-directory.ts) implements StoreWriter for any number of starts, as long as no three run at one time and none is
\* killed between moving a file aside and putting it back.  Without either it does not: section 5 of the README.
THEOREM StoreHasOneWriter ==
    ASSUME StartAssumption, MaxAtOnce \leq 2
    PROVE  Spec /\ NoneEndsWithFileAside => OneWriter
<1>1. Init => StartInv
  BY StartInitially
<1>2. StartInv /\ [Next]_vars /\ [KeepsAside]_vars => StartInv'
  BY StartStep
<1>3. Init => Writer!Init
  BY DEF Init, Writer!Init, OpenedBy, Executing
<1>4. StartInv /\ StartInv' /\ [Next]_vars => [Writer!Next]_<<OpenedBy, Executing>>
  BY WriterSteps
<1> QED
  BY <1>1, <1>2, <1>3, <1>4, PTL DEF Spec, NoneEndsWithFileAside, OneWriter, Writer!Spec

\* Under the same two conditions a running daemon is found by its clients and proves itself, whatever other starts are
\* refused, abandoned or stopped around it (endpoint.ts, endpoint-proof.ts).
THEOREM RunningAreFound ==
    ASSUME StartAssumption, MaxAtOnce \leq 2
    PROVE  Spec /\ NoneEndsWithFileAside => []RunningIsFound
<1>1. Init => StartInv
  BY StartInitially
<1>2. StartInv /\ [Next]_vars /\ [KeepsAside]_vars => StartInv'
  BY StartStep
<1>3. StartInv => RunningIsFound
  BY DEF StartInv, TypeOK, ServerInv, ServerOf, StepInv, StepOf, KeyInv, KeyOf, RunningIsFound, Proven, Verified
<1> QED
  BY <1>1, <1>2, <1>3, PTL DEF Spec, NoneEndsWithFileAside

SocketStays == \A p \in Starts : socket = p /\ p \in listening /\ socket' # p => p \notin listening'

\* No step takes the socket of a process that goes on listening.
LEMMA SocketsKept ==
    ASSUME StartAssumption, StartInv, [Next]_vars
    PROVE  [SocketStays]_vars
<1> SUFFICES ASSUME NEW p \in Starts, socket = p, p \in listening, socket' # p, Next PROVE p \notin listening'
  BY DEF SocketStays, vars, fileVars
<1>1. PICK q \in Starts : TryListen(q) \/ UnlinkSocket(q) \/ CloseListening(q)
  BY DEF Next, Step, StartDaemon, AcceptStart, Abandon, StarterEnds, StopDaemon, DirectoryRefuses, Link, ReadHolder,
     MoveAside,
         Inspect, Release, Probe, CreateKey, OpenStore, StartAccepted, RemoveKey, PutBack, StopSignal, Killed,
                WaitForExit,
         StopDeadline, fileVars, processVars
<1> QED
  BY <1>1 DEF StartInv, StartAssumption, ServerInv, ServerOf, TryListen, UnlinkSocket, CloseListening

\* And no start or stop deletes the socket a live daemon listens on, as runtime-directory.ts:109 says of the start lock.
THEOREM SocketsLeftAlone ==
    ASSUME StartAssumption, MaxAtOnce \leq 2
    PROVE  Spec /\ NoneEndsWithFileAside => NoLiveSocketUnlinked
<1>1. Init => StartInv
  BY StartInitially
<1>2. StartInv /\ [Next]_vars /\ [KeepsAside]_vars => StartInv'
  BY StartStep
<1>3. StartInv /\ [Next]_vars => [SocketStays]_vars
  BY SocketsKept
<1> QED
  BY <1>1, <1>2, <1>3, PTL DEF Spec, NoneEndsWithFileAside, NoLiveSocketUnlinked, SocketStays
=============================================================================
