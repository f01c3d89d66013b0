---------------------------- MODULE EdgeSyncProofs ----------------------------
(***************************************************************************)
(* Theorems about EdgeSync, for any edges, backends and changes, and any   *)
(* number of faults.                                                       *)
(***************************************************************************)
EXTENDS EdgeSync, WellFoundedInduction, TLAPS

Waiting == {"idle", "lock"}
Pushing == Steps \cup {"row"}

\* Reconciler.mu is held by the one pass that has got past Lock.
MutexInv ==
    /\ \A p \in Caller : rec[p].pc \notin Waiting <=> mu = p
    /\ \A p \in Caller : rec[p].pc \in Waiting => rec[p].ver = 0 /\ ~rec[p].cut

\* The version is never 0, which is what a pass takes for one it could not read.
VersionInv ==
    /\ db.ver > 0 /\ lastVer <= db.ver
    /\ \A p \in Caller : rec[p].ver <= db.ver

\* Where a pass is once Build has made its queries.
AfterCerts == {"keys", "queue", "end"} \cup Pushing
AfterRooms == {"certs"} \cup AfterCerts
AfterBackends == {"rooms"} \cup AfterRooms

\* What was read since the version was read is what the version stands for,
\* unless the version has moved.
WantInv ==
    \A p \in Caller : rec[p].ver = db.ver /\ ~rec[p].cut =>
        /\ rec[p].pc \in AfterBackends => rec[p].want.bks = Desired.bks
        /\ rec[p].pc \in AfterRooms =>
              rec[p].want.route = Desired.route /\ rec[p].want.state = Desired.state
        /\ rec[p].pc \in AfterCerts => rec[p].want.cert = Desired.cert

\* Serial numbers only grow, on the way from the database to the edge and to
\* the memory of what was sent.
CertInv ==
    /\ \A e \in Edge : cache[e] <= edge[e].cert /\ edge[e].cert <= db.cert
    /\ \A p \in Caller : rec[p].pc \in AfterCerts /\ rec[p].want.cert # 0 =>
          \A e \in Edge : edge[e].cert <= rec[p].want.cert
    /\ \A p \in Caller : rec[p].pc \in AfterCerts => rec[p].want.cert <= db.cert
    /\ \A e \in Edge : edge[e].listed => edge[e].cert # 0

\* Where it is once pushEdge has made its calls.
PastState == {"row"}
PastRoute == {"state"} \cup PastState
PastBks == {"route"} \cup PastRoute
PastList == {"pass", "prev", "reload", "bks"} \cup PastBks
PastCert == {"list"} \cup PastList

\* What the steps behind it have left on the edge a pass is at.
Progress(r, x) ==
    /\ r.pc \in PastCert /\ r.want.cert # 0 => x.cert = r.want.cert
    /\ r.pc \in PastList => x.listed = (r.want.cert # 0)
    /\ r.pc \in PastBks => x.bks = r.want.bks
    /\ r.pc \in PastRoute => x.route = r.want.route
    /\ r.pc \in PastState => x.state = r.want.state

\* An edge this pass has done, and done well, carries what the pass wants.
Well(r, e) == sound[e] => ~r.cut /\ Carries(edge[e], r.want)

PushInv ==
    \A p \in Caller :
        LET r == rec[p]
        IN  /\ r.pc # "row" => ~r.err
            /\ r.pc \in Pushing =>
                  /\ r.at \in 1..Len(Edges)
                  /\ ~r.err => Progress(r, edge[Edges[r.at]])
                  /\ \A i \in 1..Len(Edges) : i < r.at => Well(r, Edges[i])
            /\ r.pc = "end" => \A i \in 1..Len(Edges) : Well(r, Edges[i])

\* Settled, and that a pass leaves the edges alone before it pushes.
Undisturbed == mu = Nobody \/ \E p \in Caller : rec[p].pc \in {"ver"} \cup Parts

SettledInv ==
    Undisturbed /\ lastVer = db.ver =>
        \A e \in Edge : sound[e] => Carries(edge[e], Desired)

EdgeInv ==
    /\ MutexInv /\ VersionInv /\ WantInv /\ CertInv /\ PushInv /\ SettledInv

-----------------------------------------------------------------------------
(* Types *)

\* The newest of the retired keys is one of them.
LEMMA NewestIn ==
    ASSUME NEW n \in Nat, NEW S, S \subseteq 0..n, S # {}
    PROVE  Newest(S) \in S
<1> DEFINE T == {n - k : k \in S}
<1>0. \A k \in S : n - k \in Nat
  OBVIOUS
<1>1. T \subseteq Nat /\ T # {}
  <2>1. PICK k : k \in S
    OBVIOUS
  <2> QED
    BY <1>0, <2>1
<1>2. \E x \in T : \A y \in T : ~(<<y, x>> \in OpToRel(<, Nat))
  BY <1>1, NatLessThanWellFounded, WFMin
<1>3. PICK x \in T : \A y \in T : ~(y < x)
  BY <1>1, <1>2 DEF OpToRel
<1>4. PICK k \in S : x = n - k
  OBVIOUS
<1>5. \A j \in S : j <= k
  BY <1>3, <1>4
<1> QED
  BY <1>4, <1>5 DEF Newest

\* What the database asks for is well typed.
LEMMA DesiredType ==
    ASSUME EdgeTypeOK
    PROVE  Desired \in WantType
<1>1. db \in DbType /\ \A k \in db.old : k < db.key
  BY DEF EdgeTypeOK
<1>2. db.key \in Nat /\ db.old \subseteq Nat /\ db.cert \in Nat
  BY <1>1 DEF DbType
<1>3. PassPrevPub \in Nat
  <2>1. CASE db.old = {}
    BY <1>2, <2>1 DEF PassPrevPub
  <2>2. CASE db.old # {}
    <3>1. db.old \subseteq 0..db.key
      BY <1>1, <1>2
    <3> QED
      BY <1>2, <2>2, <3>1, NewestIn DEF PassPrevPub
  <2> QED
    BY <2>1, <2>2
<1>4. IssuedCert \in Nat
  BY <1>2 DEF IssuedCert
<1>5. db.bks \in [Backend -> 0..Short] /\ db.route \in Backend \cup {NoBackend} /\ db.eff \in State
  BY <1>1 DEF DbType, Servers, Short
<1> QED
  BY <1>2, <1>3, <1>4, <1>5 DEF Desired, WantType

\* A query of Build, whole or cut, leaves a well-typed desired state.
LEMMA CompiledType ==
    ASSUME EdgeTypeOK, NEW want \in WantType, NEW part \in Parts
    PROVE  Compiled(want, part) \in WantType
<1>1. Desired \in WantType
  BY DesiredType
<1> QED
  BY <1>1 DEF Compiled, WantType, Parts

\* What Build makes of a query that broke while its rows were read is a state of
\* the same type.
LEMMA CutType ==
    ASSUME EdgeTypeOK, NEW want \in WantType, NEW part \in Parts, NEW w \in Cut(want, part)
    PROVE  w \in WantType
<1>1. db.bks \in [Backend -> 0..Short] /\ db.key \in Nat /\ Existing \subseteq Backend
  BY DEF EdgeTypeOK, DbType, Servers, Short, Existing
<1>2. CASE part = "backends"
  <2>1. \/ \E S \in SUBSET Existing :
              w = [want EXCEPT !.bks = [b \in Backend |-> IF b \in S THEN db.bks[b] ELSE 0]]
        \/ \E b \in Existing : w = [want EXCEPT !.bks = [db.bks EXCEPT ![b] = Short]]
    BY <1>2 DEF Cut
  <2> QED
    BY <1>1, <2>1 DEF WantType, Short
<1>3. CASE part = "rooms"
  BY <1>3 DEF Cut, WantType
<1>4. CASE part = "certs"
  BY <1>4 DEF Cut, WantType
<1>5. CASE part = "keys"
  <2>1. PICK k \in {0, db.key} : w = [want EXCEPT !.pass = k, !.prev = k]
    BY <1>5 DEF Cut
  <2>2. k \in Nat
    BY <1>1
  <2> QED
    BY <2>1, <2>2 DEF WantType
<1> QED
  BY <1>2, <1>3, <1>4, <1>5 DEF Parts

\* A call of pushEdge leaves a well-typed edge.
LEMMA EffectType ==
    ASSUME EdgeTypeOK, NEW e \in Edge, NEW want \in WantType, NEW step \in Steps
    PROVE  Effect(step, e, want) \in EdgeType
<1>1. edge[e] \in EdgeType
  BY DEF EdgeTypeOK
<1>2. \A x \in EdgeType, b \in BOOLEAN : ReloadIf(x, b) \in EdgeType
  BY DEF ReloadIf, EdgeType
<1>3. UpsertCert(edge[e], want.cert) \in EdgeType
  BY <1>1 DEF UpsertCert, ReloadIf, EdgeType, WantType
<1>4. CrtListSync(edge[e], want.cert # 0) \in EdgeType
  BY <1>1 DEF CrtListSync, ReloadIf, EdgeType, WantType
<1>5. CommitBackends(edge[e], want.bks) \in EdgeType
  BY <1>1 DEF CommitBackends, ReloadIf, EdgeType, WantType
<1>6. /\ [edge[e] EXCEPT !.pass = want.pass] \in EdgeType
      /\ [edge[e] EXCEPT !.prev = want.prev] \in EdgeType
      /\ [edge[e] EXCEPT !.route = want.route] \in EdgeType
      /\ [edge[e] EXCEPT !.state = want.state] \in EdgeType
  BY <1>1 DEF EdgeType, WantType
<1> QED
  BY <1>1, <1>2, <1>3, <1>4, <1>5, <1>6 DEF Effect, Steps

Pcs == {"idle", "lock", "ver", "queue", "row", "end"} \cup Parts \cup Steps

\* There is an edge to visit.
LEMMA FirstEdge == Len(Edges) \in Nat \ {0} /\ 1 \in 0..Len(Edges) /\ 0 \in 0..Len(Edges)
<1>1. Len(Edges) \in Nat \ {0}
  BY EdgesAssumption
<1> QED
  BY <1>1

\* What the steps of a pass make of its record is well typed.
LEMMA PassTypes ==
    ASSUME NEW r \in PassType, NEW pc \in Pcs
    PROVE  /\ [r EXCEPT !.pc = pc] \in PassType
           /\ [r EXCEPT !.ctx = FALSE] \in PassType
           /\ \A n \in Nat : [r EXCEPT !.pc = pc, !.ver = n] \in PassType
           /\ \A w \in WantType : /\ [r EXCEPT !.pc = pc, !.want = w] \in PassType
                                  /\ [r EXCEPT !.pc = pc, !.want = w, !.cut = TRUE] \in PassType
           /\ [r EXCEPT !.pc = pc, !.at = 1] \in PassType
           /\ \A b \in BOOLEAN : [r EXCEPT !.pc = pc, !.changed = b] \in PassType
           /\ [r EXCEPT !.pc = pc, !.err = TRUE] \in PassType
<1>1. [r EXCEPT !.pc = pc] \in PassType
  BY Zenon DEF PassType, Pcs
<1>2. [r EXCEPT !.ctx = FALSE] \in PassType
  BY Zenon DEF PassType
<1>3. \A n \in Nat : [r EXCEPT !.pc = pc, !.ver = n] \in PassType
  BY Zenon DEF PassType, Pcs
<1>4. ASSUME NEW w \in WantType
      PROVE  /\ [r EXCEPT !.pc = pc, !.want = w] \in PassType
             /\ [r EXCEPT !.pc = pc, !.want = w, !.cut = TRUE] \in PassType
  BY Zenon DEF PassType, Pcs
<1>5. [r EXCEPT !.pc = pc, !.at = 1] \in PassType
  BY FirstEdge, Zenon DEF PassType, Pcs
<1>6. \A b \in BOOLEAN : [r EXCEPT !.pc = pc, !.changed = b] \in PassType
  BY Zenon DEF PassType, Pcs
<1>7. [r EXCEPT !.pc = pc, !.err = TRUE] \in PassType
  BY Zenon DEF PassType, Pcs
<1> QED
  BY <1>1, <1>2, <1>3, <1>4, <1>5, <1>6, <1>7, Zenon

\* A pass that has not begun is well typed.
LEMMA NoPassType == NoPass \in PassType /\ [NoPass EXCEPT !.pc = "lock"] \in PassType
<1>1. Blank \in WantType
  BY DEF Blank, WantType, Short
<1>2. NoPass \in PassType
  BY <1>1, FirstEdge, Zenon DEF NoPass, PassType
<1>3. "lock" \in Pcs
  BY DEF Pcs
<1> QED
  BY <1>2, <1>3, PassTypes, Zenon

\* The pass that turns to the next edge is well typed.
LEMMA NextEdgeType ==
    ASSUME NEW r \in PassType
    PROVE  NextEdge(r) \in PassType
<1>1. r.at \in 0..Len(Edges) /\ Len(Edges) \in Nat
  BY FirstEdge, Zenon DEF PassType
<1>2. PICK n : n = IF r.at < Len(Edges) THEN r.at + 1 ELSE 0
  OBVIOUS
<1>3. n \in 0..Len(Edges)
  BY <1>1, <1>2
<1>4. PICK pc : pc = IF r.at < Len(Edges) THEN "info" ELSE "end"
  OBVIOUS
<1>5. pc \in Pcs
  BY <1>4 DEF Pcs, Steps
<1>6. [r EXCEPT !.pc = pc, !.at = n, !.changed = FALSE, !.err = FALSE] \in PassType
  BY <1>3, <1>5, Zenon DEF PassType, Pcs
<1> QED
  BY <1>2, <1>4, <1>6, Zenon DEF NextEdge

\* What a step does to the record of one pass.
Sets(p, r) == rec' = [rec EXCEPT ![p] = r]

\* A step on one pass that leaves it well typed leaves the passes well typed.
LEMMA SetsType ==
    ASSUME EdgeTypeOK, NEW p \in Caller, NEW r \in PassType, Sets(p, r)
    PROVE  rec' \in [Caller -> PassType]
<1>1. rec \in [Caller -> PassType]
  BY DEF EdgeTypeOK
<1> QED
  BY <1>1, Zenon DEF Sets

\* Going to another line of Once.
LEMMA GoType ==
    ASSUME EdgeTypeOK, NEW p \in Caller, NEW pc \in Pcs, Go(p, pc)
    PROVE  rec' \in [Caller -> PassType]
<1>1. rec \in [Caller -> PassType] /\ rec[p] \in PassType
  BY DEF EdgeTypeOK
<1>2. [rec[p] EXCEPT !.pc = pc] \in PassType
  BY <1>1, PassTypes
<1>3. Sets(p, [rec[p] EXCEPT !.pc = pc])
  BY <1>1 DEF Go, Sets
<1> QED
  BY <1>2, <1>3, SetsType

\* The counters of changes and of faults stay within their bounds.
LEMMA LeftType ==
    ASSUME EdgeTypeOK, Fault \/ (\E kind : Edit(kind)) \/ UNCHANGED left
    PROVE  left' \in [edits : 0..Edits, faults : 0..Faults]
<1>1. left \in [edits : 0..Edits, faults : 0..Faults]
  BY DEF EdgeTypeOK
<1> QED
  BY <1>1, BoundsAssumption DEF Fault, Edit

\* What a writer of the database leaves in it.
DbOK(d) == d \in DbType /\ \A k \in d.old : k < d.key

\* Counting the version.
LEMMA BumpedType ==
    ASSUME NEW d, DbOK(d)
    PROVE  DbOK(Bumped(d))
<1>1. d \in DbType
  BY DEF DbOK
<1>2. Bumped(d) \in DbType /\ Bumped(d).old = d.old /\ Bumped(d).key = d.key
  BY <1>1 DEF Bumped, DbType
<1> QED
  BY <1>2 DEF DbOK

\* The writes of the handlers, of the ACME manager and of the automatic mode.
LEMMA WriteType ==
    ASSUME EdgeTypeOK
    PROVE  /\ \A s \in Modes : DbOK(WithMode(db, s))
           /\ \A s \in Modes, b \in Existing \cup {NoBackend} :
                 DbOK([WithMode(db, s) EXCEPT !.route = b])
           /\ \A b \in Backend, servers \in Servers : DbOK([db EXCEPT !.bks[b] = servers])
           /\ \A b \in Backend : DbOK([db EXCEPT !.bks[b] = 0,
                                             !.route = IF @ = b THEN NoBackend ELSE @])
           /\ DbOK([db EXCEPT !.old = @ \cup {db.key}, !.key = @ + 1])
           /\ \A k \in db.old : DbOK([db EXCEPT !.old = @ \ {k}])
           /\ DbOK(db)
           /\ DbOK([db EXCEPT !.cert = @ + 1, !.status = "issued"])
           /\ DbOK([db EXCEPT !.status = "error"])
           /\ \A eff \in State : DbOK([db EXCEPT !.eff = eff])
<1>1. DbOK(db)
  BY DEF EdgeTypeOK, DbOK
<1> USE DEF DbOK
<1>2. \A s \in Modes : DbOK(WithMode(db, s))
  BY <1>1, ModesAssumption DEF WithMode, DbType, State
<1>3. \A d, b : DbOK(d) /\ b \in Backend \cup {NoBackend} => DbOK([d EXCEPT !.route = b])
  BY DEF DbType
<1>4. Existing \subseteq Backend
  BY DEF Existing
<1>5. ASSUME NEW b \in Backend, NEW servers \in Servers \cup {0}
      PROVE  DbOK([db EXCEPT !.bks[b] = servers])
  BY <1>1 DEF DbType
<1>6. ASSUME NEW b \in Backend
      PROVE  DbOK([db EXCEPT !.bks[b] = 0, !.route = IF @ = b THEN NoBackend ELSE @])
  BY <1>1 DEF DbType
<1>7. DbOK([db EXCEPT !.old = @ \cup {db.key}, !.key = @ + 1])
  <2>1. /\ db \in DbType /\ db.old \in SUBSET Nat /\ db.key \in Nat
        /\ \A k \in db.old : k < db.key
    BY <1>1 DEF DbType
  <2>2. db.old \cup {db.key} \in SUBSET Nat /\ db.key + 1 \in Nat
    BY <2>1
  <2>3. \A k \in db.old \cup {db.key} : k < db.key + 1
    BY <2>1
  <2> QED
    BY <2>1, <2>2, <2>3 DEF DbType
<1>8. \A k \in db.old : DbOK([db EXCEPT !.old = @ \ {k}])
  BY <1>1 DEF DbType
<1>9. /\ DbOK([db EXCEPT !.cert = @ + 1, !.status = "issued"])
      /\ DbOK([db EXCEPT !.status = "error"])
      /\ \A eff \in State : DbOK([db EXCEPT !.eff = eff])
  <2>1. /\ db \in DbType /\ \A k \in db.old : k < db.key
        /\ db.cert + 1 \in Nat
    BY <1>1 DEF DbType
  <2>2. DbOK([db EXCEPT !.cert = @ + 1, !.status = "issued"])
    BY <2>1 DEF DbType
  <2>3. DbOK([db EXCEPT !.status = "error"])
    BY <2>1 DEF DbType
  <2>4. \A eff \in State : DbOK([db EXCEPT !.eff = eff])
    BY <2>1 DEF DbType
  <2> QED
    BY <2>2, <2>3, <2>4
<1> HIDE DEF DbOK
<1> QED
  BY <1>1, <1>2, <1>3, <1>4, <1>5, <1>6, <1>7, <1>8, <1>9

\* The state flyc-control starts in is well typed.
LEMMA TypeInit == Init => EdgeTypeOK
<1> SUFFICES ASSUME Init PROVE EdgeTypeOK
  OBVIOUS
<1>1. First \in Backend
  BY BackendAssumption DEF First
<1>2. DbOK(db)
  BY <1>1 DEF Init, DbOK, DbType, State, Servers
<1>3. Blank \in WantType
  BY DEF Blank, WantType, Short
<1>4. rec \in [Caller -> PassType]
  BY NoPassType, Zenon DEF Init
<1>5. NewEdge \in EdgeType
  BY DEF NewEdge, EdgeType, Short
<1>6. row \in [Edge -> RowType] /\ edge \in [Edge -> EdgeType] /\ sound \in [Edge -> BOOLEAN]
  <2>1. [status |-> "none", config |-> Blank, desired |-> Blank] \in RowType
    BY <1>3, Zenon DEF RowType
  <2> QED
    BY <1>5, <2>1, Zenon DEF Init
<1>7. cache \in [Edge -> Nat] /\ left \in [edits : 0..Edits, faults : 0..Faults]
  BY BoundsAssumption DEF Init
<1> QED
  BY <1>2, <1>4, <1>6, <1>7 DEF Init, EdgeTypeOK, DbOK, State

\* The edge a pass is at is one of the edges.
LEMMA AtEdge ==
    ASSUME PushInv, NEW p \in Caller, rec[p].pc \in Pushing
    PROVE  rec[p].at \in 1..Len(Edges) /\ Edges[rec[p].at] \in Edge
BY DEF PushInv, Edge

\* After a call of pushEdge comes another one, or the result.
LEMMA AfterStepType ==
    ASSUME NEW step \in Steps, NEW b \in BOOLEAN
    PROVE  AfterStep(step, b) \in Pcs
BY DEF AfterStep, Steps, Pcs

\* A step of a pass keeps the types.
LEMMA PassStepType ==
    ASSUME EdgeTypeOK, PushInv, NEW p \in Caller, Pass(p)
    PROVE  EdgeTypeOK'
<1>0. /\ rec[p] \in PassType /\ rec \in [Caller -> PassType] /\ rec[p].want \in WantType
      /\ rec[p].pc \in Pcs /\ rec[p].ver \in Nat /\ rec[p].err \in BOOLEAN
      /\ rec[p].cut \in BOOLEAN
  <2>1. rec[p] \in PassType /\ rec \in [Caller -> PassType]
    BY DEF EdgeTypeOK
  <2> QED
    BY <2>1, Zenon DEF PassType, Pcs
<1>1. CASE Lock(p)
  <2>1. rec' \in [Caller -> PassType]
    BY <1>1, GoType DEF Lock, Pcs
  <2> QED
    BY <1>1, <2>1 DEF Lock, EdgeTypeOK
<1>2. CASE ReadVer(p)
  <2>1. rec' \in [Caller -> PassType]
    <3>1. CASE rec' = [rec EXCEPT ![p].pc = "backends", ![p].ver = db.ver]
      <4>1. db.ver \in Nat /\ "backends" \in Pcs
        BY DEF EdgeTypeOK, DbType, Pcs, Parts
      <4>2. [rec[p] EXCEPT !.pc = "backends", !.ver = db.ver] \in PassType
        BY <1>0, <4>1, PassTypes
      <4>3. Sets(p, [rec[p] EXCEPT !.pc = "backends", !.ver = db.ver])
        BY <1>0, <3>1 DEF Sets
      <4> QED
        BY <4>2, <4>3, SetsType
    <3>2. CASE Go(p, "backends")
      BY <3>2, GoType DEF Pcs, Parts
    <3> QED
      BY <1>2, <3>1, <3>2 DEF ReadVer
  <2>2. left' \in [edits : 0..Edits, faults : 0..Faults]
    BY <1>2, LeftType DEF ReadVer
  <2> QED
    BY <1>2, <2>1, <2>2 DEF ReadVer, EdgeTypeOK
<1>3. CASE Build(p)
  <2>1. AfterPart[rec[p].pc] \in Pcs
    BY <1>3 DEF Build, AfterPart, Parts, Pcs
  <2>2. Compiled(rec[p].want, rec[p].pc) \in WantType
    BY <1>0, <1>3, CompiledType DEF Build
  <2>3. Sets(p, [rec[p] EXCEPT !.pc = AfterPart[rec[p].pc],
                               !.want = Compiled(rec[p].want, rec[p].pc)])
    BY <1>0, <1>3 DEF Build, Sets
  <2>4. rec' \in [Caller -> PassType]
    BY <1>0, <2>1, <2>2, <2>3, PassTypes, SetsType
  <2> QED
    BY <1>3, <2>4 DEF Build, EdgeTypeOK
<1>4. CASE BuildCut(p)
  <2>1. AfterPart[rec[p].pc] \in Pcs
    BY <1>4 DEF BuildCut, AfterPart, Parts, Pcs
  <2>2. PICK want \in Cut(rec[p].want, rec[p].pc) :
            rec' = [rec EXCEPT ![p].pc = AfterPart[rec[p].pc], ![p].want = want, ![p].cut = TRUE]
    BY <1>4 DEF BuildCut
  <2>3. want \in WantType
    BY <1>0, <1>4, CutType DEF BuildCut
  <2>4. Sets(p, [rec[p] EXCEPT !.pc = AfterPart[rec[p].pc], !.want = want, !.cut = TRUE])
    BY <1>0, <2>2 DEF Sets
  <2>5. rec' \in [Caller -> PassType]
    BY <1>0, <2>1, <2>3, <2>4, PassTypes, SetsType
  <2>6. left' \in [edits : 0..Edits, faults : 0..Faults]
    BY <1>4, LeftType DEF BuildCut
  <2> QED
    BY <1>4, <2>5, <2>6 DEF BuildCut, EdgeTypeOK
<1>5. CASE BuildErr(p)
  <2>1. rec' \in [Caller -> PassType]
    BY <1>5, NoPassType, SetsType DEF BuildErr, Sets
  <2>2. left' \in [edits : 0..Edits, faults : 0..Faults]
    BY <1>5, LeftType DEF BuildErr
  <2> QED
    BY <1>5, <2>1, <2>2 DEF BuildErr, EdgeTypeOK
<1>6. CASE PutRoom(p)
  <2>1. Sets(p, [rec[p] EXCEPT !.pc = "info", !.at = 1])
    BY <1>0, <1>6 DEF PutRoom, Sets
  <2>2. rec' \in [Caller -> PassType]
    BY <1>0, <2>1, PassTypes, SetsType DEF Pcs, Steps
  <2>3. left' \in [edits : 0..Edits, faults : 0..Faults]
    BY <1>6, LeftType DEF PutRoom
  <2>4. rec[p].want.state \in State \cup {NoState}
    BY <1>0 DEF WantType
  <2>5. queue' \in State
    BY <1>6, <2>4 DEF PutRoom, Told, EdgeTypeOK
  <2> QED
    BY <1>6, <2>2, <2>3, <2>5 DEF PutRoom, EdgeTypeOK
<1>7. CASE Push(p)
  <2>0. Edges[rec[p].at] \in Edge
    BY <1>7, AtEdge DEF Push, Pushing
  <2>1. PICK b \in BOOLEAN : b = KeysChanged(rec[p], edge[Edges[rec[p].at]])
    <3>1. KeysChanged(rec[p], edge[Edges[rec[p].at]]) \in BOOLEAN
      BY DEF KeysChanged
    <3> QED
      BY <3>1
  <2>2. AfterStep(rec[p].pc, b) \in Pcs
    BY <1>7, AfterStepType DEF Push
  <2>3. Sets(p, [rec[p] EXCEPT !.pc = AfterStep(rec[p].pc, b), !.changed = b])
    BY <1>0, <1>7, <2>1 DEF Push, Sets
  <2>4. rec' \in [Caller -> PassType]
    BY <1>0, <2>1, <2>2, <2>3, PassTypes, SetsType
  <2>5. edge' \in [Edge -> EdgeType]
    <3>1. Effect(rec[p].pc, Edges[rec[p].at], rec[p].want) \in EdgeType
      BY <1>0, <1>7, <2>0, EffectType DEF Push
    <3>2. edge \in [Edge -> EdgeType]
      BY DEF EdgeTypeOK
    <3> QED
      BY <1>7, <2>0, <3>1, <3>2, Zenon DEF Push
  <2>6. cache' \in [Edge -> Nat]
    <3>1. cache \in [Edge -> Nat] /\ rec[p].want.cert \in Nat
      BY <1>0 DEF EdgeTypeOK, WantType
    <3>2. [cache EXCEPT ![Edges[rec[p].at]] = rec[p].want.cert] \in [Edge -> Nat]
      BY <2>0, <3>1
    <3>3. \/ cache' = cache
          \/ cache' = [cache EXCEPT ![Edges[rec[p].at]] = rec[p].want.cert]
      BY <1>7 DEF Push, Cached
    <3> QED
      BY <3>1, <3>2, <3>3
  <2> QED
    BY <1>7, <2>4, <2>5, <2>6 DEF Push, EdgeTypeOK
<1>8. CASE PushErr(p)
  <2>0. Edges[rec[p].at] \in Edge
    BY <1>8, AtEdge DEF PushErr, Pushing
  <2>1. Sets(p, [rec[p] EXCEPT !.pc = "row", !.err = TRUE])
    BY <1>0, <1>8 DEF PushErr, Sets
  <2>2. rec' \in [Caller -> PassType]
    BY <1>0, <2>1, PassTypes, SetsType DEF Pcs
  <2>3. left' \in [edits : 0..Edits, faults : 0..Faults]
    BY <1>8, LeftType DEF PushErr
  <2>4. edge' \in [Edge -> EdgeType]
    <3>1. Effect(rec[p].pc, Edges[rec[p].at], rec[p].want) \in EdgeType
      BY <1>0, <1>8, <2>0, EffectType DEF PushErr
    <3>2. edge \in [Edge -> EdgeType]
      BY DEF EdgeTypeOK
    <3>3. \A x \in EdgeType : [edge EXCEPT ![Edges[rec[p].at]] = x] \in [Edge -> EdgeType]
      BY <2>0, <3>2, Zenon
    <3>4. \/ edge' = edge
          \/ edge' = [edge EXCEPT ![Edges[rec[p].at]] = edge[Edges[rec[p].at]]]
          \/ edge' = [edge EXCEPT ![Edges[rec[p].at]] =
                                     Effect(rec[p].pc, Edges[rec[p].at], rec[p].want)]
      BY <1>8, Zenon DEF PushErr
    <3>5. edge[Edges[rec[p].at]] \in EdgeType
      BY <2>0, <3>2
    <3> QED
      BY <3>1, <3>2, <3>3, <3>4, <3>5, Zenon
  <2> QED
    BY <1>8, <2>2, <2>3, <2>4 DEF PushErr, EdgeTypeOK
<1>9. CASE WriteRow(p)
  <2>0. Edges[rec[p].at] \in Edge
    BY <1>9, AtEdge DEF WriteRow, Pushing
  <2>1. Sets(p, NextEdge(rec[p]))
    BY <1>9 DEF WriteRow, Sets
  <2>2. rec' \in [Caller -> PassType]
    BY <1>0, <2>1, NextEdgeType, SetsType
  <2>3. left' \in [edits : 0..Edits, faults : 0..Faults]
    BY <1>9, LeftType DEF WriteRow
  <2>4. row' \in [Edge -> RowType]
    <3>1. row \in [Edge -> RowType] /\ row[Edges[rec[p].at]] \in RowType
      BY <2>0 DEF EdgeTypeOK
    <3>2. Pushed(row[Edges[rec[p].at]], rec[p].want, rec[p].err) \in RowType
      BY <1>0, <3>1, Zenon DEF Pushed, RowType
    <3>3. \/ row' = row
          \/ row' = [row EXCEPT ![Edges[rec[p].at]] =
                                   Pushed(row[Edges[rec[p].at]], rec[p].want, rec[p].err)]
      BY <1>9 DEF WriteRow
    <3> QED
      BY <2>0, <3>1, <3>2, <3>3, Zenon
  <2>5. sound' \in [Edge -> BOOLEAN]
    <3>1. sound \in [Edge -> BOOLEAN]
      BY DEF EdgeTypeOK
    <3>2. (~rec[p].err /\ ~rec[p].cut) \in BOOLEAN
      BY Zenon
    <3> QED
      BY <1>9, <2>0, <3>1, <3>2, Zenon DEF WriteRow
  <2> QED
    BY <1>9, <2>2, <2>3, <2>4, <2>5 DEF WriteRow, EdgeTypeOK
<1>10. CASE EndPass(p)
  <2>1. rec' \in [Caller -> PassType]
    BY <1>10, NoPassType, SetsType DEF EndPass, Sets
  <2> QED
    BY <1>0, <1>10, <2>1 DEF EndPass, EdgeTypeOK
<1> QED
  BY <1>1, <1>2, <1>3, <1>4, <1>5, <1>6, <1>7, <1>8, <1>9, <1>10 DEF Pass

\* Every step keeps the types.
LEMMA TypeStep ==
    ASSUME EdgeTypeOK, PushInv, [Next]_vars
    PROVE  EdgeTypeOK'
<1>0. rec \in [Caller -> PassType] /\ Caller = {"loop", "request"}
  BY DEF EdgeTypeOK, Caller
<1>1. ASSUME NEW d, db' = d, DbOK(d)
      PROVE  db' \in DbType /\ \A k \in db'.old : k < db'.key
  BY <1>1, Zenon DEF DbOK
<1>2. ASSUME NEW kicked, Triggered(kicked), kicked \in BOOLEAN
      PROVE  EdgeTypeOK'
  <2>1. rec' \in [Caller -> PassType]
    BY <1>0, <1>2, GoType DEF Triggered, Pcs
  <2> QED
    BY <1>2, <2>1 DEF Triggered, EdgeTypeOK
<1>3. CASE OnKick \/ OnTicker \/ OnPoll
  BY <1>2, <1>3 DEF OnKick, OnTicker, OnPoll
<1>4. CASE \E p \in Caller : Pass(p)
  BY <1>4, PassStepType
<1>5. CASE Cancel
  <2>1. Sets("request", [rec["request"] EXCEPT !.ctx = FALSE])
    BY <1>0, <1>5 DEF Cancel, Sets
  <2>2. rec["request"] \in PassType /\ "idle" \in Pcs
    BY <1>0 DEF Pcs
  <2>3. rec' \in [Caller -> PassType]
    BY <1>0, <2>1, <2>2, PassTypes, SetsType
  <2>4. left' \in [edits : 0..Edits, faults : 0..Faults]
    BY <1>5, LeftType DEF Cancel
  <2> QED
    BY <1>5, <2>3, <2>4 DEF Cancel, EdgeTypeOK
<1>6. CASE Restart
  <2>1. rec' \in [Caller -> PassType]
    BY <1>6, NoPassType, Zenon DEF Restart
  <2>2. left' \in [edits : 0..Edits, faults : 0..Faults]
    BY <1>6, LeftType DEF Restart
  <2> QED
    BY <1>6, <2>1, <2>2 DEF Restart, EdgeTypeOK
<1>7. ASSUME NEW kind, NEW d, Handle(kind, d), DbOK(d)
      PROVE  EdgeTypeOK'
  <2>1. db' \in DbType /\ \A k \in db'.old : k < db'.key
    BY <1>1, <1>7 DEF Handle
  <2>2. left' \in [edits : 0..Edits, faults : 0..Faults]
    BY <1>7, LeftType DEF Handle
  <2> QED
    BY <1>7, <2>1, <2>2 DEF Handle, EdgeTypeOK
<1>8. CASE Change
  <2>1. ASSUME NEW s \in Modes, RoomState(s) PROVE EdgeTypeOK'
    <3>1. db' \in DbType /\ \A k \in db'.old : k < db'.key
      BY <1>1, <2>1, WriteType, BumpedType DEF RoomState
    <3>2. rec' \in [Caller -> PassType]
      BY <1>0, <2>1, GoType DEF RoomState, Pcs
    <3>3. left' \in [edits : 0..Edits, faults : 0..Faults]
      BY <2>1, LeftType DEF RoomState
    <3> QED
      BY <2>1, <3>1, <3>2, <3>3 DEF RoomState, EdgeTypeOK
  <2>2. CASE PostSync
    <3>1. rec' \in [Caller -> PassType]
      BY <1>0, <2>2, GoType DEF PostSync, Pcs
    <3>2. left' \in [edits : 0..Edits, faults : 0..Faults]
      BY <2>2, LeftType DEF PostSync
    <3> QED
      BY <2>2, <3>1, <3>2 DEF PostSync, EdgeTypeOK
  <2>3. ASSUME NEW s \in Modes, NEW b \in Existing \cup {NoBackend}, UpsertRoom(s, b)
        PROVE  EdgeTypeOK'
    BY <1>7, <2>3, WriteType, BumpedType DEF UpsertRoom
  <2>4. ASSUME NEW b \in Backend, NEW servers \in Servers, UpsertBackend(b, servers)
        PROVE  EdgeTypeOK'
    BY <1>7, <2>4, WriteType, BumpedType DEF UpsertBackend
  <2>5. ASSUME NEW b \in Backend, DeleteBackend(b)
        PROVE  EdgeTypeOK'
    BY <1>7, <2>5, WriteType, BumpedType DEF DeleteBackend
  <2>6. CASE RotateSigningKey
    BY <1>7, <2>6, WriteType DEF RotateSigningKey
  <2>7. CASE IssueBegin
    <3>1. db' \in DbType /\ \A k \in db'.old : k < db'.key
      BY <1>1, <2>7, WriteType, BumpedType DEF IssueBegin
    <3>2. left' \in [edits : 0..Edits, faults : 0..Faults]
      BY <2>7, LeftType DEF IssueBegin
    <3> QED
      BY <2>7, <3>1, <3>2 DEF IssueBegin, EdgeTypeOK
  <2>8. CASE AutoRead
    <3>1. left' \in [edits : 0..Edits, faults : 0..Faults]
      BY <2>8, LeftType DEF AutoRead
    <3>2. db.eff \in State
      BY DEF EdgeTypeOK, DbType
    <3> QED
      BY <2>8, <3>1, <3>2 DEF AutoRead, EdgeTypeOK
  <2> QED
    BY <1>8, <2>1, <2>2, <2>3, <2>4, <2>5, <2>6, <2>7, <2>8 DEF Change
<1>9. CASE Kick
  BY <1>9 DEF Kick, EdgeTypeOK
<1>10. ASSUME NEW k \in db.old, KeyExpires(k) PROVE EdgeTypeOK'
  <2>1. db' \in DbType /\ \A j \in db'.old : j < db'.key
    BY <1>1, <1>10, WriteType DEF KeyExpires
  <2> QED
    BY <1>10, <2>1 DEF KeyExpires, control, EdgeTypeOK
<1>11. CASE Issued
  <2>1. db' \in DbType /\ \A k \in db'.old : k < db'.key
    BY <1>1, <1>11, WriteType, BumpedType DEF Issued
  <2> QED
    BY <1>11, <2>1 DEF Issued, EdgeTypeOK
<1>12. CASE IssueFail
  <2>1. db' \in DbType /\ \A k \in db'.old : k < db'.key
    BY <1>1, <1>12, WriteType, BumpedType DEF IssueFail
  <2> QED
    BY <1>12, <2>1 DEF IssueFail, EdgeTypeOK
<1>13. CASE AutoSwitch
  <2>1. AutoNext(auto) \in State
    BY DEF AutoNext, State
  <2>2. db' \in DbType /\ \A k \in db'.old : k < db'.key
    BY <1>1, <1>13, <2>1, WriteType, BumpedType DEF AutoSwitch
  <2> QED
    BY <1>13, <2>2 DEF AutoSwitch, EdgeTypeOK
<1>14. CASE AutoKeep
  BY <1>14 DEF AutoKeep, EdgeTypeOK
<1>15. CASE UNCHANGED vars
  BY <1>15 DEF vars, control, EdgeTypeOK
<1> QED
  BY <1>3, <1>4, <1>5, <1>6, <1>8, <1>9, <1>10, <1>11, <1>12, <1>13, <1>14, <1>15 DEF Next

-----------------------------------------------------------------------------
(* The steps, by what they do to the passes *)

\* A write counts the version, or is one to the keys alone.
Written ==
    \/ db'.ver = db.ver + 1 /\ db.cert <= db'.cert
    \/ /\ db'.ver = db.ver /\ db'.bks = db.bks /\ db'.route = db.route /\ db'.eff = db.eff
       /\ db'.cert = db.cert /\ db'.status = db.status

Kept == UNCHANGED <<mu, lastVer, cache, edge, sound>>

\* A pass that begins waits for the mutex.
Begins == Kept /\ Written /\ \E q \in Caller : rec[q].pc = "idle" /\ Go(q, "lock")

\* A step of others, which the passes do not see.
Aside == Kept /\ Written /\ UNCHANGED rec

\* What counts the version, and what leaves it alone.
LEMMA WritesCount ==
    ASSUME EdgeTypeOK
    PROVE  /\ \A s : Bumped(WithMode(db, s)).ver = db.ver + 1
                    /\ Bumped(WithMode(db, s)).cert = db.cert
           /\ \A s, b : Bumped([WithMode(db, s) EXCEPT !.route = b]).ver = db.ver + 1
                    /\ Bumped([WithMode(db, s) EXCEPT !.route = b]).cert = db.cert
           /\ db.ver \in Nat /\ db.cert \in Nat
<1>1. db \in DbType
  BY DEF EdgeTypeOK
<1> QED
  BY <1>1 DEF DbType, Bumped, WithMode

\* Every step is one of the pass, begins one, abandons it, restarts or is aside.
LEMMA StepCases ==
    ASSUME EdgeTypeOK, [Next]_vars
    PROVE  Begins \/ Aside \/ Cancel \/ Restart \/ \E p \in Caller : Pass(p)
<1>0. db \in DbType /\ db.ver \in Nat /\ db.cert \in Nat /\ Caller = {"loop", "request"}
  BY WritesCount DEF EdgeTypeOK, Caller
<1>1. ASSUME NEW kicked, Triggered(kicked) PROVE Begins
  BY <1>0, <1>1 DEF Triggered, Begins, Kept, Written
<1>2. ASSUME NEW s, RoomState(s) PROVE Begins
  BY <1>0, <1>2, WritesCount DEF RoomState, Begins, Kept, Written
<1>3. CASE PostSync
  BY <1>0, <1>3 DEF PostSync, Begins, Kept, Written
<1>4. ASSUME NEW kind, NEW d, Handle(kind, d), d.ver = db.ver + 1, db.cert <= d.cert PROVE Aside
  BY <1>0, <1>4 DEF Handle, Aside, Kept, Written
<1>5. ASSUME NEW s, NEW b, UpsertRoom(s, b) PROVE Aside
  BY <1>0, <1>4, <1>5, WritesCount DEF UpsertRoom
<1>6. ASSUME NEW b, NEW n, UpsertBackend(b, n) PROVE Aside
  <2> DEFINE d == Bumped([db EXCEPT !.bks[b] = n])
  <2>1. d.ver = db.ver + 1 /\ d.cert = db.cert
    BY <1>0 DEF Bumped, DbType
  <2>2. Handle("backend", d)
    BY <1>6 DEF UpsertBackend
  <2> HIDE DEF d
  <2> QED
    BY <1>0, <1>4, <2>1, <2>2
<1>7. ASSUME NEW b, DeleteBackend(b) PROVE Aside
  <2> DEFINE d == Bumped([db EXCEPT !.bks[b] = 0, !.route = IF @ = b THEN NoBackend ELSE @])
  <2>1. d.ver = db.ver + 1 /\ d.cert = db.cert
    BY <1>0 DEF Bumped, DbType
  <2>2. Handle("backend", d)
    BY <1>7 DEF DeleteBackend
  <2> HIDE DEF d
  <2> QED
    BY <1>0, <1>4, <2>1, <2>2
<1>8. CASE RotateSigningKey
  BY <1>0, <1>8 DEF RotateSigningKey, Handle, Aside, Kept, Written, DbType
<1>9. ASSUME NEW k \in db.old, KeyExpires(k) PROVE Aside
  BY <1>0, <1>9 DEF KeyExpires, control, Aside, Kept, Written, DbType
<1>10. CASE IssueBegin
  BY <1>0, <1>10 DEF IssueBegin, Bumped, Aside, Kept, Written, DbType
<1>11. CASE Issued
  BY <1>0, <1>11 DEF Issued, Bumped, Aside, Kept, Written, DbType
<1>12. CASE IssueFail
  BY <1>0, <1>12 DEF IssueFail, Bumped, Aside, Kept, Written, DbType
<1>13. CASE AutoSwitch
  BY <1>0, <1>13 DEF AutoSwitch, Bumped, Aside, Kept, Written, DbType
<1>14. CASE AutoRead \/ AutoKeep \/ Kick
  BY <1>14 DEF AutoRead, AutoKeep, Kick, Aside, Kept, Written
<1>15. CASE UNCHANGED vars
  BY <1>15 DEF vars, control, Aside, Kept, Written
<1>16. CASE Change
  BY <1>2, <1>3, <1>5, <1>6, <1>7, <1>8, <1>10, <1>14, <1>16, Zenon DEF Change
<1>17. CASE OnKick \/ OnTicker \/ OnPoll
  BY <1>1, <1>17, Zenon DEF OnKick, OnTicker, OnPoll
<1> QED
  BY <1>9, <1>11, <1>12, <1>13, <1>14, <1>15, <1>16, <1>17, Zenon DEF Next

\* The fields of the passes before a step.
LEMMA RecFields ==
    ASSUME EdgeTypeOK
    PROVE  /\ DOMAIN rec = Caller /\ Caller = {"loop", "request"}
           /\ \A q \in Caller :
                 /\ DOMAIN rec[q] = {"pc", "ctx", "ver", "want", "cut", "at", "changed", "err"}
                 /\ rec[q] \in PassType /\ rec[q].pc \in Pcs /\ rec[q].ver \in Nat
                 /\ rec[q].cut \in BOOLEAN /\ rec[q].err \in BOOLEAN
                 /\ rec[q].want \in WantType /\ rec[q].at \in 0..Len(Edges)
<1>1. rec \in [Caller -> PassType]
  BY DEF EdgeTypeOK
<1>2. \A q \in Caller : rec[q] \in PassType
  BY <1>1
<1>3. \A r \in PassType :
         /\ DOMAIN r = {"pc", "ctx", "ver", "want", "cut", "at", "changed", "err"}
         /\ r.pc \in Pcs /\ r.ver \in Nat
         /\ r.cut \in BOOLEAN /\ r.err \in BOOLEAN
         /\ r.want \in WantType /\ r.at \in 0..Len(Edges)
  BY DEF PassType, Pcs
<1> QED
  BY <1>1, <1>2, <1>3, Zenon DEF Caller

-----------------------------------------------------------------------------
(* The mutex *)

\* Every step keeps the mutex with the pass that is past Lock.
LEMMA MutexStep ==
    ASSUME EdgeTypeOK, MutexInv, [Next]_vars
    PROVE  MutexInv'
<1>0. rec \in [Caller -> PassType] /\ Caller = {"loop", "request"} /\ DOMAIN rec = Caller
      /\ \A q \in Caller : DOMAIN rec[q] = {"pc", "ctx", "ver", "want", "cut", "at", "changed", "err"}
  BY RecFields DEF EdgeTypeOK
<1> USE DEF MutexInv, Waiting
<1>1. ASSUME NEW p \in Caller, Lock(p) PROVE MutexInv'
  BY <1>0, <1>1 DEF Lock, Go, Nobody
<1>2. ASSUME NEW p \in Caller, ReadVer(p) PROVE MutexInv'
  BY <1>0, <1>2 DEF ReadVer, Go, Nobody
<1>3. ASSUME NEW p \in Caller, Build(p) PROVE MutexInv'
  BY <1>0, <1>3 DEF Build, AfterPart, Parts, Nobody
<1>4. ASSUME NEW p \in Caller, BuildCut(p) PROVE MutexInv'
  BY <1>0, <1>4 DEF BuildCut, AfterPart, Parts, Nobody
<1>5. ASSUME NEW p \in Caller, BuildErr(p) PROVE MutexInv'
  BY <1>0, <1>5 DEF BuildErr, Parts, NoPass, Nobody
<1>6. ASSUME NEW p \in Caller, PutRoom(p) PROVE MutexInv'
  BY <1>0, <1>6 DEF PutRoom
<1>7. ASSUME NEW p \in Caller, Push(p) PROVE MutexInv'
  <2>1. PICK b \in BOOLEAN : b = KeysChanged(rec[p], edge[Edges[rec[p].at]])
    BY DEF KeysChanged
  <2>2. rec' = [rec EXCEPT ![p].pc = AfterStep(rec[p].pc, b), ![p].changed = b]
    BY <1>7, <2>1 DEF Push
  <2>3. rec[p].pc \notin Waiting /\ AfterStep(rec[p].pc, b) \notin Waiting /\ mu' = mu
    BY <1>7 DEF Push, Steps, AfterStep
  <2> QED
    BY <1>0, <2>2, <2>3
<1>8. ASSUME NEW p \in Caller, PushErr(p) PROVE MutexInv'
  BY <1>0, <1>8 DEF PushErr, Steps
<1>9. ASSUME NEW p \in Caller, WriteRow(p) PROVE MutexInv'
  BY <1>0, <1>9 DEF WriteRow, NextEdge
<1>10. ASSUME NEW p \in Caller, EndPass(p) PROVE MutexInv'
  BY <1>0, <1>10 DEF EndPass, NoPass, Nobody
<1>11. CASE Begins
  BY <1>0, <1>11 DEF Begins, Kept, Go
<1>12. CASE Cancel
  BY <1>0, <1>12 DEF Cancel
<1>13. CASE Restart
  BY <1>0, <1>13 DEF Restart, NoPass, Nobody
<1>14. CASE Aside
  BY <1>14 DEF Aside, Kept
<1> HIDE DEF MutexInv
<1> QED
  BY <1>1, <1>2, <1>3, <1>4, <1>5, <1>6, <1>7, <1>8, <1>9, <1>10, <1>11, <1>12, <1>13, <1>14,
     StepCases, Zenon DEF Pass

\* Every step keeps the versions passes know behind that of the database.
LEMMA VersionStep ==
    ASSUME EdgeTypeOK, MutexInv, VersionInv, [Next]_vars
    PROVE  VersionInv'
<1>0. /\ rec \in [Caller -> PassType] /\ Caller = {"loop", "request"} /\ DOMAIN rec = Caller
      /\ \A q \in Caller : /\ DOMAIN rec[q] = {"pc", "ctx", "ver", "want", "cut", "at", "changed", "err"}
                            /\ rec[q].ver \in Nat
      /\ db.ver \in Nat /\ lastVer \in Nat
  BY RecFields, WritesCount DEF EdgeTypeOK
<1> USE DEF VersionInv
<1>1. ASSUME NEW p \in Caller, ReadVer(p) PROVE VersionInv'
  BY <1>0, <1>1 DEF ReadVer, Go
<1>2. ASSUME NEW p \in Caller, EndPass(p) PROVE VersionInv'
  BY <1>0, <1>2 DEF EndPass, NoPass
<1>3. ASSUME NEW p \in Caller, BuildErr(p) PROVE VersionInv'
  BY <1>0, <1>3 DEF BuildErr, NoPass
<1>4. ASSUME UNCHANGED <<db, lastVer>>, \A q \in Caller : rec'[q].ver = rec[q].ver PROVE VersionInv'
  BY <1>0, <1>4
<1>5. ASSUME NEW p \in Caller, Lock(p) \/ Build(p) \/ BuildCut(p) \/ PutRoom(p) PROVE VersionInv'
  <2>1. UNCHANGED <<db, lastVer>>
    BY <1>5 DEF Lock, Build, BuildCut, PutRoom
  <2>2. CASE Lock(p)
    BY <1>0, <1>4, <2>1, <2>2 DEF Lock, Go
  <2>3. CASE Build(p)
    BY <1>0, <1>4, <2>1, <2>3 DEF Build
  <2>4. CASE BuildCut(p)
    BY <1>0, <1>4, <2>1, <2>4 DEF BuildCut
  <2>5. CASE PutRoom(p)
    BY <1>0, <1>4, <2>1, <2>5 DEF PutRoom
  <2> QED
    BY <1>5, <2>2, <2>3, <2>4, <2>5
<1>6. ASSUME NEW p \in Caller, Push(p) \/ PushErr(p) \/ WriteRow(p) PROVE VersionInv'
  <2>1. UNCHANGED <<db, lastVer>>
    BY <1>6 DEF Push, PushErr, WriteRow
  <2>2. CASE Push(p)
    BY <1>0, <1>4, <2>1, <2>2 DEF Push
  <2>3. CASE PushErr(p)
    BY <1>0, <1>4, <2>1, <2>3 DEF PushErr
  <2>4. CASE WriteRow(p)
    BY <1>0, <1>4, <2>1, <2>4 DEF WriteRow, NextEdge
  <2> QED
    BY <1>6, <2>2, <2>3, <2>4
<1>7. CASE Begins
  BY <1>0, <1>7 DEF Begins, Kept, Written, Go
<1>8. CASE Cancel
  BY <1>0, <1>4, <1>8 DEF Cancel
<1>9. CASE Restart
  BY <1>0, <1>9 DEF Restart, NoPass
<1>10. CASE Aside
  BY <1>0, <1>10 DEF Aside, Kept, Written
<1> HIDE DEF VersionInv
<1> QED
  BY <1>1, <1>2, <1>3, <1>5, <1>6, <1>7, <1>8, <1>9, <1>10, StepCases, Zenon DEF Pass

-----------------------------------------------------------------------------
(* What Build has read *)

\* The fields of the desired state.
LEMMA DesiredFields ==
    /\ Desired.bks = db.bks /\ Desired.route = db.route /\ Desired.state = db.eff
    /\ Desired.cert = IssuedCert
    /\ Desired.bks' = db.bks' /\ Desired.route' = db.route' /\ Desired.state' = db.eff'
    /\ Desired.cert' = IssuedCert'
BY DEF Desired

\* What one pass has read is what its version stands for.
Read(r) ==
    r.ver = db.ver /\ ~r.cut =>
        /\ r.pc \in AfterBackends => r.want.bks = db.bks
        /\ r.pc \in AfterRooms => r.want.route = db.route /\ r.want.state = db.eff
        /\ r.pc \in AfterCerts => r.want.cert = IssuedCert

\* WantInv says so of both passes.
LEMMA WantByPass ==
    (WantInv <=> \A q \in Caller : Read(rec[q])) /\ (WantInv' <=> \A q \in Caller : Read(rec[q])')
BY DesiredFields DEF WantInv, Read

\* A pass another does not touch has read what it had, as long as the database
\* is the same, or has counted the version.
LEMMA ReadKept ==
    ASSUME EdgeTypeOK, VersionInv, Written, NEW q \in Caller, Read(rec[q]), rec'[q] = rec[q]
    PROVE  Read(rec[q])'
<1>1. rec[q].ver \in Nat /\ db.ver \in Nat /\ rec[q].ver <= db.ver
  BY RecFields, WritesCount DEF VersionInv
<1> QED
  BY <1>1 DEF Written, Read, IssuedCert

\* Every step keeps what Build has read what the version stands for.
LEMMA WantStep ==
    ASSUME EdgeTypeOK, MutexInv, VersionInv, WantInv, [Next]_vars
    PROVE  WantInv'
<1>0. /\ Caller = {"loop", "request"} /\ DOMAIN rec = Caller
      /\ \A q \in Caller : /\ DOMAIN rec[q] = {"pc", "ctx", "ver", "want", "cut", "at", "changed", "err"}
                            /\ Read(rec[q])
                            /\ DOMAIN rec[q].want = {"bks", "route", "state", "cert", "pass", "prev"}
      /\ db.ver # 0
  <2>1. \A w \in WantType : DOMAIN w = {"bks", "route", "state", "cert", "pass", "prev"}
    BY DEF WantType
  <2> QED
    BY <2>1, RecFields, WantByPass, WritesCount DEF VersionInv
<1>1. ASSUME NEW p \in Caller, db' = db, Read(rec[p])', \A q \in Caller \ {p} : rec'[q] = rec[q]
      PROVE  WantInv'
  BY <1>0, <1>1, ReadKept, WantByPass DEF Written
<1> USE DEF AfterBackends, AfterRooms, AfterCerts, Pushing
<1>2. ASSUME NEW p \in Caller, Lock(p) PROVE WantInv'
  BY <1>0, <1>1, <1>2 DEF Lock, Go, Read, Steps
<1>3. ASSUME NEW p \in Caller, ReadVer(p) PROVE WantInv'
  BY <1>0, <1>1, <1>3 DEF ReadVer, Go, Read, Steps
<1>4. ASSUME NEW p \in Caller, Build(p) PROVE WantInv'
  <2>1. /\ db' = db /\ \A q \in Caller \ {p} : rec'[q] = rec[q]
        /\ rec'[p].ver = rec[p].ver /\ rec'[p].cut = rec[p].cut
        /\ rec'[p].pc = AfterPart[rec[p].pc]
        /\ rec'[p].want = Compiled(rec[p].want, rec[p].pc)
    BY <1>0, <1>4 DEF Build
  <2>2. CASE rec[p].pc = "backends"
    BY <1>0, <1>1, <2>1, <2>2, DesiredFields DEF Read, AfterPart, Compiled, IssuedCert, Steps
  <2>3. CASE rec[p].pc = "rooms"
    <3>1. /\ rec'[p].want.bks = rec[p].want.bks /\ rec'[p].want.route = db.route
          /\ rec'[p].want.state = db.eff /\ rec'[p].pc = "certs"
      <4>1. rec'[p].want = [rec[p].want EXCEPT !.route = Desired.route, !.state = Desired.state]
        BY <2>1, <2>3 DEF Compiled
      <4>2. DOMAIN rec[p].want = {"bks", "route", "state", "cert", "pass", "prev"}
        BY <1>0
      <4>3. rec'[p].pc = "certs"
        BY <2>1, <2>3 DEF AfterPart
      <4> QED
        BY <4>1, <4>2, <4>3, DesiredFields
    <3> QED
      BY <1>0, <1>1, <2>1, <2>3, <3>1 DEF Read, Steps
  <2>4. CASE rec[p].pc = "certs"
    BY <1>0, <1>1, <2>1, <2>4, DesiredFields DEF Read, AfterPart, Compiled, IssuedCert, Steps
  <2>5. CASE rec[p].pc = "keys"
    <3>1. /\ rec'[p].want.bks = rec[p].want.bks /\ rec'[p].want.route = rec[p].want.route
          /\ rec'[p].want.state = rec[p].want.state /\ rec'[p].want.cert = rec[p].want.cert
      BY <1>0, <2>1, <2>5 DEF Compiled
    <3> QED
      BY <1>0, <1>1, <2>1, <2>5, <3>1 DEF Read, IssuedCert
  <2> QED
    BY <1>4, <2>2, <2>3, <2>4, <2>5 DEF Build, Parts
<1>5. ASSUME NEW p \in Caller, BuildCut(p) PROVE WantInv'
  BY <1>0, <1>1, <1>5 DEF BuildCut, Read
<1>6. ASSUME NEW p \in Caller, BuildErr(p) PROVE WantInv'
  BY <1>0, <1>1, <1>6 DEF BuildErr, NoPass, Read
<1>7. ASSUME NEW p \in Caller, db' = db, \A q \in Caller \ {p} : rec'[q] = rec[q],
             rec[p].pc \in AfterCerts, rec'[p].ver = rec[p].ver, rec'[p].cut = rec[p].cut,
             rec'[p].want = rec[p].want
      PROVE  WantInv'
  BY <1>0, <1>1, <1>7 DEF Read, IssuedCert
<1>8. ASSUME NEW p \in Caller, PutRoom(p) PROVE WantInv'
  BY <1>0, <1>7, <1>8 DEF PutRoom
<1>9. ASSUME NEW p \in Caller, Push(p) PROVE WantInv'
  BY <1>0, <1>7, <1>9 DEF Push
<1>10. ASSUME NEW p \in Caller, PushErr(p) PROVE WantInv'
  BY <1>0, <1>7, <1>10 DEF PushErr
<1>11. ASSUME NEW p \in Caller, WriteRow(p) PROVE WantInv'
  BY <1>0, <1>7, <1>11 DEF WriteRow, NextEdge
<1>12. ASSUME NEW p \in Caller, EndPass(p) PROVE WantInv'
  BY <1>0, <1>1, <1>12 DEF EndPass, NoPass, Read
<1>13. CASE Begins
  <2>1. PICK p \in Caller : rec[p].pc = "idle" /\ Go(p, "lock")
    BY <1>13 DEF Begins
  <2>2. Read(rec[p])'
    BY <1>0, <2>1 DEF Go, Read, Steps
  <2>3. \A q \in Caller \ {p} : rec'[q] = rec[q]
    BY <1>0, <2>1 DEF Go
  <2> QED
    BY <1>0, <1>13, <2>2, <2>3, ReadKept, WantByPass DEF Begins
<1>14. CASE Cancel
  BY <1>0, <1>1, <1>14 DEF Cancel, Read, IssuedCert
<1>15. CASE Restart
  BY <1>0, <1>15, WantByPass DEF Restart, NoPass, Read
<1>16. CASE Aside
  BY <1>0, <1>16, ReadKept, WantByPass DEF Aside
<1> QED
  BY <1>2, <1>3, <1>4, <1>5, <1>6, <1>8, <1>9, <1>10, <1>11, <1>12, <1>13, <1>14, <1>15, <1>16,
     StepCases, Zenon DEF Pass

-----------------------------------------------------------------------------
(* The calls of pushEdge *)

\* What a call changes of what the version covers.
LEMMA EffectFields ==
    ASSUME EdgeTypeOK, NEW e \in Edge, NEW want \in WantType, NEW step \in Steps,
           NEW y, y = Effect(step, e, want)
    PROVE  /\ y.cert = IF step = "cert" /\ Upload(e, want) THEN want.cert ELSE edge[e].cert
           /\ y.listed = IF step = "list" THEN want.cert # 0 ELSE edge[e].listed
           /\ y.bks = IF step = "bks" THEN want.bks ELSE edge[e].bks
           /\ y.route = IF step = "route" THEN want.route ELSE edge[e].route
           /\ y.state = IF step = "state" THEN want.state ELSE edge[e].state
<1>0. PICK x : x = edge[e]
  OBVIOUS
<1>1. x \in EdgeType
  BY <1>0 DEF EdgeTypeOK
<1>2. DOMAIN x = {"bks", "route", "state", "cert", "listed", "pass", "prev", "ran"}
  BY <1>1 DEF EdgeType
<1>3. CASE ~Calls(step, e, want)
  BY <1>0, <1>3 DEF Effect, Calls, Steps
<1>4. CASE Calls(step, e, want)
  <2>1. CASE step = "info"
    BY <1>0, <1>4, <2>1 DEF Effect
  <2>2. CASE step = "cert"
    <3>1. y = UpsertCert(x, want.cert) /\ Upload(e, want)
      BY <1>0, <1>4, <2>2 DEF Effect, Calls
    <3> QED
      BY <1>0, <1>2, <2>2, <3>1 DEF UpsertCert, ReloadIf
  <2>3. CASE step = "list"
    <3>1. y = CrtListSync(x, want.cert # 0)
      BY <1>0, <1>4, <2>3 DEF Effect
    <3> QED
      BY <1>0, <1>2, <2>3, <3>1 DEF CrtListSync, ReloadIf
  <2>4. CASE step = "pass"
    <3>1. y = [x EXCEPT !.pass = want.pass]
      BY <1>0, <1>4, <2>4 DEF Effect
    <3> QED
      BY <1>0, <1>2, <2>4, <3>1
  <2>5. CASE step = "prev"
    <3>1. y = [x EXCEPT !.prev = want.prev]
      BY <1>0, <1>4, <2>5 DEF Effect
    <3> QED
      BY <1>0, <1>2, <2>5, <3>1
  <2>6. CASE step = "reload"
    <3>1. y = ReloadIf(x, TRUE)
      BY <1>0, <1>4, <2>6 DEF Effect
    <3> QED
      BY <1>0, <1>2, <2>6, <3>1 DEF ReloadIf
  <2>7. CASE step = "bks"
    <3>1. y = CommitBackends(x, want.bks)
      BY <1>0, <1>4, <2>7 DEF Effect
    <3> QED
      BY <1>0, <1>2, <2>7, <3>1 DEF CommitBackends, ReloadIf
  <2>8. CASE step = "route"
    <3>1. y = [x EXCEPT !.route = want.route]
      BY <1>0, <1>4, <2>8 DEF Effect
    <3> QED
      BY <1>0, <1>2, <2>8, <3>1
  <2>9. CASE step = "state"
    <3>1. y = [x EXCEPT !.state = want.state]
      BY <1>0, <1>4, <2>9 DEF Effect
    <3> QED
      BY <1>0, <1>2, <2>9, <3>1
  <2> QED
    BY <2>1, <2>2, <2>3, <2>4, <2>5, <2>6, <2>7, <2>8, <2>9 DEF Steps
<1> QED
  BY <1>3, <1>4

\* A call changes one edge, and by its effect at most.
Touched(p) ==
    LET e == Edges[rec[p].at]
    IN  \/ edge' = edge
        \/ edge' = [edge EXCEPT ![e] = Effect(rec[p].pc, e, rec[p].want)]

\* A call that fails has its effect, or none.
LEMMA PushTouches ==
    ASSUME EdgeTypeOK, PushInv, NEW p \in Caller, Push(p) \/ PushErr(p)
    PROVE  Touched(p)
<1>1. Edges[rec[p].at] \in Edge /\ edge \in [Edge -> EdgeType]
  BY AtEdge DEF Push, PushErr, Pushing, EdgeTypeOK
<1>2. CASE Push(p)
  BY <1>2 DEF Push, Touched
<1>3. CASE PushErr(p)
  <2>1. \/ edge' = edge
        \/ edge' = [edge EXCEPT ![Edges[rec[p].at]] = edge[Edges[rec[p].at]]]
        \/ edge' = [edge EXCEPT ![Edges[rec[p].at]] =
                                   Effect(rec[p].pc, Edges[rec[p].at], rec[p].want)]
    BY <1>3, Zenon DEF PushErr
  <2>2. [edge EXCEPT ![Edges[rec[p].at]] = edge[Edges[rec[p].at]]] = edge
    BY <1>1
  <2> QED
    BY <2>1, <2>2 DEF Touched
<1> QED
  BY <1>2, <1>3

\* No call takes from an edge what the pass wants it to carry.
LEMMA CarriesOn ==
    ASSUME EdgeTypeOK, PushInv, NEW p \in Caller, rec[p].pc \in Steps, Touched(p),
           NEW e \in Edge, Carries(edge[e], rec[p].want)
    PROVE  Carries(edge'[e], rec[p].want)
<1>0. Edges[rec[p].at] \in Edge /\ edge \in [Edge -> EdgeType] /\ rec[p].want \in WantType
  BY AtEdge, RecFields DEF Pushing, EdgeTypeOK
<1>1. CASE edge'[e] = edge[e]
  BY <1>1
<1>2. CASE edge'[e] # edge[e]
  <2>1. e = Edges[rec[p].at] /\ edge'[e] = Effect(rec[p].pc, e, rec[p].want)
    BY <1>0, <1>2 DEF Touched
  <2> QED
    BY <1>0, <2>1, EffectFields DEF Carries, Upload
<1> QED
  BY <1>1, <1>2

\* While a pass holds the mutex the other one waits.
LEMMA OthersWait ==
    ASSUME MutexInv, NEW p \in Caller, rec[p].pc \notin Waiting, NEW q \in Caller \ {p}
    PROVE  rec[q].pc \in Waiting
BY DEF MutexInv

\* The numbers the next lemmas compare.
LEMMA Numbers ==
    ASSUME EdgeTypeOK
    PROVE  /\ db.cert \in Nat /\ IssuedCert \in {0, db.cert} /\ db.ver \in Nat /\ lastVer \in Nat
           /\ \A e \in Edge : cache[e] \in Nat /\ edge[e].cert \in Nat
           /\ \A q \in Caller : rec[q].want.cert \in Nat
<1>1. db \in DbType /\ \A e \in Edge : cache[e] \in Nat /\ edge[e] \in EdgeType
  BY DEF EdgeTypeOK
<1>2. \A q \in Caller : rec[q].want \in WantType
  BY RecFields
<1>3. \A w \in WantType : w.cert \in Nat
  BY DEF WantType
<1>4. \A x \in EdgeType : x.cert \in Nat
  BY DEF EdgeType
<1> QED
  BY <1>1, <1>2, <1>3, <1>4 DEF DbType, IssuedCert, EdgeTypeOK

\* What CertInv says of the edges, and of a pass.
EdgeCerts ==
    /\ \A e \in Edge : cache[e] <= edge[e].cert /\ edge[e].cert <= db.cert
    /\ \A e \in Edge : edge[e].listed => edge[e].cert # 0
PassCerts(r) ==
    r.pc \in AfterCerts =>
        /\ r.want.cert <= db.cert
        /\ r.want.cert # 0 => \A e \in Edge : edge[e].cert <= r.want.cert

\* CertInv is these two.
LEMMA CertByPass ==
    /\ CertInv <=> EdgeCerts /\ \A q \in Caller : PassCerts(rec[q])
    /\ CertInv' <=> EdgeCerts' /\ \A q \in Caller : PassCerts(rec[q])'
BY DEF CertInv, EdgeCerts, PassCerts

\* A call keeps the certificates of the edges, and of its own pass, in order.
LEMMA TouchedCerts ==
    ASSUME EdgeTypeOK, PushInv, CertInv, NEW p \in Caller, rec[p].pc \in Steps, Touched(p),
           db' = db, \/ cache' = cache
                     \/ Push(p)
    PROVE  /\ EdgeCerts'
           /\ rec[p].want.cert # 0 => \A e \in Edge : edge'[e].cert <= rec[p].want.cert
<1>0. /\ Edges[rec[p].at] \in Edge /\ edge \in [Edge -> EdgeType] /\ rec[p].want \in WantType
      /\ EdgeCerts /\ PassCerts(rec[p]) /\ rec[p].pc \in AfterCerts /\ cache \in [Edge -> Nat]
      /\ ~rec[p].err /\ Progress(rec[p], edge[Edges[rec[p].at]])
  BY AtEdge, RecFields, CertByPass DEF Pushing, EdgeTypeOK, AfterCerts, PushInv, Steps
<1>1. ASSUME NEW e \in Edge, edge'[e] # edge[e]
      PROVE  e = Edges[rec[p].at] /\ edge'[e] = Effect(rec[p].pc, e, rec[p].want)
  BY <1>0, <1>1 DEF Touched
<1>2. ASSUME NEW e \in Edge
      PROVE  /\ edge'[e].cert \in {edge[e].cert, rec[p].want.cert}
             /\ edge'[e].cert # edge[e].cert => rec[p].want.cert # 0
  BY <1>0, <1>1, EffectFields DEF Upload
<1>3. ASSUME NEW e \in Edge
      PROVE  edge[e].cert <= edge'[e].cert /\ edge'[e].cert <= db.cert
  BY <1>0, <1>2, Numbers DEF EdgeCerts, PassCerts
<1>4. ASSUME NEW e \in Edge, edge'[e].listed
      PROVE  edge'[e].cert # 0
  <2>1. CASE edge'[e].listed = edge[e].listed
    BY <1>0, <1>3, <1>4, <2>1, Numbers DEF EdgeCerts
  <2>2. CASE edge'[e].listed # edge[e].listed
    <3>1. e = Edges[rec[p].at] /\ edge'[e] = Effect(rec[p].pc, e, rec[p].want)
      BY <1>1, <2>2
    <3>2. rec[p].pc = "list" /\ rec[p].want.cert # 0 /\ edge'[e].cert = edge[e].cert
      <4>1. /\ edge'[e].listed = IF rec[p].pc = "list" THEN rec[p].want.cert # 0 ELSE edge[e].listed
            /\ edge'[e].cert = IF rec[p].pc = "cert" /\ Upload(e, rec[p].want)
                                 THEN rec[p].want.cert ELSE edge[e].cert
        BY <1>0, <3>1, EffectFields
      <4>2. CASE rec[p].pc = "list"
        BY <1>4, <4>1, <4>2
      <4>3. CASE rec[p].pc # "list"
        BY <2>2, <4>1, <4>3
      <4> QED
        BY <4>2, <4>3
    <3> QED
      BY <1>0, <3>1, <3>2 DEF Progress, PastCert
  <2> QED
    BY <2>1, <2>2
<1>5. ASSUME NEW e \in Edge
      PROVE  cache'[e] <= edge'[e].cert
  <2>1. CASE cache'[e] = cache[e]
    BY <1>0, <1>2, <1>3, <2>1, Numbers DEF EdgeCerts
  <2>2. CASE cache'[e] # cache[e]
    <3>1. /\ Push(p) /\ rec[p].pc = "cert" /\ e = Edges[rec[p].at] /\ Upload(e, rec[p].want)
          /\ cache'[e] = rec[p].want.cert
      BY <1>0, <2>2 DEF Push, Cached
    <3>2. edge'[e] = Effect(rec[p].pc, e, rec[p].want)
      BY <1>0, <3>1 DEF Push
    <3> QED
      BY <1>0, <3>1, <3>2, EffectFields, Numbers
  <2> QED
    BY <2>1, <2>2
<1>6. rec[p].want.cert # 0 => \A e \in Edge : edge'[e].cert <= rec[p].want.cert
  BY <1>0, <1>2, Numbers DEF PassCerts
<1> QED
  BY <1>3, <1>4, <1>5, <1>6 DEF EdgeCerts

\* Every step keeps the certificates in order.
LEMMA CertStep ==
    ASSUME EdgeTypeOK, MutexInv, PushInv, CertInv, [Next]_vars
    PROVE  CertInv'
<1>0. /\ Caller = {"loop", "request"} /\ DOMAIN rec = Caller
      /\ \A q \in Caller : /\ DOMAIN rec[q] = {"pc", "ctx", "ver", "want", "cut", "at", "changed", "err"}
                            /\ PassCerts(rec[q])
                            /\ DOMAIN rec[q].want = {"bks", "route", "state", "cert", "pass", "prev"}
      /\ EdgeCerts
  <2>1. \A w \in WantType : DOMAIN w = {"bks", "route", "state", "cert", "pass", "prev"}
    BY DEF WantType
  <2> QED
    BY <2>1, RecFields, CertByPass
<1>1. ASSUME NEW p \in Caller, UNCHANGED <<db, cache, edge>>, PassCerts(rec[p])',
             \A q \in Caller \ {p} : rec'[q] = rec[q]
      PROVE  CertInv'
  BY <1>0, <1>1, CertByPass DEF EdgeCerts, PassCerts
<1> USE DEF AfterCerts, Pushing
<1>2. ASSUME NEW p \in Caller, Lock(p) PROVE CertInv'
  BY <1>0, <1>1, <1>2 DEF Lock, Go, PassCerts, Steps
<1>3. ASSUME NEW p \in Caller, ReadVer(p) PROVE CertInv'
  BY <1>0, <1>1, <1>3 DEF ReadVer, Go, PassCerts, Steps
<1>4. ASSUME NEW p \in Caller, Build(p) \/ BuildCut(p) PROVE CertInv'
  <2>1. /\ UNCHANGED <<db, cache, edge>> /\ \A q \in Caller \ {p} : rec'[q] = rec[q]
        /\ rec'[p].pc = AfterPart[rec[p].pc] /\ rec[p].pc \in Parts
        /\ \/ rec'[p].want = Compiled(rec[p].want, rec[p].pc)
           \/ rec'[p].want \in Cut(rec[p].want, rec[p].pc)
    <3>1. CASE Build(p)
      BY <1>0, <3>1 DEF Build
    <3>2. CASE BuildCut(p)
      BY <1>0, <3>2 DEF BuildCut
    <3> QED
      BY <1>4, <3>1, <3>2
  <2>2. CASE rec[p].pc \in {"backends", "rooms"}
    BY <1>1, <2>1, <2>2 DEF AfterPart, PassCerts, Steps
  <2>3. CASE rec[p].pc = "certs"
    <3>1. rec'[p].want.cert \in {0, IssuedCert}
      BY <1>0, <2>1, <2>3, DesiredFields DEF Compiled, Cut
    <3> QED
      BY <1>0, <1>1, <2>1, <2>3, <3>1, Numbers DEF PassCerts, EdgeCerts
  <2>4. CASE rec[p].pc = "keys"
    <3>1. rec'[p].want.cert = rec[p].want.cert
      <4>1. CASE rec'[p].want = Compiled(rec[p].want, rec[p].pc)
        BY <1>0, <2>4, <4>1 DEF Compiled
      <4>2. CASE rec'[p].want \in Cut(rec[p].want, rec[p].pc)
        <5>1. PICK k : rec'[p].want = [rec[p].want EXCEPT !.pass = k, !.prev = k]
          BY <2>4, <4>2 DEF Cut
        <5> QED
          BY <1>0, <5>1
      <4> QED
        BY <2>1, <4>1, <4>2
    <3> QED
      BY <1>0, <1>1, <2>1, <2>4, <3>1, Numbers DEF PassCerts
  <2> QED
    BY <2>1, <2>2, <2>3, <2>4 DEF Parts
<1>5. ASSUME NEW p \in Caller, BuildErr(p) \/ EndPass(p) PROVE CertInv'
  BY <1>0, <1>1, <1>5 DEF BuildErr, EndPass, NoPass, PassCerts, Steps
<1>6. ASSUME NEW p \in Caller, PutRoom(p) PROVE CertInv'
  BY <1>0, <1>1, <1>6 DEF PutRoom, PassCerts
<1>7. ASSUME NEW p \in Caller, Push(p) \/ PushErr(p) PROVE CertInv'
  <2>1. /\ rec[p].pc \in Steps /\ Touched(p) /\ db' = db /\ (cache' = cache \/ Push(p))
    BY <1>7, PushTouches DEF Push, PushErr
  <2>2. rec'[p].want = rec[p].want /\ \A q \in Caller \ {p} : rec'[q] = rec[q]
    BY <1>0, <1>7 DEF Push, PushErr
  <2>3. PassCerts(rec[p])'
    BY <1>0, <2>1, <2>2, TouchedCerts DEF PassCerts
  <2>4. rec[p].pc \notin Waiting
    BY <2>1 DEF Steps, Waiting
  <2>5. ASSUME NEW q \in Caller \ {p} PROVE PassCerts(rec[q])'
    BY <2>2, <2>4, OthersWait DEF PassCerts, Waiting, Steps
  <2> QED
    BY <2>1, <2>3, <2>5, TouchedCerts, CertByPass
<1>8. ASSUME NEW p \in Caller, WriteRow(p) PROVE CertInv'
  BY <1>0, <1>1, <1>8 DEF WriteRow, NextEdge, PassCerts
<1>9. ASSUME Kept, Written PROVE EdgeCerts'
  BY <1>0, <1>9, Numbers, TypeStep DEF Kept, Written, EdgeCerts, EdgeTypeOK, DbType
<1>10. ASSUME Kept, Written, NEW q \in Caller, rec'[q] = rec[q] PROVE PassCerts(rec[q])'
  BY <1>0, <1>10, Numbers, TypeStep DEF Kept, Written, PassCerts, EdgeTypeOK, DbType
<1>11. CASE Begins
  <2>1. PICK p \in Caller : rec[p].pc = "idle" /\ Go(p, "lock")
    BY <1>11 DEF Begins
  <2>2. PassCerts(rec[p])'
    BY <1>0, <2>1 DEF Go, PassCerts, Steps
  <2>3. \A q \in Caller \ {p} : rec'[q] = rec[q]
    BY <1>0, <2>1 DEF Go
  <2> QED
    BY <1>0, <1>9, <1>10, <1>11, <2>2, <2>3, CertByPass DEF Begins
<1>12. CASE Cancel
  BY <1>0, <1>1, <1>12 DEF Cancel, PassCerts
<1>13. CASE Restart
  BY <1>0, <1>13, Numbers, CertByPass DEF Restart, NoPass, PassCerts, EdgeCerts, Steps
<1>14. CASE Aside
  BY <1>0, <1>9, <1>10, <1>14, CertByPass DEF Aside
<1> QED
  BY <1>2, <1>3, <1>4, <1>5, <1>6, <1>7, <1>8, <1>11, <1>12, <1>13, <1>14, StepCases, Zenon DEF Pass

-----------------------------------------------------------------------------
(* The edges a pass visits *)

\* What PushInv says of a pass.
Pushes(r) ==
    /\ r.pc # "row" => ~r.err
    /\ r.pc \in Pushing =>
          /\ r.at \in 1..Len(Edges)
          /\ ~r.err => Progress(r, edge[Edges[r.at]])
          /\ \A i \in 1..Len(Edges) : i < r.at => Well(r, Edges[i])
    /\ r.pc = "end" => \A i \in 1..Len(Edges) : Well(r, Edges[i])

\* PushInv says so of both passes.
LEMMA PushByPass ==
    /\ PushInv <=> \A q \in Caller : Pushes(rec[q])
    /\ PushInv' <=> \A q \in Caller : Pushes(rec[q])'
BY DEF PushInv, Pushes

\* A call of pushEdge does its part of the progress.
LEMMA ProgressStep ==
    ASSUME EdgeTypeOK, CertInv, PushInv, NEW p \in Caller, rec[p].pc \in Steps,
           NEW r, r.want = rec[p].want, NEW b \in BOOLEAN, r.pc = AfterStep(rec[p].pc, b),
           NEW e, e = Edges[rec[p].at], NEW y, y = Effect(rec[p].pc, e, rec[p].want)
    PROVE  Progress(r, y)
<1>0. /\ e \in Edge /\ rec[p].want \in WantType /\ Progress(rec[p], edge[e])
      /\ cache[e] <= edge[e].cert
      /\ rec[p].want.cert # 0 => edge[e].cert <= rec[p].want.cert
  BY AtEdge, RecFields, CertByPass
  DEF Pushing, PushInv, Steps, EdgeCerts, PassCerts, AfterCerts
<1>1. /\ y.cert = IF rec[p].pc = "cert" /\ Upload(e, rec[p].want) THEN rec[p].want.cert ELSE edge[e].cert
      /\ y.listed = IF rec[p].pc = "list" THEN rec[p].want.cert # 0 ELSE edge[e].listed
      /\ y.bks = IF rec[p].pc = "bks" THEN rec[p].want.bks ELSE edge[e].bks
      /\ y.route = IF rec[p].pc = "route" THEN rec[p].want.route ELSE edge[e].route
      /\ y.state = IF rec[p].pc = "state" THEN rec[p].want.state ELSE edge[e].state
  BY <1>0, EffectFields
<1> USE DEF Progress, PastCert, PastList, PastBks, PastRoute, PastState
<1>2. CASE rec[p].pc = "info"
  BY <1>2 DEF AfterStep
<1>3. CASE rec[p].pc = "cert"
  <2>1. r.pc = "list"
    BY <1>3 DEF AfterStep
  <2>2. rec[p].want.cert # 0 => y.cert = rec[p].want.cert
    BY <1>0, <1>1, <1>3, Numbers DEF Upload
  <2> QED
    BY <2>1, <2>2
<1>4. CASE rec[p].pc = "list"
  <2>1. r.pc = "pass"
    BY <1>4 DEF AfterStep
  <2> QED
    BY <1>0, <1>1, <1>4, <2>1
<1>5. CASE rec[p].pc \in {"pass", "prev", "reload"}
  <2>1. r.pc \in {"prev", "reload", "bks"}
    BY <1>5 DEF AfterStep
  <2> QED
    BY <1>0, <1>1, <1>5, <2>1
<1>6. CASE rec[p].pc = "bks"
  <2>1. r.pc = "route"
    BY <1>6 DEF AfterStep
  <2> QED
    BY <1>0, <1>1, <1>6, <2>1
<1>7. CASE rec[p].pc = "route"
  <2>1. r.pc = "state"
    BY <1>7 DEF AfterStep
  <2> QED
    BY <1>0, <1>1, <1>7, <2>1
<1>8. CASE rec[p].pc = "state"
  <2>1. r.pc = "row"
    BY <1>8 DEF AfterStep
  <2> QED
    BY <1>0, <1>1, <1>8, <2>1
<1> QED
  BY <1>2, <1>3, <1>4, <1>5, <1>6, <1>7, <1>8 DEF Steps

\* Every step keeps the edges a pass has behind it well done.
LEMMA PushStep ==
    ASSUME EdgeTypeOK, MutexInv, CertInv, PushInv, [Next]_vars
    PROVE  PushInv'
<1>0. /\ Caller = {"loop", "request"} /\ DOMAIN rec = Caller
      /\ \A q \in Caller : /\ DOMAIN rec[q] = {"pc", "ctx", "ver", "want", "cut", "at", "changed", "err"}
                            /\ Pushes(rec[q])
  BY RecFields, PushByPass
<1>1. ASSUME NEW q \in Caller, rec'[q].pc \notin Pushing \cup {"end"}, ~rec'[q].err
      PROVE  Pushes(rec[q])'
  BY <1>1 DEF Pushes
<1>2. ASSUME NEW q \in Caller, UNCHANGED <<edge, sound>>, rec'[q].pc = rec[q].pc,
             rec'[q].want = rec[q].want, rec'[q].cut = rec[q].cut, rec'[q].at = rec[q].at,
             rec'[q].err = rec[q].err
      PROVE  Pushes(rec[q])'
  <2>1. Pushes(rec[q])
    BY <1>0
  <2>2. \A i \in 1..Len(Edges) : Well(rec[q], Edges[i]) => Well(rec[q], Edges[i])'
    BY <1>2 DEF Well, Carries
  <2>3. Progress(rec[q], edge[Edges[rec[q].at]]) => Progress(rec[q], edge[Edges[rec[q].at]])'
    BY <1>2 DEF Progress
  <2> QED
    BY <1>2, <2>1, <2>2, <2>3 DEF Pushes
<1>3. ASSUME NEW p \in Caller, rec[p].pc \notin Waiting, Pushes(rec[p])',
             \A q \in Caller \ {p} : rec'[q] = rec[q]
      PROVE  PushInv'
  <2>1. ASSUME NEW q \in Caller \ {p} PROVE Pushes(rec[q])'
    <3>1. rec[q].pc \in Waiting /\ rec'[q] = rec[q]
      BY <1>3, OthersWait
    <3>2. ~rec[q].err
      BY <1>0, <3>1 DEF Pushes, Waiting
    <3> QED
      BY <1>1, <3>1, <3>2 DEF Waiting, Pushing, Steps
  <2> QED
    BY <1>3, <2>1, PushByPass
<1>4. ASSUME NEW p \in Caller, Lock(p) PROVE PushInv'
  <2>1. ~rec[p].err /\ rec'[p].pc = "ver" /\ ~rec'[p].err
    BY <1>0, <1>4 DEF Lock, Go, Pushes
  <2>2. ASSUME NEW q \in Caller \ {p} PROVE Pushes(rec[q])'
    BY <1>0, <1>2, <1>4 DEF Lock, Go
  <2> QED
    BY <1>1, <2>1, <2>2, PushByPass DEF Pushing, Steps
<1>5. ASSUME NEW p \in Caller, ReadVer(p) PROVE PushInv'
  BY <1>0, <1>1, <1>3, <1>5 DEF ReadVer, Go, Pushes, Pushing, Steps, Waiting
<1>6. ASSUME NEW p \in Caller, Build(p) \/ BuildCut(p) PROVE PushInv'
  <2>1. /\ rec[p].pc \in Parts /\ rec'[p].pc = AfterPart[rec[p].pc]
        /\ rec'[p].err = rec[p].err
        /\ \A q \in Caller \ {p} : rec'[q] = rec[q]
    <3>1. CASE Build(p)
      BY <1>0, <3>1 DEF Build
    <3>2. CASE BuildCut(p)
      BY <1>0, <3>2 DEF BuildCut
    <3> QED
      BY <1>6, <3>1, <3>2
  <2>2. ~rec[p].err
    BY <1>0, <2>1 DEF Pushes, Parts
  <2> QED
    BY <1>1, <1>3, <2>1, <2>2 DEF Parts, AfterPart, Pushing, Steps, Waiting
<1>7. ASSUME NEW p \in Caller, BuildErr(p) \/ EndPass(p) PROVE PushInv'
  <2>1. /\ rec[p].pc \in Parts \cup {"end"} /\ rec'[p].pc = "idle" /\ ~rec'[p].err
        /\ \A q \in Caller \ {p} : rec'[q] = rec[q]
    BY <1>0, <1>7 DEF BuildErr, EndPass, NoPass
  <2> QED
    BY <1>1, <1>3, <2>1 DEF Parts, Pushing, Steps, Waiting
<1>8. ASSUME NEW p \in Caller, PutRoom(p) PROVE PushInv'
  <2>1. /\ rec[p].pc = "queue" /\ rec'[p].pc = "info" /\ rec'[p].at = 1
        /\ rec'[p].err = rec[p].err
        /\ \A q \in Caller \ {p} : rec'[q] = rec[q]
    BY <1>0, <1>8 DEF PutRoom
  <2>2. ~rec[p].err
    BY <1>0, <2>1 DEF Pushes
  <2>3. Pushes(rec[p])'
    BY <2>1, <2>2, FirstEdge
    DEF Pushes, Progress, PastCert, PastList, PastBks, PastRoute, PastState
  <2> QED
    BY <1>3, <2>1, <2>3 DEF Waiting
<1>9. ASSUME NEW p \in Caller, Push(p) PROVE PushInv'
  <2>0. PICK b \in BOOLEAN : b = KeysChanged(rec[p], edge[Edges[rec[p].at]])
    BY DEF KeysChanged
  <2>1. /\ rec[p].pc \in Steps /\ rec'[p].pc = AfterStep(rec[p].pc, b)
        /\ rec'[p].err = rec[p].err /\ rec'[p].at = rec[p].at /\ rec'[p].want = rec[p].want
        /\ rec'[p].cut = rec[p].cut /\ sound' = sound
        /\ \A q \in Caller \ {p} : rec'[q] = rec[q]
    BY <1>0, <1>9, <2>0 DEF Push
  <2>2. ~rec[p].err /\ rec[p].at \in 1..Len(Edges) /\ Edges[rec[p].at] \in Edge
    BY <1>0, <2>1, AtEdge DEF Pushes, Pushing, Steps
  <2>3. edge'[Edges[rec[p].at]] = Effect(rec[p].pc, Edges[rec[p].at], rec[p].want)
    BY <1>9, <2>2 DEF Push, EdgeTypeOK
  <2>4. Progress(rec'[p], edge'[Edges[rec[p].at]])
    BY <2>1, <2>3, ProgressStep
  <2>5. ASSUME NEW i \in 1..Len(Edges), i < rec[p].at PROVE Well(rec[p], Edges[i])'
    <3>1. Well(rec[p], Edges[i]) /\ Edges[i] \in Edge /\ Touched(p)
      BY <1>0, <1>9, <2>1, <2>5, PushTouches DEF Pushes, Pushing, Edge
    <3> QED
      BY <2>1, <3>1, CarriesOn DEF Well
  <2>6. rec'[p].pc \in Pushing
    BY <2>1 DEF AfterStep, Steps, Pushing
  <2>7. Pushes(rec[p])'
    BY <2>1, <2>2, <2>4, <2>5, <2>6 DEF Pushes, Pushing, Steps
  <2> QED
    BY <1>3, <2>1, <2>7 DEF Waiting, Steps
<1>10. ASSUME NEW p \in Caller, PushErr(p) PROVE PushInv'
  <2>1. /\ rec[p].pc \in Steps /\ rec'[p].pc = "row" /\ rec'[p].err
        /\ rec'[p].at = rec[p].at /\ rec'[p].want = rec[p].want
        /\ rec'[p].cut = rec[p].cut /\ sound' = sound
        /\ \A q \in Caller \ {p} : rec'[q] = rec[q]
    BY <1>0, <1>10 DEF PushErr
  <2>2. rec[p].at \in 1..Len(Edges)
    BY <2>1, AtEdge DEF Pushing
  <2>3. ASSUME NEW i \in 1..Len(Edges), i < rec[p].at PROVE Well(rec[p], Edges[i])'
    <3>1. Well(rec[p], Edges[i]) /\ Edges[i] \in Edge /\ Touched(p)
      BY <1>0, <1>10, <2>1, <2>3, PushTouches DEF Pushes, Pushing, Edge
    <3> QED
      BY <2>1, <3>1, CarriesOn DEF Well
  <2>4. Pushes(rec[p])'
    BY <2>1, <2>2, <2>3 DEF Pushes
  <2> QED
    BY <1>3, <2>1, <2>4 DEF Waiting, Steps
<1>11. ASSUME NEW p \in Caller, WriteRow(p) PROVE PushInv'
  <2>1. /\ rec[p].pc = "row" /\ edge' = edge
        /\ \A q \in Caller \ {p} : rec'[q] = rec[q]
        /\ rec'[p] = NextEdge(rec[p])
        /\ sound' = [sound EXCEPT ![Edges[rec[p].at]] = ~rec[p].err /\ ~rec[p].cut]
    BY <1>0, <1>11 DEF WriteRow
  <2>2. /\ rec'[p].pc = IF rec[p].at < Len(Edges) THEN "info" ELSE "end"
        /\ rec'[p].at = IF rec[p].at < Len(Edges) THEN rec[p].at + 1 ELSE 0
        /\ ~rec'[p].err /\ rec'[p].cut = rec[p].cut /\ rec'[p].want = rec[p].want
    BY <1>0, <2>1 DEF NextEdge
  <2>3. rec[p].at \in 1..Len(Edges) /\ Len(Edges) \in Nat /\ Edges[rec[p].at] \in Edge
    BY <2>1, AtEdge, FirstEdge DEF Pushing
  <2>4. ASSUME NEW i \in 1..Len(Edges), i <= rec[p].at PROVE Well(rec[p], Edges[i])'
    <3>0. Edges[i] \in Edge /\ DOMAIN sound = Edge
      BY DEF Edge, EdgeTypeOK
    <3>1. CASE Edges[i] = Edges[rec[p].at]
      <4>1. sound'[Edges[i]] = (~rec[p].err /\ ~rec[p].cut)
        BY <2>1, <2>3, <3>0, <3>1
      <4>2. ~rec[p].err => Progress(rec[p], edge[Edges[i]])
        BY <1>0, <2>1, <3>1 DEF Pushes, Pushing
      <4> QED
        BY <2>1, <2>2, <4>1, <4>2
        DEF Well, Carries, Progress, PastCert, PastList, PastBks, PastRoute, PastState
    <3>2. CASE Edges[i] # Edges[rec[p].at]
      <4>1. i < rec[p].at
        BY <2>3, <2>4, <3>2
      <4>2. Well(rec[p], Edges[i])
        BY <1>0, <2>1, <4>1 DEF Pushes, Pushing
      <4>3. sound'[Edges[i]] = sound[Edges[i]]
        BY <2>1, <3>0, <3>2
      <4> QED
        BY <2>1, <2>2, <4>2, <4>3 DEF Well
    <3> QED
      BY <3>1, <3>2
  <2>5. Pushes(rec[p])'
    <3>1. CASE rec[p].at < Len(Edges)
      <4>1. rec'[p].pc = "info" /\ rec'[p].at = rec[p].at + 1 /\ rec'[p].at \in 1..Len(Edges)
        BY <2>2, <2>3, <3>1
      <4>2. \A i \in 1..Len(Edges) : i < rec'[p].at => i <= rec[p].at
        BY <2>3, <4>1
      <4> QED
        BY <2>2, <2>4, <4>1, <4>2
        DEF Pushes, Progress, PastCert, PastList, PastBks, PastRoute, PastState
    <3>2. CASE ~(rec[p].at < Len(Edges))
      <4>1. rec'[p].pc = "end"
        BY <2>2, <3>2
      <4>2. \A i \in 1..Len(Edges) : i <= rec[p].at
        BY <2>3, <3>2
      <4> QED
        BY <2>2, <2>4, <4>1, <4>2 DEF Pushes, Pushing, Steps
    <3> QED
      BY <3>1, <3>2
  <2> QED
    BY <1>3, <2>1, <2>5 DEF Waiting
<1>12. CASE Begins
  <2>1. PICK p \in Caller : rec[p].pc = "idle" /\ Go(p, "lock")
    BY <1>12 DEF Begins
  <2>2. Pushes(rec[p])'
    BY <1>0, <1>1, <2>1 DEF Go, Pushes, Pushing, Steps
  <2>3. ASSUME NEW q \in Caller \ {p} PROVE Pushes(rec[q])'
    BY <1>0, <1>2, <1>12, <2>1 DEF Begins, Kept, Go
  <2> QED
    BY <2>2, <2>3, PushByPass
<1>13. CASE Cancel
  <2>1. /\ UNCHANGED <<edge, sound>>
        /\ \A q \in Caller : /\ rec'[q].pc = rec[q].pc /\ rec'[q].want = rec[q].want
                             /\ rec'[q].cut = rec[q].cut /\ rec'[q].at = rec[q].at
                             /\ rec'[q].err = rec[q].err
    BY <1>0, <1>13 DEF Cancel
  <2> QED
    BY <1>2, <2>1, PushByPass
<1>14. CASE Restart
  <2>1. \A q \in Caller : rec'[q].pc \in Waiting /\ ~rec'[q].err
    BY <1>0, <1>14 DEF Restart, NoPass, Waiting
  <2> QED
    BY <1>1, <2>1, PushByPass DEF Waiting, Pushing, Steps
<1>15. CASE Aside
  BY <1>2, <1>15, PushByPass DEF Aside, Kept
<1> QED
  BY <1>4, <1>5, <1>6, <1>7, <1>8, <1>9, <1>10, <1>11, <1>12, <1>13, <1>14, <1>15, StepCases,
     Zenon DEF Pass

-----------------------------------------------------------------------------
(* When no pass runs *)

\* As long as the version stays and the edges too, what they carry is wanted.
LEMMA CarriesKept ==
    ASSUME EdgeTypeOK, VersionInv, SettledInv, Written, UNCHANGED <<lastVer, edge, sound>>,
           Undisturbed' => Undisturbed
    PROVE  SettledInv'
<1>1. lastVer \in Nat /\ db.ver \in Nat /\ lastVer <= db.ver
  BY Numbers DEF VersionInv
<1>2. CASE db'.ver = db.ver + 1
  BY <1>1, <1>2 DEF SettledInv
<1>3. CASE db'.ver # db.ver + 1
  <2>1. /\ db'.ver = db.ver /\ db'.bks = db.bks /\ db'.route = db.route /\ db'.eff = db.eff
        /\ db'.cert = db.cert /\ db'.status = db.status
    BY <1>3 DEF Written
  <2>2. IssuedCert' = IssuedCert
    BY <2>1 DEF IssuedCert
  <2> QED
    BY <2>1, <2>2, DesiredFields DEF SettledInv, Carries
<1> QED
  BY <1>2, <1>3

\* Every step keeps the edges settled.
LEMMA SettledStep ==
    ASSUME EdgeTypeOK, MutexInv, VersionInv, WantInv, PushInv, SettledInv, [Next]_vars
    PROVE  SettledInv'
<1>0. /\ Caller = {"loop", "request"} /\ DOMAIN rec = Caller
      /\ \A q \in Caller : DOMAIN rec[q] = {"pc", "ctx", "ver", "want", "cut", "at", "changed", "err"}
      /\ Nobody \notin Caller
  BY RecFields DEF Nobody
<1>1. ASSUME Undisturbed, UNCHANGED <<db, lastVer, edge, sound>> PROVE SettledInv'
  BY <1>1, CarriesKept DEF Written
<1>2. ASSUME NEW p \in Caller, rec[p].pc \in {"ver"} \cup Parts, UNCHANGED <<db, lastVer, edge, sound>>
      PROVE  SettledInv'
  BY <1>1, <1>2 DEF Undisturbed
<1>3. ASSUME NEW p \in Caller, Lock(p) PROVE SettledInv'
  BY <1>1, <1>3 DEF Lock, Undisturbed
<1>4. ASSUME NEW p \in Caller, ReadVer(p) \/ Build(p) \/ BuildCut(p) \/ BuildErr(p) PROVE SettledInv'
  BY <1>2, <1>4 DEF ReadVer, Build, BuildCut, BuildErr
<1>5. ASSUME NEW p \in Caller, rec[p].pc \in Pushing \cup {"queue"}, mu' = mu,
             rec'[p].pc \in Pushing \cup {"end"}, \A q \in Caller \ {p} : rec'[q] = rec[q]
      PROVE  SettledInv'
  <2>1. mu = p /\ \A q \in Caller \ {p} : rec[q].pc \in Waiting
    BY <1>5, OthersWait DEF MutexInv, Waiting, Pushing, Steps
  <2>2. rec'[p].pc \notin {"ver"} \cup Parts
    BY <1>5 DEF Pushing, Steps, Parts
  <2>3. ~Undisturbed'
    BY <1>0, <1>5, <2>1, <2>2 DEF Undisturbed, Waiting, Parts
  <2> QED
    BY <2>3 DEF SettledInv
<1>6. ASSUME NEW p \in Caller, PutRoom(p) PROVE SettledInv'
  BY <1>0, <1>5, <1>6 DEF PutRoom, Pushing, Steps
<1>7. ASSUME NEW p \in Caller, Push(p) PROVE SettledInv'
  <2>0. PICK b \in BOOLEAN : b = KeysChanged(rec[p], edge[Edges[rec[p].at]])
    BY DEF KeysChanged
  <2>1. /\ rec[p].pc \in Steps /\ rec'[p].pc = AfterStep(rec[p].pc, b) /\ mu' = mu
        /\ \A q \in Caller \ {p} : rec'[q] = rec[q]
    BY <1>0, <1>7, <2>0 DEF Push
  <2>2. rec'[p].pc \in Pushing
    BY <2>1 DEF AfterStep, Steps, Pushing
  <2> QED
    BY <1>5, <2>1, <2>2 DEF Pushing
<1>8. ASSUME NEW p \in Caller, PushErr(p) PROVE SettledInv'
  BY <1>0, <1>5, <1>8 DEF PushErr, Pushing
<1>9. ASSUME NEW p \in Caller, WriteRow(p) PROVE SettledInv'
  BY <1>0, <1>5, <1>9 DEF WriteRow, NextEdge, Pushing, Steps
<1>10. ASSUME NEW p \in Caller, EndPass(p) PROVE SettledInv'
  <2> SUFFICES ASSUME lastVer' = db'.ver, NEW e \in Edge, sound'[e]
               PROVE  Carries(edge'[e], Desired')
    BY DEF SettledInv
  <2>1. /\ rec[p].pc = "end" /\ rec[p].ver = db.ver /\ UNCHANGED <<db, edge, sound>>
    BY <1>10 DEF EndPass
  <2>2. PICK i \in 1..Len(Edges) : e = Edges[i]
    BY DEF Edge
  <2>3. ~rec[p].cut /\ Carries(edge[e], rec[p].want)
    BY <2>1, <2>2 DEF PushInv, Well
  <2>4. /\ rec[p].want.bks = Desired.bks /\ rec[p].want.route = Desired.route
        /\ rec[p].want.state = Desired.state /\ rec[p].want.cert = Desired.cert
    BY <2>1, <2>3 DEF WantInv, AfterBackends, AfterRooms, AfterCerts
  <2>5. Carries(edge[e], Desired)
    BY <2>3, <2>4 DEF Carries
  <2>6. IssuedCert' = IssuedCert
    BY <2>1 DEF IssuedCert
  <2> QED
    BY <2>1, <2>5, <2>6, DesiredFields DEF Carries
<1>11. CASE Begins
  <2>1. PICK p \in Caller : rec[p].pc = "idle" /\ Go(p, "lock")
    BY <1>11 DEF Begins
  <2>2. Undisturbed' => Undisturbed
    BY <1>0, <1>11, <2>1 DEF Begins, Kept, Go, Undisturbed, Parts
  <2> QED
    BY <1>11, <2>2, CarriesKept DEF Begins, Kept
<1>12. CASE Cancel
  <2>1. \A q \in Caller : rec'[q].pc = rec[q].pc
    BY <1>0, <1>12 DEF Cancel
  <2>2. Undisturbed' => Undisturbed
    BY <1>12, <2>1 DEF Cancel, Undisturbed
  <2> QED
    BY <1>12, <2>2, CarriesKept DEF Cancel, Written
<1>13. CASE Restart
  BY <1>13, Numbers DEF Restart, VersionInv, SettledInv
<1>14. CASE Aside
  BY <1>14, CarriesKept DEF Aside, Kept, Undisturbed
<1> QED
  BY <1>3, <1>4, <1>6, <1>7, <1>8, <1>9, <1>10, <1>11, <1>12, <1>13, <1>14, StepCases, Zenon DEF Pass

-----------------------------------------------------------------------------
(* The theorems *)

\* flyc-control starts in a state of the inductive invariant.
LEMMA EdgeInvInit == Init => EdgeTypeOK /\ EdgeInv
<1> SUFFICES ASSUME Init PROVE EdgeTypeOK /\ EdgeInv
  OBVIOUS
<1>1. EdgeTypeOK
  BY TypeInit
<1>2. \A q \in Caller : rec[q].pc \in Waiting /\ rec[q].ver = 0 /\ ~rec[q].cut /\ ~rec[q].err
  BY DEF Init, NoPass, Waiting
<1>3. mu \notin Caller /\ db.ver = 1 /\ lastVer = 0 /\ db.cert = 1
  BY DEF Init, Nobody, Caller
<1>4. \A e \in Edge : cache[e] = 0 /\ edge[e].cert = 0 /\ ~edge[e].listed
  BY DEF Init, NewEdge
<1>5. MutexInv /\ VersionInv
  BY <1>2, <1>3 DEF MutexInv, VersionInv
<1>6. WantInv
  BY <1>2, <1>3 DEF WantInv
<1>7. CertInv
  BY <1>2, <1>3, <1>4 DEF CertInv, AfterCerts, Waiting, Pushing, Steps
<1>8. PushInv
  BY <1>2 DEF PushInv, Waiting, Pushing, Steps
<1>9. SettledInv
  BY <1>3 DEF SettledInv
<1> QED
  BY <1>1, <1>5, <1>6, <1>7, <1>8, <1>9 DEF EdgeInv

\* The invariant is inductive.
LEMMA EdgeInvStep ==
    ASSUME EdgeTypeOK, EdgeInv, [Next]_vars
    PROVE  EdgeTypeOK' /\ EdgeInv'
BY TypeStep, MutexStep, VersionStep, WantStep, CertStep, PushStep, SettledStep DEF EdgeInv

\* It holds in every state of every behaviour.
LEMMA EdgeInvHolds == Spec => [](EdgeTypeOK /\ EdgeInv)
<1>1. EdgeTypeOK /\ EdgeInv /\ [Next]_vars => (EdgeTypeOK /\ EdgeInv)'
  BY EdgeInvStep
<1> QED
  BY EdgeInvInit, <1>1, PTL DEF Spec

\* The variables keep their types, and a retired key is older than the active
\* one, for any edges, backends and changes: in particular a pass never runs
\* past the last edge of the loop in Once.
THEOREM EdgeTypesCorrect == Spec => []EdgeTypeOK
BY EdgeInvHolds, PTL

\* What the poll of Run relies on: with no pass running and lastVer the version
\* of the database, an edge whose last push met no error carries what the
\* database asks for, for any edges and any interleaving of Build's queries
\* with the writes of the handlers, the ACME manager and the automatic mode.
THEOREM EdgesSettled == Spec => []Settled
<1>1. EdgeInv => Settled
  BY DEF EdgeInv, SettledInv, Undisturbed, Settled
<1> QED
  BY EdgeInvHolds, <1>1, PTL

\* A crt-list names only certificates whose file is on the edge, and so do the
\* remembered uploads of pushedCerts, whatever calls fail and whenever
\* flyc-control restarts.
THEOREM ListedCertsExist == Spec => []ListedExists
<1>1. EdgeTypeOK /\ EdgeInv => ListedExists
  <2> SUFFICES ASSUME EdgeTypeOK, EdgeInv, NEW e \in Edge, edge[e].listed \/ cache[e] # 0
               PROVE  edge[e].cert # 0
    BY DEF ListedExists
  <2>1. /\ cache[e] <= edge[e].cert
        /\ edge[e].listed => edge[e].cert # 0
        /\ cache[e] \in Nat /\ edge[e].cert \in Nat
    BY Numbers DEF EdgeInv, CertInv
  <2> QED
    BY <2>1
<1> QED
  BY EdgeInvHolds, <1>1, PTL
=============================================================================
