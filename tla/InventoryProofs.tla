--------------------------- MODULE InventoryProofs ---------------------------
(***************************************************************************)
(* Theorems about Inventory, for any nodes, addresses and tokens, any      *)
(* number of requests in flight, of failed statements and of restarts.     *)
(***************************************************************************)
EXTENDS Inventory, FiniteSetTheorems, TLAPS

\* Before Apply is over nothing is served, and no pass has begun.
UpInv == boot # "up" => req = {} /\ report = {} /\ ~fresh

\* What a request knows about the data host.
Careful(r) ==
    /\ r.op = "create" /\ "data" \in r.row.roles => r.count = {}
    /\ r.op = "patch" => r.row.roles = r.seen.roles
    /\ r.op = "delete" => "data" \notin r.seen.roles

RequestInv == \A r \in req : Careful(r)

\* How far Apply is, and that the data host, once seeded, stays: it keeps the
\* table from being empty at the next start.
SeedInv ==
    /\ \E s \in Starts : seed = s.seed
    /\ boot \in {"settings", "nodes"} => seed # {}
    /\ boot = "settings" => Declared = {}
    /\ boot = "nodes" => \A n \in Declared : \E x \in seed : x.name = n /\ nodes[n] = x.row
    /\ Unhurt /\ seed # {} /\ boot \in {"sync", "up"} => DataHosts # {}
    /\ Unhurt /\ seed # {} /\ boot = "apply" =>
          DataHosts # {} \/ (Declared = {} /\ "edited" \notin past)
    /\ SeedOnce

Amending == {"port", "edges", "upsert", "prune", "qport", "queue", "qprune"}

\* Until a node is declared, no pass gets beyond the count.
EmptyInv == "declared" \notin past => Declared = {} /\ pass.at \notin Amending

EdgesAgree == registry.edge = Listed("edge", ports.dp)
QueuesAgree == registry.queue = Listed("queue", ports.q)

\* How far a pass that nothing has disturbed has brought the derived state.
PassInv == fresh =>
    /\ pass.at \in {"edges", "edges2"} => pass.port = ports.dp
    /\ pass.at \in {"queue", "hosts"} => pass.port = ports.q
    /\ pass.at \in {"upsert", "prune"} =>
          /\ pass.list = Listed("edge", ports.dp)
          /\ \A n \in DOMAIN pass.list \ pass.todo :
                n \in DOMAIN registry.edge /\ registry.edge[n] = pass.list[n]
    /\ pass.at = "prune" => pass.todo = {}
    /\ pass.at \in {"qport", "queue", "qprune", "port2", "edges2", "qport2", "hosts"} => EdgesAgree
    /\ pass.at = "qprune" => \A n \in Ready("queue") :
          n \in DOMAIN registry.queue /\ registry.queue[n] = URL(nodes[n].ip, ports.q)
    /\ pass.at \in {"port2", "edges2", "qport2", "hosts"} => QueuesAgree
    /\ pass.at \in {"qport2", "hosts"} => topo = Listed("edge", ports.dp)
    /\ pass.at = "idle" /\ Declared # {} => Agreed

InventoryInv == UpInv /\ RequestInv /\ SeedInv /\ EmptyInv /\ PassInv
-----------------------------------------------------------------------------
(* The table nodes, and the requests *)

\* A node that is declared has a row.
LEMMA RowIsNotNone == \A row \in Row : row # None
<1>1. DOMAIN None = {"absent"}
  BY DEF None
<1>2. \A row \in Row : "ip" \in DOMAIN row
  BY DEF Row
<1>3. "ip" # "absent"
  OBVIOUS
<1> QED
  BY <1>1, <1>2, <1>3

\* The rows of nodes are well typed.
LEMMA NodeRows ==
    ASSUME InventoryTypeOK, NEW n \in Declared
    PROVE  /\ n \in Node /\ nodes[n] \in Row /\ nodes[n].ip \in IP
           /\ nodes[n].roles \in SUBSET Role /\ nodes[n].state \in NodeState
<1>1. n \in Node /\ nodes[n] \in Row
  BY DEF InventoryTypeOK, Declared
<1> QED
  BY <1>1 DEF Row

\* What a request carries.
LEMMA RequestKinds ==
    ASSUME NEW r \in Request
    PROVE  /\ r.op \in {"create", "patch"} => r.name \in Node /\ r.row \in Row
           /\ r.op = "create" => r.count \in SUBSET Node
           /\ r.op = "patch" => r.seen \in Row
           /\ r.op = "delete" => r.name \in Node /\ r.seen \in Row
           /\ r.op = "settings" => r.ports \in [{"dp", "q"} -> Nat] /\ r.scalar \in BOOLEAN
           /\ r.op \in {"unlist edge", "unlist queue"} => r.name \in Node
           /\ r.op = "compare" => r.name \in Node /\ r.url \in IP \X Nat
<1>1. CASE r \in [op : {"create"}, name : Node, row : Row, count : SUBSET Node]
  BY <1>1
<1>2. CASE r \in [op : {"patch"}, name : Node, seen : Row, row : Row]
  BY <1>2
<1>3. CASE r \in [op : {"delete"}, name : Node, seen : Row]
  BY <1>3
<1>4. CASE r \in [op : {"settings"}, ports : [{"dp", "q"} -> Nat], scalar : BOOLEAN]
  BY <1>4
<1>5. CASE r \in [op : {"unlist edge", "unlist queue"}, name : Node]
  BY <1>5
<1>6. CASE r \in [op : {"compare"}, name : Node, url : IP \X Nat]
  BY <1>6
<1> QED
  BY <1>1, <1>2, <1>3, <1>4, <1>5, <1>6 DEF Request

AddressesDiffer == \A m, n \in Declared : m # n => nodes[m].ip # nodes[n].ip

\* The upsert of a row that the unique index lets through.
LEMMA SaveTypes ==
    ASSUME InventoryTypeOK, NEW n \in Node, NEW row \in Row, SaveNode(n, row)
    PROVE  /\ nodes' \in [Node -> Row \cup {None}] /\ AddressesDiffer'
           /\ nodes'[n] = row /\ (\A m \in Node \ {n} : nodes'[m] = nodes[m])
           /\ Declared' = Declared \cup {n}
<1>1. nodes \in [Node -> Row \cup {None}] /\ AddressesDiffer
  BY DEF InventoryTypeOK, AddressesDiffer
<1>2. nodes' = [nodes EXCEPT ![n] = row] /\ ~Conflicts(n, row)
  BY DEF SaveNode
<1>3. /\ nodes' \in [Node -> Row \cup {None}]
      /\ nodes'[n] = row /\ (\A m \in Node \ {n} : nodes'[m] = nodes[m])
  BY <1>1, <1>2
<1>4. Declared' = Declared \cup {n}
  BY <1>3, RowIsNotNone DEF Declared
<1>5. AddressesDiffer'
  BY <1>1, <1>2, <1>3, <1>4 DEF AddressesDiffer, Conflicts, Declared
<1> QED
  BY <1>3, <1>4, <1>5

\* What a step does to the table: a row of the seed, a request's row, a deletion.
Seeds(x) == ApplyNode /\ x \in seed /\ nodes[x.name] = None /\ SaveNode(x.name, x.row)

OneNode ==
    \/ nodes' = nodes
    \/ \E x : Seeds(x)
    \/ \E r \in req : Save(r)
    \/ \E r \in req : Delete(r)

\* One row at a time is saved or deleted.
LEMMA OneNodeStep ==
    ASSUME [Next]_vars
    PROVE  OneNode
<1>1. CASE ApplyNode
  BY <1>1 DEF ApplyNode, OneNode, Seeds
<1>2. CASE Handler
  BY <1>2 DEF Handler, OneNode, CreateNode, PatchNode, DeleteNode, PutSettings, DeleteEdge,
      DeleteQueueHost, Begin, BeginAt, CompareHost, SaveRefused, Settle, Unlist
<1>3. CASE Enrollment
  BY <1>3 DEF Enrollment, OneNode, CreateToken, DeleteToken, Expire, EnrollDone, MarkUsed,
      Unaffected
<1>4. CASE UNCHANGED vars
  BY <1>4 DEF vars, OneNode
<1> QED
  BY <1>1, <1>2, <1>3, <1>4
  DEF Next, Starting, ApplyCount, ApplySettings, ApplySync, Restart, BeginPass, PassStep, PassErr,
      OneNode

\* The seed is as the installation gave it.
SeedKnown == \E s \in Starts : seed = s.seed

\* The table stays well typed, and its index unique.
LEMMA NodesStep ==
    ASSUME InventoryTypeOK, SeedKnown, [Next]_vars
    PROVE  nodes' \in [Node -> Row \cup {None}] /\ AddressesDiffer'
<1>0. nodes \in [Node -> Row \cup {None}] /\ AddressesDiffer /\ req \subseteq Request
  BY DEF InventoryTypeOK, AddressesDiffer
<1>1. CASE nodes' = nodes
  BY <1>0, <1>1 DEF AddressesDiffer, Declared
<1>2. ASSUME NEW x, Seeds(x) PROVE nodes' \in [Node -> Row \cup {None}] /\ AddressesDiffer'
  <2>1. x \in [name : Node, row : Row] /\ SaveNode(x.name, x.row)
    BY <1>2, SeedsAssumption DEF Seeds, SeedKnown
  <2> QED
    BY <2>1, SaveTypes
<1>3. ASSUME NEW r \in req, Save(r) PROVE nodes' \in [Node -> Row \cup {None}] /\ AddressesDiffer'
  <2>1. r.name \in Node /\ r.row \in Row /\ SaveNode(r.name, r.row)
    BY <1>0, <1>3, RequestKinds DEF Save
  <2> QED
    BY <2>1, SaveTypes
<1>4. ASSUME NEW r \in req, Delete(r) PROVE nodes' \in [Node -> Row \cup {None}] /\ AddressesDiffer'
  BY <1>0, <1>4 DEF Delete, AddressesDiffer, Declared
<1> QED
  BY <1>1, <1>2, <1>3, <1>4, OneNodeStep DEF OneNode

-----------------------------------------------------------------------------
(* What is derived from the nodes *)

\* Edges and QueueHosts give a list of URLs.
LEMMA ListedTyped ==
    ASSUME InventoryTypeOK, NEW role, NEW port \in Nat
    PROVE  /\ Listing(Listed(role, port)) /\ DOMAIN Listed(role, port) = Ready(role)
           /\ \A n \in Ready(role) : /\ Listed(role, port)[n] = URL(nodes[n].ip, port)
                                     /\ URL(nodes[n].ip, port) \in IP \X Nat
<1>1. \A n \in Ready(role) : n \in Node /\ nodes[n].ip \in IP
  BY NodeRows DEF Ready, Holders, Declared
<1>2. \A n \in Ready(role) : URL(nodes[n].ip, port) \in IP \X Nat
  BY <1>1 DEF URL
<1> QED
  BY <1>1, <1>2 DEF Listed, Listing

PassOK(p) ==
    /\ DOMAIN p = DOMAIN Resting
    /\ p.at \in Statements \cup {"idle"} /\ p.port \in Nat
    /\ p.todo \subseteq DOMAIN p.list /\ Listing(p.list)

RegistryOK(g) ==
    /\ DOMAIN g = {"edge", "queue"}
    /\ Listing(g.edge) /\ Listing(g.queue)

\* Goto.
LEMMA GotoTyped ==
    \A at \in Statements \cup {"idle"} : PassOK([Resting EXCEPT !.at = at])
<1> SUFFICES ASSUME NEW at \in Statements \cup {"idle"} PROVE PassOK([Resting EXCEPT !.at = at])
  OBVIOUS
<1>1. PICK p : p = [Resting EXCEPT !.at = at]
  OBVIOUS
<1>2. /\ DOMAIN p = DOMAIN Resting /\ p.at = at /\ p.port = 0 /\ p.list = NoList /\ p.todo = {}
  BY <1>1 DEF Resting
<1>3. Listing(NoList)
  BY DEF NoList, Listing
<1> QED
  BY <1>1, <1>2, <1>3 DEF PassOK

\* The place a pass that rests is at.
LEMMA RestingTyped == PassOK(Resting) /\ Resting.at = "idle" /\ Listing(NoList)
<1>1. Listing(NoList)
  BY DEF NoList, Listing
<1>2. /\ Resting.at = "idle" /\ Resting.port = 0 /\ Resting.list = NoList /\ Resting.todo = {}
  BY DEF Resting
<1> QED
  BY <1>1, <1>2 DEF PassOK

\* A table of the registry is replaced.
LEMMA RegistryPut ==
    ASSUME RegistryOK(registry), NEW f, Listing(f), NEW k \in {"edge", "queue"},
           registry' = [registry EXCEPT ![k] = f]
    PROVE  /\ RegistryOK(registry') /\ registry'[k] = f
           /\ k = "edge" => registry'.queue = registry.queue
           /\ k = "queue" => registry'.edge = registry.edge
<1>1. DOMAIN registry = {"edge", "queue"}
  BY DEF RegistryOK
<1>2. CASE k = "edge"
  BY <1>1, <1>2 DEF RegistryOK
<1>3. CASE k = "queue"
  BY <1>1, <1>3 DEF RegistryOK
<1> QED
  BY <1>2, <1>3

\* Parts of the type invariant.
LEMMA DerivedParts ==
    ASSUME InventoryTypeOK
    PROVE  /\ PassOK(pass) /\ RegistryOK(registry) /\ Listing(topo) /\ hosts \subseteq IP \X Nat
           /\ ports \in [{"dp", "q"} -> Nat \ {0}] /\ ports.dp \in Nat /\ ports.q \in Nat
           /\ scalar \in BOOLEAN
           /\ pass.at \in Statements \cup {"idle"} /\ pass.port \in Nat
BY DEF InventoryTypeOK, PassOK, RegistryOK

DerivedOK == PassOK(pass) /\ RegistryOK(registry) /\ Listing(topo) /\ hosts \subseteq IP \X Nat

\* The statements of a pass keep the derived state well typed.
LEMMA PassStepTyped ==
    ASSUME InventoryTypeOK, PassStep
    PROVE  DerivedOK'
<1>0. /\ PassOK(pass) /\ RegistryOK(registry) /\ Listing(topo) /\ hosts \subseteq IP \X Nat
      /\ ports.dp \in Nat /\ ports.q \in Nat /\ pass.port \in Nat
  BY DerivedParts
<1>1. CASE CountNodes
  BY <1>0, <1>1, GotoTyped DEF CountNodes, Goto, DerivedOK, Statements
<1>2. CASE ReadPort
  <2>1. PICK at \in Statements, port \in Nat : pass' = [pass EXCEPT !.at = at, !.port = port]
    BY <1>0, <1>2 DEF ReadPort, Statements
  <2>2. PassOK(pass')
    BY <1>0, <2>1 DEF PassOK, Resting
  <2> QED
    BY <1>0, <1>2, <2>2 DEF ReadPort, DerivedOK
<1>3. CASE ListEdges
  <2>1. PICK list : list = Listed("edge", pass.port)
    OBVIOUS
  <2>2. Listing(list)
    BY <1>0, <2>1, ListedTyped
  <2>3. PICK at \in Statements : pass' = [pass EXCEPT !.at = at, !.list = list, !.todo = DOMAIN list]
    BY <1>3, <2>1 DEF ListEdges, Statements
  <2>4. PassOK(pass')
    BY <1>0, <2>2, <2>3 DEF PassOK, Resting
  <2> QED
    BY <1>0, <1>3, <2>4 DEF ListEdges, DerivedOK
<1>4. CASE UpsertEdge
  <2>1. PICK n \in pass.todo :
          /\ registry' = [registry EXCEPT !.edge =
                [m \in DOMAIN registry.edge \cup {n} |-> IF m = n THEN pass.list[n] ELSE registry.edge[m]]]
          /\ pass' = [pass EXCEPT !.at = IF pass.todo = {n} THEN "prune" ELSE "upsert",
                                  !.todo = pass.todo \ {n}]
    BY <1>4 DEF UpsertEdge
  <2>2. PICK f : f = [m \in DOMAIN registry.edge \cup {n} |->
                        IF m = n THEN pass.list[n] ELSE registry.edge[m]]
    OBVIOUS
  <2>3. Listing(f)
    BY <1>0, <2>2 DEF Listing, PassOK, RegistryOK
  <2>4. RegistryOK(registry')
    <3>1. registry' = [registry EXCEPT !["edge"] = f]
      BY <2>1, <2>2
    <3> QED
      BY <1>0, <2>3, <3>1, RegistryPut
  <2>5. PICK at \in Statements : pass' = [pass EXCEPT !.at = at, !.todo = pass.todo \ {n}]
    BY <2>1 DEF Statements
  <2>6. PassOK(pass')
    BY <1>0, <2>5 DEF PassOK, Resting
  <2> QED
    BY <1>0, <1>4, <2>4, <2>6 DEF UpsertEdge, DerivedOK
<1>5. CASE PruneEdges
  <2>1. PICK f : f = [n \in DOMAIN registry.edge \cap DOMAIN pass.list |-> registry.edge[n]]
    OBVIOUS
  <2>2. Listing(f)
    BY <1>0, <2>1 DEF Listing, RegistryOK
  <2>3. registry' = [registry EXCEPT !["edge"] = f]
    BY <1>5, <2>1 DEF PruneEdges
  <2>4. RegistryOK(registry')
    BY <1>0, <2>2, <2>3, RegistryPut
  <2> QED
    BY <1>0, <1>5, <2>4, GotoTyped DEF PruneEdges, Goto, DerivedOK, Statements
<1>6. CASE UpsertQueueHosts
  <2>0. PICK list : list = Listed("queue", pass.port)
    OBVIOUS
  <2>1. PICK f : f = [n \in DOMAIN registry.queue \cup DOMAIN list |->
                        IF n \in DOMAIN list THEN list[n] ELSE registry.queue[n]]
    OBVIOUS
  <2>2. Listing(f)
    <3>1. Listing(list)
      BY <1>0, <2>0, ListedTyped
    <3> QED
      BY <1>0, <2>1, <3>1 DEF Listing, RegistryOK
  <2>3. registry' = [registry EXCEPT !["queue"] = f]
    BY <1>6, <2>0, <2>1 DEF UpsertQueueHosts
  <2>4. RegistryOK(registry')
    BY <1>0, <2>2, <2>3, RegistryPut
  <2> QED
    BY <1>0, <1>6, <2>4, GotoTyped DEF UpsertQueueHosts, Goto, DerivedOK, Statements
<1>7. CASE PruneQueueHosts
  <2>1. PICK f : f = [n \in DOMAIN registry.queue \cap Ready("queue") |-> registry.queue[n]]
    OBVIOUS
  <2>2. Listing(f)
    BY <1>0, <2>1 DEF Listing, RegistryOK
  <2>3. registry' = [registry EXCEPT !["queue"] = f]
    BY <1>7, <2>1 DEF PruneQueueHosts
  <2>4. RegistryOK(registry')
    BY <1>0, <2>2, <2>3, RegistryPut
  <2> QED
    BY <1>0, <1>7, <2>4, GotoTyped DEF PruneQueueHosts, AfterSync, Goto, DerivedOK, Statements
<1>8. CASE SetEdges
  BY <1>0, <1>8, ListedTyped, GotoTyped DEF SetEdges, Goto, DerivedOK, Statements
<1>9. CASE SetHosts
  <2>1. hosts' \subseteq IP \X Nat
    BY <1>0, <1>9, ListedTyped DEF SetHosts
  <2> QED
    BY <1>0, <1>9, <2>1, RestingTyped DEF SetHosts, DerivedOK
<1> QED
  BY <1>1, <1>2, <1>3, <1>4, <1>5, <1>6, <1>7, <1>8, <1>9 DEF PassStep

\* The derived state stays well typed.
LEMMA DerivedStep ==
    ASSUME InventoryTypeOK, [Next]_vars
    PROVE  DerivedOK'
<1>0. /\ PassOK(pass) /\ RegistryOK(registry) /\ Listing(topo) /\ hosts \subseteq IP \X Nat
      /\ req \subseteq Request
  BY DerivedParts DEF InventoryTypeOK
<1>1. ASSUME UNCHANGED <<registry, topo, hosts, pass>> PROVE DerivedOK'
  BY <1>0, <1>1 DEF DerivedOK
<1>2. CASE Restart
  BY <1>0, <1>2, RestingTyped DEF Restart, DerivedOK
<1>3. CASE ApplySync \/ BeginPass
  BY <1>0, <1>3, GotoTyped DEF ApplySync, BeginPass, Goto, DerivedOK, Statements
<1>4. CASE PassErr
  BY <1>0, <1>4, GotoTyped, RestingTyped DEF PassErr, Goto, DerivedOK, Statements
<1>5. ASSUME NEW r \in req, Unlist(r) PROVE DerivedOK'
  <2>1. PICK k \in {"edge", "queue"} :
          registry' = [registry EXCEPT ![k] = [n \in DOMAIN registry[k] \ {r.name} |-> registry[k][n]]]
    BY <1>5 DEF Unlist
  <2>2. PICK f : f = [n \in DOMAIN registry[k] \ {r.name} |-> registry[k][n]]
    OBVIOUS
  <2>3. Listing(registry[k])
    BY <1>0 DEF RegistryOK
  <2>4. Listing(f)
    BY <2>2, <2>3 DEF Listing
  <2>5. RegistryOK(registry')
    BY <1>0, <2>1, <2>2, <2>4, RegistryPut
  <2> QED
    BY <1>0, <1>5, <2>5 DEF Unlist, DerivedOK
<1>6. CASE Handler
  BY <1>1, <1>5, <1>6 DEF Handler, CreateNode, PatchNode, DeleteNode, PutSettings, DeleteEdge,
      DeleteQueueHost, Begin, BeginAt, CompareHost, Save, SaveRefused, Delete, Settle
<1>7. CASE Enrollment
  BY <1>1, <1>7 DEF Enrollment, CreateToken, DeleteToken, Expire, EnrollDone, MarkUsed,
      Unaffected
<1>8. CASE UNCHANGED vars
  BY <1>1, <1>8 DEF vars, memory
<1> QED
  BY <1>1, <1>2, <1>3, <1>4, <1>6, <1>7, <1>8, PassStepTyped
  DEF Next, Starting, ApplyCount, ApplySettings, ApplyNode, memory

-----------------------------------------------------------------------------
(* The rest of the state *)

SettingsOK == ports \in [{"dp", "q"} -> Nat \ {0}] /\ scalar \in BOOLEAN

\* A port is never 0.
LEMMA SettingsStep ==
    ASSUME InventoryTypeOK, [Next]_vars
    PROVE  SettingsOK'
<1>0. SettingsOK /\ req \subseteq Request
  BY DEF InventoryTypeOK, SettingsOK
<1>1. ASSUME ports' = ports, scalar' = scalar PROVE SettingsOK'
  BY <1>0, <1>1 DEF SettingsOK
<1>2. ASSUME NEW s, s.ports \in [{"dp", "q"} -> Nat], s.scalar \in BOOLEAN, SaveSettings(s)
      PROVE  SettingsOK'
  <2>1. DefaultPort["dp"] \in Nat \ {0} /\ DefaultPort["q"] \in Nat \ {0}
    BY DEF DefaultPort
  <2>2. ports' = [k \in {"dp", "q"} |-> IF s.ports[k] = 0 THEN DefaultPort[k] ELSE s.ports[k]]
    BY <1>2 DEF SaveSettings
  <2>3. ports' \in [{"dp", "q"} -> Nat \ {0}]
    BY <1>2, <2>1, <2>2
  <2> QED
    BY <1>2, <2>3 DEF SaveSettings, SettingsOK
<1>3. CASE ApplySettings
  <2>1. PICK z : z = [dp |-> 0, q |-> 0]
    OBVIOUS
  <2>2. DOMAIN z = {"dp", "q"} /\ z["dp"] = 0 /\ z["q"] = 0 /\ z = [k \in DOMAIN z |-> z[k]]
    BY <2>1
  <2>3. z \in [{"dp", "q"} -> Nat]
    BY <2>2
  <2>4. PICK s : s = [ports |-> z, scalar |-> TRUE]
    OBVIOUS
  <2>5. s.ports = z /\ s.scalar = TRUE
    BY <2>4
  <2>6. SaveSettings(s)
    BY <1>3, <2>1, <2>4 DEF ApplySettings
  <2> QED
    BY <1>2, <2>3, <2>5, <2>6
<1>4. ASSUME NEW r \in req, Settle(r) PROVE SettingsOK'
  BY <1>0, <1>2, <1>4, RequestKinds DEF Settle
<1>5. CASE Handler
  BY <1>1, <1>4, <1>5 DEF Handler, CreateNode, PatchNode, DeleteNode, PutSettings, DeleteEdge,
      DeleteQueueHost, Begin, BeginAt, CompareHost, Save, SaveRefused, Delete, Unlist
<1>6. CASE Enrollment
  BY <1>1, <1>6 DEF Enrollment, CreateToken, DeleteToken, Expire, EnrollDone, MarkUsed,
      Unaffected
<1>7. CASE UNCHANGED vars
  BY <1>1, <1>7 DEF vars
<1> QED
  BY <1>1, <1>3, <1>5, <1>6, <1>7
  DEF Next, Starting, ApplyCount, ApplyNode, ApplySync, Restart, BeginPass, PassStep, PassErr

\* What a handler that begins has read: well typed, and careful with the data host.
LEMMA BeginCareful ==
    ASSUME InventoryTypeOK, NEW r,
           \/ \E n \in Node, roles \in Shapes, ip \in IP, st \in Moves, count \in SUBSET Node :
                 /\ r = [op |-> "create", name |-> n,
                         row |-> [roles |-> roles, ip |-> ip, state |-> st], count |-> count]
                 /\ "data" \in roles => count = {}
           \/ \E n \in Declared, ip \in IP : \E st \in Moves \cup {nodes[n].state} :
                 r = [op |-> "patch", name |-> n, seen |-> nodes[n],
                      row |-> [nodes[n] EXCEPT !.ip = ip, !.state = st]]
           \/ \E n \in Declared : /\ n \notin DataHosts
                                  /\ r = [op |-> "delete", name |-> n, seen |-> nodes[n]]
           \/ \E f \in [{"dp", "q"} -> Nat], plain \in BOOLEAN :
                 r = [op |-> "settings", ports |-> f, scalar |-> plain]
           \/ \E n \in Node, op \in {"unlist edge", "unlist queue"} : r = [op |-> op, name |-> n]
           \/ \E n \in Node, url \in IP \X Nat : r = [op |-> "compare", name |-> n, url |-> url]
    PROVE  r \in Request /\ Careful(r)
<1>1. CASE \E n \in Node, roles \in Shapes, ip \in IP, st \in Moves, count \in SUBSET Node :
               /\ r = [op |-> "create", name |-> n,
                       row |-> [roles |-> roles, ip |-> ip, state |-> st], count |-> count]
               /\ "data" \in roles => count = {}
  <2>1. PICK n \in Node, roles \in Shapes, ip \in IP, st \in Moves, count \in SUBSET Node :
               /\ r = [op |-> "create", name |-> n,
                       row |-> [roles |-> roles, ip |-> ip, state |-> st], count |-> count]
               /\ "data" \in roles => count = {}
    BY <1>1
  <2>2. PICK row : row = [roles |-> roles, ip |-> ip, state |-> st]
    OBVIOUS
  <2>3. row \in Row /\ row.roles = roles
    <3>1. roles \in (SUBSET Role) \ {{}} /\ st \in NodeState
      <4>1. roles \in SUBSET Role
        BY InputsAssumption
      <4>2. roles # {}
        BY InputsAssumption
      <4>3. st \in NodeState
        BY InputsAssumption
      <4> QED
        BY <4>1, <4>2, <4>3, Zenon
    <3> QED
      BY <2>2, <3>1 DEF Row
  <2>4. r = [op |-> "create", name |-> n, row |-> row, count |-> count]
    BY <2>1, <2>2
  <2>5. r \in [op : {"create"}, name : Node, row : Row, count : SUBSET Node]
    BY <2>3, <2>4
  <2>6. r.op = "create" /\ r.row.roles = roles /\ r.count = count
    BY <2>3, <2>4
  <2> QED
    BY <2>1, <2>5, <2>6 DEF Request, Careful
<1>2. CASE \E n \in Declared, ip \in IP : \E st \in Moves \cup {nodes[n].state} :
               r = [op |-> "patch", name |-> n, seen |-> nodes[n],
                    row |-> [nodes[n] EXCEPT !.ip = ip, !.state = st]]
  <2>1. PICK n \in Declared, ip \in IP : \E st \in Moves \cup {nodes[n].state} :
               r = [op |-> "patch", name |-> n, seen |-> nodes[n],
                    row |-> [nodes[n] EXCEPT !.ip = ip, !.state = st]]
    BY <1>2
  <2>2. PICK st \in Moves \cup {nodes[n].state} :
               r = [op |-> "patch", name |-> n, seen |-> nodes[n],
                    row |-> [nodes[n] EXCEPT !.ip = ip, !.state = st]]
    BY <2>1
  <2>3. nodes[n] \in Row /\ st \in NodeState /\ n \in Node
    BY NodeRows, InputsAssumption
  <2>4. PICK row : row = [nodes[n] EXCEPT !.ip = ip, !.state = st]
    OBVIOUS
  <2>5. row \in Row /\ row.roles = nodes[n].roles
    BY <2>3, <2>4 DEF Row
  <2>6. r = [op |-> "patch", name |-> n, seen |-> nodes[n], row |-> row]
    BY <2>2, <2>4
  <2>7. r \in [op : {"patch"}, name : Node, seen : Row, row : Row]
    BY <2>3, <2>5, <2>6
  <2>8. r.op = "patch" /\ r.row.roles = r.seen.roles
    BY <2>5, <2>6
  <2> QED
    BY <2>7, <2>8 DEF Request, Careful
<1>3. CASE \E n \in Declared : /\ n \notin DataHosts
                               /\ r = [op |-> "delete", name |-> n, seen |-> nodes[n]]
  <2>1. PICK n \in Declared : /\ n \notin DataHosts
                              /\ r = [op |-> "delete", name |-> n, seen |-> nodes[n]]
    BY <1>3
  <2>2. nodes[n] \in Row /\ n \in Node /\ "data" \notin nodes[n].roles
    BY <2>1, NodeRows DEF DataHosts, Holders, Declared
  <2>3. r \in [op : {"delete"}, name : Node, seen : Row]
    BY <2>1, <2>2
  <2>4. r.op = "delete" /\ r.seen = nodes[n]
    BY <2>1
  <2> QED
    BY <2>2, <2>3, <2>4 DEF Request, Careful
<1>4. CASE \E f \in [{"dp", "q"} -> Nat], plain \in BOOLEAN :
               r = [op |-> "settings", ports |-> f, scalar |-> plain]
  <2>1. PICK f \in [{"dp", "q"} -> Nat], plain \in BOOLEAN :
               r = [op |-> "settings", ports |-> f, scalar |-> plain]
    BY <1>4
  <2>2. /\ r \in [op : {"settings"}, ports : [{"dp", "q"} -> Nat], scalar : BOOLEAN]
        /\ r.op = "settings"
    BY <2>1
  <2> QED
    BY <2>2 DEF Request, Careful
<1>5. CASE \E n \in Node, op \in {"unlist edge", "unlist queue"} : r = [op |-> op, name |-> n]
  <2>0. PICK n \in Node, op \in {"unlist edge", "unlist queue"} : r = [op |-> op, name |-> n]
    BY <1>5
  <2>1. r \in [op : {"unlist edge", "unlist queue"}, name : Node]
    BY <2>0
  <2>2. r.op \in {"unlist edge", "unlist queue"}
    BY <2>1
  <2> QED
    BY <2>1, <2>2 DEF Request, Careful
<1>6. CASE \E n \in Node, url \in IP \X Nat : r = [op |-> "compare", name |-> n, url |-> url]
  <2>0. PICK n \in Node, url \in IP \X Nat : r = [op |-> "compare", name |-> n, url |-> url]
    BY <1>6
  <2>1. r \in [op : {"compare"}, name : Node, url : IP \X Nat] /\ r.op = "compare"
    BY <2>0
  <2> QED
    BY <2>1 DEF Request, Careful
<1> QED
  BY <1>1, <1>2, <1>3, <1>4, <1>5, <1>6

\* A handler only begins.
Begins(r) ==
    /\ req' = req \cup {r} /\ boot = "up" /\ r \in Request /\ Careful(r)
    /\ UNCHANGED <<nodes, ports, scalar, registry, topo, hosts, boot, pass, report, seed, token,
                   fresh, past>>

\* The handlers that begin have read what is there.
LEMMA HandlersBegin ==
    ASSUME InventoryTypeOK,
           CreateNode \/ PatchNode \/ DeleteNode \/ PutSettings \/ DeleteEdge \/ DeleteQueueHost
    PROVE  \E r : Begins(r)
<1>1. ASSUME NEW r, NEW cost, BeginAt(cost, r), r \in Request /\ Careful(r) PROVE \E x : Begins(x)
  BY <1>1 DEF BeginAt, Begins
<1>2. CASE CreateNode
  <2>1. PICK n \in Node, roles \in Shapes, ip \in IP, st \in Moves :
          LET row == [roles |-> roles, ip |-> ip, state |-> st] IN
          IF MayCarry(roles)
          THEN Begin([op |-> "create", name |-> n, row |-> row, count |-> DataHosts])
          ELSE BeginAt({"edits", "faults"}, [op |-> "create", name |-> n, row |-> row, count |-> {}])
    BY <1>2 DEF CreateNode
  <2>2. PICK cost, count : /\ BeginAt(cost, [op |-> "create", name |-> n,
                                      row |-> [roles |-> roles, ip |-> ip, state |-> st],
                                      count |-> count])
                           /\ count \in SUBSET Node /\ ("data" \in roles => count = {})
    BY <2>1 DEF Begin, MayCarry, DataHosts, Holders
  <2>3. PICK r : r = [op |-> "create", name |-> n, row |-> [roles |-> roles, ip |-> ip, state |-> st],
                      count |-> count]
    OBVIOUS
  <2>4. r \in Request /\ Careful(r)
    BY <2>2, <2>3, BeginCareful
  <2> QED
    BY <1>1, <2>2, <2>3, <2>4
<1>3. CASE PatchNode
  <2>1. PICK n \in Declared, ip \in IP : \E st \in Moves \cup {nodes[n].state} :
          Begin([op |-> "patch", name |-> n, seen |-> nodes[n],
                 row |-> [nodes[n] EXCEPT !.ip = ip, !.state = st]])
    BY <1>3 DEF PatchNode
  <2>2. PICK st \in Moves \cup {nodes[n].state} :
          Begin([op |-> "patch", name |-> n, seen |-> nodes[n],
                 row |-> [nodes[n] EXCEPT !.ip = ip, !.state = st]])
    BY <2>1
  <2>3. PICK r : r = [op |-> "patch", name |-> n, seen |-> nodes[n],
                      row |-> [nodes[n] EXCEPT !.ip = ip, !.state = st]]
    OBVIOUS
  <2>4. r \in Request /\ Careful(r)
    BY <2>3, BeginCareful
  <2> QED
    BY <1>1, <2>2, <2>3, <2>4 DEF Begin
<1>4. CASE DeleteNode
  <2>1. PICK n \in Declared :
          n \notin DataHosts /\ Begin([op |-> "delete", name |-> n, seen |-> nodes[n]])
    BY <1>4 DEF DeleteNode
  <2>2. PICK r : r = [op |-> "delete", name |-> n, seen |-> nodes[n]]
    OBVIOUS
  <2>3. r \in Request /\ Careful(r)
    BY <2>1, <2>2, BeginCareful
  <2> QED
    BY <1>1, <2>1, <2>2, <2>3 DEF Begin
<1>5. CASE PutSettings
  <2>1. PICK f, plain : /\ Begin([op |-> "settings", ports |-> f, scalar |-> plain])
                        /\ \/ f = ports /\ plain \in BOOLEAN
                           \/ /\ plain = scalar
                              /\ \E k \in DOMAIN ports, q \in Ports : f = [ports EXCEPT ![k] = q]
    BY <1>5 DEF PutSettings
  <2>2. f \in [{"dp", "q"} -> Nat] /\ plain \in BOOLEAN
    BY <2>1, DerivedParts, InputsAssumption
  <2>3. PICK r : r = [op |-> "settings", ports |-> f, scalar |-> plain]
    OBVIOUS
  <2>4. r \in Request /\ Careful(r)
    BY <2>2, <2>3, BeginCareful
  <2> QED
    BY <1>1, <2>1, <2>3, <2>4 DEF Begin
<1>6. CASE DeleteEdge
  <2>1. PICK n \in DOMAIN registry.edge : Begin([op |-> "unlist edge", name |-> n])
    BY <1>6 DEF DeleteEdge
  <2>2. n \in Node
    BY DerivedParts DEF RegistryOK, Listing
  <2>3. PICK r : r = [op |-> "unlist edge", name |-> n]
    OBVIOUS
  <2>4. r \in Request /\ Careful(r)
    BY <2>2, <2>3, BeginCareful
  <2> QED
    BY <1>1, <2>1, <2>3, <2>4 DEF Begin
<1>7. CASE DeleteQueueHost
  <2>1. PICK n \in DOMAIN registry.queue :
          Begin([op |-> "compare", name |-> n, url |-> registry.queue[n]])
    BY <1>7 DEF DeleteQueueHost
  <2>2. n \in Node /\ registry.queue[n] \in IP \X Nat
    BY DerivedParts DEF RegistryOK, Listing
  <2>3. PICK r : r = [op |-> "compare", name |-> n, url |-> registry.queue[n]]
    OBVIOUS
  <2>4. r \in Request /\ Careful(r)
    BY <2>2, <2>3, BeginCareful
  <2> QED
    BY <1>1, <2>1, <2>3, <2>4 DEF Begin
<1> QED
  BY <1>2, <1>3, <1>4, <1>5, <1>6, <1>7

\* The second statement of a handler.
Writes(r) == CompareHost(r) \/ Save(r) \/ SaveRefused(r) \/ Delete(r) \/ Settle(r) \/ Unlist(r)

\* A handler begins or writes.
LEMMA HandlerSteps ==
    ASSUME InventoryTypeOK, Handler
    PROVE  (\E r : Begins(r)) \/ (\E r \in req : Writes(r))
BY HandlersBegin DEF Handler, Writes

\* Requests stay well typed and careful.
LEMMA RequestStep ==
    ASSUME InventoryTypeOK, RequestInv, [Next]_vars
    PROVE  req' \subseteq Request /\ RequestInv'
<1>0. req \subseteq Request /\ \A r \in req : Careful(r)
  BY DEF InventoryTypeOK, RequestInv
<1>1. ASSUME \A r \in req' : r \in req \/ (r \in Request /\ Careful(r))
      PROVE  req' \subseteq Request /\ RequestInv'
  BY <1>0, <1>1 DEF RequestInv, Careful
<1>2. CASE \E r : Begins(r)
  BY <1>1, <1>2 DEF Begins
<1>3. ASSUME NEW r \in req, CompareHost(r) PROVE req' \subseteq Request /\ RequestInv'
  <2>1. PICK x : x = [op |-> "unlist queue", name |-> r.name]
    OBVIOUS
  <2>2. r.name \in Node
    BY <1>0, <1>3, RequestKinds DEF CompareHost
  <2>3. x \in Request /\ Careful(x)
    BY <2>1, <2>2, BeginCareful
  <2> QED
    BY <1>1, <1>3, <2>1, <2>3 DEF CompareHost
<1>4. ASSUME NEW r \in req, Writes(r) PROVE req' \subseteq Request /\ RequestInv'
  BY <1>1, <1>3, <1>4 DEF Writes, Save, SaveRefused, Delete, Settle, Unlist
<1>5. CASE Enrollment
  BY <1>1, <1>5 DEF Enrollment, CreateToken, DeleteToken, Expire, EnrollDone, MarkUsed, Unaffected
<1>6. CASE UNCHANGED vars
  BY <1>1, <1>6 DEF vars, memory
<1> QED
  BY <1>1, <1>2, <1>4, <1>5, <1>6, HandlerSteps
  DEF Next, Starting, ApplyCount, ApplySettings, ApplyNode, ApplySync, Restart, BeginPass, PassStep,
      PassErr, memory

\* Tokens and reports stay well typed.
LEMMA TokenStep ==
    ASSUME InventoryTypeOK, [Next]_vars
    PROVE  token' \in [Token -> TokenRow] /\ report' \subseteq [by : Machine, found : Token]
<1>0. token \in [Token -> TokenRow] /\ report \subseteq [by : Machine, found : Token]
  BY DEF InventoryTypeOK
<1>1. ASSUME token' = token, report' \subseteq report
      PROVE  token' \in [Token -> TokenRow] /\ report' \subseteq [by : Machine, found : Token]
  BY <1>0, <1>1
<1>2. CASE CreateToken
  BY <1>0, <1>2 DEF CreateToken, TokenRow
<1>3. CASE DeleteToken
  BY <1>0, <1>3 DEF DeleteToken, TokenRow
<1>4. CASE Expire
  BY <1>0, <1>4 DEF Expire, TokenRow
<1>5. ASSUME NEW m \in Machine, EnrollDone(m)
      PROVE  token' \in [Token -> TokenRow] /\ report' \subseteq [by : Machine, found : Token]
  BY <1>0, <1>5 DEF EnrollDone
<1>6. ASSUME NEW x \in report, MarkUsed(x)
      PROVE  token' \in [Token -> TokenRow] /\ report' \subseteq [by : Machine, found : Token]
  <2>1. [state |-> "used", by |-> {x.by}] \in TokenRow
    BY <1>0 DEF TokenRow
  <2> QED
    BY <1>0, <1>6, <2>1 DEF MarkUsed
<1>7. CASE Handler
  BY <1>1, <1>7, HandlerSteps DEF Begins, Writes, CompareHost, Save, SaveRefused, Delete, Settle, Unlist
<1>8. CASE UNCHANGED vars
  BY <1>1, <1>8 DEF vars, memory
<1> QED
  BY <1>1, <1>2, <1>3, <1>4, <1>5, <1>6, <1>7, <1>8
  DEF Next, Enrollment, Starting, ApplyCount, ApplySettings, ApplyNode, ApplySync, Restart, BeginPass,
      PassStep, PassErr, memory

Budget == [edits : 0..Edits, faults : 0..Faults]

\* The bounds on the behaviour.
LEMMA BudgetStep ==
    ASSUME InventoryTypeOK, [Next]_vars
    PROVE  left' \in Budget
<1>0. left \in Budget /\ Edits \in Nat /\ Faults \in Nat
  BY BoundsAssumption DEF InventoryTypeOK, Budget
<1>1. ASSUME left' = left PROVE left' \in Budget
  BY <1>0, <1>1
<1>2. ASSUME NEW kinds, Pay(kinds), kinds \subseteq {"edits", "faults"} PROVE left' \in Budget
  <2>1. left.edits \in 0..Edits /\ left.faults \in 0..Faults /\ DOMAIN left = {"edits", "faults"}
    BY <1>0 DEF Budget
  <2>2. left' = [k \in {"edits", "faults"} |-> IF k \in kinds THEN left[k] - 1 ELSE left[k]]
    BY <1>2, <2>1 DEF Pay
  <2>3. PICK e, f : /\ e = IF "edits" \in kinds THEN left.edits - 1 ELSE left.edits
                    /\ f = IF "faults" \in kinds THEN left.faults - 1 ELSE left.faults
    OBVIOUS
  <2>4. e \in 0..Edits /\ f \in 0..Faults
    BY <1>0, <1>2, <2>1, <2>3 DEF Pay
  <2>5. left' = [edits |-> e, faults |-> f]
    BY <2>2, <2>3
  <2> QED
    BY <2>4, <2>5 DEF Budget
<1>3. ASSUME NEW cost, NEW r, BeginAt(cost, r), cost \subseteq {"edits", "faults"} PROVE left' \in Budget
  BY <1>2, <1>3 DEF BeginAt
<1>4. CASE CreateNode \/ PatchNode \/ DeleteNode \/ PutSettings \/ DeleteEdge \/ DeleteQueueHost
  BY <1>3, <1>4 DEF CreateNode, PatchNode, DeleteNode, PutSettings, DeleteEdge, DeleteQueueHost, Begin
<1>5. CASE Handler
  BY <1>1, <1>4, <1>5 DEF Handler, CompareHost, Save, SaveRefused, Delete, Settle, Unlist
<1>6. CASE Enrollment
  BY <1>1, <1>2, <1>6 DEF Enrollment, CreateToken, DeleteToken, Expire, EnrollDone, MarkUsed, Spend
<1>7. CASE Restart \/ PassErr
  BY <1>2, <1>7 DEF Restart, PassErr, Spend
<1>8. CASE UNCHANGED vars
  BY <1>1, <1>8 DEF vars
<1> QED
  BY <1>1, <1>5, <1>6, <1>7, <1>8
  DEF Next, Starting, ApplyCount, ApplySettings, ApplyNode, ApplySync, BeginPass, PassStep

\* What happened has happened; the flag of a disturbed pass.
LEMMA PastStep ==
    ASSUME InventoryTypeOK, [Next]_vars
    PROVE  past \subseteq past' /\ past' \subseteq Past /\ fresh' \in BOOLEAN
<1>0. past \subseteq Past /\ fresh \in BOOLEAN
  BY DEF InventoryTypeOK
<1>1. ASSUME past' = past, fresh' \in {fresh, TRUE, FALSE}
      PROVE  past \subseteq past' /\ past' \subseteq Past /\ fresh' \in BOOLEAN
  BY <1>0, <1>1
<1>2. ASSUME NEW r \in req, Save(r) \/ Delete(r)
      PROVE  past \subseteq past' /\ past' \subseteq Past /\ fresh' \in BOOLEAN
  <2>1. Mishap(r) \subseteq Past /\ {"declared", "edited"} \subseteq Past
    BY DEF Mishap, Past, Mishaps
  <2>2. fresh' = FALSE /\ past' \in {past \cup {"declared", "edited"} \cup Mishap(r),
                                     past \cup {"edited"} \cup Mishap(r)}
    BY <1>2 DEF Save, Delete, SaveNode, Stale
  <2> QED
    BY <1>0, <2>1, <2>2
<1>3. CASE ApplyNode
  BY <1>0, <1>3 DEF ApplyNode, SaveNode, Stale, Past
<1>4. CASE Restart
  BY <1>0, <1>4 DEF Restart, Stale, Past, Mishaps
<1>5. CASE Handler
  BY <1>1, <1>2, <1>5, HandlerSteps
  DEF Begins, Writes, CompareHost, SaveRefused, Settle, SaveSettings, Unlist, Stale
<1>6. CASE Enrollment
  BY <1>1, <1>6 DEF Enrollment, CreateToken, DeleteToken, Expire, EnrollDone, MarkUsed, Unaffected
<1>7. CASE UNCHANGED vars
  BY <1>1, <1>7 DEF vars
<1> QED
  BY <1>1, <1>3, <1>4, <1>5, <1>6, <1>7
  DEF Next, Starting, ApplyCount, ApplySettings, SaveSettings, ApplySync, BeginPass, PassStep, PassErr,
      Stale

\* Handlers, reports and passes run in a process that is up.
LEMMA UpStep ==
    ASSUME InventoryTypeOK, UpInv, [Next]_vars
    PROVE  boot' \in {"apply", "settings", "nodes", "sync", "up"} /\ UpInv'
<1>0. boot \in {"apply", "settings", "nodes", "sync", "up"}
  BY DEF InventoryTypeOK
<1>1. CASE Starting
  <2>1. CASE ApplySettings
    <3>1. Stale
      BY <2>1 DEF ApplySettings, SaveSettings
    <3> QED
      BY <2>1, <3>1 DEF ApplySettings, Stale, UpInv
  <2>2. CASE ApplyCount \/ ApplyNode \/ ApplySync
    BY <1>0, <2>2 DEF ApplyCount, ApplyNode, ApplySync, SaveNode, Stale, UpInv, memory
  <2> QED
    BY <1>1, <2>1, <2>2 DEF Starting
<1>2. CASE Restart
  BY <1>2 DEF Restart, Stale, UpInv
<1>3. CASE BeginPass \/ PassErr
  BY <1>0, <1>3 DEF BeginPass, PassErr, UpInv
<1>4. CASE PassStep
  BY <1>0, <1>4 DEF PassStep, UpInv
<1>5. CASE Handler
  <2>1. boot' = boot /\ boot = "up"
    BY <1>5, HandlerSteps
    DEF UpInv, Begins, Writes, CompareHost, Save, SaveRefused, Delete, Settle, Unlist
  <2> QED
    BY <2>1 DEF UpInv
<1>6. CASE Enrollment
  <2>1. boot' = boot /\ req' = req /\ fresh' = fresh
    BY <1>6 DEF Enrollment, CreateToken, DeleteToken, Expire, EnrollDone, MarkUsed, Unaffected
  <2>2. boot = "up" \/ report' \subseteq report
    BY <1>6 DEF Enrollment, CreateToken, DeleteToken, Expire, EnrollDone, MarkUsed
  <2> QED
    BY <1>0, <2>1, <2>2 DEF UpInv
<1>7. CASE UNCHANGED vars
  BY <1>0, <1>7 DEF vars, memory, UpInv
<1> QED
  BY <1>1, <1>2, <1>3, <1>4, <1>5, <1>6, <1>7 DEF Next

\* The type invariant is kept.
LEMMA TypeStep ==
    ASSUME InventoryTypeOK, UpInv, RequestInv, SeedKnown, [Next]_vars
    PROVE  InventoryTypeOK'
<1>1. nodes' \in [Node -> Row \cup {None}] /\ AddressesDiffer'
  BY NodesStep
<1>2. DerivedOK'
  BY DerivedStep
<1>3. SettingsOK'
  BY SettingsStep
<1>4. boot' \in {"apply", "settings", "nodes", "sync", "up"}
  BY UpStep
<1>5. req' \subseteq Request
  BY RequestStep
<1>6. token' \in [Token -> TokenRow] /\ report' \subseteq [by : Machine, found : Token]
  BY TokenStep
<1>7. past' \subseteq Past /\ fresh' \in BOOLEAN
  BY PastStep
<1>8. left' \in [edits : 0..Edits, faults : 0..Faults]
  BY BudgetStep DEF Budget
<1> QED
  BY <1>1, <1>2, <1>3, <1>4, <1>5, <1>6, <1>7, <1>8
  DEF InventoryTypeOK, AddressesDiffer, DerivedOK, PassOK, RegistryOK, SettingsOK

-----------------------------------------------------------------------------
(* The data host *)

\* Short of a mishap, what requests save and delete leaves the data hosts as
\* they are, or makes the first.
LEMMA DataKept ==
    ASSUME InventoryTypeOK, RequestInv, Unhurt', NEW r \in req, Save(r) \/ Delete(r)
    PROVE  DataHosts' = DataHosts \/ (DataHosts = {} /\ Save(r))
<1>0. r \in Request /\ Careful(r) /\ nodes \in [Node -> Row \cup {None}]
  BY DEF InventoryTypeOK, RequestInv
<1>1. "replaced" \notin Mishap(r) /\ "overtaken" \notin Mishap(r)
  BY DEF Save, Delete, Unhurt, Mishaps
<1>2. CASE Save(r)
  <2>1. r.name \in Node /\ r.row \in Row /\ SaveNode(r.name, r.row)
    BY <1>0, <1>2, RequestKinds DEF Save
  <2>2. nodes'[r.name] = r.row /\ (\A m \in Node \ {r.name} : nodes'[m] = nodes[m])
    BY <2>1, SaveTypes
  <2>3. r.row # None
    BY <2>1, RowIsNotNone
  <2>4. CASE r.op = "create"
    <3>1. nodes[r.name] = None /\ ("data" \in r.row.roles => DataHosts = {})
      BY <1>0, <1>1, <2>4 DEF Mishap, Careful
    <3>2. CASE "data" \in r.row.roles
      BY <1>2, <3>1, <3>2
    <3>3. CASE "data" \notin r.row.roles
      BY <2>1, <2>2, <3>1, <3>3 DEF DataHosts, Holders
    <3> QED
      BY <3>2, <3>3
  <2>5. CASE r.op = "patch"
    <3>1. nodes[r.name] = r.seen /\ r.seen \in Row /\ r.row.roles = r.seen.roles
      BY <1>0, <1>1, <2>5, RequestKinds DEF Mishap, Careful
    <3>2. nodes[r.name] # None
      BY <3>1, RowIsNotNone
    <3> QED
      BY <2>1, <2>2, <2>3, <3>1, <3>2 DEF DataHosts, Holders
  <2> QED
    BY <1>2, <2>4, <2>5 DEF Save
<1>3. CASE Delete(r)
  <2>1. nodes[r.name] = r.seen /\ "data" \notin r.seen.roles /\ r.name \in Node
    BY <1>0, <1>1, <1>3, RequestKinds DEF Delete, Mishap, Careful
  <2>2. nodes'[r.name] = None /\ (\A m \in Node \ {r.name} : nodes'[m] = nodes[m])
    BY <1>0, <1>3, <2>1 DEF Delete
  <2> QED
    BY <2>1, <2>2 DEF DataHosts, Holders
<1> QED
  BY <1>2, <1>3

\* A data host is declared.
LEMMA DataDeclared == DataHosts \subseteq Declared
BY DEF DataHosts, Holders, Declared

\* How far Apply is, and that the data host stays, after every step.
LEMMA SeedStep ==
    ASSUME InventoryTypeOK, UpInv, RequestInv, SeedInv, [Next]_vars
    PROVE  SeedInv'
<1>0. boot \in {"apply", "settings", "nodes", "sync", "up"} /\ past \subseteq past'
  BY PastStep DEF InventoryTypeOK
<1>1. SeedKnown
  BY DEF SeedInv, SeedKnown
<1>2. ASSUME nodes' = nodes, seed' = seed, past' = past, boot' = boot PROVE SeedInv'
  BY <1>2 DEF SeedInv, Declared, DataHosts, Holders, Unhurt, SeedOnce
<1>3. CASE ApplyCount
  <2>1. boot = "apply" /\ boot' = (IF Declared # {} \/ seed = {} THEN "up" ELSE "settings")
        /\ nodes' = nodes /\ seed' = seed /\ past' = past
    BY <1>3 DEF ApplyCount
  <2>2. Declared' = Declared /\ DataHosts' = DataHosts /\ Unhurt' = Unhurt
    BY <2>1 DEF Declared, DataHosts, Holders, Unhurt
  <2> QED
    BY <2>1, <2>2, DataDeclared DEF SeedInv, SeedOnce
<1>4. CASE ApplySettings
  <2>1. boot = "settings" /\ boot' = "nodes" /\ nodes' = nodes /\ seed' = seed /\ past' = past
    BY <1>4 DEF ApplySettings
  <2>2. Declared' = Declared /\ DataHosts' = DataHosts /\ Unhurt' = Unhurt
    BY <2>1 DEF Declared, DataHosts, Holders, Unhurt
  <2> QED
    BY <2>1, <2>2 DEF SeedInv, SeedOnce
<1>5. CASE ApplyNode
  <2>1. PICK x \in seed : nodes[x.name] = None /\ SaveNode(x.name, x.row)
    BY <1>5 DEF ApplyNode
  <2>2. boot = "nodes" /\ boot' = boot /\ seed' = seed /\ past' = past \cup {"declared"}
    BY <1>5 DEF ApplyNode, memory
  <2>3. x.name \in Node /\ x.row \in Row
    BY <1>1, SeedsAssumption DEF SeedKnown
  <2>4. /\ nodes'[x.name] = x.row /\ (\A m \in Node \ {x.name} : nodes'[m] = nodes[m])
        /\ Declared' = Declared \cup {x.name}
    BY <2>1, <2>3, SaveTypes
  <2>5. \A n \in Declared' : \E y \in seed : y.name = n /\ nodes'[n] = y.row
    BY <2>2, <2>4 DEF SeedInv, Declared
  <2>6. Unhurt' => Unhurt
    BY <1>0 DEF Unhurt
  <2> QED
    BY <2>2, <2>5, <2>6 DEF SeedInv, SeedOnce
<1>6. CASE ApplySync
  <2>1. /\ boot = "nodes" /\ boot' = "sync" /\ nodes' = nodes /\ seed' = seed /\ past' = past
        /\ \A x \in seed : nodes[x.name] # None
    BY <1>6 DEF ApplySync
  <2>2. PICK s \in Starts : seed = s.seed
    BY <1>1 DEF SeedKnown
  <2>3. seed # {} /\ \A n \in Declared : \E x \in seed : x.name = n /\ nodes[n] = x.row
    BY <2>1 DEF SeedInv
  <2>4. PICK d \in seed : \A x \in seed : "data" \in x.row.roles <=> x = d
    BY <2>2, <2>3, SeedDataAssumption
  <2>5. d.name \in Node /\ "data" \in d.row.roles
    BY <2>2, <2>4, SeedsAssumption
  <2>6. nodes[d.name] = d.row
    <3>1. d.name \in Declared
      BY <2>1, <2>5 DEF Declared
    <3>2. PICK x \in seed : x.name = d.name /\ nodes[d.name] = x.row
      BY <2>3, <3>1
    <3>3. x = d
      BY <2>2, <3>2, SeedsAssumption
    <3> QED
      BY <3>2, <3>3
  <2>7. d.name \in DataHosts
    BY <2>1, <2>5, <2>6 DEF DataHosts, Holders
  <2> QED
    BY <2>1, <2>7 DEF SeedInv, SeedOnce, DataHosts, Holders
<1>7. CASE Restart
  <2>1. /\ boot' = "apply" /\ nodes' = nodes /\ seed' = seed
        /\ past' = IF boot = "nodes" /\ Declared # {} THEN past \cup {"seed cut"} ELSE past
    BY <1>7 DEF Restart
  <2>2. Declared' = Declared /\ DataHosts' = DataHosts
    BY <2>1 DEF Declared, DataHosts, Holders
  <2>3. CASE boot = "nodes" /\ Declared # {}
    <3>1. ~Unhurt'
      BY <2>1, <2>3 DEF Unhurt, Mishaps
    <3> QED
      BY <2>1, <3>1 DEF SeedInv, SeedOnce
  <2>4. CASE ~(boot = "nodes" /\ Declared # {})
    <3>1. past' = past /\ Unhurt' = Unhurt
      BY <2>1, <2>4 DEF Unhurt
    <3> QED
      BY <1>0, <2>1, <2>2, <2>4, <3>1 DEF SeedInv, SeedOnce
  <2> QED
    BY <2>3, <2>4
<1>8. CASE PassStep
  <2>1. /\ nodes' = nodes /\ seed' = seed /\ past' = past
        /\ boot' = boot \/ (boot = "sync" /\ boot' = "up")
    BY <1>8 DEF PassStep
  <2>2. Declared' = Declared /\ DataHosts' = DataHosts /\ Unhurt' = Unhurt
    BY <2>1 DEF Declared, DataHosts, Holders, Unhurt
  <2>3. CASE boot = "sync" /\ boot' = "up"
    BY <2>1, <2>2, <2>3 DEF SeedInv, SeedOnce
  <2> QED
    BY <1>2, <2>1, <2>3
<1>9. ASSUME NEW r \in req, Save(r) \/ Delete(r) PROVE SeedInv'
  <2>1. boot = "up" /\ boot' = boot /\ seed' = seed
    BY <1>9 DEF UpInv, Save, Delete
  <2>2. ASSUME Unhurt', DataHosts # {} PROVE DataHosts' # {}
    BY <1>9, <2>2, DataKept
  <2>3. Unhurt' => Unhurt
    BY <1>0 DEF Unhurt
  <2> QED
    BY <2>1, <2>2, <2>3 DEF SeedInv, SeedOnce
<1>10. CASE Handler
  BY <1>2, <1>9, <1>10, HandlerSteps DEF Begins, Writes, CompareHost, SaveRefused, Settle, Unlist
<1>11. CASE Enrollment
  BY <1>2, <1>11 DEF Enrollment, CreateToken, DeleteToken, Expire, EnrollDone, MarkUsed, Unaffected
<1>12. CASE UNCHANGED vars
  BY <1>2, <1>12 DEF vars, memory
<1> QED
  BY <1>2, <1>3, <1>4, <1>5, <1>6, <1>7, <1>8, <1>10, <1>11, <1>12
  DEF Next, Starting, BeginPass, PassErr

-----------------------------------------------------------------------------
(* Passes *)

\* Until a node is declared, no pass gets beyond the count: after every step.
LEMMA EmptyStep ==
    ASSUME InventoryTypeOK, EmptyInv, [Next]_vars
    PROVE  EmptyInv'
<1> SUFFICES ASSUME "declared" \notin past' PROVE Declared' = {} /\ pass'.at \notin Amending
  BY DEF EmptyInv
<1>0. Declared = {} /\ pass.at \notin Amending /\ PassOK(pass)
  BY PastStep, DerivedParts DEF EmptyInv
<1>1. ASSUME NEW at, Goto(at) PROVE pass'.at = at
  BY <1>1 DEF Goto, Resting
<1>2. Resting.at = "idle" /\ "idle" \notin Amending
  BY DEF Resting, Amending
<1>3. Declared' = {}
  <2>1. CASE nodes' = nodes
    BY <1>0, <2>1 DEF Declared
  <2>2. ASSUME NEW r \in req, Delete(r) PROVE Declared' = {}
    BY <1>0, <2>2 DEF Delete, Declared, InventoryTypeOK
  <2> QED
    BY <2>1, <2>2, OneNodeStep DEF OneNode, Seeds, ApplyNode, Save
<1>4. pass'.at \notin Amending
  <2>1. CASE ApplySync \/ BeginPass
    BY <1>1, <2>1 DEF ApplySync, BeginPass, Amending
  <2>2. CASE PassErr
    BY <1>1, <1>2, <2>2 DEF PassErr, Amending
  <2>3. CASE Restart
    BY <1>2, <2>3 DEF Restart
  <2>4. CASE PassStep
    <3>1. CASE CountNodes
      BY <1>0, <1>1, <1>2, <3>1 DEF CountNodes
    <3>2. CASE ReadPort
      <4>1. pass' \in {[pass EXCEPT !.at = "edges2", !.port = ports.dp],
                       [pass EXCEPT !.at = "hosts", !.port = ports.q]}
        BY <1>0, <3>2 DEF ReadPort, Amending
      <4> QED
        BY <1>0, <4>1 DEF PassOK, Resting, Amending
    <3>3. CASE SetEdges
      BY <1>1, <3>3 DEF SetEdges, Amending
    <3>4. CASE SetHosts
      BY <1>2, <3>4 DEF SetHosts
    <3> QED
      BY <1>0, <2>4, <3>1, <3>2, <3>3, <3>4
      DEF PassStep, ListEdges, UpsertEdge, PruneEdges, UpsertQueueHosts, PruneQueueHosts, Amending
  <2>5. CASE Handler
    BY <1>0, <2>5, HandlerSteps
    DEF Begins, Writes, CompareHost, Save, SaveRefused, Delete, Settle, Unlist
  <2>6. CASE Enrollment
    BY <1>0, <2>6
    DEF Enrollment, CreateToken, DeleteToken, Expire, EnrollDone, MarkUsed, Unaffected
  <2>7. CASE UNCHANGED vars
    BY <1>0, <2>7 DEF vars, memory
  <2> QED
    BY <1>0, <2>1, <2>2, <2>3, <2>4, <2>5, <2>6, <2>7
    DEF Next, Starting, ApplyCount, ApplySettings, ApplyNode, memory
<1> QED
  BY <1>3, <1>4

\* What a statement of a pass finds unchanged.
LEMMA SameList ==
    ASSUME nodes' = nodes, ports' = ports
    PROVE  /\ Listed("edge", ports.dp)' = Listed("edge", ports.dp)
           /\ Listed("queue", ports.q)' = Listed("queue", ports.q)
           /\ \A role : Ready(role)' = Ready(role)
           /\ Declared' = Declared
BY DEF Listed, Ready, Holders, Declared

\* How far an undisturbed pass is, while nothing it reads or writes changes.
LEMMA PassRests ==
    ASSUME PassInv, UNCHANGED <<nodes, ports, registry, topo, hosts, pass, fresh>>
    PROVE  PassInv'
BY SameList DEF PassInv, EdgesAgree, QueuesAgree, Agreed, URL

\* How far an undisturbed pass is, after each of its statements.
LEMMA PassStepInv ==
    ASSUME InventoryTypeOK, UpInv, PassInv, PassStep, fresh
    PROVE  PassInv'
<1>0. /\ PassOK(pass) /\ RegistryOK(registry) /\ boot = "up"
      /\ nodes' = nodes /\ ports' = ports /\ fresh' = fresh
      /\ ports.dp \in Nat /\ ports.q \in Nat /\ pass.port \in Nat
  BY DerivedParts DEF PassStep, UpInv
<1>1. PICK E, Q : E = Listed("edge", ports.dp) /\ Q = Listed("queue", ports.q)
  OBVIOUS
<1>2. /\ Listed("edge", ports.dp)' = E /\ Listed("queue", ports.q)' = Q
      /\ Ready("queue")' = Ready("queue") /\ Declared' = Declared
  BY <1>0, <1>1, SameList
<1>3. /\ Listing(E) /\ DOMAIN E = Ready("edge") /\ Listing(Q) /\ DOMAIN Q = Ready("queue")
      /\ \A n \in Ready("queue") : Q[n] = URL(nodes[n].ip, ports.q)
  BY <1>0, <1>1, ListedTyped
<1>4. ASSUME NEW at, Goto(at) PROVE pass'.at = at
  BY <1>4 DEF Goto, Resting
<1>5. CASE CountNodes
  <2>1. pass'.at = "port" \/ (pass'.at = "idle" /\ Declared = {})
    BY <1>4, <1>5 DEF CountNodes
  <2> QED
    BY <1>2, <2>1 DEF PassInv
<1>6. CASE ReadPort
  <2>0. registry' = registry /\ topo' = topo /\ hosts' = hosts
    BY <1>6 DEF ReadPort
  <2>1. CASE pass.at = "port" /\ pass' = [pass EXCEPT !.at = "edges", !.port = ports.dp]
    <3>1. pass'.at = "edges" /\ pass'.port = ports'.dp
      BY <1>0, <2>1 DEF PassOK, Resting
    <3> QED
      BY <3>1 DEF PassInv
  <2>2. CASE pass.at = "port2" /\ pass' = [pass EXCEPT !.at = "edges2", !.port = ports.dp]
    <3>1. pass'.at = "edges2" /\ pass'.port = ports'.dp
      BY <1>0, <2>2 DEF PassOK, Resting
    <3> QED
      BY <1>1, <1>2, <2>0, <2>2, <3>1 DEF PassInv, EdgesAgree, QueuesAgree
  <2>3. CASE pass.at = "qport" /\ pass' = [pass EXCEPT !.at = "queue", !.port = ports.q]
    <3>1. pass'.at = "queue" /\ pass'.port = ports'.q
      BY <1>0, <2>3 DEF PassOK, Resting
    <3> QED
      BY <1>1, <1>2, <2>0, <2>3, <3>1 DEF PassInv, EdgesAgree, QueuesAgree
  <2>4. CASE pass.at = "qport2" /\ pass' = [pass EXCEPT !.at = "hosts", !.port = ports.q]
    <3>1. pass'.at = "hosts" /\ pass'.port = ports'.q
      BY <1>0, <2>4 DEF PassOK, Resting
    <3> QED
      BY <1>1, <1>2, <2>0, <2>4, <3>1 DEF PassInv, EdgesAgree, QueuesAgree
  <2> QED
    BY <1>6, <2>1, <2>2, <2>3, <2>4 DEF ReadPort
<1>7. CASE ListEdges
  <2>1. Listed("edge", pass.port) = E
    BY <1>1, <1>7 DEF ListEdges, PassInv
  <2>2. pass' = [pass EXCEPT !.at = IF E = NoList THEN "prune" ELSE "upsert",
                             !.list = E, !.todo = DOMAIN E]
    BY <1>7, <2>1 DEF ListEdges
  <2>3. /\ pass'.at = (IF E = NoList THEN "prune" ELSE "upsert")
        /\ pass'.list = E /\ pass'.todo = DOMAIN E
    BY <1>0, <2>2 DEF PassOK, Resting
  <2>4. pass'.at = "prune" => pass'.todo = {}
    BY <2>3 DEF NoList
  <2> QED
    BY <1>2, <2>3, <2>4 DEF PassInv
<1>8. CASE UpsertEdge
  <2>1. PICK n \in pass.todo :
          /\ registry' = [registry EXCEPT !.edge =
                [m \in DOMAIN registry.edge \cup {n} |-> IF m = n THEN pass.list[n] ELSE registry.edge[m]]]
          /\ pass' = [pass EXCEPT !.at = IF pass.todo = {n} THEN "prune" ELSE "upsert",
                                  !.todo = pass.todo \ {n}]
    BY <1>8 DEF UpsertEdge
  <2>2. /\ pass'.at = (IF pass.todo = {n} THEN "prune" ELSE "upsert")
        /\ pass'.list = pass.list /\ pass'.todo = pass.todo \ {n}
    BY <1>0, <2>1 DEF PassOK, Resting
  <2>3. registry'.edge =
            [m \in DOMAIN registry.edge \cup {n} |-> IF m = n THEN pass.list[n] ELSE registry.edge[m]]
    BY <1>0, <2>1 DEF RegistryOK
  <2>4. /\ pass.list = E
        /\ \A m \in DOMAIN pass.list \ pass.todo :
              m \in DOMAIN registry.edge /\ registry.edge[m] = pass.list[m]
    BY <1>1, <1>8 DEF UpsertEdge, PassInv
  <2>5. \A m \in DOMAIN pass'.list \ pass'.todo :
            m \in DOMAIN registry'.edge /\ registry'.edge[m] = pass'.list[m]
    BY <2>2, <2>3, <2>4
  <2>6. pass'.at = "prune" => pass'.todo = {}
    BY <2>2
  <2>7. pass'.at \in {"prune", "upsert"}
    BY <2>2
  <2> QED
    BY <1>2, <2>2, <2>4, <2>5, <2>6, <2>7 DEF PassInv
<1>9. CASE PruneEdges
  <2>1. registry' = [registry EXCEPT !.edge =
            [n \in DOMAIN registry.edge \cap DOMAIN pass.list |-> registry.edge[n]]]
    BY <1>9 DEF PruneEdges
  <2>2. registry'.edge = [n \in DOMAIN registry.edge \cap DOMAIN pass.list |-> registry.edge[n]]
    BY <1>0, <2>1 DEF RegistryOK
  <2>3. /\ pass.list = E
        /\ \A m \in DOMAIN E : m \in DOMAIN registry.edge /\ registry.edge[m] = E[m]
    BY <1>1, <1>9 DEF PruneEdges, PassInv
  <2>4. E = [n \in DOMAIN E |-> E[n]]
    BY <1>3 DEF Listing
  <2>5. registry'.edge = E
    <3>1. DOMAIN registry.edge \cap DOMAIN pass.list = DOMAIN E
      BY <2>3
    <3> QED
      BY <2>2, <2>3, <2>4, <3>1
  <2>6. pass'.at = "qport"
    BY <1>4, <1>9 DEF PruneEdges
  <2> QED
    BY <1>2, <2>5, <2>6 DEF PassInv, EdgesAgree
<1>10. CASE UpsertQueueHosts
  <2>1. Listed("queue", pass.port) = Q /\ registry.edge = E
    BY <1>1, <1>10 DEF UpsertQueueHosts, PassInv, EdgesAgree
  <2>2. registry' = [registry EXCEPT !.queue =
            [n \in DOMAIN registry.queue \cup DOMAIN Q |-> IF n \in DOMAIN Q THEN Q[n] ELSE registry.queue[n]]]
    BY <1>10, <2>1 DEF UpsertQueueHosts
  <2>3. /\ registry'.edge = registry.edge
        /\ registry'.queue = [n \in DOMAIN registry.queue \cup DOMAIN Q |->
                                IF n \in DOMAIN Q THEN Q[n] ELSE registry.queue[n]]
    BY <1>0, <2>2 DEF RegistryOK
  <2>4. \A n \in Ready("queue") : /\ n \in DOMAIN registry'.queue
                                  /\ registry'.queue[n] = URL(nodes[n].ip, ports.q)
    BY <1>3, <2>3
  <2>5. pass'.at = "qprune"
    BY <1>4, <1>10 DEF UpsertQueueHosts
  <2> QED
    BY <1>0, <1>2, <2>1, <2>3, <2>4, <2>5 DEF PassInv, EdgesAgree, URL
<1>11. CASE PruneQueueHosts
  <2>1. registry' = [registry EXCEPT !.queue =
            [n \in DOMAIN registry.queue \cap Ready("queue") |-> registry.queue[n]]]
    BY <1>11 DEF PruneQueueHosts
  <2>2. /\ registry'.edge = registry.edge
        /\ registry'.queue = [n \in DOMAIN registry.queue \cap Ready("queue") |-> registry.queue[n]]
    BY <1>0, <2>1 DEF RegistryOK
  <2>3. /\ registry.edge = E
        /\ \A n \in Ready("queue") :
              n \in DOMAIN registry.queue /\ registry.queue[n] = URL(nodes[n].ip, ports.q)
    BY <1>1, <1>11 DEF PruneQueueHosts, PassInv, EdgesAgree
  <2>4. Q = [n \in Ready("queue") |-> Q[n]]
    BY <1>3 DEF Listing
  <2>5. registry'.queue = Q
    <3>1. DOMAIN registry.queue \cap Ready("queue") = Ready("queue")
      BY <2>3
    <3> QED
      BY <1>3, <2>2, <2>3, <2>4, <3>1
  <2>6. pass'.at = "port2"
    BY <1>0, <1>4, <1>11 DEF PruneQueueHosts, AfterSync
  <2> QED
    BY <1>2, <2>2, <2>3, <2>5, <2>6 DEF PassInv, EdgesAgree, QueuesAgree
<1>12. CASE SetEdges
  <2>1. topo' = E /\ registry' = registry /\ pass'.at = "qport2"
    BY <1>1, <1>4, <1>12 DEF SetEdges, PassInv
  <2>2. registry.edge = E /\ registry.queue = Q
    BY <1>1, <1>12 DEF SetEdges, PassInv, EdgesAgree, QueuesAgree
  <2> QED
    BY <1>2, <2>1, <2>2 DEF PassInv, EdgesAgree, QueuesAgree
<1>13. CASE SetHosts
  <2>1. /\ Listed("queue", pass.port) = Q
        /\ registry.edge = E /\ registry.queue = Q /\ topo = E
    BY <1>1, <1>13 DEF SetHosts, PassInv, EdgesAgree, QueuesAgree
  <2>2. hosts' = {Q[n] : n \in Ready("queue")} /\ registry' = registry /\ topo' = topo
    BY <1>13, <2>1 DEF SetHosts
  <2>3. hosts' = {URL(nodes[n].ip, ports.q) : n \in Ready("queue")}
    BY <1>3, <2>2
  <2>4. pass'.at = "idle"
    BY <1>13, RestingTyped DEF SetHosts
  <2>5. Agreed'
    BY <1>0, <1>2, <2>1, <2>2, <2>3 DEF Agreed, URL
  <2> QED
    BY <2>4, <2>5 DEF PassInv
<1> QED
  BY <1>5, <1>6, <1>7, <1>8, <1>9, <1>10, <1>11, <1>12, <1>13 DEF PassStep

\* How far an undisturbed pass is, after every step.
LEMMA PassInvStep ==
    ASSUME InventoryTypeOK, UpInv, PassInv, [Next]_vars
    PROVE  PassInv'
<1>1. ASSUME ~fresh' PROVE PassInv'
  BY <1>1 DEF PassInv
<1>2. ASSUME fresh' = fresh, boot # "up" PROVE PassInv'
  BY <1>1, <1>2 DEF UpInv
<1>3. CASE Starting
  BY <1>1, <1>2, <1>3 DEF Starting, ApplyCount, ApplySettings, ApplyNode, ApplySync, SaveSettings,
      SaveNode, Stale
<1>4. CASE Restart \/ PassErr
  BY <1>1, <1>4 DEF Restart, PassErr, Stale
<1>5. CASE BeginPass
  <2>1. pass'.at = "count"
    BY <1>5 DEF BeginPass, Goto, Resting
  <2> QED
    BY <2>1 DEF PassInv
<1>6. CASE PassStep
  <2>1. fresh' = fresh
    BY <1>6 DEF PassStep
  <2> QED
    BY <1>1, <1>6, <2>1, PassStepInv
<1>7. CASE Handler
  BY <1>1, <1>7, HandlerSteps, PassRests
  DEF Begins, Writes, CompareHost, Save, SaveNode, SaveRefused, Delete, Settle, SaveSettings, Unlist,
      Stale
<1>8. CASE Enrollment
  BY <1>8, PassRests
  DEF Enrollment, CreateToken, DeleteToken, Expire, EnrollDone, MarkUsed, Unaffected
<1>9. CASE UNCHANGED vars
  BY <1>9, PassRests DEF vars, memory
<1> QED
  BY <1>3, <1>4, <1>5, <1>6, <1>7, <1>8, <1>9 DEF Next

-----------------------------------------------------------------------------
(* The theorems *)

\* The inductive invariant holds at the start.
LEMMA InitInv ==
    ASSUME Init
    PROVE  InventoryTypeOK /\ InventoryInv
<1>1. PICK s \in Starts : seed = s.seed /\ registry = s.registry
  BY DEF Init
<1>2. RegistryOK(registry)
  BY <1>1, SeedsAssumption DEF RegistryOK
<1>3. PassOK(pass) /\ pass.at = "idle" /\ Listing(topo)
  BY RestingTyped DEF Init
<1>4. nodes \in [Node -> Row \cup {None}] /\ Declared = {} /\ DataHosts = {}
  BY DEF Init, Declared, DataHosts, Holders
<1>5. ports \in [{"dp", "q"} -> Nat \ {0}]
  <2>1. /\ DOMAIN DefaultPort = {"dp", "q"}
        /\ DefaultPort["dp"] \in Nat \ {0} /\ DefaultPort["q"] \in Nat \ {0}
        /\ DefaultPort = [k \in DOMAIN DefaultPort |-> DefaultPort[k]]
    BY DEF DefaultPort
  <2> QED
    BY <2>1 DEF Init
<1>6. token \in [Token -> TokenRow]
  <2>1. [state |-> "none", by |-> {}] \in TokenRow
    BY DEF TokenRow
  <2> QED
    BY <2>1 DEF Init
<1>7. left \in [edits : 0..Edits, faults : 0..Faults]
  BY BoundsAssumption DEF Init
<1>8. InventoryTypeOK
  <2>1. /\ scalar = TRUE /\ hosts = {} /\ boot = "apply" /\ req = {} /\ report = {} /\ fresh = FALSE /\ past = {}
    BY DEF Init
  <2> QED
    BY <1>2, <1>3, <1>4, <1>5, <1>6, <1>7, <2>1 DEF InventoryTypeOK, PassOK, RegistryOK
<1>9. UpInv /\ RequestInv /\ PassInv
  BY DEF Init, UpInv, RequestInv, PassInv
<1>10. SeedInv
  BY <1>1, <1>4 DEF Init, SeedInv, SeedOnce
<1>11. EmptyInv
  BY <1>3, <1>4 DEF EmptyInv, Amending
<1> QED
  BY <1>8, <1>9, <1>10, <1>11 DEF InventoryInv

\* The inductive invariant is kept by every step.
LEMMA NextInv ==
    ASSUME InventoryTypeOK, InventoryInv, [Next]_vars
    PROVE  InventoryTypeOK' /\ InventoryInv'
<1>1. UpInv /\ RequestInv /\ SeedInv /\ EmptyInv /\ PassInv /\ SeedKnown
  BY DEF InventoryInv, SeedInv, SeedKnown
<1>2. InventoryTypeOK' /\ UpInv' /\ RequestInv'
  BY <1>1, TypeStep, UpStep, RequestStep
<1>3. SeedInv'
  BY <1>1, SeedStep
<1>4. EmptyInv' /\ PassInv'
  BY <1>1, EmptyStep, PassInvStep
<1> QED
  BY <1>2, <1>3, <1>4 DEF InventoryInv

\* The inductive invariant holds in every reachable state.
LEMMA Invariance == Spec => [](InventoryTypeOK /\ InventoryInv)
<1>1. Init => InventoryTypeOK /\ InventoryInv
  BY InitInv
<1>2. InventoryTypeOK /\ InventoryInv /\ [Next]_vars => InventoryTypeOK' /\ InventoryInv'
  BY NextInv
<1> QED
  BY <1>1, <1>2, PTL DEF Spec

\* The types of all variables; no two nodes share a management address, whatever
\* requests save and seeds declare.
THEOREM InventoryTypesCorrect == Spec => []InventoryTypeOK
<1> QED
  BY Invariance, PTL

\* Short of a mishap, Apply never seeds a table that operators have worked on.
THEOREM SeedServesOnce == Spec => []SeedOnce
<1>1. InventoryInv => SeedOnce
  BY DEF InventoryInv, SeedInv
<1> QED
  BY <1>1, Invariance, PTL

\* A pass that was not disturbed leaves registries, topology and queue hosts in
\* step with the nodes.
THEOREM PassesLeaveInStep == Spec => []InStep
<1>1. InventoryInv => InStep
  BY DEF InventoryInv, PassInv, InStep
<1> QED
  BY <1>1, Invariance, PTL

\* A text of the inventory is none of its errors.
LEMMA Texts ==
    ASSUME NEW g, NEW d
    PROVE  [group |-> g, draining |-> d] \notin {Incomplete, NotScalar}
<1>1. PICK f : f = [group |-> g, draining |-> d]
  OBVIOUS
<1>2. "group" \in DOMAIN f /\ "group" # "raison"
  BY <1>1
<1>3. DOMAIN Incomplete = {"raison"} /\ DOMAIN NotScalar = {"raison"}
  BY DEF Incomplete, NotScalar
<1> QED
  BY <1>1, <1>2, <1>3

\* The two errors of Render, and what each is about.
LEMMA Errors ==
    /\ Incomplete # NotScalar
    /\ Render = Incomplete <=> Cardinality(DataHosts) # 1
    /\ Render = NotScalar <=> Cardinality(DataHosts) = 1 /\ ~scalar
<1>1. Incomplete # NotScalar
  <2>1. Incomplete.raison = "data" /\ NotScalar.raison = "extra_vars"
    BY DEF Incomplete, NotScalar
  <2> QED
    BY <2>1
<1>2. CASE Cardinality(DataHosts) = 1 /\ scalar
  <2>1. PICK g, d : Render = [group |-> g, draining |-> d]
    BY <1>2 DEF Render
  <2>2. Render \notin {Incomplete, NotScalar}
    BY <2>1, Texts, Zenon
  <2> QED
    BY <1>1, <1>2, <2>2
<1>3. CASE Cardinality(DataHosts) # 1 \/ ~scalar
  BY <1>1, <1>3 DEF Render
<1> QED
  BY <1>1, <1>2, <1>3

\* Of extra_vars only a change of settings makes structures, those it carries.
LEMMA StructuresAreCarried ==
    ASSUME InventoryTypeOK, [Next]_vars, scalar, ~scalar'
    PROVE  Structured
<1>1. ASSUME NEW r \in req, Settle(r) PROVE Structured
  BY <1>1 DEF Settle, SaveSettings, Structured
<1>2. ~ApplySettings
  <2>1. SUFFICES ASSUME ApplySettings PROVE FALSE
    OBVIOUS
  <2>2. PICK s : s = [ports |-> [dp |-> 0, q |-> 0], scalar |-> TRUE]
    OBVIOUS
  <2>3. SaveSettings(s) /\ s.scalar
    BY <2>1, <2>2 DEF ApplySettings
  <2> QED
    BY <2>3 DEF SaveSettings
<1>3. ~Enrollment
  BY DEF Enrollment, CreateToken, DeleteToken, Expire, EnrollDone, MarkUsed, Unaffected
<1>4. ~UNCHANGED vars
  BY DEF vars
<1>5. ~(\E r : Begins(r))
  BY DEF Begins
<1>6. ~(\E r \in req : CompareHost(r) \/ Save(r) \/ SaveRefused(r) \/ Delete(r) \/ Unlist(r))
  BY DEF CompareHost, Save, SaveRefused, Delete, Unlist
<1>7. Handler
  BY <1>2, <1>3, <1>4
  DEF Next, Starting, ApplyCount, ApplyNode, ApplySync, Restart, BeginPass, PassStep, PassErr
<1>8. \E r \in req : Writes(r)
  BY <1>5, <1>7, HandlerSteps
<1> QED
  BY <1>1, <1>6, <1>8 DEF Writes

\* An inventory that can be generated stays so, short of a mishap and of a change
\* of settings that carries a structure.
THEOREM StaysDeployable == Spec => Deployable
<1>1. ASSUME InventoryTypeOK, InventoryInv, [Next]_vars, Render # Incomplete, Unhurt'
      PROVE  Render' # Incomplete
  <2>0. UpInv /\ RequestInv /\ SeedInv
    BY <1>1 DEF InventoryInv
  <2>1. Cardinality(DataHosts) = 1
    BY <1>1, Errors
  <2>2. DataHosts # {}
    BY <2>1, FS_EmptySet
  <2>3. ASSUME DataHosts' = DataHosts PROVE Render' # Incomplete
    <3>1. (Render = Incomplete)' <=> (Cardinality(DataHosts) # 1)'
      BY Errors, PTL
    <3> QED
      BY <2>1, <2>3, <3>1
  <2>4. CASE nodes' = nodes
    BY <2>3, <2>4 DEF DataHosts, Holders
  <2>5. ASSUME NEW r \in req, Save(r) \/ Delete(r) PROVE DataHosts' = DataHosts
    BY <1>1, <2>0, <2>2, <2>5, DataKept
  <2>6. ASSUME NEW x, Seeds(x) PROVE DataHosts' = DataHosts
    <3>1. PICK s \in Starts : seed = s.seed
      BY <2>0 DEF SeedInv
    <3>2. /\ x \in seed /\ boot = "nodes" /\ nodes[x.name] = None /\ SaveNode(x.name, x.row)
      BY <2>6 DEF Seeds, ApplyNode
    <3>3. PICK d \in seed : \A y \in seed : "data" \in y.row.roles <=> y = d
      BY <3>1, <3>2, SeedDataAssumption
    <3>4. PICK n \in DataHosts : TRUE
      BY <2>2
    <3>5. n \in Declared /\ "data" \in nodes[n].roles
      BY DEF DataHosts, Holders, Declared
    <3>6. PICK y \in seed : y.name = n /\ nodes[n] = y.row
      BY <2>0, <3>2, <3>5 DEF SeedInv
    <3>7. x # d
      BY <3>2, <3>3, <3>5, <3>6 DEF Declared
    <3>8. "data" \notin x.row.roles
      BY <3>2, <3>3, <3>7
    <3>9. x.name \in Node /\ x.row \in Row
      BY <3>1, <3>2, SeedsAssumption
    <3>10. nodes'[x.name] = x.row /\ (\A m \in Node \ {x.name} : nodes'[m] = nodes[m])
      BY <1>1, <3>2, <3>9, SaveTypes
    <3> QED
      BY <3>2, <3>8, <3>9, <3>10 DEF DataHosts, Holders
  <2> QED
    BY <1>1, <2>3, <2>4, <2>5, <2>6, OneNodeStep DEF OneNode
<1>2. ASSUME InventoryTypeOK, [Next]_vars, Render \notin {Incomplete, NotScalar}, Render' = NotScalar
      PROVE  Structured
  <2>1. Cardinality(DataHosts) = 1 /\ scalar
    BY <1>2, Errors
  <2>2. (Render = NotScalar)' => ~scalar'
    BY Errors, PTL
  <2>3. ~scalar'
    BY <1>2, <2>2
  <2> QED
    BY <1>2, <2>1, <2>3, StructuresAreCarried
<1>3. InventoryTypeOK /\ InventoryInv /\ [Next]_vars =>
        [/\ Render # Incomplete /\ Unhurt' => Render' # Incomplete
         /\ Render \notin {Incomplete, NotScalar} /\ Render' = NotScalar => Structured]_vars
  BY <1>1, <1>2
<1> QED
  BY <1>3, Invariance, PTL DEF Spec, Deployable

\* Until a node is declared, only operators' own requests change the registries.
THEOREM EmptyOrdersNothing == Spec => EmptyIsNoOrder
<1>1. ASSUME InventoryTypeOK, InventoryInv, [Next]_vars, registry' # registry, "declared" \notin past
      PROVE  req \ req' # {}
  <2>0. pass.at \notin Amending
    BY <1>1 DEF InventoryInv, EmptyInv
  <2>1. ~PassStep
    BY <1>1, <2>0 DEF PassStep, CountNodes, ReadPort, ListEdges, UpsertEdge, PruneEdges,
        UpsertQueueHosts, PruneQueueHosts, SetEdges, SetHosts, Amending
  <2>2. ~Enrollment
    BY <1>1 DEF Enrollment, CreateToken, DeleteToken, Expire, EnrollDone, MarkUsed, Unaffected
  <2>3. ~UNCHANGED vars
    BY <1>1 DEF vars
  <2>4. Handler
    BY <1>1, <2>1, <2>2, <2>3
    DEF Next, Starting, ApplyCount, ApplySettings, ApplyNode, ApplySync, Restart, BeginPass, PassErr
  <2>5. PICK r \in req : Unlist(r)
    BY <1>1, <2>4, HandlerSteps
    DEF Begins, Writes, CompareHost, Save, SaveRefused, Delete, Settle
  <2> QED
    BY <2>5 DEF Unlist
<1>2. InventoryTypeOK /\ InventoryInv /\ [Next]_vars =>
        [registry' # registry /\ "declared" \notin past => req \ req' # {}]_vars
  BY <1>1
<1> QED
  BY <1>2, Invariance, PTL DEF Spec, EmptyIsNoOrder

\* A token that was used or has expired, with no report under way, is not found
\* again and says what it said until it is deleted.
THEOREM TokensAreFinal == Spec => TokenFinal
<1>1. ASSUME InventoryTypeOK, [Next]_vars, NEW t \in Token,
             token[t].state \in {"used", "expired"}, ~InFlight(t)
      PROVE  ~InFlight(t)' /\ (token'[t] = token[t] \/ token'[t].state = "deleted")
  <2>0. token \in [Token -> TokenRow]
    BY <1>1 DEF InventoryTypeOK
  <2>1. ASSUME token'[t] = token[t] \/ token'[t].state = "deleted",
               \A x \in report' : x \in report \/ x.found # t
        PROVE  ~InFlight(t)' /\ (token'[t] = token[t] \/ token'[t].state = "deleted")
    BY <1>1, <2>1 DEF InFlight
  <2>2. CASE CreateToken
    BY <1>1, <2>0, <2>1, <2>2 DEF CreateToken
  <2>3. CASE DeleteToken
    BY <1>1, <2>0, <2>1, <2>3 DEF DeleteToken
  <2>4. CASE Expire
    BY <1>1, <2>0, <2>1, <2>4 DEF Expire, LookupToken
  <2>5. ASSUME NEW m \in Machine, EnrollDone(m)
        PROVE  ~InFlight(t)' /\ (token'[t] = token[t] \/ token'[t].state = "deleted")
    BY <1>1, <2>1, <2>5 DEF EnrollDone, LookupToken
  <2>6. ASSUME NEW x \in report, MarkUsed(x)
        PROVE  ~InFlight(t)' /\ (token'[t] = token[t] \/ token'[t].state = "deleted")
    <3>1. x.found # t
      BY <1>1 DEF InFlight
    <3> QED
      BY <2>0, <2>1, <2>6, <3>1 DEF MarkUsed
  <2>7. CASE Handler
    BY <1>1, <2>1, <2>7, HandlerSteps
    DEF Begins, Writes, CompareHost, Save, SaveRefused, Delete, Settle, Unlist
  <2>8. CASE UNCHANGED vars
    BY <2>1, <2>8 DEF vars, memory
  <2> QED
    BY <1>1, <2>1, <2>2, <2>3, <2>4, <2>5, <2>6, <2>7, <2>8
    DEF Next, Enrollment, Starting, ApplyCount, ApplySettings, ApplyNode, ApplySync, Restart, BeginPass,
        PassStep, PassErr, memory
<1>2. InventoryTypeOK /\ [Next]_vars =>
        [\A t \in Token :
            token[t].state \in {"used", "expired"} /\ ~InFlight(t) =>
                /\ ~InFlight(t)'
                /\ token'[t] = token[t] \/ token'[t].state = "deleted"]_vars
  BY <1>1
<1> QED
  BY <1>2, Invariance, PTL DEF Spec, TokenFinal

=============================================================================
