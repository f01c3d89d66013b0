------------------------------ MODULE Inventory ------------------------------
(***************************************************************************)
(* The inventory of flyc-control (control/internal/inventory): the table   *)
(* nodes and the settings, amended by the handlers of api/inventory.go,    *)
(* and what is derived from them: the registries edges and queue_hosts     *)
(* (Sync), the topology the reconciler works with (reloadTopology), the    *)
(* inventory handed to Ansible (Render).  Also the enrollment tokens of    *)
(* api/enroll.go.                                                          *)
(*                                                                         *)
(* An action is one SQL statement.  A handler that reads in one statement  *)
(* and writes in another is two actions; whatever happens in between is    *)
(* what this module is about.  A request that is refused changes nothing   *)
(* and has no action.  Kick is in EdgeSync; here a pass may begin at any   *)
(* time, as the ticker makes it.                                           *)
(***************************************************************************)
EXTENDS Integers, FiniteSets

CONSTANTS
    Node,       \* names of nodes
    IP,         \* management addresses
    Shapes,     \* sets of roles requests ask for
    Moves,      \* states requests ask for
    Ports,      \* ports requests ask for, 0 for "none given"
    Starts,     \* FLYC_INVENTORY_SEED, and the registries as an older control left them
    Handlers,   \* how many requests may be in flight
    Token,      \* enrollment tokens
    Machine,    \* machines that report with a token
    Edits,      \* how many requests
    Faults      \* how many failed statements and restarts

Role == {"edge", "queue", "data"}
NodeState == {"planned", "installing", "ready", "draining"}

ASSUME InputsAssumption ==
    /\ Shapes \subseteq SUBSET Role /\ {} \notin Shapes
    /\ Moves \subseteq NodeState
    /\ Ports \subseteq Nat
ASSUME BoundsAssumption == Handlers \in Nat /\ Edits \in Nat /\ Faults \in Nat

None == [absent |-> TRUE]
Row == [roles : (SUBSET Role) \ {{}}, ip : IP, state : NodeState]

\* A list of URLs by the names of nodes.
Listing(f) ==
    /\ f = [n \in DOMAIN f |-> f[n]]
    /\ DOMAIN f \subseteq Node /\ \A n \in DOMAIN f : f[n] \in IP \X Nat

\* A seed names each node once, with an address of its own; a registry holds URLs.
ASSUME SeedsAssumption ==
    \A s \in Starts :
        /\ s.seed \subseteq [name : Node, row : Row]
        /\ \A x, y \in s.seed : x # y => x.name # y.name /\ x.row.ip # y.row.ip
        /\ DOMAIN s.registry = {"edge", "queue"}
        /\ Listing(s.registry.edge) /\ Listing(s.registry.queue)

\* The seed is rendered from an inventory with one data host, the one control
\* runs on: tools/setup.sh:180-183 writes no other. Apply does not check it.
ASSUME SeedDataAssumption ==
    \A s \in Starts : s.seed # {} =>
        \E d \in s.seed : \A x \in s.seed : "data" \in x.row.roles <=> x = d

VARIABLES
    nodes,      \* table nodes
    ports,      \* dataplane_port and queue_port of platform_settings
    scalar,     \* every one of its extra_vars is a scalar
    registry,   \* tables edges and queue_hosts: name -> URL
    topo,       \* Reconciler.edges: name -> URL
    hosts,      \* queueclient.Client.hosts: URLs
    seed,       \* the seed in the environment of control
    boot,       \* where main is: Apply, or serving
    pass,       \* the statement a pass, or the Sync of Apply, is at, and its locals
    req,        \* the handlers in flight
    token,      \* table enroll_tokens
    report,     \* enrollDone in flight: the machine and the token it found
    fresh,      \* history: no write and no error since the last pass began
    past,       \* history: what has happened, see Past
    left        \* the requests and faults still to come

memory == <<topo, hosts, boot, pass, req, report>>
vars == <<nodes, ports, scalar, registry, memory, seed, token, fresh, past, left>>

NoList == [n \in {} |-> None]
Resting == [at |-> "idle", port |-> 0, list |-> NoList, todo |-> {}]
DefaultPort == [dp |-> 5555, q |-> 8080]

Holders(tbl, role) == {n \in Node : tbl[n] # None /\ role \in tbl[n].roles}
Declared == {n \in Node : nodes[n] # None}
DataHosts == Holders(nodes, "data")
Ready(role) == {n \in Holders(nodes, role) : nodes[n].state = "ready"}

URL(ip, port) == <<ip, port>>

\* Edges and QueueHosts: the ready nodes of a role, at a port read before.
Listed(role, port) == [n \in Ready(role) |-> URL(nodes[n].ip, port)]

\* Render: ErrIncomplete, the error of yamlScalar, or the groups of the inventory.
Incomplete == [raison |-> "data"]
NotScalar == [raison |-> "extra_vars"]
Render ==
    IF Cardinality(DataHosts) # 1 THEN Incomplete
    ELSE IF ~scalar THEN NotScalar
    ELSE [group |-> [r \in Role |-> Holders(nodes, r)],
          draining |-> {n \in Declared : nodes[n].state = "draining"}]

-----------------------------------------------------------------------------
(* Bookkeeping *)

\* A node was declared, an operator's request changed the nodes; and the three
\* things the code does not guard against: control died while it seeded the
\* table, a creation took the name of a node that exists, a request wrote on the
\* strength of a row another one had changed or of a count that failed.
Mishaps == {"seed cut", "replaced", "overtaken"}
Past == {"declared", "edited"} \cup Mishaps

Pay(kinds) ==
    /\ \A k \in kinds : left[k] > 0
    /\ left' = [k \in DOMAIN left |-> IF k \in kinds THEN left[k] - 1 ELSE left[k]]
Spend(kind) == Pay({kind})

\* A write that the derived state has to follow.
Stale == fresh' = FALSE

Goto(at) == pass' = [Resting EXCEPT !.at = at]

Init ==
    /\ nodes = [n \in Node |-> None]
    /\ ports = DefaultPort /\ scalar = TRUE
    /\ \E s \in Starts : seed = s.seed /\ registry = s.registry
    /\ topo = NoList /\ hosts = {}
    /\ boot = "apply"
    /\ pass = Resting
    /\ req = {}
    /\ token = [t \in Token |-> [state |-> "none", by |-> {}]]
    /\ report = {}
    /\ fresh = FALSE /\ past = {}
    /\ left = [edits |-> Edits, faults |-> Faults]

-----------------------------------------------------------------------------
(***************************************************************************)
(* Writing the tables.                                                     *)
(***************************************************************************)

\* The unique index nodes_mgmt_ip.
Conflicts(n, row) == \E m \in Declared \ {n} : nodes[m].ip = row.ip

\* SaveNode: insert ... on conflict (name) do update.
SaveNode(n, row) ==
    /\ ~Conflicts(n, row)
    /\ nodes' = [nodes EXCEPT ![n] = row]
    /\ Stale

\* Mutant: no defaults.
SaveSettingsRaw(s) == ports' = s.ports /\ scalar' = s.scalar /\ Stale

\* A port of 0 becomes the default; the extra_vars are stored as they are.
SaveSettings(s) ==
    /\ ports' = [k \in DOMAIN s.ports |-> IF s.ports[k] = 0 THEN DefaultPort[k] ELSE s.ports[k]]
    /\ scalar' = s.scalar
    /\ Stale

-----------------------------------------------------------------------------
(***************************************************************************)
(* Start of control: Apply, before anything is served.  An error ends the  *)
(* process, which is started again.                                        *)
(***************************************************************************)

\* Mutant: the seed is applied whatever the table holds.
ApplyCountNot ==
    /\ boot = "apply"
    /\ boot' = IF seed = {} THEN "up" ELSE "settings"
    /\ UNCHANGED <<nodes, ports, scalar, registry, topo, hosts, pass, req, report, seed, token,
                   fresh, past, left>>

\* A table with nodes in it is only compared with the seed.
ApplyCount ==
    /\ boot = "apply"
    /\ boot' = IF Declared # {} \/ seed = {} THEN "up" ELSE "settings"
    /\ UNCHANGED <<nodes, ports, scalar, registry, topo, hosts, pass, req, report, seed, token,
                   fresh, past, left>>

\* The seed's own settings: the ports it does not give, and extra_vars whose
\* only member, if any, is a number (inventory-seed.json.j2:26, 55).
ApplySettings ==
    /\ boot = "settings" /\ boot' = "nodes"
    /\ SaveSettings([ports |-> [dp |-> 0, q |-> 0], scalar |-> TRUE])
    /\ UNCHANGED <<nodes, registry, topo, hosts, pass, req, report, seed, token,
                   past, left>>

ApplyNode ==
    /\ boot = "nodes"
    /\ \E x \in seed : nodes[x.name] = None /\ SaveNode(x.name, x.row)
    /\ past' = past \cup {"declared"}
    /\ UNCHANGED <<ports, scalar, registry, memory, seed, token, left>>

\* Apply ends in Sync.
ApplySync ==
    /\ boot = "nodes" /\ \A x \in seed : nodes[x.name] # None
    /\ boot' = "sync" /\ Goto("count")
    /\ UNCHANGED <<nodes, ports, scalar, registry, topo, hosts, req, report, seed, token,
                   fresh, past, left>>

\* Control dies, or a statement of Apply fails: what was in memory is lost.
Restart ==
    /\ Spend("faults")
    /\ past' = IF boot = "nodes" /\ Declared # {} THEN past \cup {"seed cut"} ELSE past
    /\ boot' = "apply" /\ pass' = Resting
    /\ topo' = NoList /\ hosts' = {}
    /\ req' = {} /\ report' = {}
    /\ Stale
    /\ UNCHANGED <<nodes, ports, scalar, registry, seed, token>>

-----------------------------------------------------------------------------
(***************************************************************************)
(* A pass: Sync, one statement at a time, then the reload of the topology. *)
(* Only one runs at a time, under Reconciler.mu.                           *)
(***************************************************************************)

Statements == {"count", "port", "edges", "upsert", "prune", "qport", "queue", "qprune",
               "port2", "edges2", "qport2", "hosts"}

\* The end of Sync: Apply is over, or the topology is read.
AfterSync == IF boot = "sync" THEN "idle" ELSE "port2"

\* Mutant: the loop ends at the first error.
BeginPassUntilErr ==
    /\ left.faults = Faults
    /\ boot = "up" /\ pass.at = "idle"
    /\ Goto("count")
    /\ fresh' = TRUE
    /\ UNCHANGED <<nodes, ports, scalar, registry, topo, hosts, boot, req, report, seed, token,
                   past, left>>

BeginPass ==
    /\ boot = "up" /\ pass.at = "idle"
    /\ Goto("count")
    /\ fresh' = TRUE
    /\ UNCHANGED <<nodes, ports, scalar, registry, topo, hosts, boot, req, report, seed, token,
                   past, left>>

\* Mutant: an empty table is taken at its word.
CountNodesBlind ==
    /\ pass.at = "count"
    /\ Goto("port")
    /\ UNCHANGED <<registry, topo, hosts>>

\* No node is no order to forget them all: the pass ends here.
CountNodes ==
    /\ pass.at = "count"
    /\ Goto(IF Declared = {} THEN "idle" ELSE "port")
    /\ UNCHANGED <<registry, topo, hosts>>

ReadPort ==
    /\ \/ pass.at = "port" /\ pass' = [pass EXCEPT !.at = "edges", !.port = ports.dp]
       \/ pass.at = "port2" /\ pass' = [pass EXCEPT !.at = "edges2", !.port = ports.dp]
       \/ pass.at = "qport" /\ pass' = [pass EXCEPT !.at = "queue", !.port = ports.q]
       \/ pass.at = "qport2" /\ pass' = [pass EXCEPT !.at = "hosts", !.port = ports.q]
    /\ UNCHANGED <<registry, topo, hosts>>

ListEdges ==
    /\ pass.at = "edges"
    /\ LET list == Listed("edge", pass.port) IN
       pass' = [pass EXCEPT !.at = IF list = NoList THEN "prune" ELSE "upsert",
                            !.list = list, !.todo = DOMAIN list]
    /\ UNCHANGED <<registry, topo, hosts>>

UpsertEdge ==
    /\ pass.at = "upsert"
    /\ \E n \in pass.todo :
         /\ registry' = [registry EXCEPT !.edge =
               [m \in DOMAIN @ \cup {n} |-> IF m = n THEN pass.list[n] ELSE @[m]]]
         /\ pass' = [pass EXCEPT !.at = IF pass.todo = {n} THEN "prune" ELSE "upsert",
                                 !.todo = @ \ {n}]
    /\ UNCHANGED <<topo, hosts>>

\* Mutant: edges that left the inventory keep their row.
PruneEdgesNot ==
    /\ pass.at = "prune"
    /\ Goto("qport")
    /\ UNCHANGED <<registry, topo, hosts>>

PruneEdges ==
    /\ pass.at = "prune"
    /\ registry' = [registry EXCEPT !.edge =
          [n \in DOMAIN @ \cap DOMAIN pass.list |-> @[n]]]
    /\ Goto("qport")
    /\ UNCHANGED <<topo, hosts>>

UpsertQueueHosts ==
    /\ pass.at = "queue"
    /\ LET list == Listed("queue", pass.port) IN
       registry' = [registry EXCEPT !.queue =
          [n \in DOMAIN @ \cup DOMAIN list |-> IF n \in DOMAIN list THEN list[n] ELSE @[n]]]
    /\ Goto("qprune")
    /\ UNCHANGED <<topo, hosts>>

PruneQueueHosts ==
    /\ pass.at = "qprune"
    /\ registry' = [registry EXCEPT !.queue = [n \in DOMAIN @ \cap Ready("queue") |-> @[n]]]
    /\ Goto(AfterSync)
    /\ UNCHANGED <<topo, hosts>>

SetEdges ==
    /\ pass.at = "edges2"
    /\ topo' = Listed("edge", pass.port)
    /\ Goto("qport2")
    /\ UNCHANGED <<registry, hosts>>

SetHosts ==
    /\ pass.at = "hosts"
    /\ hosts' = {Listed("queue", pass.port)[n] : n \in Ready("queue")}
    /\ pass' = Resting
    /\ UNCHANGED <<registry, topo>>

PassStep ==
    /\ \/ CountNodes \/ ReadPort \/ ListEdges \/ UpsertEdge \/ PruneEdges
       \/ UpsertQueueHosts \/ PruneQueueHosts \/ SetEdges \/ SetHosts
    /\ boot' = IF boot = "sync" /\ pass'.at = "idle" THEN "up" ELSE boot
    /\ UNCHANGED <<nodes, ports, scalar, req, report, seed, token, fresh, past, left>>

\* A statement fails: Sync is given up and the topology read all the same, a
\* reading of the topology is given up.  In Apply the process ends: Restart.
PassErr ==
    /\ boot = "up" /\ pass.at # "idle"
    /\ Spend("faults")
    /\ IF pass.at \in {"port2", "edges2", "qport2", "hosts"} THEN pass' = Resting ELSE Goto("port2")
    /\ Stale
    /\ UNCHANGED <<nodes, ports, scalar, registry, topo, hosts, boot, req, report, seed, token,
                   past>>

-----------------------------------------------------------------------------
(***************************************************************************)
(* The handlers.  Begin makes the checks and reads what the write will     *)
(* rest on.                                                                *)
(***************************************************************************)

BeginAt(cost, r) ==
    /\ boot = "up" /\ Cardinality(req) < Handlers
    /\ Pay(cost)
    /\ req' = req \cup {r}
    /\ UNCHANGED <<nodes, ports, scalar, registry, topo, hosts, boot, pass, report, seed, token,
                   fresh, past>>

Begin(r) == BeginAt({"edits"}, r)

\* Mutant: the count is not asked for.
MayCarryAny(roles) == TRUE

\* A second data host is refused on the count of those there are now.
MayCarry(roles) == "data" \in roles => DataHosts = {}

\* The error of the count is ignored, and the answer taken for 0.
CreateNode ==
    \E n \in Node, roles \in Shapes, ip \in IP, st \in Moves :
        LET row == [roles |-> roles, ip |-> ip, state |-> st] IN
        IF MayCarry(roles)
        THEN Begin([op |-> "create", name |-> n, row |-> row, count |-> DataHosts])
        ELSE BeginAt({"edits", "faults"}, [op |-> "create", name |-> n, row |-> row, count |-> {}])

\* The row is read, amended by the fields given, and saved whole.
PatchNode ==
    \E n \in Declared, ip \in IP : \E st \in Moves \cup {nodes[n].state} :
        Begin([op |-> "patch", name |-> n, seen |-> nodes[n],
                  row |-> [nodes[n] EXCEPT !.ip = ip, !.state = st]])

\* Neither the data host nor a node in service is deleted.
DeleteNode ==
    \E n \in Declared :
        /\ n \notin DataHosts
        /\ nodes[n].state # "ready"
        /\ Begin([op |-> "delete", name |-> n, seen |-> nodes[n]])

\* A port is given, or extra_vars: with a structure among them, or with a
\* scalar in the place of each.  A field left out keeps the value that was read.
PutSettings ==
    \/ \E k \in DOMAIN ports, p \in Ports :
          Begin([op |-> "settings", ports |-> [ports EXCEPT ![k] = p], scalar |-> scalar])
    \/ \E plain \in BOOLEAN :
          Begin([op |-> "settings", ports |-> ports, scalar |-> plain])

\* A row of the registry is deleted only if its node is not in the topology.
DeleteEdge ==
    \E n \in DOMAIN registry.edge \ DOMAIN topo :
        Begin([op |-> "unlist edge", name |-> n])

DeleteQueueHost ==
    \E n \in DOMAIN registry.queue :
        Begin([op |-> "compare", name |-> n, url |-> registry.queue[n]])

\* The URL that was read is compared with the hosts in use.
CompareHost(r) ==
    /\ r.op = "compare"
    /\ req' = (req \ {r}) \cup (IF r.url \in hosts THEN {}
                                ELSE {[op |-> "unlist queue", name |-> r.name]})
    /\ UNCHANGED <<nodes, ports, scalar, registry, topo, hosts, boot, pass, report, seed, token,
                   fresh, past, left>>

\* What a save may do that nothing guards against: replace another node of the
\* name (a creation), or act on what is no longer as it was read.
Mishap(r) ==
    (IF r.op = "create" /\ nodes[r.name] # None THEN {"replaced"} ELSE {}) \cup
    (IF r.op = "create" /\ "data" \in r.row.roles /\ DataHosts # r.count THEN {"overtaken"} ELSE {}) \cup
    (IF r.op # "create" /\ nodes[r.name] # r.seen THEN {"overtaken"} ELSE {})

Save(r) ==
    /\ r.op \in {"create", "patch"}
    /\ SaveNode(r.name, r.row)
    /\ past' = past \cup {"declared", "edited"} \cup Mishap(r)
    /\ req' = req \ {r}
    /\ UNCHANGED <<ports, scalar, registry, topo, hosts, boot, pass, report, seed, token, left>>

\* The index refuses the address: 409.
SaveRefused(r) ==
    /\ r.op \in {"create", "patch"}
    /\ Conflicts(r.name, r.row)
    /\ req' = req \ {r}
    /\ UNCHANGED <<nodes, ports, scalar, registry, topo, hosts, boot, pass, report, seed, token,
                   fresh, past, left>>

Delete(r) ==
    /\ r.op = "delete"
    /\ nodes' = [nodes EXCEPT ![r.name] = None]
    /\ past' = past \cup {"edited"} \cup Mishap(r)
    /\ Stale
    /\ req' = req \ {r}
    /\ UNCHANGED <<ports, scalar, registry, topo, hosts, boot, pass, report, seed, token, left>>

Settle(r) ==
    /\ r.op = "settings"
    /\ SaveSettings(r)
    /\ req' = req \ {r}
    /\ UNCHANGED <<nodes, registry, topo, hosts, boot, pass, report, seed, token,
                   past, left>>

Unlist(r) ==
    /\ r.op \in {"unlist edge", "unlist queue"}
    /\ LET k == IF r.op = "unlist edge" THEN "edge" ELSE "queue" IN
       registry' = [registry EXCEPT ![k] = [n \in DOMAIN @ \ {r.name} |-> @[n]]]
    /\ Stale
    /\ req' = req \ {r}
    /\ UNCHANGED <<nodes, ports, scalar, topo, hosts, boot, pass, report, seed, token,
                   past, left>>

-----------------------------------------------------------------------------
(***************************************************************************)
(* Enrollment.  A token is made, found by a machine's report, and marked   *)
(* used in another statement.                                              *)
(***************************************************************************)

Unaffected == <<nodes, ports, scalar, registry, topo, hosts, boot, pass, req, seed,
                fresh, past>>

CreateToken ==
    /\ boot = "up" /\ Spend("edits")
    /\ \E t \in Token : token[t].state = "none" /\ token' = [token EXCEPT ![t].state = "open"]
    /\ UNCHANGED <<Unaffected, report>>

\* Rows that were deleted do not come back.
DeleteToken ==
    /\ boot = "up" /\ Spend("edits")
    /\ \E t \in Token :
          /\ token[t].state \notin {"none", "deleted"}
          /\ token' = [token EXCEPT ![t] = [state |-> "deleted", by |-> {}]]
    /\ UNCHANGED <<Unaffected, report>>

\* Mutant: used_at is not looked at.
LookupTokenAgain(t) == token[t].state \in {"open", "used"}

LookupToken(t) == token[t].state = "open"

\* Fifteen minutes have passed.
Expire ==
    /\ \E t \in Token : LookupToken(t) /\ token' = [token EXCEPT ![t].state = "expired"]
    /\ UNCHANGED <<Unaffected, report, left>>

EnrollDone(m) ==
    /\ boot = "up" /\ \A x \in report : x.by # m
    /\ Spend("edits")
    /\ \E t \in Token : LookupToken(t) /\ report' = report \cup {[by |-> m, found |-> t]}
    /\ UNCHANGED <<Unaffected, token>>

\* update ... where id=$1: no row, no effect, and the answer is the same.
MarkUsed(x) ==
    /\ token' = IF token[x.found].state = "deleted" THEN token
                ELSE [token EXCEPT ![x.found] = [state |-> "used", by |-> {x.by}]]
    /\ report' = report \ {x}
    /\ UNCHANGED <<Unaffected, left>>

-----------------------------------------------------------------------------
Handler ==
    \/ CreateNode \/ PatchNode \/ DeleteNode \/ PutSettings \/ DeleteEdge \/ DeleteQueueHost
    \/ \E r \in req : CompareHost(r) \/ Save(r) \/ SaveRefused(r) \/ Delete(r) \/ Settle(r) \/ Unlist(r)

Enrollment ==
    \/ CreateToken \/ DeleteToken \/ Expire
    \/ \E m \in Machine : EnrollDone(m)
    \/ \E x \in report : MarkUsed(x)

Starting == ApplyCount \/ ApplySettings \/ ApplyNode \/ ApplySync

Next ==
    \/ Starting \/ Restart
    \/ BeginPass \/ PassStep \/ PassErr
    \/ Handler
    \/ Enrollment

Spec == Init /\ [][Next]_vars

\* main goes on, the ticker starts a pass every minute and a pass goes on.
FairSpec == Spec /\ WF_vars(Starting) /\ WF_vars(BeginPass) /\ WF_vars(PassStep)

-----------------------------------------------------------------------------
TokenRow == [state : {"none", "open", "used", "expired", "deleted"},
             by : SUBSET Machine]
Request ==
    [op : {"create"}, name : Node, row : Row, count : SUBSET Node]
    \cup [op : {"patch"}, name : Node, seen : Row, row : Row]
    \cup [op : {"delete"}, name : Node, seen : Row]
    \cup [op : {"settings"}, ports : [{"dp", "q"} -> Nat], scalar : BOOLEAN]
    \cup [op : {"unlist edge", "unlist queue"}, name : Node]
    \cup [op : {"compare"}, name : Node, url : IP \X Nat]

\* The type of every variable; two nodes never share an address.
InventoryTypeOK ==
    /\ nodes \in [Node -> Row \cup {None}]
    /\ \A m, n \in Declared : m # n => nodes[m].ip # nodes[n].ip
    /\ ports \in [{"dp", "q"} -> Nat \ {0}] /\ scalar \in BOOLEAN
    /\ DOMAIN registry = {"edge", "queue"}
    /\ Listing(registry.edge) /\ Listing(registry.queue) /\ Listing(topo)
    /\ hosts \subseteq IP \X Nat
    /\ boot \in {"apply", "settings", "nodes", "sync", "up"}
    /\ pass.at \in Statements \cup {"idle"} /\ pass.port \in Nat
    /\ DOMAIN pass = DOMAIN Resting
    /\ pass.todo \subseteq DOMAIN pass.list /\ Listing(pass.list)
    /\ req \subseteq Request
    /\ token \in [Token -> TokenRow]
    /\ report \subseteq [by : Machine, found : Token]
    /\ fresh \in BOOLEAN /\ past \subseteq Past
    /\ left \in [edits : 0..Edits, faults : 0..Faults]

Unhurt == past \cap Mishaps = {}

\* The step answers a change of settings with a structure in extra_vars.
Structured == \E r \in req \ req' : r.op = "settings" /\ ~r.scalar

\* An inventory that can be generated stays so: whatever operators declare, amend
\* and delete, there is one data host and only one, short of a mishap; and only
\* a change of settings that carries a structure, its own or one it read, makes
\* it a text that cannot be written, which PUT /v1/settings does not look at.
\* Render refuses both, and with it every deployment.
Deployable ==
    [][/\ Render # Incomplete /\ Unhurt' => Render' # Incomplete
       /\ Render \notin {Incomplete, NotScalar} /\ Render' = NotScalar => Structured]_vars

\* The seed serves once: control never starts again from it when operators have
\* worked on the nodes, short of a mishap, or a node they removed would come
\* back.  Apply looks only whether the table is empty; that it is not rests on
\* the data host, which is there from the seed on and is not deleted.
SeedOnce == boot \in {"settings", "nodes"} /\ Unhurt => "edited" \notin past

\* As long as no node has been declared the registries are left as they were,
\* but for what operators delete: an inventory that was never seeded does not
\* cut the edges of an older installation off.
EmptyIsNoOrder ==
    [][registry' # registry /\ "declared" \notin past =>
          req \ req' # {}]_vars

Agreed ==
    /\ registry.edge = Listed("edge", ports.dp) /\ topo = Listed("edge", ports.dp)
    /\ registry.queue = Listed("queue", ports.q)
    /\ hosts = {URL(nodes[n].ip, ports.q) : n \in Ready("queue")}

\* A pass that ended with neither a write nor an error since it began leaves
\* both registries, the edges the reconciler pushes to and the hosts the queue
\* client talks to in step with the ready nodes, and so it stays until
\* something is written: Sync prunes what it does not find and the topology is
\* read anew, in statements of their own.
InStep ==
    boot = "up" /\ pass.at = "idle" /\ fresh /\ Declared # {} => Agreed

\* Once requests and faults are over, the registries and the topology end up in
\* step with the nodes, whatever a pass had read before.
TopologyFollows == <>[](Declared # {} => Agreed)

InFlight(t) == \E x \in report : x.found = t

\* What a token says is final once it is used or expired and no report that
\* found it before is still under way, and no report finds it again: it serves
\* once, for fifteen minutes.  Two reports that overlap both succeed, and the
\* second overwrites the first.
TokenFinal ==
    [][\A t \in Token :
          token[t].state \in {"used", "expired"} /\ ~InFlight(t) =>
              /\ ~InFlight(t)'
              /\ token'[t] = token[t] \/ token'[t].state = "deleted"]_vars
=============================================================================
