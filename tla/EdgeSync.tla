------------------------------- MODULE EdgeSync -------------------------------
(***************************************************************************)
(* How flyc-control brings the load balancers ("edges") to the state the   *)
(* database asks for: the reconciler (control/internal/reconcile), what it *)
(* compiles (compile), the calls of the Dataplane API it makes (dataplane) *)
(* and those who change the database under it: the API handlers, the ACME  *)
(* manager and the automatic mode.                                         *)
(*                                                                         *)
(* One room on one domain.  A backend is abstracted to the number of its   *)
(* server list, a certificate and a key to its serial number, and a hash   *)
(* of the desired state to that state.                                     *)
(***************************************************************************)
EXTENDS Integers, Sequences

CONSTANTS
    Edges,      \* the load balancers in the order a pass visits them
    Backend,    \* names of backends
    Inputs,     \* which kinds of change happen
    Modes,      \* the modes operators ask for
    Edits,      \* how many changes
    Faults      \* how many failed calls, abandoned requests and restarts

ASSUME EdgesAssumption ==
    /\ Len(Edges) \in Nat \ {0}
    /\ Edges \in Seq({Edges[i] : i \in 1..Len(Edges)})
ASSUME BackendAssumption == Backend # {}
ASSUME ModesAssumption == Modes \subseteq {"open", "queue", "closed", "auto"}
ASSUME BoundsAssumption == Edits \in Nat /\ Faults \in Nat

VARIABLES
    db,         \* Postgres: the room, backends, certificate, keys, version
    api,        \* an API handler that has written and is about to Kick
    acme,       \* the ACME manager
    auto,       \* RunAuto: the state it read, while it measures
    rec,        \* the passes of Once: of the loop, and of a request
    mu,         \* Reconciler.mu
    kick,       \* Reconciler.kick, a channel of capacity one
    lastVer,    \* Reconciler.lastVer
    cache,      \* Reconciler.pushedCerts
    row,        \* table edges
    queue,      \* the room's state in flyc-queue
    edge,       \* the load balancers
    sound,      \* history: the last push to an edge met no error, nor did its Build
    left        \* the changes and faults still to come

control == <<api, acme, auto, rec, mu, kick, lastVer, cache>>
vars == <<db, control, row, queue, edge, sound, left>>

Edge == {Edges[i] : i \in 1..Len(Edges)}
Caller == {"loop", "request"}
State == {"open", "queue", "closed"}
NoBackend == "none"
NoState == "none"       \* the room is not in the map
Servers == 1..2         \* server lists tenants ask for
Short == 3              \* one of them without its last servers
Nobody == "nobody"

-----------------------------------------------------------------------------
(***************************************************************************)
(* The desired state.                                                      *)
(***************************************************************************)

Existing == {b \in Backend : db.bks[b] # 0}

Newest(S) == CHOOSE k \in S : \A j \in S : j <= k

\* signing_keys: the active key, and the last retired one of the last 24 h.
PassPrevPub == IF db.old = {} THEN db.key ELSE Newest(db.old)

\* Certificates whose status is not 'issued' are left out.
IssuedCert == IF db.status = "issued" THEN db.cert ELSE 0

Desired == [bks |-> db.bks, route |-> db.route, state |-> db.eff,
            cert |-> IssuedCert, pass |-> db.key, prev |-> PassPrevPub]

Blank == [bks |-> [b \in Backend |-> 0], route |-> NoBackend, state |-> NoState,
          cert |-> 0, pass |-> 0, prev |-> 0]

\* The four queries of Build, each its own statement on the pool.
Compiled(want, part) ==
    CASE part = "backends" -> [want EXCEPT !.bks = Desired.bks]
      [] part = "rooms" -> [want EXCEPT !.route = Desired.route, !.state = Desired.state]
      [] part = "certs" -> [want EXCEPT !.cert = Desired.cert]
      [] part = "keys" -> [want EXCEPT !.pass = Desired.pass, !.prev = Desired.prev]

\* What is left of a query whose connection breaks while its rows are read:
\* Next ends the loop and nobody asks rows.Err, so that Build goes on.
Cut(want, part) ==
    LET kept(S) == [b \in Backend |-> IF b \in S THEN db.bks[b] ELSE 0]
    IN  CASE part = "backends" ->
               {[want EXCEPT !.bks = kept(S)] : S \in (SUBSET Existing) \ {Existing}}
               \cup {[want EXCEPT !.bks = [db.bks EXCEPT ![b] = Short]] : b \in Existing}
          [] part = "rooms" -> {[want EXCEPT !.route = NoBackend, !.state = NoState]}
          [] part = "certs" -> {[want EXCEPT !.cert = 0]}
          [] part = "keys" -> {[want EXCEPT !.pass = k, !.prev = k] : k \in {0, db.key}}

Parts == {"backends", "rooms", "certs", "keys"}
AfterPart == [backends |-> "rooms", rooms |-> "certs", certs |-> "keys", keys |-> "queue"]

-----------------------------------------------------------------------------
(***************************************************************************)
(* A load balancer: the files and maps written through the Dataplane API,  *)
(* and "ran", the pass.pub the running HAProxy loaded.  The few seconds    *)
(* the API waits before it reloads (reload_delay) are left out.            *)
(***************************************************************************)

NewEdge == [bks |-> [b \in Backend |-> 0], route |-> NoBackend, state |-> NoState,
            cert |-> 0, listed |-> FALSE, pass |-> 0, prev |-> 0, ran |-> 0]

ReloadIf(x, needed) == IF needed THEN [x EXCEPT !.ran = x.pass] ELSE x

-----------------------------------------------------------------------------
(***************************************************************************)
(* A pass of Once.  "ctx" is FALSE once the request it runs for is gone.   *)
(***************************************************************************)

NoPass == [pc |-> "idle", ctx |-> TRUE, ver |-> 0, want |-> Blank, cut |-> FALSE,
           at |-> 0, changed |-> FALSE, err |-> FALSE]

First == CHOOSE b \in Backend : TRUE

\* A room in mode auto, and edges as their installation leaves them.
Init ==
    /\ db = [mode |-> "auto", eff |-> "open", route |-> First,
             bks |-> [b \in Backend |-> IF b = First THEN 1 ELSE 0],
             cert |-> 1, status |-> "issued", key |-> 1, old |-> {}, ver |-> 1]
    /\ api = "idle" /\ acme = "idle" /\ auto = "idle"
    /\ rec = [p \in Caller |-> IF p = "loop" THEN [NoPass EXCEPT !.pc = "lock"] ELSE NoPass]
    /\ mu = Nobody
    /\ kick = TRUE
    /\ lastVer = 0
    /\ cache = [e \in Edge |-> 0]
    /\ row = [e \in Edge |-> [status |-> "none", config |-> Blank, desired |-> Blank]]
    /\ queue = "open"
    /\ edge = [e \in Edge |-> NewEdge]
    /\ sound = [e \in Edge |-> FALSE]
    /\ left = [edits |-> Edits, faults |-> Faults]

Go(p, pc) == rec' = [rec EXCEPT ![p].pc = pc]
Fault == left.faults > 0 /\ left' = [left EXCEPT !.faults = @ - 1]

\* Run: the kick channel, the ticker of 60 s and the poll of 3 s.
Triggered(kicked) ==
    /\ rec["loop"].pc = "idle"
    /\ Go("loop", "lock")
    /\ kick' = (kick /\ ~kicked)
    /\ UNCHANGED <<db, api, acme, auto, mu, lastVer, cache, row, queue, edge, sound, left>>

OnKick == kick /\ Triggered(TRUE)
OnTicker == Triggered(FALSE)
OnPoll == db.ver # lastVer /\ Triggered(FALSE)

Lock(p) ==
    /\ rec[p].pc = "lock" /\ mu = Nobody
    /\ mu' = p
    /\ Go(p, "ver")
    /\ UNCHANGED <<db, api, acme, auto, kick, lastVer, cache, row, queue, edge, sound, left>>

\* A failed read leaves ver at 0 and the pass goes on.
ReadVer(p) ==
    /\ rec[p].pc = "ver"
    /\ \/ /\ rec[p].ctx
          /\ rec' = [rec EXCEPT ![p].pc = "backends", ![p].ver = db.ver]
          /\ UNCHANGED left
       \/ /\ ~rec[p].ctx /\ Go(p, "backends") /\ UNCHANGED left
       \/ /\ rec[p].ctx /\ Fault /\ Go(p, "backends")
    /\ UNCHANGED <<db, api, acme, auto, mu, kick, lastVer, cache, row, queue, edge, sound>>

Build(p) ==
    LET part == rec[p].pc
    IN  /\ part \in Parts /\ rec[p].ctx
        /\ rec' = [rec EXCEPT ![p].pc = AfterPart[part], ![p].want = Compiled(@, part)]
        /\ UNCHANGED <<db, api, acme, auto, mu, kick, lastVer, cache, row, queue, edge,
                       sound, left>>

BuildCut(p) ==
    LET part == rec[p].pc
    IN  /\ part \in Parts /\ rec[p].ctx /\ Fault
        /\ \E want \in Cut(rec[p].want, part) :
             rec' = [rec EXCEPT ![p].pc = AfterPart[part], ![p].want = want, ![p].cut = TRUE]
        /\ UNCHANGED <<db, api, acme, auto, mu, kick, lastVer, cache, row, queue, edge, sound>>

\* Once returns without touching lastVer.
BuildErr(p) ==
    /\ rec[p].pc \in Parts
    /\ \/ ~rec[p].ctx /\ UNCHANGED left
       \/ rec[p].ctx /\ Fault
    /\ rec' = [rec EXCEPT ![p] = NoPass]
    /\ mu' = Nobody
    /\ UNCHANGED <<db, api, acme, auto, kick, lastVer, cache, row, queue, edge, sound>>

Told(want) == IF want.state = NoState THEN queue ELSE want.state

(* Mutant: flyc-queue is only told of a room when the version has moved. *)
PutRoomMoved(p) ==
    /\ rec[p].pc = "queue"
    /\ \/ /\ rec[p].ctx
          /\ queue' = IF rec[p].ver # lastVer THEN Told(rec[p].want) ELSE queue
          /\ UNCHANGED left
       \/ ~rec[p].ctx /\ UNCHANGED <<queue, left>>
       \/ rec[p].ctx /\ Fault /\ queue' \in {queue, Told(rec[p].want)}
    /\ rec' = [rec EXCEPT ![p].pc = "info", ![p].at = 1]
    /\ UNCHANGED <<db, api, acme, auto, mu, kick, lastVer, cache, row, edge, sound>>

\* The pass goes on whatever flyc-queue answers; a call that fails may have
\* been carried out.
PutRoom(p) ==
    /\ rec[p].pc = "queue"
    /\ \/ rec[p].ctx /\ queue' = Told(rec[p].want) /\ UNCHANGED left
       \/ ~rec[p].ctx /\ UNCHANGED <<queue, left>>
       \/ rec[p].ctx /\ Fault /\ queue' \in {queue, Told(rec[p].want)}
    /\ rec' = [rec EXCEPT ![p].pc = "info", ![p].at = 1]
    /\ UNCHANGED <<db, api, acme, auto, mu, kick, lastVer, cache, row, edge, sound>>

(***************************************************************************)
(* pushEdge: the calls in their order, and what each does to the edge.     *)
(***************************************************************************)

Steps == {"info", "cert", "list", "pass", "prev", "reload", "bks", "route", "state"}

(* Mutant: the crt-lists go first, then the certificates they name. *)
AfterStepListsFirst(step, changed) ==
    CASE step = "info" -> "list"
      [] step = "list" -> "cert"
      [] step = "cert" -> "pass"
      [] step = "pass" -> "prev"
      [] step = "prev" -> IF changed THEN "reload" ELSE "bks"
      [] step = "reload" -> "bks"
      [] step = "bks" -> "route"
      [] step = "route" -> "state"
      [] step = "state" -> "row"

AfterStep(step, changed) ==
    CASE step = "info" -> "cert"
      [] step = "cert" -> "list"
      [] step = "list" -> "pass"
      [] step = "pass" -> "prev"
      [] step = "prev" -> IF changed THEN "reload" ELSE "bks"
      [] step = "reload" -> "bks"
      [] step = "bks" -> "route"
      [] step = "route" -> "state"
      [] step = "state" -> "row"

\* pushedCerts says whether the certificate has to be sent.
Upload(e, want) == want.cert # 0 /\ cache[e] # want.cert

\* UpsertCert: replacing a file makes the API reload, creating one does not.
UpsertCert(x, cert) == ReloadIf([x EXCEPT !.cert = cert], x.cert # 0)

CrtListSync(x, on) == ReloadIf([x EXCEPT !.listed = on], x.listed # on)

CommitBackends(x, bks) == ReloadIf([x EXCEPT !.bks = bks], x.bks # bks)

\* Whether a step calls the edge: a certificate that was sent is not sent
\* again, a key that Build has not found is not written.
Calls(step, e, want) ==
    /\ step = "cert" => Upload(e, want)
    /\ step = "pass" => want.pass # 0
    /\ step = "prev" => want.prev # 0

Effect(step, e, want) ==
    LET x == edge[e]
    IN  IF ~Calls(step, e, want) THEN x ELSE
        CASE step = "info" -> x
          [] step = "cert" -> UpsertCert(x, want.cert)
          [] step = "list" -> CrtListSync(x, want.cert # 0)
          [] step = "pass" -> [x EXCEPT !.pass = want.pass]
          [] step = "prev" -> [x EXCEPT !.prev = want.prev]
          [] step = "reload" -> ReloadIf(x, TRUE)
          [] step = "bks" -> CommitBackends(x, want.bks)
          [] step = "route" -> [x EXCEPT !.route = want.route]
          [] step = "state" -> [x EXCEPT !.state = want.state]

\* GeneralSync tells whether it wrote the file of a key.
KeysChanged(r, x) ==
    \/ r.changed
    \/ r.pc = "pass" /\ r.want.pass \notin {0, x.pass}
    \/ r.pc = "prev" /\ r.want.prev \notin {0, x.prev}

Cached(step, e, want) ==
    IF step = "cert" /\ Upload(e, want) THEN [cache EXCEPT ![e] = want.cert] ELSE cache

Push(p) ==
    LET r == rec[p]
        e == Edges[r.at]
        changed == KeysChanged(r, edge[e])
    IN  /\ r.pc \in Steps /\ r.ctx
        /\ edge' = [edge EXCEPT ![e] = Effect(r.pc, e, r.want)]
        /\ cache' = Cached(r.pc, e, r.want)
        /\ rec' = [rec EXCEPT ![p].pc = AfterStep(r.pc, changed), ![p].changed = changed]
        /\ UNCHANGED <<db, api, acme, auto, mu, kick, lastVer, row, queue, sound, left>>

\* pushEdge returns an error; the call may have been carried out.
PushErr(p) ==
    LET r == rec[p]
        e == Edges[r.at]
    IN  /\ r.pc \in Steps
        /\ \/ ~r.ctx /\ UNCHANGED <<edge, left>>
           \/ /\ r.ctx /\ Fault
              /\ Calls(r.pc, e, r.want)
              /\ \E x \in {edge[e], Effect(r.pc, e, r.want)} : edge' = [edge EXCEPT ![e] = x]
        /\ rec' = [rec EXCEPT ![p].pc = "row", ![p].err = TRUE]
        /\ UNCHANGED <<db, api, acme, auto, mu, kick, lastVer, cache, row, queue, sound>>

Pushed(old, want, err) ==
    IF err THEN [old EXCEPT !.status = "error", !.desired = want]
           ELSE [status |-> "ok", config |-> want, desired |-> want]

(* Mutant: the index of the edge runs past the last one. *)
NextEdgeUnbound(r) ==
    [r EXCEPT !.pc = IF r.at < Len(Edges) THEN "info" ELSE "end",
              !.at = @ + 1, !.changed = FALSE, !.err = FALSE]

NextEdge(r) ==
    [r EXCEPT !.pc = IF r.at < Len(Edges) THEN "info" ELSE "end",
              !.at = IF r.at < Len(Edges) THEN r.at + 1 ELSE 0,
              !.changed = FALSE, !.err = FALSE]

\* The result is written with the pass's own context: it is lost with it.
WriteRow(p) ==
    LET r == rec[p]
        e == Edges[r.at]
    IN  /\ r.pc = "row"
        /\ \/ r.ctx /\ row' = [row EXCEPT ![e] = Pushed(row[e], r.want, r.err)] /\ UNCHANGED left
           \/ ~r.ctx /\ UNCHANGED <<row, left>>
           \/ r.ctx /\ Fault /\ UNCHANGED row
        /\ sound' = [sound EXCEPT ![e] = ~r.err /\ ~r.cut]
        /\ rec' = [rec EXCEPT ![p] = NextEdge(r)]
        /\ UNCHANGED <<db, api, acme, auto, mu, kick, lastVer, cache, queue, edge>>

(* Mutant: lastVer is the version at the end of the pass, not the one read
   before Build. *)
EndPassLate(p) ==
    /\ rec[p].pc = "end"
    /\ lastVer' = db.ver
    /\ rec' = [rec EXCEPT ![p] = NoPass]
    /\ mu' = Nobody
    /\ UNCHANGED <<db, api, acme, auto, kick, cache, row, queue, edge, sound, left>>

EndPass(p) ==
    /\ rec[p].pc = "end"
    /\ lastVer' = rec[p].ver
    /\ rec' = [rec EXCEPT ![p] = NoPass]
    /\ mu' = Nobody
    /\ UNCHANGED <<db, api, acme, auto, kick, cache, row, queue, edge, sound, left>>

\* The client of a request goes away.
Cancel ==
    /\ rec["request"].pc # "idle" /\ rec["request"].ctx
    /\ Fault
    /\ rec' = [rec EXCEPT !["request"].ctx = FALSE]
    /\ UNCHANGED <<db, api, acme, auto, mu, kick, lastVer, cache, row, queue, edge, sound>>

\* flyc-control stops and starts: Run begins with a pass, main kicks.
Restart ==
    /\ Fault
    /\ api' = "idle" /\ acme' = "idle" /\ auto' = "idle"
    /\ rec' = [p \in Caller |-> IF p = "loop" THEN [NoPass EXCEPT !.pc = "lock"] ELSE NoPass]
    /\ mu' = Nobody
    /\ kick' = TRUE
    /\ lastVer' = 0
    /\ cache' = [e \in Edge |-> 0]
    /\ UNCHANGED <<db, row, queue, edge, sound>>

-----------------------------------------------------------------------------
(***************************************************************************)
(* Those who write the database.  The triggers on rooms, backends, servers *)
(* and certificates count the version; signing_keys has none.              *)
(***************************************************************************)

Edit(kind) == kind \in Inputs /\ left.edits > 0 /\ left' = [left EXCEPT !.edits = @ - 1]
Bumped(d) == [d EXCEPT !.ver = @ + 1]

\* The effective state follows a manual one; auto keeps what there is.
WithMode(d, s) == [d EXCEPT !.mode = s, !.eff = IF s = "auto" THEN @ ELSE s]

\* The handler of roomState then runs Once itself.
RoomState(s) ==
    /\ Edit("state")
    /\ rec["request"].pc = "idle"
    /\ db' = Bumped(WithMode(db, s))
    /\ Go("request", "lock")
    /\ UNCHANGED <<api, acme, auto, mu, kick, lastVer, cache, row, queue, edge, sound>>

\* POST /v1/sync runs Once too, with nothing to write.
PostSync ==
    /\ Edit("sync")
    /\ rec["request"].pc = "idle"
    /\ Go("request", "lock")
    /\ UNCHANGED <<db, api, acme, auto, mu, kick, lastVer, cache, row, queue, edge, sound>>

\* A handler writes, then kicks.
Handle(kind, d) ==
    /\ Edit(kind)
    /\ api = "idle" /\ api' = "kick"
    /\ db' = d
    /\ UNCHANGED <<acme, auto, rec, mu, kick, lastVer, cache, row, queue, edge, sound>>

UpsertRoom(s, b) == Handle("room", Bumped([WithMode(db, s) EXCEPT !.route = b]))

UpsertBackend(b, servers) ==
    Handle("backend", Bumped([db EXCEPT !.bks[b] = servers]))

\* rooms.backend_id references backends on delete set null.
DeleteBackend(b) ==
    /\ b \in Existing
    /\ Handle("backend", Bumped([db EXCEPT !.bks[b] = 0,
                                          !.route = IF @ = b THEN NoBackend ELSE @]))

RotateSigningKey == Handle("rotate", [db EXCEPT !.old = @ \cup {db.key}, !.key = @ + 1])

Kick ==
    /\ api = "kick" /\ api' = "idle"
    /\ kick' = TRUE
    /\ UNCHANGED <<db, acme, auto, rec, mu, lastVer, cache, row, queue, edge, sound, left>>

\* A key retired 24 h ago drops out of the query of Build.
KeyExpires(k) ==
    /\ k \in db.old
    /\ db' = [db EXCEPT !.old = @ \ {k}]
    /\ UNCHANGED <<control, row, queue, edge, sound, left>>

\* Issue: the attempt is recorded, then its result.
IssueBegin ==
    /\ Edit("cert")
    /\ acme = "idle" /\ acme' = "obtain"
    /\ db' = Bumped(db)
    /\ UNCHANGED <<api, auto, rec, mu, kick, lastVer, cache, row, queue, edge, sound>>

Issued ==
    /\ acme = "obtain" /\ acme' = "idle"
    /\ db' = Bumped([db EXCEPT !.cert = @ + 1, !.status = "issued"])
    /\ kick' = TRUE
    /\ UNCHANGED <<api, auto, rec, mu, lastVer, cache, row, queue, edge, sound, left>>

IssueFail ==
    /\ acme = "obtain" /\ acme' = "idle"
    /\ db' = Bumped([db EXCEPT !.status = "error"])
    /\ UNCHANGED <<api, auto, rec, mu, kick, lastVer, cache, row, queue, edge, sound, left>>

\* RunAuto: the rooms in mode auto are read, then measured, then switched.
AutoRead ==
    /\ Edit("auto")
    /\ auto = "idle" /\ db.mode = "auto" /\ db.route # NoBackend
    /\ auto' = db.eff
    /\ UNCHANGED <<db, api, acme, rec, mu, kick, lastVer, cache, row, queue, edge, sound>>

AutoNext(eff) == IF eff = "queue" THEN "open" ELSE "queue"

AutoSwitch ==
    /\ auto \in State /\ auto' = "idle"
    /\ db' = Bumped([db EXCEPT !.eff = AutoNext(auto)])
    /\ kick' = TRUE
    /\ UNCHANGED <<api, acme, rec, mu, lastVer, cache, row, queue, edge, sound, left>>

\* Between the thresholds, or with no edge that answers.
AutoKeep ==
    /\ auto \in State /\ auto' = "idle"
    /\ UNCHANGED <<db, api, acme, rec, mu, kick, lastVer, cache, row, queue, edge, sound, left>>

-----------------------------------------------------------------------------
Pass(p) ==
    \/ Lock(p) \/ ReadVer(p) \/ Build(p) \/ BuildCut(p) \/ BuildErr(p)
    \/ PutRoom(p) \/ Push(p) \/ PushErr(p) \/ WriteRow(p) \/ EndPass(p)

Change ==
    \/ \E s \in Modes : RoomState(s)
    \/ PostSync
    \/ \E s \in Modes, b \in Existing \cup {NoBackend} : UpsertRoom(s, b)
    \/ \E b \in Backend, servers \in Servers : UpsertBackend(b, servers)
    \/ \E b \in Backend : DeleteBackend(b)
    \/ RotateSigningKey
    \/ IssueBegin
    \/ AutoRead

Next ==
    \/ OnKick \/ OnTicker \/ OnPoll
    \/ \E p \in Caller : Pass(p)
    \/ Cancel \/ Restart
    \/ Change
    \/ Kick
    \/ \E k \in db.old : KeyExpires(k)
    \/ Issued \/ IssueFail
    \/ AutoSwitch \/ AutoKeep

Spec == Init /\ [][Next]_vars

\* The ticker of the loop fires for ever, a pass or a handler that has begun
\* goes on, and a mutex that is released again and again is acquired.
FairSpec ==
    /\ Spec
    /\ WF_vars(OnTicker)
    /\ \A p \in Caller : SF_vars(Lock(p)) /\ WF_vars(Pass(p))
    /\ WF_vars(Kick) /\ WF_vars(Issued \/ IssueFail) /\ WF_vars(AutoSwitch \/ AutoKeep)

-----------------------------------------------------------------------------
DbType ==
    [mode : State \cup {"auto"}, eff : State, route : Backend \cup {NoBackend},
     bks : [Backend -> Servers \cup {0}], cert : Nat, status : {"issued", "error"},
     key : Nat, old : SUBSET Nat, ver : Nat]

WantType ==
    [bks : [Backend -> 0..Short], route : Backend \cup {NoBackend}, state : State \cup {NoState},
     cert : Nat, pass : Nat, prev : Nat]

PassType ==
    [pc : {"idle", "lock", "ver", "queue", "row", "end"} \cup Parts \cup Steps,
     ctx : BOOLEAN, ver : Nat, want : WantType, cut : BOOLEAN,
     at : 0..Len(Edges), changed : BOOLEAN, err : BOOLEAN]

RowType == [status : {"none", "ok", "error"}, config : WantType, desired : WantType]

EdgeType ==
    [bks : [Backend -> 0..Short], route : Backend \cup {NoBackend},
     state : State \cup {NoState}, cert : Nat, listed : BOOLEAN, pass : Nat, prev : Nat,
     ran : Nat]

\* The type of every variable; a key that was retired is older than the active one.
EdgeTypeOK ==
    /\ db \in DbType /\ \A k \in db.old : k < db.key
    /\ api \in {"idle", "kick"} /\ acme \in {"idle", "obtain"} /\ auto \in State \cup {"idle"}
    /\ rec \in [Caller -> PassType]
    /\ mu \in Caller \cup {Nobody} /\ kick \in BOOLEAN /\ lastVer \in Nat
    /\ cache \in [Edge -> Nat]
    /\ row \in [Edge -> RowType]
    /\ queue \in State
    /\ edge \in [Edge -> EdgeType]
    /\ sound \in [Edge -> BOOLEAN]
    /\ left \in [edits : 0..Edits, faults : 0..Faults]

\* What the version covers: backends, the two maps and the certificate.
Carries(x, want) ==
    /\ x.bks = want.bks /\ x.route = want.route /\ x.state = want.state
    /\ x.listed = (want.cert # 0)
    /\ want.cert # 0 => x.cert = want.cert

\* When no pass runs and the version the reconciler remembers is that of the
\* database, an edge whose last push met no error, in its Build either, carries
\* exactly what the database asks for, although the database was read in several
\* queries while it changed.  The poll of 3 s of Run leaves the edge alone on
\* the strength of this.
Settled ==
    mu = Nobody /\ lastVer = db.ver =>
        \A e \in Edge : sound[e] => Carries(edge[e], Desired)

\* A crt-list never names a certificate whose file is not on the edge, and a
\* certificate remembered as sent is there: pushEdge skips the upload on the
\* word of pushedCerts and HAProxy refuses to load such a list.
ListedExists ==
    \A e \in Edge : edge[e].listed \/ cache[e] # 0 => edge[e].cert # 0

\* Once the changes and the faults are over every edge, and flyc-queue, end
\* with what the database asks for, keys included, and stay so: what an error
\* or a restart left undone the ticker of 60 s makes up for.
Converges ==
    <>[](/\ queue = Desired.state
         /\ \A e \in Edge : /\ Carries(edge[e], Desired)
                            /\ edge[e].pass = Desired.pass /\ edge[e].prev = Desired.prev)

InSync(e) == row[e].status # "none" /\ row[e].config = row[e].desired

\* An edge that listEdges reports in_sync with the active signing key runs a
\* HAProxy that has loaded this key: after a rotation the edges are reloaded.
KeysLoaded ==
    mu = Nobody =>
        \A e \in Edge : InSync(e) /\ row[e].config.pass = db.key => edge[e].ran = db.key

\* A room an operator switched by hand stays as it was switched: RunAuto is for
\* the rooms in mode auto.
ManualSticks == db.mode # "auto" => db.eff = db.mode
=============================================================================
