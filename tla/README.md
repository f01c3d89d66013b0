# Flyc, modelled in TLA+

Flyc puts a waiting room in front of web sites. HAProxy edges send visitors
without a pass to a waiting page; `flyc-queue` keeps the queue in Redis and
signs passes; `flyc-control` holds tenants, rooms, keys and certificates in
PostgreSQL and pushes them to the edges and to the queue; a runner executes
playbooks for it. This directory models the parts of Flyc whose behaviour
depends on who acts first and on what dies in between.

## 1. Inventory

| Component | State | Operations | Hard behaviour | What makes it correct |
|---|---|---|---|---|
| Room store and admitter (`queue/internal/store`, `admitter`, `room`) | Redis keys of a room: `cfg`, tickets, waves, `pending`, `active`, `lastwave`, `lock`; per replica: lease, tokens, ids in hand | take or renew the lease, close elapsed waves (SPOP, shuffle, ZADD, DEL), sweep orphan waves, refill tokens, pop, mint, mark admitted | several replicas, a lease that expires while its holder works, pipelines that are not transactions, crashes with ids in memory | one place per visitor, kept; rate and `max_active` respected; waves in order; nobody forgotten |
| Queue API (`queue/internal/api`) | requests in flight | ticket, status, events, PUT room, flush | works on copies read earlier, repairs the queue (Requeue) | repairs never duplicate or move a visitor |
| Event hub (`queue/internal/hub`) | subscribers, channels of 8, one pub/sub per room | subscribe, pump, status every 5 s, unsubscribe | hubs cancelled and replaced, full channels, events before the subscription | a published admission reaches the streams that are up |
| Waiting page (`wait/dist/app.js`) | ticket, stream, poll timer | start, poll, stream, error, reopen | timers and streams replace each other | a page learns of its admission |
| Job manager, runner, runner replacement (`control/internal/jobs`, `runner/run.py`, `runner-refresh.sh`) | table `jobs`, files `.request.json`, `.claim`, `.result.json`, `.paused` | submit, refresh, clean up; sweep, claim, run, report; pause, replace | three processes sharing files, each may die anywhere | a job runs once at most, its row is honest and final |
| Reconciler, compiler, dataplane and queue clients (`control/internal/reconcile`, `compile`, `dataplane`, `queueclient`) | version last pushed, pushed certificates, table `edges`; on an edge: backends, maps, crt-lists, keys on disk and keys loaded | compile, tell the queue, push step by step, reload, automatic opening; handlers and the ACME manager write under it | a state read in several queries, pushes that fail half way, caches, a pass of a request beside the loop's | a change is never taken as pushed when it is not; every edge ends up with the database's state |
| Signing keys (`bootstrap`, `pass`, `queue/internal/keys`) | current and previous key on control, edges and replicas | rotate, publish, fetch | different views at different times | a valid pass is accepted everywhere |
| Certificates (`acme`) | certificate rows, challenges | ten-minute pass, triggered issue | two issues at once, failed renewal | a valid certificate stays in use |
| Inventory and enrollment (`control/internal/inventory`, `api/inventory.go`, `api/enroll.go`) | tables `nodes`, `platform_settings`, the registries `edges` and `queue_hosts`, enrollment tokens; in memory the edges and queue hosts in use | seed, create, patch, delete nodes, ports, registry rows; derive the registries and the topology at every pass; enroll | handlers that read in one statement and write in another, a derivation of ten statements, a start that dies while seeding | an inventory that can be deployed stays so; what is derived follows; the seed serves once |
| Accounts (`control/internal/auth`, `api/session.go`, `bootstrap`) | users, memberships, sessions, OIDC states, the file with the first password | log in and out, OIDC, change and reset passwords, TOTP, create and delete users, purge | requests authenticated before and acting after another's change, ignored errors, a start that dies | ended sessions stay ended, no orphan, one account per address, an administrator is left |
| UI, migrations, Ansible roles, tools, SDKs | - | - | - | not modelled: see section 7 |

Interactions: page -> edge -> queue API (HTTP, SSE); API and admitters share
Redis and its pub/sub channel; control pushes room configurations to the queue
API and serves its signing key; control and runner share one directory. The
reconciler takes its edges and queue hosts from the inventory at every pass, and
every job carries the inventory rendered when it was submitted.

## 2. Modules

* `VisitorLine` - the abstract promise to one visitor: join once, draw one
  place, keep it, enter from the line only with it.
* `WaitingRoom` - one room. An action is one Redis command or a pipeline that
  no one can observe in the middle. `inWave`, `pending`, `active`, `lastWave`,
  `lock`, `cfg`, `ticket` are the keys; `pc`, `loop`, `tick`, `batch`, `work`
  are a replica's program counter and the locals of `loop`, `tickOnce`,
  `CloseWave`; `req` is a request in flight between its read and its write.
  `Acquire*`/`Renew` follow `Store.Acquire`, `BeginTick` .. `FinishTick` follow
  `tickOnce` in order, `TickErr`, `DelErr`, `SweepErr`, `AdmitSkip`, `AdmitErr`
  are its error returns, each with the partial effects the failed command or
  pipeline may have had. `Crash` and `Stop` end a replica at any step. A stop is no
  gentler than a crash as far as the room goes: `httpx.Serve` returns when the server is
  shut down, `main` then exits, with open event streams without calling `cancel` at all
  (`queue/cmd/flyc-queue/main.go:136-139`), and nobody waits for the admitter's loops. So
  `Stop` may cut a tick anywhere (budget `cut`, as between SPOP and ZADD) or fall between
  two (budget `stop`), and a leader has released its lease by then
  (`admitter.go:105-110`) or leaves it to run out. SETNX and the GET of the lease are one
  step. Mint, cookies, domains and the contents of a pass are
  left out. Rates are whole numbers per second, so that tokens are integers.
* `EventStream` - one replica's hub, the streams and pages of the visitors.
  The admitter appears as `Mark` and `Publish`, the two steps by which it
  touches this part. Slots are `roomHub` objects: two are enough to have an old
  and a new one at once. A status and a poll may come at any time.
* `JobProtocol` - the files in the shared directory, the row of each job, the
  handler, the refresh goroutine, the runner and the script, one step per
  file-system or SQL operation that another process can see.
* `EdgeSync` - the reconciler of `flyc-control`, one room on one domain and any
  number of edges. `rec` holds the two passes of `Once` that may exist at a
  time, the loop's and a request's; `Lock`, `ReadVer`, `Build` (one step per
  query), `PutRoom`, `Push` (one step per call of `pushEdge`, in its order),
  `WriteRow`, `EndPass` follow `Once`. `BuildCut`, `BuildErr`, `PushErr` and the
  last disjuncts of the others are failures, a call that fails may have been
  carried out; `Cancel` ends the context of a request, `Restart` the process.
  Those who write the database are actions of their own: the handlers (write,
  then `Kick`), `Issue` and `fail`, `RunAuto` (read, measure, write). An edge is
  external: what the Dataplane API writes, and in `ran` the key that HAProxy has
  loaded. A list of servers is a number standing for what `pushEdge` compares,
  names, addresses, ports and weights.
* `Inventory` - nodes, ports, registries, topology and tokens, one action per SQL
  statement. `boot` follows `main` through `Apply`; `pass` is the statement
  `Sync` or `reloadTopology` is at, with its locals (one pass at a time, under
  the reconciler's mutex); `req` the handlers between the statement that reads
  and the one that writes, with what they read; `report` an `enrollDone` between
  its two. The YAML of `Render` is the groups and the draining nodes, or one of its two
  errors, `ErrIncomplete` and the one of `yamlScalar`; of the settings the two ports the
  registries use are kept, and in `scalar` whether every one of `extra_vars` can be
  written.
* `Accounts` - users, memberships, sessions and OIDC states, one action per SQL
  statement, again with the handlers in flight in `req`. `Authenticate` is the
  select of `Sessions.Current`, `Slide` its update, the handler's own statements
  follow; `Find`, `InsertUser`, `Bind`, `Grant`, `Create` are `oidcCallback`.
  Inputs are chosen where they are used. A wrong password, code or claim is a
  refusal and leaves nothing behind but a prolonged session. An id in a path is either
  spelt as the database prints it (`canonical`) or otherwise, which the check of
  `deleteUser` sees as another and its DELETE as the same. `Lost` is a
  statement that fails, ignored or not as the code has it.
* `MC*` - constants, budgets and symmetry for TLC.
* `WaitingRoomProofs` (types), `PlacementProofs` (placement, refinement) and
  `AdmissionProofs` (order, punctuality, limits, nobody forgotten), each on top of
  the one before; `EventStreamProofs`, `JobProtocolProofs`, `EdgeSyncProofs`,
  `InventoryProofs`, `AccountsProofs` - the theorems, section 5.

Operators whose comment starts with "Mutant:" are wrong variants of the
definition that follows them. No specification uses them; each shows that one
property notices the mistake.

## 3. Runs

Time is in seconds of the model; the lease (5 s) and the pass (60 s and more)
are scaled down, the ratios that matter are kept: a lease outlives a tick, a
wave outlives the grace second.

| Run | Instance | Shows |
|---|---|---|
| `calm` | 3 tickets, 2 replicas, waves of 2 s closed at 60 and 62, lease of 2 s, one stop between two ticks or inside one, or one change of the room | `ActiveCap`, `RateBound`, `WaveOrder`, `DrawOnTime`, `NoneStranded` hold through a take-over |
| `faults` | 2 tickets, 2 replicas, any two of stop inside a tick, command error, stall beyond the lease, late insertion, flush, configuration | `TypeOK`, `Placement`, `NoneStranded`, and the room implements `VisitorLine` |
| `live` | 2 tickets, 2 replicas, one crash, stop (inside a tick or not), error anywhere, or a refused change of the room; 8 s with a sweep | `EventuallyAdmitted` |
| `hub` | 2 visitors, 2 hubs, channel of 1, a broken stream, a configuration event, a lost event | `StreamTypeOK`, `OneLiveHub`, `OwedInTransit` |
| `page` | 1 visitor, 2 hubs, 2 configuration events | `PollingLearns` |
| `jobs` | 2 jobs, 1 script, 2 faults | `JobTypeOK`, `RunsOnce`, `VerdictHonest`, `NoSilentGhost`, `DoneIsFinal` |
| `jobs_live` | 1 job, 2 scripts, 2 faults | `DepositedFinishes` |
| `inventory` | 2 nodes, 2 starts (a seed; no seed over the registries of an older installation), 2 requests, 2 at a time, 1 fault | `InventoryTypeOK`, `SeedOnce`, `InStep`, `Deployable`, `EmptyIsNoOrder`, `TopologyFollows`, `TokenFinal` |
| `accounts` | 3 addresses, 3 starts (first start, two administrators, two callbacks), 2 requests at once, 1 ageing, 1 fault | `AccountsTypeOK`, `AdminRemains`, `FirstPasswordKept`, `TotpUsable`, `SessionOver`, `ChangeRevokes`, `Purged` |
| `edges` | 2 edges, 2 backends, one change of any kind at any step, one fault of any kind | `EdgeTypeOK`, `Settled`, `ListedExists`, `Converges` |

Why these bounds: two replicas are needed for a take-over and a third adds
only another one that waits; two waves are what an order between waves needs;
a ticket can be touched by at most an admitter, a request and a flush at once,
which all occur; two faults allow a fault during the recovery from another.
`RateBound` and `ActiveCap` are not claimed when commands fail: after a failed
`MarkAdmitted` the code neither pays the token nor puts the ticket in the
active set although the pass may exist. The premises of the room's properties
name the events under which the code does not promise them:

* `Without(K)`: no event of the kinds `K` so far; `Harm` is a crash, a stop that cuts a
  tick, an error, a late insertion, a flush.
* `SameWaves`, `SameTerms`: no accepted configuration changes `wave_s`, or the rate,
  `max_active` and a room that is not open. Under another `wave_s` wave numbers of
  different lengths do not compare (`admitter.go:154` names the case); a pass given in
  state `open` is not counted at all.
* `Steady` (`ActiveCap`, `RateBound`): no error, stall or late insertion, and
  `SameTerms`; crashes, stops of either kind, restarts and flushes are allowed.
* `OnCourse` (`WaveOrder`, `DrawOnTime`): nothing of `Harm`, no stall, `SameWaves`,
  and `Rolling`: one replica is always up, and the seconds stops may have cost
  do not add up to a wave. A stop between two ticks costs `Delay` seconds at most: one if
  the lease was released, and what is left of it otherwise, up to four seconds with a
  lease of five. A stop inside a tick is excluded: ids it loses between SPOP and ZADD are
  in no set while later waves are drawn and admitted, until their pages poll. When all replicas are away before a room has closed its
  first wave, or for more than 200 waves, the closing resumes at `cur - 2`
  (`admitter.go:155`), and older waves wait for a sweep.
* `SweepsOnTime` (`NoneStranded`): no stall, or sweeps that fall on the start of a
  wave and stalls shorter than a wave; see the end of this section.
* `Cardinality(Ticket) <= 10000000` (`WaveOrder`): the ranks of a score
  (`room.go:164`); a larger wave runs into the next one.

In `calm` the lease is as long as a wave and there is no grace second, because what a
stop that leaves the lease costs must not fill a wave. The bound of `DrawOnTime` is
attained there; waves of three seconds with a lease of three, where a stop costs two, were
checked apart (2.1 million states). `calm` and `faults` have no crash of their own: a
stop that cuts a tick or falls between two and leaves the lease does what a crash does.
`Crash` itself is in `live`. A stop between two ticks beside a stall is not in a run;
`NobodyIsStranded` covers it.

In `edges` one change against one fault already meets every pair of steps of a
pass and a writer; the keys it expires and the certificate it issues come on top
of it. Larger instances, each with one backend, were checked too: two faults on one edge
with `Converges`, two faults and two changes on two edges apart for the
invariants; they take longer than is worth waiting for each time. `Settled` speaks of edges
whose last push met no error, in `Build` either; what an error left behind is
for `Converges`, which needs the ticker.

`Build`'s reads of the backends and of their servers are one step in `EdgeSync`. In
`JobProtocol` the errors of `os.Remove`, which `cleanup` ignores, are not among the
faults.

The budgets count each kind of fault and all of them together. `Tick` may not
pass a replica that is due or working, or a request about to enter a wave that
closes, except against the budgets `stall` and `late`: the code's loops wake
every second and its requests are short, but nothing enforces it.

In `inventory` and `accounts` two requests are enough for every pair of handlers
to overlap at every pair of their statements, with a pass or a purge between
them; the starts stand for what earlier requests have left, so that a request need
not be spent on it. Where the code does not guard against an overlap the
history variable `past` records that it happened, and the property that rests on
its absence names it: `Mishaps` lists these cases in each module. `Deployable` needs no such
entry for a structure in `extra_vars`: it says that only the step of a settings request
that carries one, its own or one it read, makes an inventory unwritable. `accounts` was
also checked with three requests, for all but `Purged` (8 million states, eleven
minutes).

Two runs show where the code differs from what it says:

* `lost_reload`: a key written to an edge without the reload that has to follow
  is never loaded, and the edge is reported in sync (`reconcile.go:292`).
* `auto_race`: the automatic mode overwrites a state an operator has set since
  the room was read, and nothing corrects it (`reconcile.go:460`).

Other things met while modelling, without a run of their own.

Queue and page: the sweep's orphan waves are "neither the current one nor the one
before" (`store.go:225`) as of the beginning of the tick, not of the SCAN. A wave that
begins between the two is listed too: its first visitors are drawn before its
time, and the DEL of `CloseWave` removes a ticket that enters after the last SPOP. With
`wave_s = 1` a tick that crosses a second is enough; with the default of 30 sweeps
fall on the start of a wave, and the tick would have to last as long as one. The
inductive invariant of `NoneStranded` could not be closed without excluding it.
An admission dropped by a full channel, or published just before
its stream subscribed, is not made up for by later messages, against "le suivant
rattrapera" (`hub.go:200`): the page goes on showing statuses; with `wave_s = 1` a
fresh room draws no wave before the sweep of 30 s (`admitter.go:155`); a
flushed visitor returns at the next poll of his page (`store.go:371`,
`api.go:265`); a page
opened while the room is closed says it will update itself
and never does (`app.js:45`, `app.js:122`).

Jobs and edges: a job claimed while
`runner-refresh.sh` looks is stopped with its container (`run.py:231-241`); the
reply to a change of state "guarantees that the balancers have switched" also
when the push failed (`tenant.go:414`); balance, check path and `maxconn` of a
backend that exists on an edge are never updated (`reconcile.go:325-370`); two
rotations within 24 h drop a key whose passes are valid (`compile.go:163`); a query
of `Build` that breaks while its rows are read is taken for a complete one, and
the edges lose backends or routes for up to a minute, reported in sync
(`compile.go:65`; `BuildCut` in `EdgeSync`).

Inventory: `POST /v1/nodes` under an existing name replaces the node, the data host
included, and two creations of a data host at once, or one whose count fails, both
succeed (`api/inventory.go:89-100`): nothing can be deployed then, nor after a
`PUT /v1/settings` whose `extra_vars` hold a list or an object, which is stored
(`api/inventory.go:212`) and refused only by `Render` (`inventory.go:198-202`); `patchNode` brings
back a node deleted since it was read, and two `putSettings` at once lose one
change (`api/inventory.go:153`, `:210`); a seeding cut short is never resumed
(`seed.go:54`); a report on a token deleted meanwhile is answered as a success
(`enroll.go:281`).

Accounts: an enabling of TOTP overtaken by another change of the secret leaves an
account that asks for a code nobody can give (`api/session.go:306`), until its
password is reset; two administrators can delete each other (`:396`), and an administrator himself by
spelling his id in capitals or without hyphens, because the check compares texts and the
DELETE uuids; `changePassword` and `totpDisable` ignore an error when they read the
present hash and then skip its comparison (no property depends on it); a creation
naming an unknown tenant answers 201 without a membership (`:386`); if the answer
to the insertion of the first administrator is lost, the account stays and its
password file is removed (`bootstrap.go:219`).

## 4. Fairness

* Room: the loops run, a crashed process is restarted (compose's `restart:
  unless-stopped`), the key client retries until it has a key, requests that
  were sent are handled, and a page polls while its ticket waits. In `live`
  (`Eager`) every waiting page polls once before the clock moves. No fault, arrival
  or operator action is forced.
* Stream: timers of a page fire, goroutines run, a stream that is up is
  written to. A visitor need not come back to the tab (`Nudge` is not fair)
  and nothing need break.
* Jobs: control and runner are restarted and go on, a script ends (it waits an
  hour at most), an untouched flag gets old.

* Edges: the ticker of 60 s fires for ever, a pass or handler that has begun
  goes on (every call has a timeout), and a waiting `Lock` succeeds if the mutex
  is released again and again (strong fairness: Go's mutex hands itself to a
  waiter after a millisecond). `OnKick` and `OnPoll` need no fairness, and no
  change or fault is forced.

* Inventory: `main` goes on after a start, the ticker of 60 s begins a pass, and a
  pass goes on. No request, report or fault is forced.
* Accounts: `main` goes on, and purges at the start and every hour.

The runs of the room, the stream and the jobs say `CHECK_DEADLOCK FALSE`: a room whose clock reached its bound
with nobody waiting, a visitor who has been let in and a finished job are
meant to stop. Control never stops, so that the runs of `EdgeSync`, `Inventory`
and `Accounts` check for deadlock.

## 5. Proofs

Every safety property of every passing run is a theorem, for all values of the
constants: the invariants, the action properties and the refinement. Each rests on an inductive invariant that
is a conjunction of named parts; what follows says why the parts are there.

### The room

`TypeCorrect`: `TypeOK` is inductive as it stands; the lemmas give the type of
every record update.

`PlacementCorrect`. "Two places never disagree" is not inductive by itself: an
admitter holding a batch (between SPOP and ZADD) would draw a second score for a
ticket that another one has drawn meanwhile. `Placement` therefore says also that
a ticket in a wave or in a batch waits and has no score (`UndrawnWaits`), that
batches are disjoint from each other and from the waves (`BatchesApart`), that
the copy a handler read is 0 or the score (`ScoresAgree`), that a request about to
create a ticket has a fresh one (`CreatesFresh`, `FreshClean`), and that a replica
holds ids only where its program counter says so (`HandsEmpty`). Three lemmas cover
the actions: those that move nothing, those that lose ids, those that draw or mark.

`RoomImplementsLine`: the refinement of `VisitorLine`, `stage` the ticket's status
and `place` its score, from both invariants: a draw needs `UndrawnWaits`, an
admission needs the score of a popped ticket to be drawn.

`AdmissionProofs` proves the quantitative properties. `BudgetOK` makes their
premises monotone: once an event has happened it has happened for good, so that each
invariant is proved for the steps its premise leaves (`CalmNext`, `PromptNext`,
`SteadyNext`), and holds vacuously after the others.

* `NobodyIsStranded` from `CalmInv`: a waiting visitor is in a wave, in an
  admitter's hands or has a score (`ShelterInv`). The DEL at the end of `CloseWave`
  breaks this unless the wave is over and stays empty (`ClosedInv`), which needs that
  requests enter only waves that are not over (`EntryInv`) and that a replica's tick
  began no earlier than its stalls explain (`LagInv`). As first stated, with stalls but
  without `SweepsOnTime`, the property is false (section 3).
* `DrawsAreOnTime` from `LeaseInv` and `DrawInv`: who works holds the lease at the
  time its tick began, `lastwave` is behind every wave that may still fill, a tick
  closes elapsed waves in order, and whenever a wave is due someone holds the lease or
  will still ask for it in this second, or the lease is one a stop has left and its end is
  no later than the stops so far explain (`Served`). `Delayed` counts these seconds; that a
  lease ends soon enough after its holder's last tick is a part of `LeaseInv`.
* `WavesInOrder` from `OrderInv` on top of these: scores lie in the interval of
  their wave (`ScoredInv`, which needs the ranks to fit), whoever waits with a score
  is in `pending` or popped (`QueuedInv`), and what `ZPOPMIN` took is lowest
  (`HeadsInv`).
* `RoomNeverOverfull` and `RateNeverExceeded` allow crashes, so that the lease may
  belong to nobody. `SoleInv`: one replica works at a time, and within the second its
  tick began. `PassInv` and `CapInv`: the active set knows every valid pass, and the
  active and those about to be admitted fit together. `Bucket`: what a replica admitted
  and holds was earned up to its own last tick; alone this would let two leaders
  earn the same second, so `LeadersInv` says that one that lost the lease has yet
  to notice in this second, and that whoever took over has no tokens until then.

### The other components

* `JobProtocolProofs`: one invariant for all five theorems. `Untouched` says that
  a job without a request has left no trace, `ClaimInv` that an unclaimed request
  was never worked on, `FollowInv` what `refresh` has established before each of the
  three removals of `cleanup`; the order of these is what it proves right. `JobTypeOK`
  was strengthened to be inductive: a process that ended has an exit code.
* `EventStreamProofs`: `OneLiveHub` needs that the registered hub's pump is alive
  and that a subscribed connection names a slot; `OwedInTransit` that a stream which is
  owed an admission was set up before it.
* `EdgeSyncProofs`: who holds the mutex (`MutexInv`); that a part read since the
  version was read is what the version stands for, unless it has moved (`WantInv`);
  that serial numbers only grow from the database to the edge to the cache
  (`CertInv`); which calls a pass has behind it at the edge it is at, and that edges it
  has done carry what it wants (`PushInv`). `Settled` follows where no pass is pushing.
* `InventoryProofs`: what a request still knows of the data host when it writes
  (`RequestInv`), how far `Apply` has come (`SeedInv`), what an undisturbed pass has
  brought about after each of its statements (`PassInv`). That extra_vars are spoilt only
  by a request that carries a structure is a lemma about the steps. The action properties
  `Deployable`, `EmptyIsNoOrder` and `TokenFinal` follow from the same invariant.
* `AccountsProofs`: every action that writes `users` is an insertion, an update or
  a deletion of one row (`OneRow`), every one that writes `sessions` one of four
  steps (`OneSession`); the invariants are proved for these few. A deletion comes from an
  administrator who is another, or one of the two mishaps `AdminRemains` names has
  happened. `RequestInv` says
  what a request in flight knows, `RevokeInv` how far a change of password has come.

### Assumptions

Constants are finite sets, natural bounds and names that differ
(`ConstantsAssumption`, `StreamAssumption`, `JobAssumption`, `EdgesAssumption`,
`InputsAssumption`, `BoundsAssumption`, `LimitsAssumption`). Beyond that:

* `WavesAssumption`: the grace second is no longer than a wave (`Validate` gives
  `wave_s >= 1`), and the clock has passed a wave since 1970.
* `BackendAssumption`: a room has at least one backend to choose.
* `StartsAssumption`: what control finds at its start are rows the tables' unique
  indexes and foreign keys allow, with an administrator if there is an account, a secret
  where TOTP is enabled, and no password that is still to be generated.
* `SeedDataAssumption`: a seed has exactly one data host. `tools/setup.sh:180-183`
  writes inventories that way and control runs on that host; `Apply` does not check
  it. `Deployable` and `SeedOnce` need it: a seed with two data hosts is accepted and
  can never be deployed.
* `ProviderAssumption`, `ModesAssumption`, `SeedsAssumption`: shapes of inputs.

TLC evaluates all of them in the runs.

### Only model-checked

`EventuallyAdmitted`, `PollingLearns`, `DepositedFinishes`, `Converges`,
`TopologyFollows` and `Purged` are liveness properties under fairness, which, with
ENABLED, the prover does not handle. The two violated properties are no theorems.

## 6. Plan

Done: the six components with their runs, and the proofs of all safety properties.
To come, in this order:

1. Refinements: the job protocol against an abstract job (submitted, running, over,
   run once), the stream against an abstract promise to a page.
2. The replicas' view of the signing keys, deletion of rooms and domains, the
   ten-minute pass of the ACME manager against its trigger.

The order of the modules was by what a visitor notices first: the room, the
stream and the edge, then what operators see.

## 7. Not modelled

Signatures, password hashing and the verification of tokens (a check succeeds or
refuses); tenants, domains, API keys and audit rows (single SQL statements);
the tenant routes' minimal role, read once with the session; the administration UI; database migrations (at the start, each in
its own transaction);
HAProxy's configuration and the Ansible roles (third-party behaviour; the edge
of `EdgeSync` is external); the tools, SDKs and the load test. Within the modelled
parts: the expiry of tickets after 24 h, several rooms (they share no state),
the delay of the Dataplane API before it reloads, the metrics,
Redis failing over to a replica and losing acknowledged writes, iframe mode,
the restart of a page after a 404, and a replacement script killed while
compose has the runner stopped.
