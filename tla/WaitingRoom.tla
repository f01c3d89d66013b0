----------------------------- MODULE WaitingRoom -----------------------------
(***************************************************************************)
(* One waiting room of flyc-queue: the Redis keys of the room, the         *)
(* admitter loop of every replica and the public handlers that write.      *)
(*                                                                         *)
(* One action is one Redis command, or one pipeline where no other client  *)
(* can tell its commands apart.  A pipeline is not a transaction: where    *)
(* another client can act between two of its commands the model has two    *)
(* actions.  Time is a clock in seconds; a replica that is still working,  *)
(* or a request still in flight, may let it pass only against a budget.    *)
(***************************************************************************)
EXTENDS Integers, FiniteSets

CONSTANTS
    Ticket,       \* ticket ids newID may draw
    Replica,      \* flyc-queue processes
    Configs,      \* bodies PUT /internal/rooms/{room} may carry
    InitCfg,      \* configuration of the room at the start
    Start,        \* unix time at the start
    MaxTime,      \* bound: the clock stops there
    ArrivalEnd,   \* bound: no ticket is asked for after this time
    LeaseTTL,     \* lockTTL, 5 s in the code
    WaveGrace,    \* waveGrace, 1 s
    CatchUp,      \* waves a late lastwave or a flush goes back, 200
    SweepSec,     \* period of the orphan sweep, 30 s
    BurstSec,     \* capacity of the token bucket, 5 s of rate
    MinPassTTL,   \* below it Validate falls back to the default, 60 s
    Eager,        \* TRUE: every waiting page polls before the clock moves
    Budget        \* bound: how often each fault or operator action happens

VARIABLES
    now,            \* the clock
    cfg,            \* HASH cfg
    ticket,         \* HASH t:<id>
    inWave,         \* SET wave:<n>: its members are the tickets of wave n here
    pending,        \* ZSET pending: score of a member, 0 when absent
    active,         \* ZSET active: expiry of a member, 0 when absent
    lastWave,       \* STRING lastwave, -1 when absent
    lock,           \* STRING lock with its expiry
    admittedTotal,  \* admitted_total of HASH stats
    pc,             \* where each replica's loop is
    loop,           \* locals of Manager.loop
    tick,           \* locals of tickOnce
    batch,          \* ids CloseWave holds between SPOP and ZADD
    work,           \* ids tickOnce holds between ZPOPMIN and MarkAdmitted
    req,            \* the request in flight for each ticket
    polled,         \* tickets whose page polled in this second (Eager only)
    flush,          \* the flush in progress
    budget          \* what is left of Budget

storeVars == <<cfg, ticket, inWave, pending, active, lastWave, lock, admittedTotal>>
replicaVars == <<pc, loop, tick, batch, work>>
clientVars == <<req, polled, flush>>
vars == <<now, storeVars, replicaVars, clientVars, budget>>

NoOne == "no one"     \* lock absent
Gone == "gone"        \* lock held under the name of a process that died
States == {"open", "queue", "closed"}
BudgetKeys == {"crash", "stop", "cut", "err", "stall", "late", "flush", "conf", "all"}

(* A configuration as the code may read it: Validate has bounded it. *)
Config == [state : States, rate : Nat \ {0}, maxActive : Int,
           waveSec : Nat \ {0}, passTTL : Nat \ {0}]
(* A configuration as a caller may send it. *)
RawConfig == [state : States \cup {"unset", "other"}, rate : Int, maxActive : Int,
              waveSec : Int, passTTL : Int]

ASSUME ConstantsAssumption ==
    /\ IsFiniteSet(Ticket)
    /\ IsFiniteSet(Replica) /\ Replica \cap {NoOne, Gone} = {}
    /\ Configs \subseteq RawConfig
    /\ InitCfg \in Config
    /\ Start \in Nat /\ MaxTime \in Nat /\ ArrivalEnd \in Nat
    /\ LeaseTTL \in Nat \ {0} /\ WaveGrace \in Nat /\ CatchUp \in Nat
    /\ SweepSec \in Nat \ {0} /\ BurstSec \in Nat \ {0}
    /\ MinPassTTL \in Nat \ {0}
    /\ Eager \in BOOLEAN
    /\ Budget \in [BudgetKeys -> Nat]

(* The grace second is no longer than a wave (Validate: wave_s is 1 at     *)
(* least), and the clock, which counts from the epoch, is past wave 0.     *)
ASSUME WavesAssumption == WaveGrace <= InitCfg.waveSec /\ InitCfg.waveSec <= Start

MinOf(a, b) == IF a <= b THEN a ELSE b

-----------------------------------------------------------------------------
(* room.go *)

Wave(t, waveSec) == t \div waveSec

(* Mutant: rank and wave swapped. *)
WaveScoreSwapped(wave, rank) == rank * 10000000 + wave

WaveScore(wave, rank) == wave * 10000000 + rank

(* Values Validate refuses. *)
Refused(c) == \/ c.state = "other"
              \/ c.rate > 100000
              \/ c.waveSec > 600
              \/ c.passTTL > 86400

(* Mutant: the default of wave_s is forgotten. *)
ValidateNoWaveDefault(c) ==
    [state     |-> IF c.state = "unset" THEN "queue" ELSE c.state,
     rate      |-> IF c.rate <= 0 THEN 10 ELSE c.rate,
     maxActive |-> c.maxActive,
     waveSec   |-> c.waveSec,
     passTTL   |-> IF c.passTTL < MinPassTTL THEN 1200 ELSE c.passTTL]

(* What Validate makes of the others: the defaults of the room package. *)
Validate(c) ==
    [state     |-> IF c.state = "unset" THEN "queue" ELSE c.state,
     rate      |-> IF c.rate <= 0 THEN 10 ELSE c.rate,
     maxActive |-> c.maxActive,
     waveSec   |-> IF c.waveSec < 1 THEN 30 ELSE c.waveSec,
     passTTL   |-> IF c.passTTL < MinPassTTL THEN 1200 ELSE c.passTTL]

-----------------------------------------------------------------------------
(* Views of the store *)

WaveMembers(n) == {t \in inWave : ticket[t].wave = n}
WaveKeys == {ticket[t].wave : t \in inWave}
PendingSet == {t \in Ticket : pending[t] # 0}
Purged(at) == [t \in Ticket |-> IF active[t] <= at THEN 0 ELSE active[t]]
LockFree == lock.owner = NoOne \/ lock.exp <= now
Alive(r) == pc[r] # "down"

(* The sets ZPOPMIN pending k may return; equal scores leave a choice. *)
Heads(k) == {S \in SUBSET PendingSet :
                /\ Cardinality(S) = MinOf(k, Cardinality(PendingSet))
                /\ \A t \in S, u \in PendingSet \ S : pending[t] <= pending[u]}

(* The ranks a shuffle of S may give. *)
Shuffles(S) == {f \in [S -> 0..(Cardinality(S) - 1)] :
                   \A t, u \in S : f[t] = f[u] => t = u}

NoTicket == [status |-> "none", wave |-> 0, score |-> 0, exp |-> 0]
NoReq == [pc |-> "idle", val |-> 0, due |-> 0]
NoTick == [now |-> 0, dt |-> 0, cfg |-> InitCfg, n |-> 0, strays |-> {},
           sweep |-> FALSE, k |-> 0, done |-> 0]
NoFlush == [pc |-> "idle", cur |-> 0]

(* The bound on one kind of event, and on all of them together. *)
CanSpend(key) == budget[key] > 0 /\ budget["all"] > 0
Spend(key) == /\ CanSpend(key)
              /\ budget' = [budget EXCEPT ![key] = @ - 1, !["all"] = @ - 1]

Init ==
    /\ now = Start
    /\ cfg = InitCfg
    /\ ticket = [t \in Ticket |-> NoTicket]
    /\ inWave = {}
    /\ pending = [t \in Ticket |-> 0]
    /\ active = [t \in Ticket |-> 0]
    /\ lastWave = -1
    /\ lock = [owner |-> NoOne, exp |-> 0]
    /\ admittedTotal = 0
    /\ pc = [r \in Replica |-> "idle"]
    /\ loop = [r \in Replica |-> [leader |-> FALSE, tokens |-> 0, last |-> Start,
                                  wake |-> Start, key |-> TRUE]]
    /\ tick = [r \in Replica |-> NoTick]
    /\ batch = [r \in Replica |-> {}]
    /\ work = [r \in Replica |-> {}]
    /\ req = [t \in Ticket |-> NoReq]
    /\ polled = {}
    /\ flush = NoFlush
    /\ budget = Budget

-----------------------------------------------------------------------------
(* The clock.  The admitter loops wake once a second and requests are      *)
(* short: letting the clock pass a replica that is working or due is a     *)
(* stall, letting it pass the closing time of the wave a request is about  *)
(* to enter is a late insertion, and both are budgeted.                    *)

Slow == {r \in Replica : Alive(r) /\ (pc[r] # "idle" \/ loop[r].wake <= now)}
Late == {t \in Ticket : req[t].pc = "create" /\ req[t].due <= now + 1}

Tick ==
    /\ now < MaxTime
    /\ Eager => /\ \A t \in Ticket :
                      /\ req[t].pc = "idle"
                      /\ ticket[t].status = "waiting" => t \in polled
                /\ \A r \in Replica : Alive(r) /\ loop[r].key
    /\ CASE Late # {} -> Spend("late")
         [] Late = {} /\ Slow # {} -> Spend("stall")
         [] OTHER -> UNCHANGED budget
    /\ now' = now + 1
    /\ polled' = {}
    /\ UNCHANGED <<storeVars, replicaVars, req, flush>>

-----------------------------------------------------------------------------
(* Public handlers (api.go) *)

(* POST ticket, up to the write: the configuration and the time are read. *)
TicketBegin(t) ==
    /\ req[t].pc = "idle"
    /\ ticket[t].status = "none"
    /\ now <= ArrivalEnd
    /\ \/ /\ cfg.state = "queue"
          /\ LET w == Wave(now, cfg.waveSec)
             IN req' = [req EXCEPT ![t] =
                          [pc |-> "create", val |-> w,
                           due |-> (w + 1) * cfg.waveSec + WaveGrace]]
       \/ /\ cfg.state = "open"
          /\ \E r \in Replica : Alive(r) /\ loop[r].key
          /\ req' = [req EXCEPT ![t] =
                       [pc |-> "direct", val |-> now + cfg.passTTL, due |-> 0]]
    /\ UNCHANGED <<now, storeVars, replicaVars, polled, flush, budget>>

CreateTicket(t) ==
    /\ req[t].pc = "create"
    /\ ticket' = [ticket EXCEPT ![t] = [status |-> "waiting", wave |-> req[t].val,
                                        score |-> 0, exp |-> 0]]
    /\ inWave' = inWave \cup {t}
    /\ req' = [req EXCEPT ![t] = NoReq]
    /\ UNCHANGED <<now, cfg, pending, active, lastWave, lock, admittedTotal,
                   replicaVars, polled, flush, budget>>

(* The pass is valid but the ticket does not enter the active set. *)
AdmitDirect(t) ==
    /\ req[t].pc = "direct"
    /\ ticket' = [ticket EXCEPT ![t] = [status |-> "admitted", wave |-> 0,
                                        score |-> 0, exp |-> req[t].val]]
    /\ admittedTotal' = admittedTotal + 1
    /\ req' = [req EXCEPT ![t] = NoReq]
    /\ UNCHANGED <<now, cfg, inWave, pending, active, lastWave, lock,
                   replicaVars, polled, flush, budget>>

(* GET status, the stream of events or POST ticket with a cookie: the      *)
(* ticket is read first, and what follows works on that copy.              *)
StatusRead(t) ==
    /\ req[t].pc = "idle"
    /\ ticket[t].status = "waiting"
    /\ cfg.state # "closed"
    /\ Eager => t \notin polled
    /\ req' = [req EXCEPT ![t] = [pc |-> "rank", val |-> ticket[t].score, due |-> 0]]
    /\ UNCHANGED <<now, storeVars, replicaVars, polled, flush, budget>>

(* Mutant: statusOf only reports, it does not put the ticket back. *)
StatusRankNoRequeue(t) ==
    /\ req[t].pc = "rank"
    /\ active' = Purged(now)
    /\ req' = [req EXCEPT ![t] = NoReq]
    /\ polled' = IF Eager THEN polled \cup {t} ELSE polled
    /\ UNCHANGED <<now, cfg, ticket, inWave, pending, lastWave, lock, admittedTotal,
                   replicaVars, flush, budget>>

(* statusOf: Counts purges the active set, then Rank looks for the ticket. *)
StatusRank(t) ==
    /\ req[t].pc = "rank"
    /\ active' = Purged(now)
    /\ IF pending[t] = 0 /\ req[t].val > 0
         THEN /\ req' = [req EXCEPT ![t].pc = "requeue"]
              /\ UNCHANGED polled
         ELSE /\ req' = [req EXCEPT ![t] = NoReq]
              /\ polled' = IF Eager THEN polled \cup {t} ELSE polled
    /\ UNCHANGED <<now, cfg, ticket, inWave, pending, lastWave, lock, admittedTotal,
                   replicaVars, flush, budget>>

(* Mutant: the copy's status is written back too. *)
StatusRequeueCopy(t) ==
    /\ req[t].pc = "requeue"
    /\ pending' = [pending EXCEPT ![t] = req[t].val]
    /\ ticket' = [ticket EXCEPT ![t].status = "waiting"]
    /\ req' = [req EXCEPT ![t] = NoReq]
    /\ polled' = IF Eager THEN polled \cup {t} ELSE polled
    /\ UNCHANGED <<now, cfg, inWave, active, lastWave, lock, admittedTotal,
                   replicaVars, flush, budget>>

(* Requeue: ZADD with the score of the copy. *)
StatusRequeue(t) ==
    /\ req[t].pc = "requeue"
    /\ pending' = [pending EXCEPT ![t] = req[t].val]
    /\ req' = [req EXCEPT ![t] = NoReq]
    /\ polled' = IF Eager THEN polled \cup {t} ELSE polled
    /\ UNCHANGED <<now, cfg, ticket, inWave, active, lastWave, lock, admittedTotal,
                   replicaVars, flush, budget>>

-----------------------------------------------------------------------------
(* Internal handlers *)

(* PUT room: a refused body changes nothing, the others are normalised. *)
PutRoom(c) ==
    /\ Spend("conf")
    /\ cfg' = IF Refused(c) THEN cfg ELSE Validate(c)
    /\ UNCHANGED <<now, ticket, inWave, pending, active, lastWave, lock, admittedTotal,
                   replicaVars, clientVars>>

(* POST flush, first command of the pipeline. *)
FlushPending ==
    /\ flush.pc = "idle"
    /\ Spend("flush")
    /\ pending' = [t \in Ticket |-> 0]
    /\ flush' = [pc |-> "waves", cur |-> Wave(now, cfg.waveSec)]
    /\ UNCHANGED <<now, cfg, ticket, inWave, active, lastWave, lock, admittedTotal,
                   replicaVars, req, polled>>

(* The rest of it: the recent waves are deleted and lastwave is set. *)
FlushWaves ==
    /\ flush.pc = "waves"
    /\ inWave' = {t \in inWave :
                    ticket[t].wave \notin (flush.cur - CatchUp)..(flush.cur + 1)}
    /\ lastWave' = flush.cur - 1
    /\ flush' = NoFlush
    /\ UNCHANGED <<now, cfg, ticket, pending, active, lock, admittedTotal,
                   replicaVars, req, polled, budget>>

-----------------------------------------------------------------------------
(* The admitter loop (Manager.loop) *)

Due(r) == pc[r] = "idle" /\ loop[r].wake <= now
Goto(r, to) == pc' = [pc EXCEPT ![r] = to]

(* The end of an iteration: the loop sleeps one second. *)
Slept(r, tokens) == [loop[r] EXCEPT !.tokens = tokens, !.wake = now + 1]

Sleep(r) ==
    /\ Goto(r, "idle")
    /\ tick' = [tick EXCEPT ![r] = NoTick]
    /\ batch' = [batch EXCEPT ![r] = {}]
    /\ work' = [work EXCEPT ![r] = {}]

(* Acquire: SET NX succeeds. *)
AcquireSet(r) ==
    /\ Due(r)
    /\ LockFree
    /\ lock' = [owner |-> r, exp |-> now + LeaseTTL]
    /\ Goto(r, "begin")
    /\ UNCHANGED <<now, cfg, ticket, inWave, pending, active, lastWave, admittedTotal,
                   loop, tick, batch, work, clientVars, budget>>

(* Acquire: SET NX fails and GET shows this process: the lease is renewed next. *)
AcquireOwn(r) ==
    /\ Due(r)
    /\ ~LockFree
    /\ lock.owner = r
    /\ Goto(r, "renew")
    /\ UNCHANGED <<now, storeVars, loop, tick, batch, work, clientVars, budget>>

(* EXPIRE by key: it extends whatever lease is there by now, and a missing *)
(* key is no error.                                                        *)
Renew(r) ==
    /\ pc[r] = "renew"
    /\ lock' = IF LockFree THEN lock ELSE [lock EXCEPT !.exp = now + LeaseTTL]
    /\ Goto(r, "begin")
    /\ UNCHANGED <<now, cfg, ticket, inWave, pending, active, lastWave, admittedTotal,
                   loop, tick, batch, work, clientVars, budget>>

(* Acquire: someone else holds the lease. *)
AcquireLost(r) ==
    /\ Due(r)
    /\ ~LockFree
    /\ lock.owner # r
    /\ loop' = [loop EXCEPT ![r] = [leader |-> FALSE, tokens |-> 0, last |-> now,
                                    wake |-> now + 1, key |-> @.key]]
    /\ UNCHANGED <<now, storeVars, pc, tick, batch, work, clientVars, budget>>

(* Acquire fails: the iteration ends, leader, tokens and last are kept.    *)
(* The SET or the EXPIRE may have reached Redis although the reply is lost. *)
AcquireErr(r) ==
    /\ Due(r) \/ pc[r] = "renew"
    /\ Spend("err")
    /\ \/ UNCHANGED lock
       \/ /\ pc[r] = "idle" /\ LockFree
          /\ lock' = [owner |-> r, exp |-> now + LeaseTTL]
       \/ /\ pc[r] = "renew" /\ ~LockFree
          /\ lock' = [lock EXCEPT !.exp = now + LeaseTTL]
    /\ loop' = [loop EXCEPT ![r] = Slept(r, loop[r].tokens)]
    /\ Goto(r, "idle")
    /\ UNCHANGED <<now, cfg, ticket, inWave, pending, active, lastWave, admittedTotal,
                   tick, batch, work, clientVars>>

-----------------------------------------------------------------------------
(* tickOnce *)

(* Mutant: without lastwave the wave that just ended is skipped. *)
ResumeWaveLate(cur) ==
    IF lastWave < 0 \/ lastWave < cur - CatchUp \/ lastWave >= cur
      THEN cur - 1 ELSE lastWave

(* Where the closing of waves resumes. *)
ResumeWave(cur) ==
    IF lastWave < 0 \/ lastWave < cur - CatchUp \/ lastWave >= cur
      THEN cur - 2 ELSE lastWave

(* The time, the configuration and lastwave are read. *)
BeginTick(r) ==
    /\ pc[r] = "begin"
    /\ tick' = [tick EXCEPT ![r] =
                  [now |-> now, dt |-> IF loop[r].leader THEN now - loop[r].last ELSE 0,
                   cfg |-> cfg, n |-> ResumeWave(Wave(now, cfg.waveSec)) + 1,
                   strays |-> {}, sweep |-> FALSE, k |-> 0, done |-> 0]]
    /\ loop' = [loop EXCEPT ![r] = [@ EXCEPT !.leader = TRUE, !.last = now]]
    /\ Goto(r, "waves")
    /\ UNCHANGED <<now, storeVars, batch, work, clientVars, budget>>

Cur(r) == Wave(tick[r].now, tick[r].cfg.waveSec)
(* Mutant: the current wave is closed too, without waiting for its end. *)
ElapsedEarly(r) == tick[r].n <= Cur(r)

Elapsed(r) == /\ tick[r].n < Cur(r)
              /\ (tick[r].n + 1) * tick[r].cfg.waveSec + WaveGrace <= tick[r].now

NextWave(r) == [tick[r] EXCEPT !.n = @ + 1]

(* Mutant: SMEMBERS instead of SPOP. *)
PopWaveKept(r, n) ==
    /\ WaveMembers(n) # {}
    /\ batch' = [batch EXCEPT ![r] = WaveMembers(n)]
    /\ Goto(r, "rank")
    /\ UNCHANGED <<inWave, lastWave>>

(* CloseWave, SPOP until the set is empty. *)
PopWave(r, n) ==
    /\ WaveMembers(n) # {}
    /\ batch' = [batch EXCEPT ![r] = WaveMembers(n)]
    /\ inWave' = inWave \ WaveMembers(n)
    /\ Goto(r, "rank")
    /\ UNCHANGED lastWave

CloseElapsed(r) ==
    /\ pc[r] = "waves"
    /\ Elapsed(r)
    /\ \/ /\ PopWave(r, tick[r].n)
          /\ UNCHANGED tick
       \/ /\ WaveMembers(tick[r].n) = {}
          /\ lastWave' = tick[r].n
          /\ tick' = [tick EXCEPT ![r] = NextWave(r)]
          /\ UNCHANGED <<pc, batch, inWave>>
    /\ UNCHANGED <<now, cfg, ticket, pending, active, lock, admittedTotal,
                   loop, work, clientVars, budget>>

(* The orphan waves of the sweep. *)
Strays(r) == WaveKeys \ {Cur(r), Cur(r) - 1}
SweepOf(r, S) == [tick[r] EXCEPT !.strays = S, !.sweep = TRUE]

(* No wave is left to close; every SweepSec the orphan waves are listed. *)
WavesDone(r) ==
    /\ pc[r] = "waves"
    /\ ~Elapsed(r)
    /\ IF tick[r].now % SweepSec = 0
         THEN /\ tick' = [tick EXCEPT ![r] = SweepOf(r, Strays(r))]
              /\ Goto(r, "sweep")
         ELSE /\ Goto(r, "count")
              /\ UNCHANGED tick
    /\ UNCHANGED <<now, storeVars, loop, batch, work, clientVars, budget>>

(* An error while they are listed is only logged: what was found so far is *)
(* swept.                                                                  *)
SweepErr(r) ==
    /\ pc[r] = "waves"
    /\ ~Elapsed(r)
    /\ tick[r].now % SweepSec = 0
    /\ Spend("err")
    /\ \E S \in SUBSET Strays(r) : tick' = [tick EXCEPT ![r] = SweepOf(r, S)]
    /\ Goto(r, "sweep")
    /\ UNCHANGED <<now, storeVars, loop, batch, work, clientVars>>

TakeStray(r, n) == [tick[r] EXCEPT !.n = n, !.strays = tick[r].strays \ {n}]

CloseStray(r) ==
    /\ pc[r] = "sweep"
    /\ \E n \in tick[r].strays :
         /\ tick' = [tick EXCEPT ![r] = TakeStray(r, n)]
         /\ \/ PopWave(r, n)
            \/ /\ WaveMembers(n) = {}
               /\ UNCHANGED <<pc, batch, inWave, lastWave>>
    /\ UNCHANGED <<now, cfg, ticket, pending, active, lock, admittedTotal,
                   loop, work, clientVars, budget>>

SweepDone(r) ==
    /\ pc[r] = "sweep"
    /\ tick[r].strays = {}
    /\ Goto(r, "count")
    /\ UNCHANGED <<now, storeVars, loop, tick, batch, work, clientVars, budget>>

Scored(t, score) == [ticket[t] EXCEPT !.score = score]

(* CloseWave, the shuffled ids get their score and enter pending. *)
RankWave(r) ==
    /\ pc[r] = "rank"
    /\ \E f \in Shuffles(batch[r]) :
         /\ ticket' = [t \in Ticket |->
                         IF t \in batch[r]
                           THEN Scored(t, WaveScore(tick[r].n, f[t]))
                           ELSE ticket[t]]
         /\ pending' = [t \in Ticket |->
                          IF t \in batch[r] THEN WaveScore(tick[r].n, f[t])
                                            ELSE pending[t]]
    /\ batch' = [batch EXCEPT ![r] = {}]
    /\ Goto(r, "del")
    /\ UNCHANGED <<now, cfg, inWave, active, lastWave, lock, admittedTotal,
                   loop, tick, work, clientVars, budget>>

(* The wave is closed; an elapsed one is recorded in lastwave. *)
Record(r) ==
    IF tick[r].sweep
      THEN /\ Goto(r, "sweep")
           /\ UNCHANGED <<lastWave, tick>>
      ELSE /\ lastWave' = tick[r].n
           /\ tick' = [tick EXCEPT ![r] = NextWave(r)]
           /\ Goto(r, "waves")

(* CloseWave ends with DEL of the key, whatever it holds by now. *)
DelWave(r) ==
    /\ pc[r] = "del"
    /\ inWave' = inWave \ WaveMembers(tick[r].n)
    /\ Record(r)
    /\ UNCHANGED <<now, cfg, ticket, pending, active, lock, admittedTotal,
                   loop, batch, work, clientVars, budget>>

(* Token bucket after the credit of this tick. *)
Refilled(r) == MinOf(loop[r].tokens + tick[r].cfg.rate * tick[r].dt,
                     tick[r].cfg.rate * BurstSec)

(* Mutant: max_active is ignored. *)
QuotaNoCap(r, pend, act, tokens) == MinOf(tokens, pend)

(* How many tickets this tick may admit. *)
Quota(r, pend, act, tokens) ==
    LET c == tick[r].cfg
        free == IF c.maxActive > 0 THEN MinOf(tokens, c.maxActive - act) ELSE tokens
    IN MinOf(free, pend)

(* Counts, the credit of tokens and the decision to admit. *)
Count(r) ==
    /\ pc[r] = "count"
    /\ active' = Purged(tick[r].now)
    /\ LET tokens == Refilled(r)
           act == Cardinality({t \in Ticket : active'[t] # 0})
           k == Quota(r, Cardinality(PendingSet), act, tokens)
           admit == tick[r].cfg.state = "queue" /\ k > 0 /\ loop[r].key
       IN IF admit
            THEN /\ loop' = [loop EXCEPT ![r].tokens = tokens]
                 /\ tick' = [tick EXCEPT ![r].k = k]
                 /\ Goto(r, "pop")
                 /\ UNCHANGED <<batch, work>>
            ELSE /\ loop' = [loop EXCEPT ![r] = Slept(r, tokens)]
                 /\ Sleep(r)
    /\ UNCHANGED <<now, cfg, ticket, inWave, pending, lastWave, lock, admittedTotal,
                   clientVars, budget>>

(* PopPending *)
Pop(r) ==
    /\ pc[r] = "pop"
    /\ \E S \in Heads(tick[r].k) :
         /\ work' = [work EXCEPT ![r] = S]
         /\ pending' = [t \in Ticket |-> IF t \in S THEN 0 ELSE pending[t]]
    /\ Goto(r, "admit")
    /\ UNCHANGED <<now, cfg, ticket, inWave, active, lastWave, lock, admittedTotal,
                   loop, tick, batch, clientVars, budget>>

(* The popped ids are taken in the order of their scores. *)
NextIds(r) == {t \in work[r] : \A u \in work[r] : ticket[t].score <= ticket[u].score}

Marked(t, exp) == [ticket[t] EXCEPT !.status = "admitted", !.exp = exp]

(* GetTicket, Mint and MarkAdmitted of one id. *)
Admit(r) ==
    /\ pc[r] = "admit"
    /\ \E t \in NextIds(r) :
         LET exp == tick[r].now + tick[r].cfg.passTTL
         IN /\ ticket' = [ticket EXCEPT ![t] = Marked(t, exp)]
            /\ active' = [active EXCEPT ![t] = exp]
            /\ work' = [work EXCEPT ![r] = @ \ {t}]
    /\ admittedTotal' = admittedTotal + 1
    /\ tick' = [tick EXCEPT ![r].done = @ + 1]
    /\ UNCHANGED <<now, cfg, inWave, pending, lastWave, lock, pc, loop, batch,
                   clientVars, budget>>

(* Mutant: the tokens of the admitted are not paid. *)
FinishTickUnpaid(r) ==
    /\ pc[r] = "admit"
    /\ work[r] = {}
    /\ loop' = [loop EXCEPT ![r] = Slept(r, loop[r].tokens)]
    /\ Sleep(r)
    /\ UNCHANGED <<now, storeVars, clientVars, budget>>

(* All popped ids are done: the tokens are paid and the event published. *)
FinishTick(r) ==
    /\ pc[r] = "admit"
    /\ work[r] = {}
    /\ loop' = [loop EXCEPT ![r] = Slept(r, loop[r].tokens - tick[r].done)]
    /\ Sleep(r)
    /\ UNCHANGED <<now, storeVars, clientVars, budget>>

-----------------------------------------------------------------------------
(* Failures.  A command may fail before or after it took effect. *)

(* A failed command ends the tick with its error; the tokens stay.         *)
(* A failed read of the configuration or of lastwave is one at "waves".    *)
(*   waves, sweep: SPOP may have emptied the wave, which no one holds now; *)
(*   rank: some scores are written, and ZADD is applied or not;            *)
(*   del: lastwave is not set, after DEL or without it;                    *)
(*   pop: ZPOPMIN may have taken the heads.                                *)
TickErr(r) ==
    /\ pc[r] \in {"waves", "sweep", "rank", "del", "count", "pop"}
    /\ pc[r] = "del" => ~tick[r].sweep
    /\ Spend("err")
    /\ \/ UNCHANGED <<ticket, inWave, pending>>
       \/ /\ (pc[r] = "waves" /\ Elapsed(r)) \/ pc[r] = "del"
          /\ inWave' = inWave \ WaveMembers(tick[r].n)
          /\ UNCHANGED <<ticket, pending>>
       \/ /\ pc[r] = "sweep"
          /\ \E n \in tick[r].strays : inWave' = inWave \ WaveMembers(n)
          /\ UNCHANGED <<ticket, pending>>
       \/ /\ pc[r] = "rank"
          /\ \E f \in Shuffles(batch[r]), S \in SUBSET batch[r] :
               /\ ticket' = [t \in Ticket |->
                                IF t \in S
                                  THEN Scored(t, WaveScore(tick[r].n, f[t]))
                                  ELSE ticket[t]]
               /\ \/ UNCHANGED pending
                  \/ /\ S = batch[r]
                     /\ pending' = [t \in Ticket |->
                                      IF t \in S THEN WaveScore(tick[r].n, f[t])
                                                 ELSE pending[t]]
          /\ UNCHANGED inWave
       \/ /\ pc[r] = "pop"
          /\ \E S \in Heads(tick[r].k) :
               pending' = [t \in Ticket |-> IF t \in S THEN 0 ELSE pending[t]]
          /\ UNCHANGED <<ticket, inWave>>
    /\ loop' = [loop EXCEPT ![r] = Slept(r, loop[r].tokens)]
    /\ Sleep(r)
    /\ UNCHANGED <<now, cfg, active, lastWave, lock, admittedTotal, clientVars>>

(* DEL alone fails: CloseWave does not look at its error. *)
DelErr(r) ==
    /\ pc[r] = "del"
    /\ Spend("err")
    /\ Record(r)
    /\ UNCHANGED <<now, cfg, ticket, inWave, pending, active, lock, admittedTotal,
                   loop, batch, work, clientVars>>

(* GetTicket fails: the id is skipped and stays out of pending.  Mint      *)
(* fails: the id is put back, if Redis answers.                            *)
AdmitSkip(r) ==
    /\ pc[r] = "admit"
    /\ Spend("err")
    /\ \E t \in NextIds(r) :
         /\ work' = [work EXCEPT ![r] = @ \ {t}]
         /\ pending' \in {pending, [pending EXCEPT ![t] = ticket[t].score]}
    /\ UNCHANGED <<now, cfg, ticket, inWave, active, lastWave, lock, admittedTotal,
                   pc, loop, tick, batch, clientVars>>

(* MarkAdmitted fails: a prefix of its pipeline may have been applied, the *)
(* id is put back if Redis answers, and the tick ends: the other popped    *)
(* ids are dropped, the tokens are not paid and no event is published.     *)
AdmitErr(r) ==
    /\ pc[r] = "admit"
    /\ Spend("err")
    /\ \E t \in NextIds(r) :
         LET exp == tick[r].now + tick[r].cfg.passTTL
             marked == [ticket EXCEPT ![t] = Marked(t, exp)]
         IN /\ \/ UNCHANGED <<ticket, active, admittedTotal>>
               \/ ticket' = marked /\ UNCHANGED <<active, admittedTotal>>
               \/ /\ ticket' = marked
                  /\ active' = [active EXCEPT ![t] = exp]
                  /\ admittedTotal' \in {admittedTotal, admittedTotal + 1}
            /\ pending' \in {pending, [pending EXCEPT ![t] = ticket[t].score]}
    /\ loop' = [loop EXCEPT ![r] = Slept(r, loop[r].tokens)]
    /\ Sleep(r)
    /\ UNCHANGED <<now, cfg, inWave, lastWave, lock, clientVars>>

Halt(r) ==
    /\ Goto(r, "down")
    /\ tick' = [tick EXCEPT ![r] = NoTick]
    /\ batch' = [batch EXCEPT ![r] = {}]
    /\ work' = [work EXCEPT ![r] = {}]
    /\ UNCHANGED <<now, cfg, ticket, inWave, pending, active, lastWave, admittedTotal,
                   loop, clientVars>>

(* A lease that is left stays under a name no process has. *)
LeaveLease(r) == lock' = IF lock.owner = r THEN [lock EXCEPT !.owner = Gone] ELSE lock

(* The process dies. *)
Crash(r) ==
    /\ Alive(r)
    /\ Spend("crash")
    /\ Halt(r)
    /\ LeaveLease(r)

(* An ordinary stop.  The process ends without waiting for its loops: the  *)
(* end falls between two ticks or cuts one, and a leader has released its  *)
(* lease by then or leaves it.                                             *)
Stop(r) ==
    /\ Alive(r)
    /\ \/ pc[r] = "idle" /\ Spend("stop")
       \/ pc[r] # "idle" /\ Spend("cut")
    /\ Halt(r)
    /\ \/ LeaveLease(r)
       \/ /\ lock.owner = r
          /\ loop[r].leader \/ pc[r] = "begin"
          /\ lock' = [owner |-> NoOne, exp |-> 0]

Restart(r) ==
    /\ pc[r] = "down"
    /\ Goto(r, "idle")
    /\ loop' = [loop EXCEPT ![r] = [leader |-> FALSE, tokens |-> 0, last |-> now,
                                    wake |-> now + 1, key |-> FALSE]]
    /\ UNCHANGED <<now, storeVars, tick, batch, work, clientVars, budget>>

(* The key client loads the signing key from flyc-control. *)
FetchKey(r) ==
    /\ Alive(r)
    /\ ~loop[r].key
    /\ loop' = [loop EXCEPT ![r].key = TRUE]
    /\ UNCHANGED <<now, storeVars, pc, tick, batch, work, clientVars, budget>>

-----------------------------------------------------------------------------
Client(t) == \/ TicketBegin(t) \/ CreateTicket(t) \/ AdmitDirect(t)
             \/ StatusRead(t) \/ StatusRank(t) \/ StatusRequeue(t)

Step(r) == \/ AcquireSet(r) \/ AcquireOwn(r) \/ Renew(r) \/ AcquireLost(r)
           \/ BeginTick(r) \/ CloseElapsed(r) \/ WavesDone(r) \/ CloseStray(r)
           \/ SweepDone(r) \/ RankWave(r) \/ DelWave(r)
           \/ Count(r) \/ Pop(r) \/ Admit(r) \/ FinishTick(r)

Failure(r) == \/ AcquireErr(r) \/ SweepErr(r) \/ TickErr(r) \/ DelErr(r)
              \/ AdmitSkip(r) \/ AdmitErr(r) \/ Crash(r) \/ Stop(r)

Operator == (\E c \in Configs : PutRoom(c)) \/ FlushPending

Next == \/ Tick
        \/ \E t \in Ticket : Client(t)
        \/ \E r \in Replica : Step(r) \/ Failure(r) \/ Restart(r) \/ FetchKey(r)
        \/ Operator \/ FlushWaves

Spec == Init /\ [][Next]_vars

-----------------------------------------------------------------------------
(* Properties *)

PcValues == {"idle", "renew", "begin", "waves", "sweep", "rank", "del", "count",
             "pop", "admit", "down"}
ReqValues == {"idle", "create", "direct", "rank", "requeue"}
TicketRec == [status : {"none", "waiting", "admitted"}, wave : Int, score : Int, exp : Int]
LockRec == [owner : Replica \cup {NoOne, Gone}, exp : Nat]
LoopRec == [leader : BOOLEAN, tokens : Int, last : Nat, wake : Nat, key : BOOLEAN]
TickRec == [now : Nat, dt : Int, cfg : Config, n : Int, strays : SUBSET Int,
            sweep : BOOLEAN, k : Int, done : Nat]
ReqRec == [pc : ReqValues, val : Int, due : Int]
FlushRec == [pc : {"idle", "waves"}, cur : Int]

(* Type correctness of the whole room: in particular no stored             *)
(* configuration makes room.Wave divide by zero.                           *)
TypeOK ==
    /\ now \in Nat
    /\ cfg \in Config
    /\ ticket \in [Ticket -> TicketRec]
    /\ inWave \subseteq Ticket
    /\ pending \in [Ticket -> Int]
    /\ active \in [Ticket -> Int]
    /\ lastWave \in Int
    /\ lock \in LockRec
    /\ admittedTotal \in Nat
    /\ pc \in [Replica -> PcValues]
    /\ loop \in [Replica -> LoopRec]
    /\ tick \in [Replica -> TickRec]
    /\ batch \in [Replica -> SUBSET Ticket]
    /\ work \in [Replica -> SUBSET Ticket]
    /\ req \in [Ticket -> ReqRec]
    /\ polled \subseteq Ticket
    /\ flush \in FlushRec
    /\ budget \in [BudgetKeys -> Int]

ValidPasses == {t \in Ticket : ticket[t].status = "admitted" /\ ticket[t].exp > now}
Waiting == {t \in Ticket : ticket[t].status = "waiting"}
Held(t) == \E r \in Replica : t \in batch[r] \cup work[r]

(* None of these events so far. *)
Without(K) == \A k \in K : budget[k] = Budget[k]
Harm == {"crash", "cut", "err", "late", "flush"}

(* The limits are what they were and the room was never open. *)
SameTerms ==
    /\ InitCfg.state # "open"
    /\ \/ Without({"conf"})
       \/ \A c \in Configs : \/ Refused(c)
                             \/ LET v == Validate(c)
                                IN  /\ v.state # "open" /\ v.rate = InitCfg.rate
                                    /\ v.maxActive = InitCfg.maxActive

(* No replica outlives its lease and no command fails; replicas may crash, *)
(* stop and come back, and the room may be flushed.                        *)
Steady == Without({"err", "stall", "late"}) /\ SameTerms

(* max_active: there are never more valid passes than the room allows. The *)
(* admitter only sees the active set, which it purges and fills itself.    *)
ActiveCap ==
    Steady /\ cfg.maxActive > 0 => Cardinality(ValidPasses) <= cfg.maxActive

(* rate: the visitors admitted since the start, together with what any     *)
(* live bucket may still spend, never exceed what the rate allows,         *)
(* whichever replicas held the lease: a takeover mints no tokens and none  *)
(* is spent twice.                                                         *)
Credit(r) == IF Alive(r) THEN loop[r].tokens - tick[r].done ELSE 0
RateBound ==
    Steady => \A r \in Replica :
        admittedTotal + Credit(r) <= InitCfg.rate * (now - Start)

(* Waves are numbered by their length: no change of the room alters it.    *)
SameWaves == \/ Without({"conf"})
             \/ \A c \in Configs : Refused(c) \/ Validate(c).waveSec = InitCfg.waveSec

(* What a stop between two ticks costs at most: a second when the lease    *)
(* was released, and what the lease still has to run when it was left.     *)
Delay == IF LeaseTTL > 2 THEN LeaseTTL - 1 ELSE 1
Stopped == Budget["stop"] - budget["stop"]
Delayed == Stopped * Delay

(* Replicas are replaced one by one: one is always up, and what the stops  *)
(* so far may each have cost does not add up to a wave.                    *)
Rolling == /\ Stopped < Cardinality(Replica)
           /\ WaveGrace + Delayed < InitCfg.waveSec

(* Nothing keeps the lease from closing every wave in its turn: replicas   *)
(* are stopped one by one and between two ticks.                           *)
OnCourse == Without(Harm \cup {"stall"}) /\ SameWaves /\ Rolling

(* Waves are ordered among themselves: as long as no replica outlives its  *)
(* lease, no stop cuts a tick and ranks fit in a score, no visitor of a    *)
(* later wave is admitted while one of an earlier wave is still waiting.   *)
WaveOrder ==
    OnCourse /\ Cardinality(Ticket) <= 10000000 =>
      \A t, u \in Ticket :
          (ticket[t].status = "admitted" /\ u \in Waiting)
              => ticket[t].wave <= ticket[u].wave

(* A page shows how long its wave has left before the draw (wave_in_s):    *)
(* the draw happens at the first tick after it, and every stop of a        *)
(* replica between two ticks delays it by what its lease may outlive it.   *)
DrawOnTime ==
    OnCourse => \A t \in inWave :
        now <= (ticket[t].wave + 1) * cfg.waveSec + WaveGrace + Delayed

(* A waiting ticket nothing will ever admit: it is in no set, no admitter  *)
(* holds it, and it has no score with which a poll would put it back.      *)
Stranded(t) == /\ t \in Waiting \ inWave
               /\ pending[t] = 0 /\ ~Held(t) /\ ticket[t].score = 0

(* The sweep spares the wave of its tick's time and the one before it. A   *)
(* replica that stalls lists the waves later than that: it finds none that *)
(* is still open only if sweeps fall on the start of a wave and no tick    *)
(* lasts as long as one.                                                   *)
SweepsOnTime ==
    \/ Without({"stall"})
    \/ /\ Budget["stall"] < InitCfg.waveSec
       /\ \E m \in 1..SweepSec : SweepSec = m * InitCfg.waveSec

(* Handing tickets from wave to pending to pass strands no visitor, also   *)
(* when two admitters overlap or replicas stop between two ticks: only a   *)
(* crash or a stop inside a tick, an error, a late insertion, a flush, a   *)
(* change of the length of waves or a belated sweep does.                  *)
NoneStranded ==
    Without(Harm) /\ SameWaves /\ SweepsOnTime => \A t \in Ticket : ~Stranded(t)

(* Where a ticket may be.  Before its draw a ticket is in one wave or in   *)
(* the hands of one admitter, never in pending; pending, the popped ids    *)
(* and the copies handlers work on all agree with the one score drawn,     *)
(* through crashes, errors, overlapping admitters and flushes.             *)
Undrawn(t) == t \in inWave \/ \E r \in Replica : t \in batch[r]

FreshClean == \A t \in Ticket :
    ticket[t].status = "none" => ticket[t].score = 0 /\ ~Undrawn(t)

UndrawnWaits == \A t \in Ticket :
    Undrawn(t) => ticket[t].status = "waiting" /\ ticket[t].score = 0

BatchesApart == \A r \in Replica :
    /\ batch[r] \cap inWave = {}
    /\ \A s \in Replica \ {r} : batch[r] \cap batch[s] = {}

ScoresAgree ==
    /\ \A t \in Ticket : pending[t] # 0 => pending[t] = ticket[t].score
    /\ \A r \in Replica : \A t \in work[r] : ticket[t].score # 0
    /\ \A t \in Ticket :
          req[t].pc \in {"rank", "requeue"} => req[t].val \in {0, ticket[t].score}

CreatesFresh == \A t \in Ticket :
    req[t].pc \in {"create", "direct"} => ticket[t].status = "none"

HandsEmpty == \A r \in Replica :
    /\ pc[r] # "rank" => batch[r] = {}
    /\ pc[r] # "admit" => work[r] = {}

Placement == /\ FreshClean /\ UndrawnWaits /\ BatchesApart
             /\ ScoresAgree /\ CreatesFresh /\ HandsEmpty

(* The room implements the line of visitors. *)
Line == INSTANCE VisitorLine WITH
          Visitor <- Ticket,
          stage <- [t \in Ticket |-> ticket[t].status],
          place <- [t \in Ticket |-> ticket[t].score]

(* Seen from a visitor the room is that line: one place per visitor, kept  *)
(* for good, and no way in from the line without it.                       *)
ImplementsLine == Line!LineSpec

-----------------------------------------------------------------------------
(* Fairness: the loops, the supervised restart, the key client and the     *)
(* requests in flight go on; a page polls as long as its ticket waits. No  *)
(* fault and no arrival is forced.                                         *)
Fairness ==
    /\ WF_vars(Tick)
    /\ \A r \in Replica : WF_vars(Step(r)) /\ WF_vars(Restart(r)) /\ WF_vars(FetchKey(r))
    /\ \A t \in Ticket : WF_vars(CreateTicket(t) \/ AdmitDirect(t) \/ StatusRead(t)
                                  \/ StatusRank(t) \/ StatusRequeue(t))
    /\ WF_vars(FlushWaves)

FairSpec == Spec /\ Fairness

(* Every visitor who waits is admitted in the end, through the crash or    *)
(* stop of a replica or a failed command, unless the failure stranded the  *)
(* ticket before its draw.                                                 *)
EventuallyAdmitted ==
    \A t \in Ticket : t \in Waiting ~> (ticket[t].status = "admitted" \/ Stranded(t))
=============================================================================
