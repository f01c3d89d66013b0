--------------------------- MODULE AdmissionProofs ---------------------------
(* When waves are drawn, in which order visitors are admitted and that none *)
(* is forgotten, for any number of tickets and replicas.                    *)
EXTENDS PlacementProofs

W == InitCfg.waveSec

(* The time from which tickOnce may close a wave, and whether it has come. *)
Ends(n) == (n + 1) * W + WaveGrace
Over(n) == Ends(n) <= now

(* The budget is spent one by one. *)
BudgetOK == \A k \in BudgetKeys : budget[k] \in 0..Budget[k]

-----------------------------------------------------------------------------
(* Arithmetic of waves *)

(* Later waves end later. *)
LEMMA EndsMonotone ==
    ASSUME NEW m \in Int, NEW n \in Int
    PROVE  /\ Ends(m) \in Int
           /\ m <= n <=> Ends(m) <= Ends(n)
           /\ m < n => Ends(m) + W <= Ends(n)
<1>1. W \in Nat /\ W > 0 /\ WaveGrace \in Nat
  BY ConstantsAssumption, Fields DEF W
<1>2. \A d \in Nat : d * W \in Nat
  BY <1>1
<1>3. \A d \in Nat : d > 0 => d * W >= W
  <2> SUFFICES ASSUME NEW d \in Nat, d > 0 PROVE d * W >= W
    OBVIOUS
  <2>1. (d - 1) * W \in Nat
    BY <1>2
  <2>2. (d - 1) * W = d * W - W
    BY <1>1
  <2> QED
    BY <1>1, <2>1, <2>2
<1>4. (n + 1) * W - (m + 1) * W = (n - m) * W
  BY <1>1
<1>5. (m + 1) * W - (n + 1) * W = (m - n) * W
  BY <1>1
<1>6. (m + 1) * W \in Int /\ (n + 1) * W \in Int
  BY <1>1
<1>7. CASE m <= n
  <2>1. (n - m) * W \in Nat /\ (m < n => (n - m) * W >= W)
    BY <1>2, <1>3, <1>7
  <2> QED
    BY <1>1, <1>4, <1>6, <1>7, <2>1 DEF Ends
<1>8. CASE m > n
  <2>1. (m - n) * W >= W
    BY <1>3, <1>8
  <2> QED
    BY <1>1, <1>5, <1>6, <1>8, <2>1 DEF Ends
<1> QED
  BY <1>7, <1>8

(* room.Wave: the wave of a time has begun and has not ended. *)
LEMMA WaveBounds ==
    ASSUME NEW t \in Nat
    PROVE  /\ Wave(t, W) \in Int
           /\ Wave(t, W) * W \in Int
           /\ Wave(t, W) * W <= t
           /\ t < (Wave(t, W) + 1) * W
<1>1. W \in Nat \ {0}
  BY ConstantsAssumption, Fields DEF W
<1>2. Wave(t, W) \in Int
  BY <1>1 DEF Wave
<1> QED
  BY <1>1, <1>2 DEF Wave

-----------------------------------------------------------------------------
(* Budgets *)

(* No event of K has happened and none happens in this step. *)
LEMMA Spared ==
    ASSUME BudgetOK, budget \in [BudgetKeys -> Int], NEW K \in SUBSET BudgetKeys, Without(K)',
           NEW k \in K
    PROVE  ~Spend(k)
BY ConstantsAssumption DEF BudgetOK, Without, Spend, BudgetKeys

(* A step spends of one budget and of the common one, or of none. *)
LEMMA Spends == Next => UNCHANGED budget \/ \E k \in BudgetKeys \ {"all"} : Spend(k)
<1> SUFFICES ASSUME Next PROVE UNCHANGED budget \/ \E k \in BudgetKeys \ {"all"} : Spend(k)
  OBVIOUS
<1> USE DEF BudgetKeys
<1>1. CASE Tick
  BY <1>1 DEF Tick
<1>2. ASSUME NEW t \in Ticket, Client(t) PROVE UNCHANGED budget
  BY <1>2, Zenon DEF Client, TicketBegin, CreateTicket, AdmitDirect, StatusRead, StatusRank, StatusRequeue
<1>3. ASSUME NEW r \in Replica, Step(r) PROVE UNCHANGED budget
  BY <1>3, Zenon DEF Step, AcquireSet, AcquireOwn, Renew, AcquireLost, BeginTick, CloseElapsed,
     WavesDone, CloseStray, SweepDone, RankWave, DelWave, Count, Pop, Admit, FinishTick
<1>4. ASSUME NEW r \in Replica, Failure(r) PROVE Spend("err") \/ Spend("crash") \/ Spend("stop") \/ Spend("cut")
  BY <1>4, Zenon DEF Failure, AcquireErr, SweepErr, TickErr, DelErr, AdmitSkip, AdmitErr, Crash, Stop
<1>5. ASSUME NEW r \in Replica, Restart(r) \/ FetchKey(r) PROVE UNCHANGED budget
  BY <1>5 DEF Restart, FetchKey
<1>6. CASE Operator
  BY <1>6 DEF Operator, PutRoom, FlushPending
<1>7. CASE FlushWaves
  BY <1>7 DEF FlushWaves
<1> QED
  BY <1>1, <1>2, <1>3, <1>4, <1>5, <1>6, <1>7 DEF Next

(* Budgets only shrink, and no further than to zero. *)
LEMMA BudgetStep ==
    ASSUME TypeOK, BudgetOK, [Next]_vars
    PROVE  /\ BudgetOK'
           /\ \A K \in SUBSET BudgetKeys : Without(K)' => Without(K)
<1>1. CASE UNCHANGED budget
  BY <1>1 DEF BudgetOK, Without
<1>2. ASSUME NEW k \in BudgetKeys \ {"all"}, Spend(k)
      PROVE  /\ BudgetOK'
             /\ \A K \in SUBSET BudgetKeys : Without(K)' => Without(K)
  <2>1. \A j \in BudgetKeys : Budget[j] \in Nat /\ budget[j] \in 0..Budget[j]
    BY ConstantsAssumption DEF BudgetOK
  <2>2. /\ budget[k] > 0 /\ budget["all"] > 0 /\ "all" \in BudgetKeys
        /\ budget' = [budget EXCEPT ![k] = @ - 1, !["all"] = @ - 1]
    BY <1>2 DEF Spend, CanSpend, BudgetKeys
  <2>3. budget \in [BudgetKeys -> Int]
    BY DEF TypeOK
  <2>5. \A j \in BudgetKeys : budget'[j] \in 0..Budget[j] /\ budget'[j] <= budget[j]
    BY <2>1, <2>2, <2>3
  <2> QED
    BY <2>1, <2>5 DEF BudgetOK, Without
<1> QED
  BY <1>1, <1>2, Spends DEF vars

(* The budgets start full. *)
LEMMA BudgetInit == Init => BudgetOK
BY ConstantsAssumption DEF Init, BudgetOK

-----------------------------------------------------------------------------
(* Nobody is stranded *)

Calm == Without(Harm) /\ SameWaves

(* Nothing has changed the length of waves or flushed the room. *)
SettingInv ==
    /\ cfg.waveSec = W /\ flush.pc = "idle"
    /\ \A r \in Replica : tick[r].cfg.waveSec = W
    /\ Start <= now

(* A ticket enters a wave that has begun and, as nothing is late, one      *)
(* whose time is not over.                                                 *)
EntryInv == \A t \in Ticket :
    /\ req[t].pc = "create" => /\ req[t].val >= 1 /\ req[t].val * W <= now
                               /\ req[t].due = Ends(req[t].val) /\ ~Over(req[t].val)
    /\ ticket[t].status = "waiting" => ticket[t].wave >= 1 /\ ticket[t].wave * W <= now

(* A tick began no earlier than its stalls explain. *)
LagInv == \A r \in Replica :
    /\ tick[r].now <= now
    /\ pc[r] \in {"waves", "rank", "del", "sweep"} =>
          now <= tick[r].now + (Budget["stall"] - budget["stall"])

(* Waves are emptied after their time: nobody enters one that is closed.   *)
ClosedInv == \A r \in Replica :
    /\ \A n \in tick[r].strays : Over(n)
    /\ pc[r] \in {"rank", "del"} => Over(tick[r].n) /\ WaveMembers(tick[r].n) = {}
    /\ \A t \in batch[r] : ticket[t].wave = tick[r].n

(* A waiting visitor is in a wave, in an admitter's hands, or has a score. *)
ShelterInv == \A t \in Ticket :
    ticket[t].status = "waiting" =>
        t \in inWave \/ (\E r \in Replica : t \in batch[r]) \/ ticket[t].score # 0

CalmInv == SettingInv /\ EntryInv /\ LagInv /\ ClosedInv /\ ShelterInv

(* A stop between two ticks, the only one of such a room. *)
CalmStop(r) ==
    /\ pc[r] = "idle"
    /\ Spend("stop")
    /\ Goto(r, "down")
    /\ tick' = [tick EXCEPT ![r] = NoTick]
    /\ \/ LeaveLease(r)
       \/ lock.owner = r /\ lock' = [owner |-> NoOne, exp |-> 0]
    /\ UNCHANGED <<now, cfg, ticket, inWave, pending, active, lastWave, admittedTotal,
                   loop, batch, work, clientVars>>

(* The steps of a room in which nothing of Harm happens. *)
CalmNext ==
    \/ Tick /\ Late = {}
    \/ \E t \in Ticket : Client(t)
    \/ \E r \in Replica : Step(r) \/ CalmStop(r) \/ Restart(r) \/ FetchKey(r)
    \/ \E c \in Configs : PutRoom(c) /\ cfg'.waveSec = W
    \/ UNCHANGED vars

(* While no event of Harm has happened, only those steps do. *)
LEMMA CalmSteps ==
    ASSUME TypeOK, Placement, BudgetOK, SettingInv, Calm', [Next]_vars
    PROVE  CalmNext
<1>1. Harm \in SUBSET BudgetKeys
  BY DEF Harm, BudgetKeys
<1>2. \A k \in Harm : ~Spend(k)
  BY <1>1, Spared DEF Calm, TypeOK
<1>3. ~Spend("crash") /\ ~Spend("cut") /\ ~Spend("err") /\ ~Spend("late") /\ ~Spend("flush")
  BY <1>2 DEF Harm
<1>4. CASE Tick
  BY <1>3, <1>4 DEF Tick, CalmNext
<1>5. ASSUME NEW r \in Replica, Failure(r) PROVE CalmStop(r)
  <2>1. Stop(r)
    BY <1>3, <1>5, Zenon DEF Failure, AcquireErr, SweepErr, TickErr, DelErr, AdmitSkip, AdmitErr, Crash
  <2>2. pc[r] = "idle" /\ Spend("stop")
    BY <1>3, <2>1, Zenon DEF Stop
  <2>3. batch[r] = {} /\ work[r] = {}
    BY <2>2 DEF Placement, HandsEmpty
  <2>4. Halt(r) /\ (LeaveLease(r) \/ (lock.owner = r /\ lock' = [owner |-> NoOne, exp |-> 0]))
    BY <2>1, Zenon DEF Stop
  <2>5. UNCHANGED <<batch, work>>
    BY <2>3, <2>4 DEF Halt, TypeOK
  <2> QED
    BY <2>2, <2>4, <2>5, Zenon DEF CalmStop, Halt
<1>6. ~FlushPending
  BY <1>3 DEF FlushPending
<1>7. ~FlushWaves
  BY DEF SettingInv, FlushWaves
<1>8. ASSUME NEW c \in Configs, PutRoom(c) PROVE cfg'.waveSec = W
  <2>1. {"conf"} \in SUBSET BudgetKeys
    BY DEF BudgetKeys
  <2>2. ~Without({"conf"})'
    BY <1>8, <2>1, Spared DEF PutRoom, TypeOK
  <2>3. Refused(c) \/ Validate(c).waveSec = W
    BY <2>2 DEF Calm, SameWaves, W
  <2> QED
    BY <1>8, <2>3 DEF PutRoom, SettingInv
<1> QED
  BY <1>4, <1>5, <1>6, <1>7, <1>8 DEF Next, Operator, CalmNext

(* What the updates of a tick leave alone. *)
LEMMA TickUpdates ==
    ASSUME TypeOK, NEW r \in Replica
    PROVE  /\ /\ NextWave(r).now = tick[r].now /\ NextWave(r).cfg = tick[r].cfg
              /\ NextWave(r).strays = tick[r].strays /\ NextWave(r).sweep = tick[r].sweep
              /\ NextWave(r).n = tick[r].n + 1
           /\ \A S : /\ SweepOf(r, S).now = tick[r].now /\ SweepOf(r, S).cfg = tick[r].cfg
                     /\ SweepOf(r, S).strays = S /\ SweepOf(r, S).sweep
                     /\ SweepOf(r, S).n = tick[r].n
           /\ \A n : /\ TakeStray(r, n).now = tick[r].now /\ TakeStray(r, n).cfg = tick[r].cfg
                     /\ TakeStray(r, n).strays = tick[r].strays \ {n}
                     /\ TakeStray(r, n).sweep = tick[r].sweep /\ TakeStray(r, n).n = n
<1>1. tick[r] \in TickRec
  BY DEF TypeOK
<1>2. \A e \in TickRec : \A n :
        LET f == [e EXCEPT !.n = n]
        IN  f.now = e.now /\ f.cfg = e.cfg /\ f.strays = e.strays /\ f.sweep = e.sweep /\ f.n = n
  BY DEF TickRec
<1>3. \A e \in TickRec : \A S :
        LET f == [e EXCEPT !.strays = S, !.sweep = TRUE]
        IN  f.now = e.now /\ f.cfg = e.cfg /\ f.strays = S /\ f.sweep /\ f.n = e.n
  BY DEF TickRec
<1>4. \A e \in TickRec : \A n, S :
        LET f == [e EXCEPT !.n = n, !.strays = S]
        IN  f.now = e.now /\ f.cfg = e.cfg /\ f.strays = S /\ f.sweep = e.sweep /\ f.n = n
  BY DEF TickRec
<1> QED
  BY <1>1, <1>2, <1>3, <1>4 DEF NextWave, SweepOf, TakeStray

(* How a calm step changes what a tick works with.  In the phases in which *)
(* waves are closed a tick keeps its time; it sets out with the time, and  *)
(* a sweep lists waves that exist.                                         *)
TickStep(r) ==
    LET e == tick[r]
        f == tick'[r]
    IN  \/ f = e /\ pc'[r] = pc[r]
        \/ f \in {e, NoTick} /\ pc'[r] \notin {"waves", "rank", "del", "sweep"}
        \/ f = e /\ pc[r] = "rank" /\ pc'[r] = "del"
        \/ /\ pc[r] = "begin" /\ pc'[r] = "waves"
           /\ f.now = now /\ f.cfg = cfg /\ f.strays = {} /\ ~f.sweep
           /\ f.n = ResumeWave(Wave(now, cfg.waveSec)) + 1
        \/ /\ pc[r] = "waves" /\ pc'[r] = "waves" /\ f.n = e.n + 1
           /\ f.now = e.now /\ f.cfg = e.cfg /\ f.strays = e.strays /\ f.sweep = e.sweep
        \/ /\ pc[r] = "del" /\ ~e.sweep /\ pc'[r] = "waves" /\ f.n = e.n + 1
           /\ f.now = e.now /\ f.cfg = e.cfg /\ f.strays = e.strays /\ f.sweep = e.sweep
        \/ /\ pc[r] = "del" /\ e.sweep /\ pc'[r] = "sweep" /\ f = e
        \/ /\ pc[r] = "waves" /\ pc'[r] = "rank" /\ f = e
        \/ /\ pc[r] = "waves" /\ pc'[r] = "sweep" /\ ~Elapsed(r) /\ e.now % SweepSec = 0
           /\ f.now = e.now /\ f.cfg = e.cfg /\ f.strays = Strays(r) /\ f.sweep /\ f.n = e.n
        \/ /\ pc[r] = "sweep" /\ pc'[r] \in {"sweep", "rank"}
           /\ f.n \in e.strays /\ f.strays = e.strays \ {f.n}
           /\ f.now = e.now /\ f.cfg = e.cfg /\ f.sweep = e.sweep
        \/ /\ pc'[r] \notin {"waves", "rank", "del", "sweep"}
           /\ f.now = e.now /\ f.cfg = e.cfg /\ f.strays = e.strays /\ f.n = e.n

(* Every calm step is such a step of every replica's tick. *)
LEMMA TickSteps ==
    ASSUME TypeOK, CalmNext, NEW q \in Replica
    PROVE  TickStep(q)
<1> USE DEF TypeOK, TickStep, storeVars, replicaVars, clientVars
<1>1. CASE UNCHANGED <<tick, pc>>
  BY <1>1
<1>2. CASE Tick
  BY <1>1, <1>2 DEF Tick
<1>3. ASSUME NEW t \in Ticket, Client(t) PROVE UNCHANGED <<tick, pc>>
  BY <1>3, Zenon DEF Client, TicketBegin, CreateTicket, AdmitDirect, StatusRead, StatusRank, StatusRequeue
<1>4. ASSUME NEW r \in Replica, AcquireSet(r) \/ AcquireOwn(r) \/ Renew(r) \/ SweepDone(r) \/ CalmStop(r) \/ Restart(r) \/ Pop(r)
      PROVE  TickStep(q)
  BY <1>4 DEF AcquireSet, AcquireOwn, Renew, Goto, SweepDone, CalmStop, Restart, Pop
<1>5. ASSUME NEW r \in Replica, AcquireLost(r) \/ FetchKey(r) PROVE UNCHANGED <<tick, pc>>
  BY <1>5 DEF AcquireLost, FetchKey
<1>6. ASSUME NEW r \in Replica, BeginTick(r) PROVE TickStep(q)
  BY <1>6 DEF BeginTick, Goto
<1>7. ASSUME NEW r \in Replica, CloseElapsed(r) PROVE TickStep(q)
  BY <1>7, TickUpdates DEF CloseElapsed, PopWave, Goto
<1>8. ASSUME NEW r \in Replica, WavesDone(r) PROVE TickStep(q)
  BY <1>8, TickUpdates DEF WavesDone, Goto
<1>9. ASSUME NEW r \in Replica, CloseStray(r) PROVE TickStep(q)
  BY <1>9, TickUpdates DEF CloseStray, PopWave, Goto
<1>10. ASSUME NEW r \in Replica, RankWave(r) PROVE TickStep(q)
  BY <1>10 DEF RankWave, Goto
<1>11. ASSUME NEW r \in Replica, DelWave(r) PROVE TickStep(q)
  BY <1>11, TickUpdates DEF DelWave, Record, Goto
<1>12. ASSUME NEW r \in Replica, Count(r) PROVE TickStep(q)
  BY <1>12, Fields DEF Count, Sleep, Goto, TickRec
<1>13. ASSUME NEW r \in Replica, Admit(r) PROVE TickStep(q)
  BY <1>13, Fields DEF Admit, TickRec
<1>14. ASSUME NEW r \in Replica, FinishTick(r) PROVE TickStep(q)
  BY <1>14 DEF FinishTick, Sleep, Goto
<1>15. ASSUME NEW c \in Configs, PutRoom(c) PROVE UNCHANGED <<tick, pc>>
  BY <1>15 DEF PutRoom
<1> QED
  BY <1>1, <1>2, <1>3, <1>4, <1>5, <1>6, <1>7, <1>8, <1>9, <1>10, <1>11, <1>12, <1>13, <1>14, <1>15
  DEF CalmNext, Step, vars

(* What calm steps do not touch, or only one way. *)
LEMMA CalmFrame ==
    ASSUME TypeOK, CalmNext
    PROVE  /\ UNCHANGED flush /\ cfg'.waveSec \in {cfg.waveSec, W}
           /\ \/ now' = now
              \/ now' = now + 1 /\ Tick /\ Late = {}
<1> USE DEF storeVars, replicaVars, clientVars
<1>1. CASE Tick /\ Late = {}
  BY <1>1 DEF Tick
<1>2. ASSUME NEW t \in Ticket, Client(t) PROVE UNCHANGED <<cfg, flush, now>>
  BY <1>2, Zenon DEF Client, TicketBegin, CreateTicket, AdmitDirect, StatusRead, StatusRank, StatusRequeue
<1>3. ASSUME NEW r \in Replica, Step(r) PROVE UNCHANGED <<cfg, flush, now>>
  BY <1>3, Zenon DEF Step, AcquireSet, AcquireOwn, Renew, AcquireLost, BeginTick, CloseElapsed,
     WavesDone, CloseStray, SweepDone, RankWave, DelWave, Count, Pop, Admit, FinishTick
<1>4. ASSUME NEW r \in Replica, CalmStop(r) \/ Restart(r) \/ FetchKey(r) PROVE UNCHANGED <<cfg, flush, now>>
  BY <1>4 DEF CalmStop, Restart, FetchKey
<1>5. ASSUME NEW c \in Configs, PutRoom(c) PROVE UNCHANGED <<flush, now>>
  BY <1>5 DEF PutRoom
<1>6. CASE UNCHANGED vars
  BY <1>6 DEF vars
<1> QED
  BY <1>1, <1>2, <1>3, <1>4, <1>5, <1>6 DEF CalmNext

(* The length of waves stays what it was. *)
LEMMA SettingStep ==
    ASSUME TypeOK, SettingInv, CalmNext
    PROVE  SettingInv'
<1>1. \A r \in Replica : tick'[r].cfg.waveSec = W
  BY TickSteps DEF TickStep, SettingInv, NoTick, W
<1> QED
  BY <1>1, CalmFrame, ConstantsAssumption DEF SettingInv, TypeOK

(* How a calm step changes a ticket and its request. *)
TicketStep(t) ==
    \/ ticket'[t] = ticket[t] /\ (req'[t] = req[t] \/ req'[t].pc # "create")
    \/ /\ ticket'[t] = ticket[t] /\ req'[t].pc = "create"
       /\ now' = now /\ req'[t].val = Wave(now, cfg.waveSec)
       /\ req'[t].due = (Wave(now, cfg.waveSec) + 1) * cfg.waveSec + WaveGrace
    \/ /\ req[t].pc = "create" /\ req'[t].pc = "idle" /\ now' = now
       /\ inWave' = inWave \cup {t} /\ UNCHANGED <<tick, pc, batch>>
       /\ ticket'[t] = [status |-> "waiting", wave |-> req[t].val, score |-> 0, exp |-> 0]
    \/ req'[t].pc = "idle" /\ ticket'[t].status = "admitted"
    \/ /\ req'[t] = req[t] /\ ticket'[t].wave = ticket[t].wave
       /\ ticket'[t].status \in {ticket[t].status, "admitted"}
       /\ \E r \in Replica : pc[r] \in {"rank", "admit"}

(* Every calm step is such a step of every ticket. *)
LEMMA TicketSteps ==
    ASSUME TypeOK, CalmNext, NEW u \in Ticket
    PROVE  TicketStep(u)
<1> USE DEF TypeOK, TicketStep, storeVars, replicaVars, clientVars
<1>1. CASE UNCHANGED <<ticket, req>>
  BY <1>1
<1>2. ASSUME NEW t \in Ticket, TicketBegin(t) PROVE TicketStep(u)
  BY <1>2 DEF TicketBegin
<1>3. ASSUME NEW t \in Ticket, CreateTicket(t) PROVE TicketStep(u)
  BY <1>3 DEF CreateTicket, NoReq
<1>4. ASSUME NEW t \in Ticket, AdmitDirect(t) PROVE TicketStep(u)
  BY <1>4 DEF AdmitDirect, NoReq
<1>5. ASSUME NEW t \in Ticket, StatusRead(t) \/ StatusRequeue(t) PROVE TicketStep(u)
  BY <1>5 DEF StatusRead, StatusRequeue, NoReq
<1>6. ASSUME NEW t \in Ticket, StatusRank(t) PROVE TicketStep(u)
  BY <1>6 DEF StatusRank, NoReq, ReqRec
<1>7. ASSUME NEW r \in Replica, RankWave(r) PROVE TicketStep(u)
  <2>1. PICK f \in Shuffles(batch[r]) :
          ticket' = [t \in Ticket |-> IF t \in batch[r]
                                        THEN Scored(t, WaveScore(tick[r].n, f[t]))
                                        ELSE ticket[t]]
    BY <1>7, Zenon DEF RankWave
  <2>2. \A n : Scored(u, n).wave = ticket[u].wave /\ Scored(u, n).status = ticket[u].status
    BY DEF Scored, TicketRec
  <2> QED
    BY <1>7, <2>1, <2>2 DEF RankWave
<1>8. ASSUME NEW r \in Replica, Admit(r) PROVE TicketStep(u)
  <2>1. PICK t \in NextIds(r) :
          ticket' = [ticket EXCEPT ![t] = Marked(t, tick[r].now + tick[r].cfg.passTTL)]
    BY <1>8, Zenon DEF Admit
  <2>2. \A n : Marked(u, n).wave = ticket[u].wave /\ Marked(u, n).status = "admitted"
    BY DEF Marked, TicketRec
  <2> QED
    BY <1>8, <2>1, <2>2 DEF Admit, NextIds
<1>9. CASE Tick
  BY <1>1, <1>9 DEF Tick
<1>10. ASSUME NEW r \in Replica,
              \/ AcquireSet(r) \/ AcquireOwn(r) \/ Renew(r) \/ AcquireLost(r)
              \/ BeginTick(r) \/ CloseElapsed(r) \/ WavesDone(r) \/ CloseStray(r)
              \/ SweepDone(r) \/ DelWave(r) \/ Count(r) \/ Pop(r) \/ FinishTick(r)
              \/ CalmStop(r) \/ Restart(r) \/ FetchKey(r)
       PROVE  UNCHANGED <<ticket, req>>
  BY <1>10, Zenon DEF AcquireSet, AcquireOwn, Renew, AcquireLost, BeginTick, CloseElapsed,
     WavesDone, CloseStray, SweepDone, DelWave, Count, Pop, FinishTick, CalmStop, Restart, FetchKey
<1>11. ASSUME NEW c \in Configs, PutRoom(c) PROVE UNCHANGED <<ticket, req>>
  BY <1>11 DEF PutRoom
<1>12. CASE UNCHANGED vars
  BY <1>1, <1>12 DEF vars
<1> QED
  BY <1>1, <1>2, <1>3, <1>4, <1>5, <1>6, <1>7, <1>8, <1>9, <1>10, <1>11, <1>12
  DEF CalmNext, Client, Step

(* A wave read at some time has begun, is numbered from 1 and not over. *)
LEMMA WaveNow ==
    ASSUME TypeOK, SettingInv
    PROVE  LET w == Wave(now, W) IN w \in Int /\ w >= 1 /\ w * W <= now /\ ~Over(w)
<1> DEFINE w == Wave(now, W)
<1>1. now \in Nat /\ W <= now /\ W \in Nat /\ W > 0 /\ WaveGrace \in Nat
  BY ConstantsAssumption, WavesAssumption, Fields DEF SettingInv, TypeOK, W
<1>2. w \in Int /\ w * W \in Int /\ w * W <= now /\ now < (w + 1) * W
  BY <1>1, WaveBounds
<1>3. w >= 1
  <2> SUFFICES ASSUME w <= 0 PROVE FALSE
    BY <1>2
  <2>1. Ends(w) <= Ends(0)
    BY <1>2, EndsMonotone
  <2>2. (w + 1) * W <= (0 + 1) * W
    BY <1>1, <1>2, <2>1 DEF Ends
  <2> QED
    BY <1>1, <1>2, <2>2
<1> QED
  BY <1>1, <1>2, <1>3 DEF Over, Ends

(* Tickets enter waves that are not over. *)
LEMMA EntryStep ==
    ASSUME TypeOK, TypeOK', SettingInv, EntryInv, CalmNext
    PROVE  EntryInv'
<1>1. cfg.waveSec = W /\ now \in Nat /\ W \in Nat /\ WaveGrace \in Nat
  BY ConstantsAssumption, Fields DEF SettingInv, TypeOK, W
<1>2. now' >= now /\ now' \in Nat
  BY <1>1, CalmFrame
<1> SUFFICES ASSUME NEW t \in Ticket
             PROVE  /\ req'[t].pc = "create" =>
                          /\ req'[t].val >= 1 /\ req'[t].val * W <= now'
                          /\ req'[t].due = Ends(req'[t].val) /\ ~(Ends(req'[t].val) <= now')
                    /\ ticket'[t].status = "waiting" =>
                          ticket'[t].wave >= 1 /\ ticket'[t].wave * W <= now'
  BY DEF EntryInv, Over
<1>3. /\ ticket[t].wave \in Int /\ ticket'[t].wave \in Int
      /\ req[t].val \in Int /\ req'[t].val \in Int
  BY Fields DEF TypeOK
<1>4. /\ ticket[t].wave * W \in Int /\ ticket'[t].wave * W \in Int
      /\ req[t].val * W \in Int /\ Ends(req[t].val) \in Int
  BY <1>1, <1>3, EndsMonotone
<1>5. req[t].pc = "create" => /\ req[t].val >= 1 /\ req[t].val * W <= now
                              /\ req[t].due = Ends(req[t].val) /\ ~(Ends(req[t].val) <= now)
  BY DEF EntryInv, Over
<1>6. ticket[t].status = "waiting" => ticket[t].wave >= 1 /\ ticket[t].wave * W <= now
  BY DEF EntryInv
<1>7. req[t].pc = "create" => ~(Ends(req[t].val) <= now')
  <2>1. CASE now' = now
    BY <1>5, <2>1
  <2>2. CASE now' = now + 1 /\ Late = {}
    BY <1>1, <1>4, <1>5, <2>2 DEF Late
  <2> QED
    BY <2>1, <2>2, CalmFrame
<1>8. CASE ticket'[t] = ticket[t] /\ (req'[t] = req[t] \/ req'[t].pc # "create")
  BY <1>1, <1>2, <1>3, <1>4, <1>5, <1>6, <1>7, <1>8
<1>9. CASE /\ ticket'[t] = ticket[t] /\ req'[t].pc = "create"
           /\ now' = now /\ req'[t].val = Wave(now, W)
           /\ req'[t].due = (Wave(now, W) + 1) * W + WaveGrace
  BY <1>1, <1>6, <1>9, WaveNow DEF Over, Ends
<1>10. CASE /\ req[t].pc = "create" /\ req'[t].pc = "idle" /\ now' = now
            /\ ticket'[t] = [status |-> "waiting", wave |-> req[t].val, score |-> 0, exp |-> 0]
  BY <1>5, <1>10
<1>11. CASE req'[t].pc = "idle" /\ ticket'[t].status = "admitted"
  BY <1>11
<1>12. CASE /\ req'[t] = req[t] /\ ticket'[t].wave = ticket[t].wave
            /\ ticket'[t].status \in {ticket[t].status, "admitted"}
  BY <1>1, <1>2, <1>3, <1>4, <1>5, <1>6, <1>7, <1>12
<1> QED
  BY <1>1, <1>8, <1>9, <1>10, <1>11, <1>12, TicketSteps DEF TicketStep

(* Steps lag behind the clock only by stalls. *)
LEMMA LagStep ==
    ASSUME TypeOK, TypeOK', BudgetOK, LagInv, CalmNext, [Next]_vars
    PROVE  LagInv'
<1> USE DEF TypeOK
<1> DEFINE Phases == {"waves", "rank", "del", "sweep"}
           used == Budget["stall"] - budget["stall"]
           used2 == Budget["stall"] - budget'["stall"]
<1>1. "stall" \in BudgetKeys /\ Budget["stall"] \in Nat
  BY ConstantsAssumption DEF BudgetKeys
<1>2. used \in Nat /\ used2 \in Int /\ used <= used2
  <2>1. budget["stall"] \in 0..Budget["stall"]
    BY <1>1 DEF BudgetOK
  <2>2. CASE UNCHANGED budget
    BY <1>1, <2>1, <2>2
  <2>3. ASSUME NEW k \in BudgetKeys \ {"all"}, Spend(k)
        PROVE  used \in Nat /\ used2 \in Int /\ used <= used2
    BY <1>1, <2>1, <2>3 DEF Spend, BudgetKeys
  <2> QED
    BY <1>1, <2>2, <2>3, Spends DEF vars
<1> SUFFICES ASSUME NEW r \in Replica
             PROVE  /\ tick'[r].now <= now'
                    /\ pc'[r] \in Phases => now' <= tick'[r].now + used2
  BY DEF LagInv
<1>3. /\ tick[r].now \in Nat /\ tick'[r].now \in Nat /\ now \in Nat /\ now' \in Nat
      /\ tick[r].now <= now
      /\ pc[r] \in Phases => now <= tick[r].now + used
  BY Fields DEF LagInv
<1>4. CASE now' = now
  <2>1. /\ tick'[r].now \in {tick[r].now, now, 0}
        /\ pc'[r] \in Phases => \/ pc[r] \in Phases /\ tick'[r].now = tick[r].now
                                \/ tick'[r].now = now
    <3>1. TickStep(r)
      BY TickSteps
    <3>2. NoTick.now = 0
      BY DEF NoTick
    <3> QED
      BY <3>1, <3>2 DEF TickStep
  <2> QED
    BY <1>2, <1>3, <1>4, <2>1
<1>5. CASE now' = now + 1 /\ Tick /\ Late = {}
  <2>1. UNCHANGED <<tick, pc>>
    BY <1>5 DEF Tick, replicaVars
  <2>2. pc[r] \in Phases => Slow # {}
    BY DEF Slow, Alive
  <2>3. pc[r] \in Phases => Spend("stall")
    BY <1>5, <2>2 DEF Tick
  <2>4. Spend("stall") => used2 = used + 1
    BY <1>1 DEF Spend, BudgetKeys
  <2> QED
    BY <1>2, <1>3, <1>5, <2>1, <2>3, <2>4
<1> QED
  BY <1>4, <1>5, CalmFrame

(* An admitter empties the wave n with SPOP. *)
Pops(r) ==
    LET n == tick'[r].n
    IN  /\ pc' = [pc EXCEPT ![r] = "rank"] /\ UNCHANGED <<ticket, req, now>>
        /\ \/ pc[r] = "waves" /\ Elapsed(r) /\ tick'[r] = tick[r]
           \/ pc[r] = "sweep" /\ n \in tick[r].strays
        /\ batch' = [batch EXCEPT ![r] = WaveMembers(n)]
        /\ inWave' = inWave \ WaveMembers(n)

(* Where a calm step may take or put an undrawn ticket. *)
LEMMA Hands ==
    ASSUME TypeOK, Placement, CalmNext
    PROVE  \/ /\ UNCHANGED <<inWave, batch>>
              /\ \A r \in Replica : pc'[r] \in {"rank", "del"} => pc'[r] = pc[r]
              /\ \A t \in Ticket : ticket'[t].score = ticket[t].score
           \/ \E t \in Ticket : CreateTicket(t)
           \/ \E r \in Replica : Pops(r) \/ RankWave(r) \/ DelWave(r)
<1> USE DEF TypeOK, storeVars, replicaVars, clientVars
<1> DEFINE Still == /\ UNCHANGED <<inWave, batch>>
                    /\ \A r \in Replica : pc'[r] \in {"rank", "del"} => pc'[r] = pc[r]
                    /\ \A t \in Ticket : ticket'[t].score = ticket[t].score
<1>1. CASE UNCHANGED <<inWave, batch, pc, ticket>>
  BY <1>1
<1>2. CASE Tick
  BY <1>1, <1>2 DEF Tick
<1>3. ASSUME NEW t \in Ticket, TicketBegin(t) \/ StatusRead(t) \/ StatusRank(t) \/ StatusRequeue(t)
      PROVE  UNCHANGED <<inWave, batch, pc, ticket>>
  BY <1>3, Zenon DEF TicketBegin, StatusRead, StatusRank, StatusRequeue
<1>4. ASSUME NEW t \in Ticket, AdmitDirect(t) PROVE Still
  <2>1. ticket[t].score = 0
    BY <1>4 DEF AdmitDirect, Placement, CreatesFresh, FreshClean
  <2> QED
    BY <1>4, <2>1 DEF AdmitDirect
<1>5. ASSUME NEW r \in Replica,
             AcquireSet(r) \/ AcquireOwn(r) \/ Renew(r) \/ SweepDone(r) \/ CalmStop(r) \/ Restart(r) \/ Pop(r)
             \/ BeginTick(r) \/ WavesDone(r)
      PROVE  Still
  BY <1>5 DEF AcquireSet, AcquireOwn, Renew, Goto, SweepDone, CalmStop, Restart, Pop, BeginTick, WavesDone
<1>6. ASSUME NEW r \in Replica, AcquireLost(r) \/ FetchKey(r) PROVE UNCHANGED <<inWave, batch, pc, ticket>>
  BY <1>6 DEF AcquireLost, FetchKey
<1>7. ASSUME NEW r \in Replica, CloseElapsed(r) PROVE Still \/ Pops(r)
  BY <1>7 DEF CloseElapsed, PopWave, Goto, Pops
<1>8. ASSUME NEW r \in Replica, CloseStray(r) PROVE Still \/ Pops(r)
  BY <1>8, TickUpdates DEF CloseStray, PopWave, Goto, Pops
<1>9. ASSUME NEW r \in Replica, Count(r) PROVE Still
  <2>1. batch[r] = {} /\ pc[r] = "count"
    BY <1>9 DEF Count, Placement, HandsEmpty
  <2>2. UNCHANGED <<ticket, inWave>> /\ (Sleep(r) \/ (Goto(r, "pop") /\ UNCHANGED batch))
    BY <1>9, Zenon DEF Count
  <2>3. CASE Sleep(r)
    BY <2>1, <2>2, <2>3 DEF Sleep, Goto
  <2>4. CASE Goto(r, "pop") /\ UNCHANGED batch
    BY <2>1, <2>2, <2>4 DEF Goto
  <2> QED
    BY <2>2, <2>3, <2>4
<1>10. ASSUME NEW r \in Replica, FinishTick(r) PROVE Still
  <2>1. batch[r] = {} /\ pc[r] = "admit"
    BY <1>10 DEF FinishTick, Placement, HandsEmpty
  <2> QED
    BY <1>10, <2>1 DEF FinishTick, Sleep, Goto
<1>11. ASSUME NEW r \in Replica, Admit(r) PROVE Still
  <2>1. PICK t \in NextIds(r) :
          ticket' = [ticket EXCEPT ![t] = Marked(t, tick[r].now + tick[r].cfg.passTTL)]
    BY <1>11, Zenon DEF Admit
  <2>2. \A n : Marked(t, n).score = ticket[t].score
    BY DEF Marked, TicketRec, NextIds
  <2> QED
    BY <1>11, <2>1, <2>2 DEF Admit
<1>12. ASSUME NEW c \in Configs, PutRoom(c) PROVE UNCHANGED <<inWave, batch, pc, ticket>>
  BY <1>12 DEF PutRoom
<1>13. CASE UNCHANGED vars
  BY <1>1, <1>13 DEF vars
<1> QED
  BY <1>1, <1>2, <1>3, <1>4, <1>5, <1>6, <1>7, <1>8, <1>9, <1>10, <1>11, <1>12, <1>13
  DEF CalmNext, Step, Client

(* Times that fall on the start of a wave. *)
LEMMA WaveStart ==
    ASSUME NEW t \in Nat, NEW m \in Nat, SweepSec = m * W, t % SweepSec = 0
    PROVE  Wave(t, W) * W = t
<1> DEFINE j == t \div SweepSec
           c == Wave(t, W)
<1>1. W \in Nat /\ W > 0 /\ SweepSec \in Nat \ {0}
  BY ConstantsAssumption, Fields DEF W
<1>2. j \in Nat /\ t = SweepSec * j
  BY <1>1
<1>3. (m * j) \in Nat /\ t = (m * j) * W
  BY <1>1, <1>2
<1> DEFINE x == m * j
<1> HIDE DEF x, j
<1>4. x \in Nat /\ t = x * W
  BY <1>3 DEF x
<1>5. c \in Int /\ c * W \in Int /\ c * W <= t /\ t < (c + 1) * W
  BY WaveBounds
<1> HIDE DEF c
<1>6. c <= x
  <2>1. (c + 1) * W = c * W + W /\ (x + 1) * W = x * W + W
    BY <1>1, <1>4, <1>5
  <2> QED
    BY <1>1, <1>4, <1>5, <2>1, EndsMonotone, ConstantsAssumption DEF Ends
<1>7. x <= c
  <2> SUFFICES ASSUME c + 1 <= x PROVE FALSE
    BY <1>4, <1>5
  <2>1. Ends(c) + W <= Ends(x)
    BY <1>4, <1>5, EndsMonotone
  <2>2. (c + 1) * W \in Int /\ (x + 1) * W = x * W + W /\ x * W \in Int
    BY <1>1, <1>4, <1>5
  <2> QED
    BY <1>1, <1>4, <1>5, <2>1, <2>2, ConstantsAssumption DEF Ends
<1> QED
  BY <1>4, <1>5, <1>6, <1>7 DEF c

(* store.go, StrayWaves: if sweeps are on time, what they list is over. *)
LEMMA StraysOver ==
    ASSUME TypeOK, Placement, BudgetOK, SettingInv, EntryInv, LagInv, SweepsOnTime,
           NEW r \in Replica, pc[r] = "waves", tick[r].now % SweepSec = 0,
           NEW n \in Strays(r)
    PROVE  Over(n)
<1> DEFINE c == Cur(r)
           tn == tick[r].now
<1>1. /\ W \in Nat /\ W > 0 /\ WaveGrace \in Nat /\ WaveGrace <= W
      /\ now \in Nat /\ tn \in Nat /\ tn <= now
  BY ConstantsAssumption, WavesAssumption, Fields DEF W, TypeOK, LagInv
<1>2. c = Wave(tn, W)
  BY DEF Cur, SettingInv, W
<1>3. c \in Int /\ c * W \in Int /\ c * W <= tn /\ tn < (c + 1) * W
  BY <1>1, <1>2, WaveBounds
<1>4. n \in Int /\ n * W \in Int /\ n * W <= now /\ n # c /\ n # c - 1
  <2>1. PICK t \in inWave : n = ticket[t].wave
    BY DEF Strays, WaveKeys
  <2>2. t \in Ticket /\ ticket[t].status = "waiting"
    BY DEF TypeOK, Placement, UndrawnWaits, Undrawn
  <2>3. n \in Int /\ n * W <= now
    BY <2>1, <2>2, Fields DEF EntryInv, TypeOK
  <2>4. n * W \in Int
    BY <1>1, <2>3
  <2> QED
    BY <2>3, <2>4 DEF Strays
<1>5. now < (c + 1) * W
  <2>1. "stall" \in BudgetKeys /\ Budget["stall"] \in Nat
    BY ConstantsAssumption DEF BudgetKeys
  <2>2. budget["stall"] \in 0..Budget["stall"]
    BY <2>1 DEF BudgetOK
  <2>3. now <= tn + (Budget["stall"] - budget["stall"])
    BY DEF LagInv
  <2>4. CASE Without({"stall"})
    BY <1>1, <1>3, <2>2, <2>3, <2>4 DEF Without
  <2>5. CASE ~Without({"stall"})
    <3>1. Budget["stall"] < W
      BY <2>5 DEF SweepsOnTime, W
    <3>2. PICK m \in 1..SweepSec : SweepSec = m * W
      BY <2>5 DEF SweepsOnTime, W
    <3>3. c * W = tn
      BY <1>1, <1>2, <3>2, WaveStart, ConstantsAssumption
    <3>4. (c + 1) * W = c * W + W
      BY <1>1, <1>3
    <3> QED
      BY <1>1, <1>3, <2>1, <2>2, <2>3, <3>1, <3>3, <3>4
  <2> QED
    BY <2>1, <2>4, <2>5
<1> HIDE DEF c, tn
<1>6. (n + 1) * W = n * W + W /\ (c + 1) * W = c * W + W /\ (c - 1 + 1) * W = c * W
  BY <1>1, <1>3, <1>4
<1>7. n <= c
  <2> SUFFICES ASSUME c < n PROVE FALSE
    BY <1>3, <1>4
  <2>1. Ends(c) + W <= Ends(n)
    BY <1>3, <1>4, EndsMonotone
  <2> QED
    BY <1>1, <1>3, <1>4, <1>5, <1>6, <2>1 DEF Ends
<1>8. n < c - 1
  BY <1>3, <1>4, <1>7
<1>9. Ends(n) + W <= Ends(c - 1)
  BY <1>3, <1>4, <1>8, EndsMonotone
<1>10. Ends(n) \in Int /\ Ends(c - 1) = c * W + WaveGrace
  BY <1>3, <1>4, <1>6, EndsMonotone DEF Ends
<1> QED
  BY <1>1, <1>3, <1>9, <1>10 DEF Over

(* A wave that is over stays so, and nobody enters it. *)
LEMMA OverStays ==
    ASSUME TypeOK, TypeOK', Placement', EntryInv, CalmNext, NEW n \in Int, Over(n)
    PROVE  /\ Ends(n) <= now'
           /\ /\ WaveMembers(n) = {}
              /\ inWave' \subseteq inWave \/ \E t \in Ticket : CreateTicket(t)
              => \A t \in inWave' : ticket'[t].wave # n
<1>1. now \in Nat /\ now' \in Nat /\ now <= now' /\ Ends(n) \in Int
  BY CalmFrame, EndsMonotone DEF TypeOK
<1>2. Ends(n) <= now'
  BY <1>1 DEF Over
<1>3. ASSUME NEW t \in inWave', ticket'[t].wave = n, WaveMembers(n) = {},
             inWave' \subseteq inWave \/ \E u \in Ticket : CreateTicket(u)
      PROVE  FALSE
  <2>1. t \in Ticket /\ ticket'[t].status = "waiting"
    BY DEF TypeOK, Placement, UndrawnWaits, Undrawn
  <2>2. CASE ticket'[t].wave = ticket[t].wave /\ t \in inWave
    BY <1>3, <2>2 DEF WaveMembers
  <2>3. CASE req[t].pc = "create" /\ ticket'[t].wave = req[t].val
    BY <1>3, <2>1, <2>3 DEF EntryInv
  <2>4. TicketStep(t)
    BY <2>1, TicketSteps
  <2>5. ASSUME NEW u \in Ticket, CreateTicket(u), t # u PROVE t \in inWave /\ ticket'[t] = ticket[t]
    BY <2>1, <2>5 DEF CreateTicket, TypeOK
  <2>6. ASSUME NEW u \in Ticket, CreateTicket(u), t = u
        PROVE  req[t].pc = "create" /\ ticket'[t].wave = req[t].val
    BY <2>1, <2>6 DEF CreateTicket, TypeOK
  <2>7. CASE inWave' \subseteq inWave
    BY <2>1, <2>2, <2>3, <2>4, <2>7 DEF TicketStep
  <2> QED
    BY <1>3, <2>2, <2>3, <2>5, <2>6, <2>7
<1> QED
  BY <1>2, <1>3 DEF WaveMembers

(* Only waves that are over are emptied, and they stay empty. *)
LEMMA ClosedStep ==
    ASSUME TypeOK, TypeOK', Placement, Placement', BudgetOK, SettingInv, EntryInv, LagInv,
           ClosedInv, SweepsOnTime, CalmNext
    PROVE  ClosedInv'
<1> SUFFICES ASSUME NEW r \in Replica
             PROVE  /\ \A n \in tick'[r].strays : Ends(n) <= now'
                    /\ pc'[r] \in {"rank", "del"} =>
                          Ends(tick'[r].n) <= now' /\ \A t \in inWave' : ticket'[t].wave # tick'[r].n
                    /\ \A t \in batch'[r] : ticket'[t].wave = tick'[r].n
  BY DEF ClosedInv, Over, Ends, WaveMembers
<1>1. /\ tick[r].n \in Int /\ tick[r].strays \subseteq Int /\ tick[r].now \in Nat
      /\ now \in Nat /\ tick[r].now <= now /\ tick[r].cfg.waveSec = W
      /\ tick'[r].n \in Int /\ tick'[r].strays \subseteq Int
  BY Fields DEF TypeOK, LagInv, SettingInv
<1>2. TickStep(r)
  BY TickSteps
<1>3. \A n \in tick'[r].strays : Over(n)
  <2>1. NoTick.strays = {}
    BY DEF NoTick
  <2>2. CASE tick'[r].strays \subseteq tick[r].strays
    BY <2>2 DEF ClosedInv
  <2>3. CASE pc[r] = "waves" /\ tick[r].now % SweepSec = 0 /\ tick'[r].strays = Strays(r)
    BY <2>3, StraysOver
  <2> QED
    BY <1>2, <2>1, <2>2, <2>3 DEF TickStep
<1>4. \A n \in tick'[r].strays : Ends(n) <= now'
  BY <1>1, <1>3, OverStays
<1>5. ASSUME NEW q \in Replica, Pops(q) PROVE ~(q # r) => Over(tick'[r].n)
  <2>1. CASE q = r /\ pc[r] = "waves" /\ Elapsed(r) /\ tick'[r] = tick[r]
    BY <1>1, <2>1, EndsMonotone DEF Elapsed, Over, Ends, W
  <2>2. CASE q = r /\ tick'[r].n \in tick[r].strays
    BY <2>2 DEF ClosedInv
  <2> QED
    BY <1>5, <2>1, <2>2 DEF Pops
<1>6. pc'[r] \in {"rank", "del"} => Over(tick'[r].n)
  <2>1. CASE pc[r] \in {"rank", "del"} /\ tick'[r] = tick[r]
    BY <2>1 DEF ClosedInv
  <2>2. CASE \E t \in Ticket : CreateTicket(t)
    BY <2>1, <2>2 DEF CreateTicket, replicaVars
  <2>3. ASSUME NEW q \in Replica, RankWave(q) PROVE pc'[r] \in {"rank", "del"} => pc[r] \in {"rank", "del"} /\ tick'[r] = tick[r]
    BY <2>3 DEF RankWave, Goto, TypeOK
  <2>4. ASSUME NEW q \in Replica, DelWave(q) PROVE pc'[r] \in {"rank", "del"} => pc[r] \in {"rank", "del"} /\ tick'[r] = tick[r]
    BY <2>4 DEF DelWave, Record, Goto, TypeOK
  <2>5. ASSUME NEW q \in Replica, Pops(q), q # r PROVE pc'[r] \in {"rank", "del"} => pc[r] \in {"rank", "del"} /\ tick'[r] = tick[r]
    <3>1. pc'[r] = pc[r]
      BY <2>5 DEF Pops, TypeOK
    <3> QED
      BY <1>2, <3>1 DEF TickStep
  <2>6. ASSUME pc'[r] = pc[r] PROVE pc'[r] \in {"rank", "del"} => tick'[r] = tick[r]
    BY <1>2, <2>6 DEF TickStep
  <2> QED
    BY <1>5, <2>1, <2>2, <2>3, <2>4, <2>5, <2>6, Hands
<1>7. pc'[r] \in {"rank", "del"} => \A t \in inWave' : ticket'[t].wave # tick'[r].n
  <2> SUFFICES ASSUME pc'[r] \in {"rank", "del"} PROVE \A t \in inWave' : ticket'[t].wave # tick'[r].n
    OBVIOUS
  <2>1. Over(tick'[r].n)
    BY <1>6
  <2>2. ASSUME NEW q \in Replica, Pops(q), q = r PROVE \A t \in inWave' : ticket'[t].wave # tick'[r].n
    BY <2>2 DEF Pops, WaveMembers
  <2>3. ASSUME WaveMembers(tick'[r].n) = {},
               inWave' \subseteq inWave \/ \E t \in Ticket : CreateTicket(t)
        PROVE  \A t \in inWave' : ticket'[t].wave # tick'[r].n
    BY <1>1, <2>1, <2>3, OverStays
  <2>4. CASE pc[r] \in {"rank", "del"} /\ tick'[r] = tick[r]
    <3>1. WaveMembers(tick'[r].n) = {}
      BY <2>4 DEF ClosedInv
    <3>2. inWave' \subseteq inWave \/ \E t \in Ticket : CreateTicket(t)
      BY Hands, Zenon DEF Pops, RankWave, DelWave
    <3> QED
      BY <2>3, <3>1, <3>2
  <2>5. pc[r] \in {"rank", "del"} => tick'[r] = tick[r]
    BY <1>2 DEF TickStep
  <2>6. CASE pc[r] \notin {"rank", "del"}
    <3>1. ASSUME NEW t \in Ticket, CreateTicket(t) PROVE FALSE
      BY <2>6, <3>1 DEF CreateTicket, replicaVars
    <3>2. ASSUME NEW q \in Replica, RankWave(q) \/ DelWave(q) PROVE FALSE
      BY <2>6, <3>2 DEF RankWave, DelWave, Record, Goto, TypeOK
    <3>3. ASSUME NEW q \in Replica, Pops(q), q # r PROVE FALSE
      BY <2>6, <3>3 DEF Pops, TypeOK
    <3> QED
      BY <2>2, <2>6, <3>1, <3>2, <3>3, Hands
  <2> QED
    BY <2>4, <2>5, <2>6
<1>8. \A t \in batch'[r] : ticket'[t].wave = tick'[r].n
  <2>1. CASE batch'[r] = {}
    BY <2>1
  <2>2. CASE batch'[r] = batch[r] /\ batch[r] # {}
    <3>1. pc[r] = "rank" /\ pc'[r] = "rank"
      BY <2>2 DEF Placement, HandsEmpty
    <3>2. tick'[r] = tick[r]
      BY <1>2, <3>1 DEF TickStep
    <3>3. \A t \in batch'[r] : t \in Ticket /\ ticket'[t].status = "waiting" /\ ticket[t].status = "waiting"
      BY <2>2 DEF TypeOK, Placement, UndrawnWaits, Undrawn
    <3>4. \A t \in batch'[r] : ticket'[t].wave = ticket[t].wave
      <4> SUFFICES ASSUME NEW t \in batch'[r] PROVE ticket'[t].wave = ticket[t].wave
        OBVIOUS
      <4>1. TicketStep(t) /\ ticket'[t].status = "waiting"
        BY <3>3, TicketSteps
      <4>2. req[t].pc # "create"
        BY <3>3 DEF Placement, CreatesFresh
      <4> QED
        BY <4>1, <4>2 DEF TicketStep
    <3> QED
      BY <2>2, <3>2, <3>4 DEF ClosedInv
  <2>3. ASSUME NEW q \in Replica, Pops(q), q = r PROVE \A t \in batch'[r] : ticket'[t].wave = tick'[r].n
    BY <2>3 DEF Pops, WaveMembers, TypeOK
  <2>4. ASSUME NEW q \in Replica, Pops(q), q # r PROVE batch'[r] = batch[r]
    BY <2>4 DEF Pops, TypeOK
  <2>5. ASSUME NEW q \in Replica, RankWave(q) \/ DelWave(q) PROVE batch'[r] \in {{}, batch[r]}
    BY <2>5 DEF RankWave, DelWave, TypeOK
  <2>6. ASSUME NEW t \in Ticket, CreateTicket(t) PROVE batch'[r] = batch[r]
    BY <2>6 DEF CreateTicket, replicaVars
  <2> QED
    BY <2>1, <2>2, <2>3, <2>4, <2>5, <2>6, Hands
<1> QED
  BY <1>1, <1>4, <1>6, <1>7, <1>8, OverStays

(* Nobody falls between wave, hands and score. *)
LEMMA ShelterStep ==
    ASSUME TypeOK, TypeOK', Placement, Placement', EntryInv, ClosedInv, ShelterInv, CalmNext
    PROVE  ShelterInv'
<1> SUFFICES ASSUME NEW t \in Ticket, ticket'[t].status = "waiting"
             PROVE  t \in inWave' \/ (\E r \in Replica : t \in batch'[r]) \/ ticket'[t].score # 0
  BY DEF ShelterInv
<1>1. CASE ticket[t].status # "waiting"
  BY <1>1, TicketSteps DEF TicketStep
<1> SUFFICES ASSUME ticket[t].status = "waiting"
             PROVE  t \in inWave' \/ (\E r \in Replica : t \in batch'[r]) \/ ticket'[t].score # 0
  BY <1>1
<1>2. t \in inWave \/ (\E r \in Replica : t \in batch[r]) \/ ticket[t].score # 0
  BY DEF ShelterInv
<1>3. CASE UNCHANGED <<inWave, batch>> /\ ticket'[t].score = ticket[t].score
  BY <1>2, <1>3
<1>4. ASSUME NEW u \in Ticket, CreateTicket(u)
      PROVE  t \in inWave' \/ (\E r \in Replica : t \in batch'[r]) \/ ticket'[t].score # 0
  <2>1. u # t
    BY <1>4 DEF CreateTicket, Placement, CreatesFresh
  <2> QED
    BY <1>2, <1>4, <2>1 DEF CreateTicket, replicaVars, TypeOK
<1>5. ASSUME NEW r \in Replica, Pops(r)
      PROVE  t \in inWave' \/ (\E q \in Replica : t \in batch'[q]) \/ ticket'[t].score # 0
  <2>1. pc[r] # "rank" /\ batch[r] = {}
    BY <1>5 DEF Pops, Placement, HandsEmpty
  <2> QED
    BY <1>2, <1>5, <2>1 DEF Pops, TypeOK
<1>6. ASSUME NEW r \in Replica, DelWave(r)
      PROVE  t \in inWave' \/ (\E q \in Replica : t \in batch'[q]) \/ ticket'[t].score # 0
  <2>1. WaveMembers(tick[r].n) = {}
    BY <1>6 DEF DelWave, ClosedInv
  <2> QED
    BY <1>2, <1>6, <2>1 DEF DelWave
<1>7. ASSUME NEW r \in Replica, RankWave(r)
      PROVE  t \in inWave' \/ (\E q \in Replica : t \in batch'[q]) \/ ticket'[t].score # 0
  <2>1. PICK f \in Shuffles(batch[r]) :
          ticket' = [u \in Ticket |-> IF u \in batch[r]
                                        THEN Scored(u, WaveScore(tick[r].n, f[u]))
                                        ELSE ticket[u]]
    BY <1>7, Zenon DEF RankWave
  <2>2. CASE t \in batch[r]
    <3>1. tick[r].n = ticket[t].wave /\ ticket[t].wave >= 1 /\ ticket[t].wave \in Int
      BY <2>2, Fields DEF ClosedInv, EntryInv, TypeOK
    <3>2. f[t] \in 0..(Cardinality(batch[r]) - 1) /\ Cardinality(batch[r]) \in Nat
      BY <2>2, CardType DEF Shuffles, TypeOK
    <3>3. WaveScore(tick[r].n, f[t]) # 0 /\ WaveScore(tick[r].n, f[t]) \in Int
      BY <3>1, <3>2 DEF WaveScore
    <3>4. ticket'[t].score # 0
      BY <2>1, <2>2, <3>3, UpdateFields
    <3> QED
      BY <3>4
  <2>3. CASE t \notin batch[r]
    BY <1>2, <1>7, <2>1, <2>3 DEF RankWave, TypeOK
  <2> QED
    BY <2>2, <2>3
<1> QED
  BY <1>3, <1>4, <1>5, <1>6, <1>7, Hands

(* A new room has nobody to forget. *)
LEMMA CalmInit == Init => CalmInv
<1> SUFFICES ASSUME Init PROVE CalmInv
  OBVIOUS
<1>1. SettingInv
  BY ConstantsAssumption DEF Init, SettingInv, NoTick, NoFlush, W
<1>2. EntryInv /\ ShelterInv
  BY DEF Init, EntryInv, ShelterInv, NoReq, NoTicket
<1>3. LagInv
  BY ConstantsAssumption DEF Init, LagInv, NoTick
<1>4. ClosedInv
  BY DEF Init, ClosedInv, NoTick
<1> QED
  BY <1>1, <1>2, <1>3, <1>4 DEF CalmInv

(* As long as nothing of Harm happens the invariant holds. *)
LEMMA CalmHolds == Spec => [](BudgetOK /\ (Calm /\ SweepsOnTime => CalmInv))
<1> DEFINE Inv == BudgetOK /\ (Calm /\ SweepsOnTime => CalmInv)
<1>1. Init => Inv
  BY BudgetInit, CalmInit
<1>2. TypeOK /\ TypeOK' /\ Placement /\ Placement' /\ Inv /\ [Next]_vars => Inv'
  <2> SUFFICES ASSUME TypeOK, TypeOK', Placement, Placement', Inv, [Next]_vars PROVE Inv'
    OBVIOUS
  <2>1. BudgetOK' /\ (Calm' => Calm)
    <3>1. {"conf"} \in SUBSET BudgetKeys /\ Harm \in SUBSET BudgetKeys
      BY DEF BudgetKeys, Harm
    <3> QED
      BY <3>1, BudgetStep DEF Calm, SameWaves
  <2>2. SweepsOnTime' => SweepsOnTime
    <3>1. {"stall"} \in SUBSET BudgetKeys
      BY DEF BudgetKeys
    <3> QED
      BY <3>1, BudgetStep DEF SweepsOnTime
  <2>3. ASSUME Calm', SweepsOnTime' PROVE CalmInv'
    <3>1. SweepsOnTime /\ CalmInv
      BY <2>1, <2>2, <2>3
    <3>2. CalmNext
      BY <2>3, <3>1, CalmSteps DEF CalmInv
    <3> QED
      BY <3>1, <3>2, SettingStep, EntryStep, LagStep, ClosedStep, ShelterStep DEF CalmInv
  <2> QED
    BY <2>1, <2>3
<1> QED
  BY <1>1, <1>2, TypeCorrect, PlacementCorrect, PTL DEF Spec

(* Handing tickets from wave to pending to pass strands no visitor, for    *)
(* any number of tickets and of overlapping admitters: of all that may     *)
(* happen only a crash or a stop inside a tick, an error, a late           *)
(* insertion, a flush, a change of the length of waves or a belated sweep  *)
(* does.                                                                   *)
THEOREM NobodyIsStranded == Spec => []NoneStranded
<1>1. TypeOK /\ (Calm /\ SweepsOnTime => CalmInv) => NoneStranded
  BY DEF NoneStranded, Calm, CalmInv, ShelterInv, Stranded, Held, Waiting
<1> QED
  BY <1>1, TypeCorrect, CalmHolds, PTL

-----------------------------------------------------------------------------
(* Waves are drawn on time *)

(* Where a replica works with the time its tick began. *)
Busy == {"waves", "rank", "del", "sweep", "count", "pop", "admit"}

(* The replica's iteration of this second is behind it. *)
Ran(r) == pc[r] = "idle" /\ loop[r].wake > now

(* Who works has the lease, at the time its tick began; who sleeps has it  *)
(* from its last tick.  A lease no process holds was left by a stop, and   *)
(* stops are counted.                                                      *)
LeaseInv ==
    /\ lock.owner = Gone => Stopped > 0
    /\ lock.exp <= now + LeaseTTL
    /\ \A r \in Replica :
          /\ loop[r].wake <= now + 1
          /\ pc[r] \notin {"idle", "down"} => lock.owner = r /\ now < lock.exp
          /\ pc[r] \in Busy => tick[r].now = now
          /\ lock.owner = r => pc[r] # "down"
          /\ lock.owner = r /\ pc[r] = "idle" => lock.exp < loop[r].wake + LeaseTTL
    /\ Cardinality({r \in Replica : pc[r] = "down"}) <= Stopped

(* No wave waits to be closed; no wave waits longer than stops explain. *)
Fresh == \A t \in inWave : ~Over(ticket[t].wave)
Timely == \A t \in inWave : now < Ends(ticket[t].wave) + Delayed

(* Who closes elapsed waves, and who has closed them. *)
Closing(r) == pc[r] = "waves" \/ (pc[r] \in {"rank", "del"} /\ ~tick[r].sweep)
Closed(r) == \/ pc[r] \in {"sweep", "count", "pop", "admit"}
             \/ pc[r] \in {"rank", "del"} /\ tick[r].sweep

(* Someone has the lease, one that was left still runs, or someone will    *)
(* still ask for it this second.                                           *)
Served == \/ lock.owner \in Replica /\ now < lock.exp
          \/ lock.owner = Gone /\ now < lock.exp
          \/ \E r \in Replica : pc[r] # "down" /\ ~Ran(r)

(* lastwave is behind every wave that may still fill, a tick closes those  *)
(* that are over in their order, and once one has, none is left.  A lease  *)
(* that was left ends before a wave is late.                               *)
DrawInv ==
    /\ lastWave = -1 \/ Over(lastWave)
    /\ \A t \in inWave : lastWave < ticket[t].wave /\ now <= Ends(ticket[t].wave) + Delayed
    /\ \A t \in Ticket : req[t].pc = "create" => lastWave < req[t].val
    /\ \A r \in Replica :
          /\ pc[r] = "waves" => ~tick[r].sweep
          /\ pc[r] = "sweep" => tick[r].sweep
          /\ Closing(r) => \A t \in inWave : Over(ticket[t].wave) => tick[r].n <= ticket[t].wave
          /\ Closed(r) => Fresh
          /\ Ran(r) /\ lock.owner = r => Timely
    /\ lock.owner = Gone /\ now < lock.exp =>
           \A t \in inWave : lock.exp <= Ends(ticket[t].wave) + Delayed
    /\ Timely \/ Served

(* The calm steps of a room whose replicas do not stall. *)
PromptNext == CalmNext /\ (Tick => Slow = {})

(* Stops are counted. *)
LEMMA StopsCount ==
    ASSUME TypeOK, TypeOK', BudgetOK, [Next]_vars
    PROVE  /\ Stopped \in Nat /\ Stopped' \in Nat /\ Stopped <= Stopped'
           /\ \A r \in Replica : CalmStop(r) => Stopped' = Stopped + 1
<1>1. /\ "stop" \in BudgetKeys /\ Budget["stop"] \in Nat /\ budget["stop"] \in 0..Budget["stop"]
      /\ budget \in [BudgetKeys -> Int] /\ budget'["stop"] \in Int
  BY ConstantsAssumption DEF BudgetOK, BudgetKeys, TypeOK
<1>2. ASSUME NEW k \in BudgetKeys \ {"all"}, Spend(k) PROVE budget'["stop"] <= budget["stop"]
  BY <1>1, <1>2 DEF Spend, BudgetKeys
<1>3. Spend("stop") => budget'["stop"] = budget["stop"] - 1
  BY <1>1 DEF Spend, BudgetKeys
<1>4. budget'["stop"] <= budget["stop"]
  BY <1>1, <1>2, Spends DEF vars
<1> QED
  BY <1>1, <1>3, <1>4 DEF Stopped, CalmStop

(* Each may cost what a lease outlives it. *)
LEMMA DelayCounts ==
    ASSUME TypeOK, TypeOK', BudgetOK, [Next]_vars
    PROVE  /\ Delay \in Nat /\ Delay >= 1 /\ LeaseTTL <= Delay + 1 /\ LeaseTTL \in Nat
           /\ Delayed \in Nat /\ Delayed' \in Nat /\ Delayed <= Delayed'
           /\ Stopped > 0 => Delayed >= Delay
           /\ \A r \in Replica : CalmStop(r) => Delayed' = Delayed + Delay
<1>1. Delay \in Nat /\ Delay >= 1 /\ LeaseTTL <= Delay + 1 /\ LeaseTTL \in Nat
  BY ConstantsAssumption DEF Delay
<1>2. Stopped \in Nat /\ Stopped' \in Nat /\ Stopped <= Stopped'
  BY StopsCount
<1> DEFINE d == Delay
<1>3. \A m, n \in Nat : m <= n => m * d \in Nat /\ m * d <= n * d
  <2> SUFFICES ASSUME NEW m \in Nat, NEW n \in Nat, m <= n PROVE m * d \in Nat /\ m * d <= n * d
    OBVIOUS
  <2>1. m * d \in Nat /\ (n - m) * d \in Nat
    BY <1>1
  <2>2. (n - m) * d = n * d - m * d
    BY <1>1
  <2> QED
    BY <1>1, <2>1, <2>2
<1>4. \A m \in Nat : (m + 1) * d = m * d + d
  BY <1>1
<1>5. Delayed = Stopped * d /\ Delayed' = Stopped' * d
  BY DEF Delayed, Delay
<1> HIDE DEF d
<1>6. Delayed \in Nat /\ Delayed' \in Nat /\ Delayed <= Delayed'
  BY <1>2, <1>3, <1>5
<1>7. Stopped > 0 => Delayed >= d
  <2>1. Stopped > 0 => 1 * d <= Stopped * d
    BY <1>2, <1>3
  <2> QED
    BY <1>1, <1>5, <2>1 DEF d
<1>8. \A r \in Replica : CalmStop(r) => Delayed' = Delayed + d
  BY <1>2, <1>4, <1>5, StopsCount
<1> QED
  BY <1>1, <1>6, <1>7, <1>8 DEF d

(* A room that is on course always was. *)
LEMMA CourseStays ==
    ASSUME TypeOK, TypeOK', BudgetOK, OnCourse', [Next]_vars
    PROVE  OnCourse
<1>1. Harm \cup {"stall"} \in SUBSET BudgetKeys /\ {"conf"} \in SUBSET BudgetKeys
  BY DEF Harm, BudgetKeys
<1>2. Rolling
  <2>1. /\ Cardinality(Replica) \in Nat /\ WaveGrace \in Nat /\ InitCfg.waveSec \in Nat
    BY ConstantsAssumption, FS_CardinalityType, Fields
  <2> QED
    BY <2>1, StopsCount, DelayCounts DEF OnCourse, Rolling
<1> QED
  BY <1>1, <1>2, BudgetStep DEF OnCourse, SameWaves

(* Its steps are calm, and its replicas do not stall. *)
LEMMA CourseSteps ==
    ASSUME TypeOK, Placement, BudgetOK, SettingInv, OnCourse', [Next]_vars
    PROVE  PromptNext
<1>1. Harm \cup {"stall"} \in SUBSET BudgetKeys
  BY DEF Harm, BudgetKeys
<1>2. \A k \in Harm \cup {"stall"} : ~Spend(k)
  BY <1>1, Spared DEF OnCourse, TypeOK
<1>3. ~Spend("stall") /\ ~Spend("late")
  BY <1>2 DEF Harm
<1>4. CalmNext
  BY CalmSteps DEF Calm, OnCourse, Without
<1>5. Tick => Slow = {}
  BY <1>3 DEF Tick
<1> QED
  BY <1>4, <1>5 DEF PromptNext

(* A room on course is a calm one whose sweeps are on time. *)
LEMMA CourseIsCalm == OnCourse => Calm /\ SweepsOnTime
BY DEF OnCourse, Calm, SweepsOnTime, Without

(* A step within a tick. *)
Works(r) ==
    /\ pc[r] \in Busy /\ pc'[r] \in Busy
    /\ tick'[r].now = tick[r].now
    /\ \A q \in Replica \ {r} : pc'[q] = pc[q] /\ tick'[q] = tick[q]
    /\ \A q \in Replica : loop'[q].wake = loop[q].wake
    /\ UNCHANGED <<lock, now>>

(* The end of a tick. *)
Finishes(r) ==
    /\ pc[r] \in {"count", "admit"} /\ pc'[r] = "idle"
    /\ loop'[r].wake = now + 1
    /\ \A q \in Replica \ {r} : /\ pc'[q] = pc[q] /\ tick'[q] = tick[q]
                                /\ loop'[q] = loop[q]
    /\ UNCHANGED <<lock, now>>

(* Steps outside of ticks, or the clock. *)
Idles ==
    /\ UNCHANGED <<pc, tick, lock>>
    /\ \A r \in Replica : loop'[r].wake = loop[r].wake
    /\ now' = now \/ (now' = now + 1 /\ Slow = {})

(* What a step is to the lease. *)
LEMMA LeaseSteps ==
    ASSUME TypeOK, PromptNext
    PROVE  \/ Idles
           \/ \E r \in Replica : \/ AcquireSet(r) \/ AcquireOwn(r) \/ Renew(r)
                                 \/ AcquireLost(r) \/ BeginTick(r) \/ Works(r)
                                 \/ Finishes(r) \/ CalmStop(r) \/ Restart(r)
<1> USE DEF TypeOK, storeVars, replicaVars, clientVars
<1>1. CASE UNCHANGED <<pc, tick, lock, loop, now>>
  BY <1>1 DEF Idles
<1>2. CASE Tick /\ Slow = {}
  BY <1>2 DEF Tick, Idles
<1>3. ASSUME NEW t \in Ticket, Client(t) PROVE UNCHANGED <<pc, tick, lock, loop, now>>
  BY <1>3, Zenon DEF Client, TicketBegin, CreateTicket, AdmitDirect, StatusRead, StatusRank, StatusRequeue
<1>4. ASSUME NEW r \in Replica, FetchKey(r) PROVE Idles
  BY <1>4 DEF FetchKey, Idles, LoopRec
<1>5. ASSUME NEW r \in Replica, CloseElapsed(r) PROVE Works(r)
  BY <1>5, TickUpdates DEF CloseElapsed, PopWave, Goto, Works, Busy
<1>6. ASSUME NEW r \in Replica, WavesDone(r) PROVE Works(r)
  BY <1>6, TickUpdates DEF WavesDone, Goto, Works, Busy
<1>7. ASSUME NEW r \in Replica, CloseStray(r) PROVE Works(r)
  BY <1>7, TickUpdates DEF CloseStray, PopWave, Goto, Works, Busy
<1>8. ASSUME NEW r \in Replica, SweepDone(r) \/ RankWave(r) \/ Pop(r) PROVE Works(r)
  BY <1>8 DEF SweepDone, RankWave, Pop, Goto, Works, Busy
<1>9. ASSUME NEW r \in Replica, DelWave(r) PROVE Works(r)
  BY <1>9, TickUpdates DEF DelWave, Record, Goto, Works, Busy
<1>10. ASSUME NEW r \in Replica, Admit(r) PROVE Works(r)
  BY <1>10, Fields DEF Admit, Works, Busy, TickRec
<1>11. ASSUME NEW r \in Replica, FinishTick(r) PROVE Finishes(r)
  BY <1>11 DEF FinishTick, Sleep, Goto, Slept, Finishes, LoopRec
<1>12. ASSUME NEW r \in Replica, Count(r) PROVE Works(r) \/ Finishes(r)
  <2>1. pc[r] = "count" /\ UNCHANGED <<lock, now>>
    BY <1>12 DEF Count
  <2>2. \/ /\ Goto(r, "pop")
           /\ \E k : tick' = [tick EXCEPT ![r].k = k]
           /\ \E tokens : loop' = [loop EXCEPT ![r].tokens = tokens]
        \/ Sleep(r) /\ \E tokens : loop' = [loop EXCEPT ![r] = Slept(r, tokens)]
    BY <1>12, Zenon DEF Count
  <2>3. CASE /\ Goto(r, "pop")
             /\ \E k : tick' = [tick EXCEPT ![r].k = k]
             /\ \E tokens : loop' = [loop EXCEPT ![r].tokens = tokens]
    BY <2>1, <2>3 DEF Goto, Works, Busy, TickRec, LoopRec
  <2>4. CASE Sleep(r) /\ \E tokens : loop' = [loop EXCEPT ![r] = Slept(r, tokens)]
    BY <2>1, <2>4 DEF Sleep, Goto, Slept, Finishes, LoopRec
  <2> QED
    BY <2>2, <2>3, <2>4
<1>13. ASSUME NEW c \in Configs, PutRoom(c) PROVE UNCHANGED <<pc, tick, lock, loop, now>>
  BY <1>13 DEF PutRoom
<1> QED
  BY <1>1, <1>2, <1>3, <1>4, <1>5, <1>6, <1>7, <1>8, <1>9, <1>10, <1>11, <1>12, <1>13
  DEF PromptNext, CalmNext, Step, vars

(* Every replica that is up but one that stops now stays up. *)
LEMMA DownStep ==
    ASSUME TypeOK, TypeOK', BudgetOK, LeaseInv, PromptNext, [Next]_vars
    PROVE  Cardinality({r \in Replica : pc'[r] = "down"}) <= Stopped'
<1> DEFINE D == {r \in Replica : pc[r] = "down"}
           E == {r \in Replica : pc'[r] = "down"}
<1>1. IsFiniteSet(D) /\ IsFiniteSet(E) /\ Cardinality(D) \in Nat /\ Cardinality(E) \in Nat
  <2>1. D \subseteq Replica /\ E \subseteq Replica
    OBVIOUS
  <2> QED
    BY <2>1, ConstantsAssumption, FS_Subset, FS_CardinalityType
<1>2. Cardinality(D) <= Stopped
  BY DEF LeaseInv
<1>3. CASE E \subseteq D
  <2>1. Cardinality(E) <= Cardinality(D)
    BY <1>1, <1>3, FS_Subset
  <2> QED
    BY <1>1, <1>2, <2>1, StopsCount
<1>4. ASSUME NEW r \in Replica, CalmStop(r) PROVE Cardinality(E) <= Stopped'
  <2>1. E = D \cup {r} /\ r \notin D
    BY <1>4 DEF CalmStop, Goto, TypeOK
  <2>2. Cardinality(E) = Cardinality(D) + 1
    BY <1>1, <2>1, FS_AddElement
  <2> QED
    BY <1>1, <1>2, <1>4, <2>2, StopsCount
<1>5. ASSUME NEW r \in Replica, AcquireSet(r) \/ AcquireOwn(r) \/ Renew(r) \/ AcquireLost(r)
                                \/ BeginTick(r) \/ Restart(r)
      PROVE  E \subseteq D
  BY <1>5 DEF AcquireSet, AcquireOwn, Renew, AcquireLost, BeginTick, Restart, Goto, TypeOK
<1>6. ASSUME NEW r \in Replica, Works(r) \/ Finishes(r) PROVE E \subseteq D
  BY <1>6 DEF Works, Finishes, Busy
<1>7. CASE Idles
  BY <1>7, <1>3 DEF Idles
<1> QED
  BY <1>3, <1>4, <1>5, <1>6, <1>7, LeaseSteps

(* The lease is with whoever works. *)
LEMMA LeaseStep ==
    ASSUME TypeOK, TypeOK', BudgetOK, LeaseInv, PromptNext, [Next]_vars
    PROVE  LeaseInv'
<1> DEFINE Inv(r) == /\ loop[r].wake <= now + 1
                     /\ pc[r] \notin {"idle", "down"} => lock.owner = r /\ now < lock.exp
                     /\ pc[r] \in Busy => tick[r].now = now
                     /\ lock.owner = r => pc[r] # "down"
                     /\ lock.owner = r /\ pc[r] = "idle" => lock.exp < loop[r].wake + LeaseTTL
           Lease == /\ lock.owner = Gone => Stopped > 0
                    /\ lock.exp <= now + LeaseTTL
<1> SUFFICES Lease' /\ \A r \in Replica : Inv(r)'
  BY DownStep DEF LeaseInv
<1>1. /\ LeaseTTL \in Nat \ {0} /\ now \in Nat /\ lock.exp \in Nat
      /\ lock.owner \in Replica \cup {NoOne, Gone} /\ Replica \cap {NoOne, Gone} = {}
      /\ \A r \in Replica : loop[r].wake \in Nat /\ pc[r] \in PcValues
      /\ NoOne # Gone
  BY ConstantsAssumption DEF TypeOK, LockRec, LoopRec, NoOne, Gone
<1>a. Lease /\ \A r \in Replica : Inv(r)
  BY DEF LeaseInv
<1>b. /\ Stopped \in Nat /\ Stopped' \in Nat /\ Stopped <= Stopped'
      /\ \A r \in Replica : CalmStop(r) => Stopped' > 0
  BY StopsCount
<1>c. ASSUME UNCHANGED lock, now <= now', now' \in Nat PROVE Lease'
  BY <1>a, <1>b, <1>c, <1>1
<1> HIDE DEF LeaseInv
<1>2. CASE Idles /\ now' = now
  BY <1>a, <1>c, <1>1, <1>2 DEF Idles
<1>3. CASE Idles /\ now' = now + 1
  <2>1. \A r \in Replica : pc[r] \in {"idle", "down"}
    BY <1>1, <1>3 DEF Idles, Slow, Alive
  <2>2. \A r \in Replica : loop'[r].wake = loop[r].wake
    BY <1>3 DEF Idles
  <2>3. \A r \in Replica : pc[r] \notin Busy
    BY <2>1 DEF Busy
  <2>4. UNCHANGED <<lock, pc, tick>>
    BY <1>3 DEF Idles
  <2>5. Lease'
    BY <1>1, <1>3, <1>c, <2>4
  <2> QED
    BY <1>a, <1>1, <1>3, <2>1, <2>2, <2>3, <2>4, <2>5
<1>4. ASSUME NEW r \in Replica, AcquireSet(r) PROVE Lease' /\ \A q \in Replica : Inv(q)'
  <2>1. \A q \in Replica : pc[q] \in {"idle", "down"} /\ pc[r] = "idle"
    BY <1>a, <1>1, <1>4 DEF AcquireSet, LockFree, Due
  <2>2. /\ lock'.owner = r /\ lock'.exp = now + LeaseTTL /\ UNCHANGED <<now, loop, tick>>
        /\ \A q \in Replica : pc'[q] = IF q = r THEN "begin" ELSE pc[q]
    BY <1>4 DEF AcquireSet, Goto, TypeOK
  <2> QED
    BY <1>a, <1>1, <2>1, <2>2 DEF Busy
<1>5. ASSUME NEW r \in Replica, AcquireOwn(r) PROVE Lease' /\ \A q \in Replica : Inv(q)'
  <2>1. /\ pc[r] = "idle" /\ lock.owner = r /\ now < lock.exp /\ UNCHANGED <<lock, now, loop, tick>>
        /\ \A q \in Replica : pc'[q] = IF q = r THEN "renew" ELSE pc[q]
    BY <1>1, <1>5 DEF AcquireOwn, LockFree, Due, Goto, TypeOK, storeVars
  <2> QED
    BY <1>a, <1>c, <1>1, <2>1 DEF Busy
<1>6. ASSUME NEW r \in Replica, Renew(r) PROVE Lease' /\ \A q \in Replica : Inv(q)'
  <2>1. lock.owner = r /\ now < lock.exp /\ pc[r] = "renew"
    BY <1>a, <1>6 DEF Renew
  <2>2. ~LockFree
    BY <1>1, <2>1 DEF LockFree
  <2>3. lock'.owner = r /\ lock'.exp = now + LeaseTTL
    BY <1>6, <2>1, <2>2 DEF Renew, TypeOK, LockRec
  <2>4. /\ UNCHANGED <<now, loop, tick>>
        /\ \A q \in Replica : pc'[q] = IF q = r THEN "begin" ELSE pc[q]
    BY <1>6 DEF Renew, Goto, TypeOK
  <2> QED
    BY <1>a, <1>1, <2>1, <2>3, <2>4 DEF Busy
<1>7. ASSUME NEW r \in Replica, AcquireLost(r) PROVE Lease' /\ \A q \in Replica : Inv(q)'
  <2>1. /\ UNCHANGED <<lock, pc, tick, now>> /\ lock.owner # r /\ pc[r] = "idle"
        /\ \A q \in Replica : loop'[q].wake = IF q = r THEN now + 1 ELSE loop[q].wake
    BY <1>7 DEF AcquireLost, Due, storeVars, TypeOK
  <2> QED
    BY <1>a, <1>c, <1>1, <2>1
<1>8. ASSUME NEW r \in Replica, BeginTick(r) PROVE Lease' /\ \A q \in Replica : Inv(q)'
  <2>1. /\ UNCHANGED <<lock, now>> /\ pc[r] = "begin"
        /\ \A q \in Replica : pc'[q] = IF q = r THEN "waves" ELSE pc[q]
        /\ \A q \in Replica \ {r} : tick'[q] = tick[q] /\ loop'[q] = loop[q]
        /\ tick'[r].now = now
    BY <1>8 DEF BeginTick, Goto, TypeOK, storeVars
  <2>2. loop'[r].wake = loop[r].wake
    BY <1>8 DEF BeginTick, TypeOK, LoopRec
  <2> QED
    BY <1>a, <1>c, <1>1, <2>1, <2>2
<1>9. ASSUME NEW r \in Replica, Works(r) PROVE Lease' /\ \A q \in Replica : Inv(q)'
  BY <1>a, <1>c, <1>1, <1>9 DEF Works, Busy
<1>10. ASSUME NEW r \in Replica, Finishes(r) PROVE Lease' /\ \A q \in Replica : Inv(q)'
  BY <1>a, <1>c, <1>1, <1>10 DEF Finishes, Busy
<1>11. ASSUME NEW r \in Replica, CalmStop(r) PROVE Lease' /\ \A q \in Replica : Inv(q)'
  <2>1. /\ UNCHANGED <<now, loop>> /\ pc[r] = "idle"
        /\ \A q \in Replica : pc'[q] = IF q = r THEN "down" ELSE pc[q]
        /\ \A q \in Replica \ {r} : tick'[q] = tick[q]
    BY <1>11 DEF CalmStop, Goto, TypeOK
  <2>2. CASE lock' = lock
    <3>1. lock.owner # r
      BY <1>1, <1>11, <2>2 DEF CalmStop, LeaveLease, TypeOK, LockRec
    <3>2. Lease'
      BY <1>1, <1>c, <2>1, <2>2
    <3> QED
      BY <1>a, <1>1, <2>1, <2>2, <3>1, <3>2 DEF Busy
  <2>3. CASE lock.owner = r /\ lock'.owner \in {NoOne, Gone} /\ lock'.exp \in {0, lock.exp}
    <3>1. \A q \in Replica : q # r => pc[q] \in {"idle", "down"}
      BY <1>a, <2>3
    <3>2. Lease'
      BY <1>a, <1>b, <1>1, <1>11, <2>1, <2>3
    <3> QED
      BY <1>a, <1>1, <2>1, <2>3, <3>1, <3>2 DEF Busy
  <2>4. lock' = lock \/ (lock.owner = r /\ lock'.owner \in {NoOne, Gone} /\ lock'.exp \in {0, lock.exp})
    BY <1>11 DEF CalmStop, LeaveLease, TypeOK, LockRec
  <2> QED
    BY <2>2, <2>3, <2>4
<1>12. ASSUME NEW r \in Replica, Restart(r) PROVE Lease' /\ \A q \in Replica : Inv(q)'
  <2>1. /\ UNCHANGED <<now, tick, lock>> /\ pc[r] = "down"
        /\ \A q \in Replica : pc'[q] = IF q = r THEN "idle" ELSE pc[q]
        /\ \A q \in Replica \ {r} : loop'[q] = loop[q]
        /\ loop'[r].wake = now + 1
    BY <1>12 DEF Restart, Goto, TypeOK, storeVars
  <2> QED
    BY <1>a, <1>c, <1>1, <2>1 DEF Busy
<1> QED
  BY <1>2, <1>3, <1>4, <1>5, <1>6, <1>7, <1>8, <1>9, <1>10, <1>11, <1>12, LeaseSteps DEF Idles

(* Who is in a wave after a step was there before, or enters it now. *)
LEMMA Members ==
    ASSUME TypeOK, Placement, Placement', TypeOK', CalmNext, NEW t \in inWave'
    PROVE  /\ t \in Ticket
           /\ \/ t \in inWave /\ ticket'[t].wave = ticket[t].wave
              \/ req[t].pc = "create" /\ ticket'[t].wave = req[t].val /\ now' = now
<1>1. t \in Ticket /\ ticket'[t].status = "waiting"
  BY DEF TypeOK, Placement, UndrawnWaits, Undrawn
<1>2. TicketStep(t)
  BY <1>1, TicketSteps
<1>3. inWave' \subseteq inWave \/ \E u \in Ticket : CreateTicket(u)
  BY Hands, Zenon DEF Pops, RankWave, DelWave
<1>4. ASSUME NEW u \in Ticket, CreateTicket(u), t # u
      PROVE  t \in inWave /\ ticket'[t] = ticket[t]
  BY <1>1, <1>4 DEF CreateTicket, TypeOK
<1>5. ASSUME NEW u \in Ticket, CreateTicket(u), t = u
      PROVE  req[t].pc = "create" /\ ticket'[t].wave = req[t].val /\ now' = now
  BY <1>1, <1>5 DEF CreateTicket, TypeOK
<1>6. CASE inWave' \subseteq inWave
  BY <1>1, <1>2, <1>6 DEF TicketStep
<1> QED
  BY <1>1, <1>3, <1>4, <1>5, <1>6

(* A step of a tick records that a wave is closed. *)
Notes(r) ==
    LET n == tick[r].n
    IN  /\ Closing(r) /\ pc'[r] = "waves"
        /\ (pc[r] = "waves" /\ Elapsed(r)) \/ pc[r] = "del"
        /\ lastWave' = n /\ tick'[r].n = n + 1 /\ tick'[r].sweep = tick[r].sweep
        /\ inWave' = inWave \ WaveMembers(n)
        /\ \A q \in Replica \ {r} : pc'[q] = pc[q] /\ tick'[q] = tick[q]
        /\ UNCHANGED <<ticket, req, now, lock, loop>>

(* What a step is to lastwave and to the closing of waves. *)
LEMMA ClosingSteps ==
    ASSUME TypeOK, CalmNext
    PROVE  /\ lastWave' = lastWave \/ \E r \in Replica : Notes(r)
           /\ \A r \in Replica :
                 /\ pc[r] = "waves" /\ pc'[r] \in {"sweep", "count"} =>
                        ~Elapsed(r) /\ UNCHANGED <<inWave, ticket, now>>
                 /\ pc[r] = "waves" /\ pc'[r] = "waves" => tick'[r] = tick[r] \/ Notes(r)
                 /\ pc[r] = "del" /\ pc'[r] = "waves" => Notes(r)
<1> DEFINE Goal == /\ lastWave' = lastWave \/ \E r \in Replica : Notes(r)
                   /\ \A r \in Replica :
                         /\ pc[r] = "waves" /\ pc'[r] \in {"sweep", "count"} =>
                                ~Elapsed(r) /\ UNCHANGED <<inWave, ticket, now>>
                         /\ pc[r] = "waves" /\ pc'[r] = "waves" => tick'[r] = tick[r] \/ Notes(r)
                         /\ pc[r] = "del" /\ pc'[r] = "waves" => Notes(r)
<1> USE DEF TypeOK, storeVars, replicaVars, clientVars
<1>1. CASE UNCHANGED <<lastWave, pc, tick>>
  BY <1>1
<1>2. CASE Tick
  BY <1>1, <1>2 DEF Tick
<1>3. ASSUME NEW t \in Ticket, Client(t) PROVE UNCHANGED <<lastWave, pc, tick>>
  BY <1>3, Zenon DEF Client, TicketBegin, CreateTicket, AdmitDirect, StatusRead, StatusRank, StatusRequeue
<1>4. ASSUME NEW r \in Replica, FetchKey(r) \/ AcquireLost(r) PROVE UNCHANGED <<lastWave, pc, tick>>
  BY <1>4 DEF FetchKey, AcquireLost
<1>a. ASSUME NEW c \in Configs, PutRoom(c) PROVE UNCHANGED <<lastWave, pc, tick>>
  BY <1>a DEF PutRoom
<1>5. ASSUME NEW r \in Replica, AcquireSet(r) \/ AcquireOwn(r) \/ Renew(r) \/ BeginTick(r) \/ SweepDone(r) \/ RankWave(r) \/ Pop(r)
             \/ CalmStop(r) \/ Restart(r)
      PROVE  Goal
  BY <1>5 DEF CalmStop, Restart, AcquireSet, AcquireOwn, Renew, Due, BeginTick, SweepDone, RankWave, Pop, Goto
<1>6. ASSUME NEW r \in Replica, CloseElapsed(r) PROVE Goal
  <2>1. CASE PopWave(r, tick[r].n) /\ UNCHANGED tick
    BY <1>6, <2>1 DEF CloseElapsed, PopWave, Goto
  <2>2. CASE /\ WaveMembers(tick[r].n) = {} /\ lastWave' = tick[r].n
             /\ tick' = [tick EXCEPT ![r] = NextWave(r)] /\ UNCHANGED <<pc, batch, inWave>>
    <3>1. Notes(r)
      BY <1>6, <2>2, TickUpdates DEF CloseElapsed, Notes, Closing
    <3> QED
      BY <2>2, <3>1
  <2> QED
    BY <1>6, <2>1, <2>2 DEF CloseElapsed
<1>7. ASSUME NEW r \in Replica, WavesDone(r) PROVE Goal
  BY <1>7 DEF WavesDone, Goto
<1>8. ASSUME NEW r \in Replica, CloseStray(r) PROVE Goal
  BY <1>8 DEF CloseStray, PopWave, Goto
<1>9. ASSUME NEW r \in Replica, DelWave(r) PROVE Goal
  <2>1. CASE tick[r].sweep
    BY <1>9, <2>1 DEF DelWave, Record, Goto
  <2>2. CASE ~tick[r].sweep
    <3>1. Notes(r)
      BY <1>9, <2>2, TickUpdates DEF DelWave, Record, Goto, Notes, Closing
    <3> QED
      BY <1>9, <3>1 DEF DelWave, Notes
  <2> QED
    BY <2>1, <2>2
<1>10. ASSUME NEW r \in Replica, Count(r) PROVE Goal
  <2>1. pc[r] = "count" /\ UNCHANGED lastWave /\ (Sleep(r) \/ (Goto(r, "pop") /\ \E k : tick' = [tick EXCEPT ![r].k = k]))
    BY <1>10, Zenon DEF Count
  <2> QED
    BY <2>1 DEF Sleep, Goto
<1>11. ASSUME NEW r \in Replica, Admit(r) PROVE Goal
  BY <1>11 DEF Admit
<1>12. ASSUME NEW r \in Replica, FinishTick(r) PROVE Goal
  BY <1>12 DEF FinishTick, Sleep, Goto
<1> QED
  BY <1>1, <1>2, <1>3, <1>4, <1>5, <1>6, <1>7, <1>8, <1>9, <1>10, <1>11, <1>12, <1>a
  DEF CalmNext, Step, vars

(* Where a tick resumes: no wave that is over is before it. *)
LEMMA Resumes ==
    ASSUME TypeOK, SettingInv, DrawInv, Rolling, Delayed \in Nat, NEW t \in inWave, Over(ticket[t].wave)
    PROVE  ResumeWave(Wave(now, W)) + 1 <= ticket[t].wave
<1> DEFINE w == ticket[t].wave
           c == Wave(now, W)
<1>1. /\ W \in Nat /\ WaveGrace \in Nat /\ now \in Nat /\ w \in Int /\ lastWave \in Int
  BY ConstantsAssumption, Fields DEF TypeOK, W
<1>2. c \in Int /\ c * W \in Int /\ c * W <= now /\ (c - 1 + 1) * W = c * W
  <2>1. c \in Int /\ c * W \in Int /\ c * W <= now
    BY <1>1, WaveBounds
  <2> QED
    BY <1>1, <2>1
<1>3. lastWave < w /\ now <= Ends(w) + Delayed /\ WaveGrace + Delayed < W
  BY DEF DrawInv, Rolling, W
<1> HIDE DEF c
<1>4. c - 1 <= w
  <2> SUFFICES ASSUME w < c - 1 PROVE FALSE
    BY <1>1, <1>2
  <2>1. Ends(w) \in Int /\ Ends(w) + W <= Ends(c - 1)
    BY <1>1, <1>2, EndsMonotone
  <2>2. Ends(c - 1) = c * W + WaveGrace
    BY <1>2 DEF Ends
  <2> QED
    BY <1>1, <1>2, <1>3, <2>1, <2>2
<1>5. ResumeWave(c) \in {lastWave, c - 2}
  BY DEF ResumeWave
<1> QED
  BY <1>1, <1>2, <1>3, <1>4, <1>5 DEF c

(* When a tick finds no further wave elapsed, none is over. *)
LEMMA NoneLeft ==
    ASSUME TypeOK, SettingInv, LeaseInv, DrawInv, NEW r \in Replica, pc[r] = "waves", ~Elapsed(r)
    PROVE  Fresh
<1> SUFFICES ASSUME NEW t \in inWave, Over(ticket[t].wave) PROVE FALSE
  BY DEF Fresh
<1> DEFINE w == ticket[t].wave
           n == tick[r].n
           c == Wave(now, W)
<1>1. /\ W \in Nat /\ WaveGrace \in Nat /\ now \in Nat /\ w \in Int /\ n \in Int
      /\ tick[r].now = now /\ tick[r].cfg.waveSec = W
  BY ConstantsAssumption, Fields DEF TypeOK, W, LeaseInv, Busy, SettingInv
<1>2. n <= w
  BY DEF DrawInv, Closing
<1>3. Ends(n) \in Int /\ Ends(w) \in Int /\ Ends(n) <= Ends(w) /\ Ends(w) <= now
  BY <1>1, <1>2, EndsMonotone DEF Over
<1>4. Cur(r) = c
  BY <1>1 DEF Cur, W
<1>5. ~(n < c)
  BY <1>1, <1>3, <1>4 DEF Elapsed, Ends, W
<1>6. c \in Int /\ now < (c + 1) * W /\ (c + 1) * W \in Int
  <2>1. c \in Int /\ now < (c + 1) * W
    BY <1>1, WaveBounds
  <2> QED
    BY <1>1, <2>1
<1> HIDE DEF c
<1>7. Ends(c) <= Ends(n)
  BY <1>1, <1>5, <1>6, EndsMonotone
<1> QED
  BY <1>1, <1>3, <1>6, <1>7 DEF Ends

(* Nothing is over after a step if nothing was, unless the clock moves. *)
LEMMA FreshStep ==
    ASSUME TypeOK, TypeOK', Placement, Placement', EntryInv, CalmNext, Fresh, now' = now
    PROVE  Fresh'
<1> SUFFICES ASSUME NEW t \in inWave' PROVE ~(Ends(ticket'[t].wave) <= now')
  BY DEF Fresh, Over, Ends
<1>1. CASE t \in inWave /\ ticket'[t].wave = ticket[t].wave
  BY <1>1 DEF Fresh, Over
<1>2. CASE t \in Ticket /\ req[t].pc = "create" /\ ticket'[t].wave = req[t].val
  BY <1>2 DEF EntryInv, Over
<1> QED
  BY <1>1, <1>2, Members

(* Nor does a step make a wave wait longer than stops explain. *)
LEMMA TimelyStep ==
    ASSUME TypeOK, TypeOK', Placement, Placement', EntryInv, CalmNext, now' = now,
           Delayed \in Nat, Delayed' \in Nat, Delayed <= Delayed',
           \/ Timely \/ Fresh
           \/ DrawInv /\ Delayed < Delayed'
    PROVE  Timely'
<1> SUFFICES ASSUME NEW t \in inWave' PROVE now < Ends(ticket'[t].wave) + Delayed'
  BY DEF Timely, Ends
<1>1. ticket'[t].wave \in Int /\ now \in Nat
  BY Fields DEF TypeOK
<1>2. Ends(ticket'[t].wave) \in Int
  BY <1>1, EndsMonotone
<1>3. CASE t \in inWave /\ ticket'[t].wave = ticket[t].wave
  <2>1. \/ now < Ends(ticket[t].wave) + Delayed
        \/ now < Ends(ticket[t].wave)
        \/ now <= Ends(ticket[t].wave) + Delayed /\ Delayed < Delayed'
    BY <1>1, <1>2, <1>3 DEF Timely, Fresh, Over, DrawInv
  <2> QED
    BY <1>1, <1>2, <1>3, <2>1
<1>4. CASE t \in Ticket /\ req[t].pc = "create" /\ ticket'[t].wave = req[t].val
  BY <1>1, <1>2, <1>4 DEF EntryInv, Over
<1> QED
  BY <1>3, <1>4, Members

(* A wave that a tick records as closed is over, and it was the first.     *)
LEMMA NotedOver ==
    ASSUME TypeOK, SettingInv, LeaseInv, ClosedInv, DrawInv, NEW r \in Replica, Notes(r)
    PROVE  /\ Over(tick[r].n)
           /\ \A t \in inWave' : tick[r].n < ticket[t].wave
<1>1. /\ W \in Nat /\ WaveGrace \in Nat /\ now \in Nat /\ tick[r].n \in Int
      /\ tick[r].cfg.waveSec = W
  BY ConstantsAssumption, Fields DEF TypeOK, W, SettingInv
<1>2. Over(tick[r].n)
  <2>1. CASE pc[r] = "waves" /\ Elapsed(r)
    BY <1>1, <2>1 DEF Elapsed, Over, Ends, W, LeaseInv, Busy
  <2>2. CASE pc[r] = "del"
    BY <2>2 DEF ClosedInv
  <2> QED
    BY <2>1, <2>2 DEF Notes
<1>3. ASSUME NEW t \in inWave' PROVE tick[r].n < ticket[t].wave
  <2>1. t \in inWave /\ ticket[t].wave # tick[r].n /\ ticket[t].wave \in Int
    BY <1>3, Fields DEF Notes, WaveMembers, TypeOK
  <2>2. CASE Over(ticket[t].wave)
    BY <1>1, <2>1, <2>2 DEF DrawInv, Notes
  <2>3. CASE ~Over(ticket[t].wave)
    BY <1>1, <1>2, <2>1, <2>3, EndsMonotone DEF Over
  <2> QED
    BY <2>2, <2>3
<1> QED
  BY <1>2, <1>3

(* The clock moves when every replica has run, the one with the lease too: *)
(* then no wave waits to be closed longer than stops explain.              *)
LEMMA ClockStep ==
    ASSUME TypeOK, TypeOK', LeaseInv, DrawInv, Rolling, Stopped \in Nat, Delayed \in Nat, PromptNext, now' # now
    PROVE  /\ Timely /\ now' = now + 1
           /\ \A r \in Replica : pc'[r] \in {"idle", "down"} /\ ~(loop'[r].wake > now')
           /\ \E r \in Replica : pc'[r] # "down"
           /\ UNCHANGED <<inWave, ticket, req, lastWave, pc, tick, lock>>
<1>1. Idles /\ now' = now + 1 /\ Slow = {}
  <2>1. CASE Idles
    BY <2>1 DEF Idles
  <2>2. ASSUME NEW r \in Replica, AcquireSet(r) \/ AcquireOwn(r) \/ Renew(r) \/ AcquireLost(r)
                                  \/ BeginTick(r) \/ Works(r) \/ Finishes(r) \/ CalmStop(r) \/ Restart(r)
        PROVE  FALSE
    BY <2>2 DEF AcquireSet, AcquireOwn, Renew, AcquireLost, BeginTick, Works, Finishes, CalmStop, Restart
  <2> QED
    BY <2>1, <2>2, LeaseSteps
<1>2. \A r \in Replica : pc[r] = "down" \/ Ran(r)
  BY <1>1 DEF Slow, Alive, Ran, TypeOK, LoopRec
<1>3. \A r \in Replica : loop[r].wake \in Nat /\ loop[r].wake <= now + 1 /\ now \in Nat
  BY DEF LeaseInv, TypeOK, LoopRec
<1>4. \E r \in Replica : pc[r] # "down"
  <2> SUFFICES ASSUME \A r \in Replica : pc[r] = "down" PROVE FALSE
    OBVIOUS
  <2>1. {r \in Replica : pc[r] = "down"} = Replica
    OBVIOUS
  <2>2. Cardinality(Replica) <= Stopped /\ Stopped < Cardinality(Replica) /\ Cardinality(Replica) \in Nat
    BY <2>1, ConstantsAssumption, FS_CardinalityType DEF LeaseInv, Rolling
  <2> QED
    BY <2>2
<1>5. Timely
  <2>1. CASE lock.owner \in Replica
    BY <1>2, <2>1 DEF LeaseInv, DrawInv
  <2>2. CASE lock.owner = Gone /\ now < lock.exp
    <3> SUFFICES ASSUME NEW t \in inWave PROVE now < Ends(ticket[t].wave) + Delayed
      BY DEF Timely
    <3>1. lock.exp <= Ends(ticket[t].wave) + Delayed
      BY <2>2 DEF DrawInv
    <3>2. Ends(ticket[t].wave) \in Int /\ lock.exp \in Nat /\ now \in Nat
      BY EndsMonotone, Fields DEF TypeOK, LockRec
    <3> QED
      BY <2>2, <3>1, <3>2
  <2>3. CASE lock.owner \notin Replica /\ ~(lock.owner = Gone /\ now < lock.exp)
    BY <1>2, <2>3 DEF DrawInv, Served
  <2> QED
    BY <2>1, <2>2, <2>3
<1>6. UNCHANGED <<inWave, ticket, req, lastWave>>
  <2>1. CASE Tick
    BY <2>1 DEF Tick, storeVars
  <2>2. CASE ~Tick
    BY <1>1, <2>2, CalmFrame DEF PromptNext
  <2> QED
    BY <2>1, <2>2
<1>7. \A r \in Replica : pc[r] \in {"idle", "down"} /\ ~(loop[r].wake > now + 1)
  BY <1>2, <1>3 DEF Ran
<1> QED
  BY <1>1, <1>4, <1>5, <1>6, <1>7 DEF Idles

(* What lastwave records is over, and before every wave that may fill. *)
LEMMA RecordStep ==
    ASSUME TypeOK, TypeOK', Placement, Placement', CalmInv, LeaseInv, DrawInv, CalmNext
    PROVE  /\ lastWave' = -1 \/ Ends(lastWave') <= now'
           /\ \A t \in inWave' : lastWave' < ticket'[t].wave
           /\ \A t \in Ticket : req'[t].pc = "create" => lastWave' < req'[t].val
<1>1. /\ now \in Nat /\ now' \in Nat /\ now <= now' /\ lastWave \in Int /\ lastWave' \in Int
      /\ cfg.waveSec = W
  BY CalmFrame DEF TypeOK, CalmInv, SettingInv, W
<1>2. Ends(lastWave) \in Int
  BY <1>1, EndsMonotone
<1>3. \A w \in Int : ~Over(w) /\ w >= 1 /\ (lastWave = -1 \/ Over(lastWave)) => lastWave < w
  <2> SUFFICES ASSUME NEW w \in Int, ~Over(w), w >= 1, lastWave = -1 \/ Over(lastWave) PROVE lastWave < w
    OBVIOUS
  <2>1. Ends(w) \in Int /\ (w <= lastWave <=> Ends(w) <= Ends(lastWave))
    BY <1>1, EndsMonotone
  <2> QED
    BY <1>1, <1>2, <2>1 DEF Over
<1>4. CASE lastWave' = lastWave
  <2>1. lastWave' = -1 \/ Ends(lastWave') <= now'
    BY <1>1, <1>2, <1>4 DEF DrawInv, Over
  <2>2. ASSUME NEW t \in inWave' PROVE lastWave' < ticket'[t].wave
    BY <1>4, <2>2, Members DEF DrawInv
  <2>3. ASSUME NEW t \in Ticket, req'[t].pc = "create" PROVE lastWave' < req'[t].val
    <3>1. CASE req'[t] = req[t]
      BY <1>4, <2>3, <3>1 DEF DrawInv
    <3>2. CASE req'[t].val = Wave(now, W)
      <4>1. /\ Wave(now, W) \in Int /\ Wave(now, W) >= 1 /\ ~Over(Wave(now, W))
        BY WaveNow DEF CalmInv
      <4> QED
        BY <1>3, <1>4, <3>2, <4>1 DEF DrawInv
    <3> QED
      BY <1>1, <2>3, <3>1, <3>2, TicketSteps DEF TicketStep
  <2> QED
    BY <2>1, <2>2, <2>3
<1>5. ASSUME NEW r \in Replica, Notes(r)
      PROVE  /\ lastWave' = -1 \/ Ends(lastWave') <= now'
             /\ \A t \in inWave' : lastWave' < ticket'[t].wave
             /\ \A t \in Ticket : req'[t].pc = "create" => lastWave' < req'[t].val
  <2>1. /\ lastWave' = tick[r].n /\ UNCHANGED <<now, ticket, req>>
        /\ Over(tick[r].n) /\ \A t \in inWave' : tick[r].n < ticket[t].wave
    BY <1>5, NotedOver DEF Notes, CalmInv
  <2>2. ASSUME NEW t \in Ticket, req[t].pc = "create" PROVE lastWave' < req[t].val
    <3>1. req[t].val \in Int /\ ~Over(req[t].val)
      BY <2>2, Fields DEF CalmInv, EntryInv, TypeOK
    <3>2. Ends(req[t].val) \in Int /\ Ends(lastWave') \in Int
          /\ (req[t].val <= lastWave' <=> Ends(req[t].val) <= Ends(lastWave'))
      BY <1>1, <3>1, EndsMonotone
    <3> QED
      BY <1>1, <2>1, <3>1, <3>2 DEF Over
  <2> QED
    BY <2>1, <2>2 DEF Over
<1> QED
  BY <1>4, <1>5, ClosingSteps

(* The order of the last phases of a tick. *)
LEMMA PhaseSteps ==
    ASSUME TypeOK, CalmNext, NEW q \in Replica, pc'[q] \in {"count", "pop", "admit"}
    PROVE  \/ pc'[q] = pc[q]
           \/ pc'[q] = "count" /\ pc[q] \in {"waves", "sweep"}
           \/ pc'[q] = "pop" /\ pc[q] = "count"
           \/ pc'[q] = "admit" /\ pc[q] = "pop"
<1> USE DEF TypeOK, storeVars, replicaVars, clientVars
<1>1. CASE UNCHANGED pc
  BY <1>1
<1>2. ASSUME NEW t \in Ticket, Client(t) PROVE UNCHANGED pc
  BY <1>2, Zenon DEF Client, TicketBegin, CreateTicket, AdmitDirect, StatusRead, StatusRank, StatusRequeue
<1>3. ASSUME NEW r \in Replica, pc[r] = "count", Sleep(r) \/ Goto(r, "pop")
      PROVE  pc'[q] = pc[q] \/ (pc'[q] = "pop" /\ pc[q] = "count")
  BY <1>3 DEF Sleep, Goto
<1>4. ASSUME NEW r \in Replica, Count(r) PROVE pc[r] = "count" /\ (Sleep(r) \/ Goto(r, "pop"))
  BY <1>4, Zenon DEF Count
<1>5. ASSUME NEW r \in Replica,
             \/ AcquireSet(r) \/ AcquireOwn(r) \/ Renew(r) \/ AcquireLost(r)
             \/ BeginTick(r) \/ CloseElapsed(r) \/ WavesDone(r) \/ CloseStray(r)
             \/ SweepDone(r) \/ RankWave(r) \/ DelWave(r) \/ Pop(r) \/ Admit(r) \/ FinishTick(r)
             \/ CalmStop(r) \/ Restart(r) \/ FetchKey(r)
      PROVE  \/ pc'[q] = pc[q]
             \/ pc'[q] = "count" /\ pc[q] \in {"waves", "sweep"}
             \/ pc'[q] = "admit" /\ pc[q] = "pop"
  BY <1>5 DEF AcquireSet, AcquireOwn, Renew, AcquireLost, BeginTick, CloseElapsed, PopWave,
     WavesDone, CloseStray, SweepDone, RankWave, DelWave, Record, Pop, Admit, FinishTick, Sleep,
     Goto, CalmStop, Restart, FetchKey
<1>6. Tick => UNCHANGED pc
  BY DEF Tick
<1>7. ASSUME NEW c \in Configs, PutRoom(c) PROVE UNCHANGED pc
  BY <1>7 DEF PutRoom
<1> QED
  BY <1>1, <1>2, <1>3, <1>4, <1>5, <1>6, <1>7 DEF CalmNext, Step, vars

(* A step that leaves a lease without a process, or finds one.             *)
LEMMA LeaseLeft ==
    ASSUME TypeOK, LeaseInv, PromptNext, lock'.owner = Gone
    PROVE  \/ lock' = lock /\ now <= now'
           \/ now' = now /\ \E r \in Replica : /\ CalmStop(r) /\ lock.owner = r
                                               /\ pc[r] = "idle" /\ lock'.exp = lock.exp
<1>1. now \in Nat /\ NoOne # Gone /\ Gone \notin Replica
  BY ConstantsAssumption DEF TypeOK, NoOne, Gone
<1>2. CASE Idles
  BY <1>1, <1>2 DEF Idles
<1>3. ASSUME NEW r \in Replica, AcquireSet(r) PROVE FALSE
  BY <1>1, <1>3 DEF AcquireSet
<1>4. ASSUME NEW r \in Replica, AcquireOwn(r) \/ AcquireLost(r) \/ BeginTick(r) \/ Works(r)
                                \/ Finishes(r) \/ Restart(r)
      PROVE  lock' = lock /\ now <= now'
  BY <1>1, <1>4 DEF AcquireOwn, AcquireLost, BeginTick, Works, Finishes, Restart, storeVars
<1>5. ASSUME NEW r \in Replica, Renew(r) PROVE lock' = lock /\ now <= now'
  <2>1. lock.owner = r /\ lock'.owner = lock.owner
    BY <1>5 DEF Renew, LeaseInv, TypeOK, LockRec
  <2> QED
    BY <1>1, <2>1
<1>6. ASSUME NEW r \in Replica, CalmStop(r)
      PROVE  /\ now' = now /\ pc[r] = "idle"
             /\ lock' = lock \/ (lock.owner = r /\ lock'.exp = lock.exp)
  BY <1>1, <1>6 DEF CalmStop, LeaveLease, TypeOK, LockRec
<1> QED
  BY <1>1, <1>2, <1>3, <1>4, <1>5, <1>6, LeaseSteps

(* A lease that is left ends before a wave is late: its owner slept, and   *)
(* had closed what was over when it still would.                           *)
LEMMA LeftStep ==
    ASSUME TypeOK, TypeOK', Placement, Placement', BudgetOK, EntryInv, LeaseInv, DrawInv,
           PromptNext, [Next]_vars, lock'.owner = Gone, now' < lock'.exp, NEW t \in inWave'
    PROVE  lock'.exp <= Ends(ticket'[t].wave) + Delayed'
<1> DEFINE e == Ends(ticket'[t].wave)
<1>1. /\ now \in Nat /\ now' \in Nat /\ lock.exp \in Nat /\ lock'.exp \in Nat /\ e \in Int
      /\ lock.exp <= now + LeaseTTL
  BY EndsMonotone, Fields DEF TypeOK, LockRec, LeaseInv
<1>2. /\ Delay \in Nat /\ Delay >= 1 /\ LeaseTTL <= Delay + 1 /\ LeaseTTL \in Nat
      /\ Delayed \in Nat /\ Delayed' \in Nat /\ Delayed <= Delayed'
      /\ Stopped > 0 => Delayed >= Delay
      /\ \A r \in Replica : CalmStop(r) => Delayed' = Delayed + Delay
  BY DelayCounts
<1>3. \/ t \in inWave /\ ticket'[t].wave = ticket[t].wave
      \/ t \in Ticket /\ req[t].pc = "create" /\ ticket'[t].wave = req[t].val
  BY Members DEF PromptNext
<1>4. CASE t \in Ticket /\ req[t].pc = "create" /\ ticket'[t].wave = req[t].val
  <2>1. now < e
    BY <1>1, <1>4 DEF EntryInv, Over
  <2>2. Delayed' >= Delay /\ lock'.exp = lock.exp
    <3>1. CASE lock' = lock
      BY <1>2, <3>1 DEF LeaseInv
    <3>2. ASSUME NEW r \in Replica, CalmStop(r), lock'.exp = lock.exp PROVE Delayed' >= Delay
      BY <1>2, <3>2
    <3> QED
      BY <3>1, <3>2, LeaseLeft
  <2> QED
    BY <1>1, <1>2, <2>1, <2>2
<1>5. CASE t \in inWave /\ ticket'[t].wave = ticket[t].wave
  <2>1. CASE lock' = lock /\ now <= now'
    BY <1>1, <1>2, <1>5, <2>1 DEF DrawInv
  <2>2. ASSUME NEW r \in Replica, CalmStop(r), lock.owner = r, pc[r] = "idle", lock'.exp = lock.exp
        PROVE  lock'.exp <= e + Delayed'
    <3>1. CASE Ran(r)
      <4>1. now < e + Delayed
        BY <1>5, <2>2, <3>1 DEF DrawInv, Timely
      <4> QED
        BY <1>1, <1>2, <2>2, <4>1
    <3>2. CASE ~Ran(r)
      <4>1. loop[r].wake \in Nat /\ loop[r].wake <= now /\ lock.exp < loop[r].wake + LeaseTTL
        BY <1>1, <2>2, <3>2 DEF Ran, LeaseInv, TypeOK, LoopRec
      <4>2. now <= e + Delayed
        BY <1>5 DEF DrawInv
      <4> QED
        BY <1>1, <1>2, <2>2, <4>1, <4>2
    <3> QED
      BY <3>1, <3>2
  <2> QED
    BY <2>1, <2>2, LeaseLeft
<1> QED
  BY <1>3, <1>4, <1>5

(* A wave is closed before the clock leaves the second in which it is over *)
(* by more seconds than stops explain.                                     *)
LEMMA DrawStep ==
    ASSUME TypeOK, TypeOK', Placement, Placement', BudgetOK, CalmInv, LeaseInv, DrawInv,
           Rolling, PromptNext, [Next]_vars
    PROVE  DrawInv'
<1>1. /\ now \in Nat /\ now' \in Nat /\ (now' = now \/ now' = now + 1)
      /\ cfg.waveSec = W /\ CalmNext
  BY CalmFrame DEF TypeOK, CalmInv, SettingInv, W, PromptNext
<1>a. /\ Delayed \in Nat /\ Delayed' \in Nat /\ Delayed <= Delayed' /\ Stopped \in Nat
      /\ \A r \in Replica : CalmStop(r) => Delayed < Delayed'
  BY StopsCount, DelayCounts
<1>2. \A t \in inWave' : now' <= Ends(ticket'[t].wave) + Delayed'
  <2> SUFFICES ASSUME NEW t \in inWave' PROVE now' <= Ends(ticket'[t].wave) + Delayed'
    OBVIOUS
  <2>1. ticket'[t].wave \in Int
    BY Fields DEF TypeOK
  <2>2. Ends(ticket'[t].wave) \in Int
    BY <2>1, EndsMonotone
  <2>3. CASE now' = now
    BY <1>1, <1>a, <2>2, <2>3, Members DEF DrawInv, CalmInv, EntryInv, Over
  <2>4. CASE now' # now
    BY <1>1, <1>a, <2>2, <2>4, ClockStep DEF Timely
  <2> QED
    BY <2>3, <2>4
<1>3. ASSUME now' # now
      PROVE  /\ \A r \in Replica : pc'[r] \in {"idle", "down"} /\ ~(loop'[r].wake > now')
             /\ Served'
  BY <1>3, <1>a, ClockStep DEF Served, Ran
<1>4. ASSUME now' = now, NEW r \in Replica
      PROVE  /\ pc'[r] = "waves" => ~tick'[r].sweep
             /\ pc'[r] = "sweep" => tick'[r].sweep
             /\ Closing(r)' => \A t \in inWave' : Ends(ticket'[t].wave) <= now' => tick'[r].n <= ticket'[t].wave
             /\ Closed(r)' => Fresh'
             /\ Ran(r)' /\ lock'.owner = r => Timely'
  <2>1. TickStep(r)
    BY <1>1, TickSteps
  <2>2. /\ pc[r] = "waves" => ~tick[r].sweep
        /\ pc[r] = "sweep" => tick[r].sweep
    BY DEF DrawInv
  <2>3. /\ pc'[r] = "waves" => ~tick'[r].sweep
        /\ pc'[r] = "sweep" => tick'[r].sweep
    BY <2>1, <2>2 DEF TickStep
  <2>4. ASSUME Closing(r)', NEW t \in inWave', Ends(ticket'[t].wave) <= now'
        PROVE  tick'[r].n <= ticket'[t].wave
    <3>1. t \in inWave /\ ticket'[t].wave = ticket[t].wave /\ Over(ticket[t].wave)
      BY <1>1, <1>4, <2>4, Members DEF CalmInv, EntryInv, Over
    <3>2. CASE Closing(r) /\ tick'[r].n = tick[r].n
      BY <3>1, <3>2 DEF DrawInv
    <3>3. CASE Notes(r)
      <4>1. tick[r].n < ticket[t].wave /\ tick'[r].n = tick[r].n + 1
        BY <3>3, NotedOver DEF CalmInv, Notes
      <4> QED
        BY <3>1, <4>1, Fields DEF TypeOK
    <3>4. CASE pc[r] = "begin" /\ tick'[r].n = ResumeWave(Wave(now, cfg.waveSec)) + 1
      BY <1>1, <1>a, <3>1, <3>4, Resumes DEF CalmInv
    <3>5. \/ Closing(r) /\ tick'[r].n = tick[r].n
          \/ Notes(r)
          \/ pc[r] = "begin" /\ tick'[r].n = ResumeWave(Wave(now, cfg.waveSec)) + 1
      BY <1>1, <2>1, <2>2, <2>4, ClosingSteps DEF TickStep, Closing
    <3> QED
      BY <3>2, <3>3, <3>4, <3>5
  <2>5. Closed(r) => Fresh' /\ Timely'
    BY <1>1, <1>a, <1>4, FreshStep, TimelyStep DEF DrawInv, CalmInv
  <2>6. ASSUME Closed(r)' PROVE Fresh'
    <3>1. CASE Closed(r)
      BY <2>5, <3>1
    <3>2. CASE pc[r] = "waves" /\ pc'[r] \in {"sweep", "count"}
      <4>1. Fresh
        BY <1>1, <3>2, ClosingSteps, NoneLeft DEF CalmInv
      <4> QED
        BY <1>1, <1>4, <4>1, FreshStep DEF CalmInv
    <3>3. Closed(r) \/ (pc[r] = "waves" /\ pc'[r] \in {"sweep", "count"})
      BY <1>1, <2>1, <2>2, <2>6, PhaseSteps DEF TickStep, Closed
    <3> QED
      BY <3>1, <3>2, <3>3
  <2>7. ASSUME Ran(r)', lock'.owner = r PROVE Timely'
    <3>1. CASE Ran(r) /\ lock.owner = r
      BY <1>1, <1>a, <1>4, <3>1, TimelyStep DEF DrawInv, CalmInv
    <3>2. CASE Closed(r)
      BY <2>5, <3>2
    <3>3. (Ran(r) /\ lock.owner = r) \/ Closed(r)
      <4> USE DEF Ran, Closed, TypeOK
      <4>1. CASE Idles
        BY <1>4, <2>7, <4>1 DEF Idles
      <4>2. ASSUME NEW q \in Replica, AcquireSet(q) \/ AcquireOwn(q) \/ Renew(q) PROVE lock'.owner = q /\ pc'[q] # "idle"
        BY <4>2 DEF AcquireSet, AcquireOwn, Renew, Goto, LockFree, LeaseInv, LockRec, storeVars
      <4>3. ASSUME NEW q \in Replica, AcquireLost(q) PROVE Ran(r) /\ lock.owner = r
        BY <2>7, <4>3 DEF AcquireLost, storeVars
      <4>4. ASSUME NEW q \in Replica, BeginTick(q) PROVE FALSE
        BY <2>7, <4>4 DEF BeginTick, Goto, LeaseInv, storeVars
      <4>5. ASSUME NEW q \in Replica, Works(q) PROVE Ran(r) /\ lock.owner = r
        BY <1>4, <2>7, <4>5 DEF Works, Busy
      <4>6. ASSUME NEW q \in Replica, Finishes(q) PROVE (Ran(r) /\ lock.owner = r) \/ Closed(r)
        BY <1>4, <2>7, <4>6 DEF Finishes
      <4>7. ASSUME NEW q \in Replica, CalmStop(q) PROVE Ran(r) /\ lock.owner = r
        <5>1. r # NoOne /\ r # Gone
          BY ConstantsAssumption
        <5> QED
          BY <2>7, <4>7, <5>1 DEF CalmStop, LeaveLease, Goto, LockRec
      <4>8. ASSUME NEW q \in Replica, Restart(q) PROVE Ran(r) /\ lock.owner = r
        BY <2>7, <4>8 DEF Restart, Goto, LeaseInv, storeVars
      <4> QED
        BY <2>7, <4>1, <4>2, <4>3, <4>4, <4>5, <4>6, <4>7, <4>8, LeaseSteps
    <3> QED
      BY <3>1, <3>2, <3>3
  <2> QED
    BY <2>3, <2>4, <2>6, <2>7
<1>5. \A r \in Replica :
          /\ pc'[r] = "waves" => ~tick'[r].sweep
          /\ pc'[r] = "sweep" => tick'[r].sweep
          /\ Closing(r)' => \A t \in inWave' : Ends(ticket'[t].wave) <= now' => tick'[r].n <= ticket'[t].wave
          /\ Closed(r)' => Fresh'
          /\ Ran(r)' /\ lock'.owner = r => Timely'
  BY <1>3, <1>4 DEF Closing, Closed, Ran
<1>6. Timely' \/ Served'
  <2>1. CASE now' # now
    BY <1>3, <2>1
  <2>2. CASE now' = now /\ Timely
    BY <1>1, <1>a, <2>2, TimelyStep DEF CalmInv
  <2>3. CASE now' = now /\ Served
    <3> USE DEF Served, Ran, TypeOK
    <3>1. CASE Idles
      BY <2>3, <3>1 DEF Idles
    <3>2. ASSUME NEW q \in Replica, AcquireSet(q) PROVE Served'
      BY <2>3, <3>2, <1>1, ConstantsAssumption DEF AcquireSet
    <3>3. ASSUME NEW q \in Replica, AcquireOwn(q) \/ AcquireLost(q) PROVE Served'
      BY <2>3, <3>3, <1>1 DEF AcquireOwn, AcquireLost, LockFree, LockRec, LeaseInv, storeVars
    <3>4. ASSUME NEW q \in Replica, Renew(q) PROVE Served'
      <4>1. lock.owner = q /\ now < lock.exp
        BY <3>4 DEF Renew, LeaseInv
      <4>2. ~LockFree
        BY <1>1, <4>1, ConstantsAssumption DEF LockFree, LockRec
      <4> QED
        BY <2>3, <3>4, <4>1, <4>2, <1>1, ConstantsAssumption DEF Renew, LockRec
    <3>5. ASSUME NEW q \in Replica, BeginTick(q) PROVE Served'
      BY <2>3, <3>5 DEF BeginTick, LeaseInv, storeVars
    <3>6. ASSUME NEW q \in Replica, Works(q) \/ Finishes(q) PROVE Served'
      BY <2>3, <3>6 DEF Works, Finishes, Busy, LeaseInv
    <3>7. ASSUME NEW q \in Replica, CalmStop(q) PROVE Timely'
      BY <1>1, <1>a, <2>3, <3>7, TimelyStep DEF CalmInv
    <3>8. ASSUME NEW q \in Replica, Restart(q) PROVE Served'
      BY <2>3, <3>8 DEF Restart, Goto, storeVars
    <3> QED
      BY <3>1, <3>2, <3>3, <3>4, <3>5, <3>6, <3>7, <3>8, LeaseSteps
  <2> QED
    BY <2>1, <2>2, <2>3 DEF DrawInv
<1>7. lock'.owner = Gone /\ now' < lock'.exp =>
          \A t \in inWave' : lock'.exp <= Ends(ticket'[t].wave) + Delayed'
  BY <1>1, LeftStep DEF CalmInv, Over
<1> QED
  BY <1>1, <1>2, <1>5, <1>6, <1>7, RecordStep DEF DrawInv, Over, Ends

(* In a new room nobody works, nobody has stopped and no wave exists. *)
LEMMA DrawInit == Init => LeaseInv /\ DrawInv
<1> SUFFICES ASSUME Init PROVE LeaseInv /\ DrawInv
  OBVIOUS
<1>1. now = Start /\ Start \in Nat /\ lock.owner = NoOne /\ NoOne # Gone /\ NoOne \notin Replica
  BY ConstantsAssumption DEF Init, NoOne, Gone
<1>2. \A r \in Replica : pc[r] = "idle" /\ loop[r].wake = Start
  BY DEF Init
<1>3. LeaseInv
  <2>1. {r \in Replica : pc[r] = "down"} = {}
    BY <1>2
  <2>2. Stopped = 0
    BY ConstantsAssumption DEF Init, Stopped, BudgetKeys
  <2>3. Cardinality({r \in Replica : pc[r] = "down"}) <= Stopped
    BY <2>1, <2>2, FS_EmptySet
  <2> QED
    BY <1>1, <1>2, <2>3, ConstantsAssumption DEF Init, LeaseInv, Busy
<1>4. DrawInv
  BY <1>1, <1>2 DEF Init, DrawInv, Closing, Closed, NoReq, Fresh, Timely
<1> QED
  BY <1>3, <1>4

(* As long as the room is on course the lease is with whoever works and    *)
(* waves are closed in their turn and in time.                             *)
LEMMA CourseHolds == Spec => [](OnCourse => CalmInv /\ LeaseInv /\ DrawInv)
<1> DEFINE Inv == OnCourse => LeaseInv /\ DrawInv
           Base == TypeOK /\ Placement /\ BudgetOK /\ (Calm /\ SweepsOnTime => CalmInv)
<1>1. Init => Inv
  BY DrawInit
<1>2. Base /\ Base' /\ Inv /\ [Next]_vars => Inv'
  <2> SUFFICES ASSUME Base, Base', Inv, [Next]_vars, OnCourse' PROVE LeaseInv' /\ DrawInv'
    OBVIOUS
  <2>1. CASE CalmInv
    <3>1. OnCourse /\ PromptNext
      BY <2>1, CourseStays, CourseSteps DEF CalmInv
    <3> QED
      BY <2>1, <3>1, LeaseStep, DrawStep DEF OnCourse
  <2>2. CalmInv
    <3>1. OnCourse
      BY CourseStays
    <3> QED
      BY <3>1, CourseIsCalm
  <2> QED
    BY <2>1, <2>2
<1>3. Base /\ Inv => (OnCourse => CalmInv /\ LeaseInv /\ DrawInv)
  BY CourseIsCalm
<1> QED
  BY <1>1, <1>2, <1>3, TypeCorrect, PlacementCorrect, CalmHolds, PTL DEF Spec

(* A wave is drawn at the first tick after its end and the grace second,   *)
(* or later by what the lease may outlive each stop between two ticks, for *)
(* any number of visitors and of replicas that share the lease.            *)
THEOREM DrawsAreOnTime == Spec => []DrawOnTime
<1>1. ASSUME OnCourse => CalmInv /\ LeaseInv /\ DrawInv
      PROVE  DrawOnTime
  <2> SUFFICES ASSUME OnCourse, NEW t \in inWave
               PROVE  now <= (ticket[t].wave + 1) * cfg.waveSec + WaveGrace + Delayed
    BY DEF DrawOnTime
  <2>1. cfg.waveSec = W
    BY <1>1 DEF CalmInv, SettingInv
  <2> QED
    BY <1>1, <2>1 DEF DrawInv, Ends
<1> QED
  BY <1>1, CourseHolds, PTL

-----------------------------------------------------------------------------
(* Waves are admitted in their order *)

(* A drawn ticket comes from a wave that is over, and its score says from  *)
(* which.                                                                  *)
ScoredInv == \A t \in Ticket : ticket[t].score # 0 =>
    /\ Over(ticket[t].wave)
    /\ WaveScore(ticket[t].wave, 0) <= ticket[t].score
    /\ ticket[t].score < WaveScore(ticket[t].wave + 1, 0)

(* Who waits with a score is in pending or in an admitter's hands, and     *)
(* polls only put it back.                                                 *)
QueuedInv == \A t \in Ticket :
    /\ ticket[t].status = "waiting" /\ ticket[t].score # 0 =>
           pending[t] # 0 \/ \E r \in Replica : t \in work[r]
    /\ req[t].pc = "requeue" => req[t].val # 0

(* ZPOPMIN has taken the lowest scores. *)
HeadsInv == \A r \in Replica : pc[r] = "admit" =>
    \A t \in work[r], u \in Ticket \ work[r] :
        ticket[u].status = "waiting" /\ ticket[u].score # 0 => ticket[t].score <= ticket[u].score

(* Who was admitted came from the line, or while the room was open. *)
EnteredInv == \A t \in Ticket :
    ticket[t].status = "admitted" => ticket[t].wave = 0 \/ ticket[t].score # 0

(* The order itself. *)
InOrder == \A t, u \in Ticket :
    ticket[t].status = "admitted" /\ ticket[u].status = "waiting" => ticket[t].wave <= ticket[u].wave

OrderInv == ScoredInv /\ QueuedInv /\ HeadsInv /\ EnteredInv /\ InOrder

(* Steps that move no ticket. *)
Rests ==
    /\ UNCHANGED <<ticket, pending, work>>
    /\ \A r \in Replica : pc'[r] = "admit" => pc[r] = "admit"
    /\ \A t \in Ticket : req'[t].pc = "requeue" => req'[t] = req[t] \/ req'[t].val # 0

(* What a calm step is to the tickets that are drawn. *)
LEMMA OrderSteps ==
    ASSUME TypeOK, Placement, CalmNext
    PROVE  \/ Rests
           \/ \E t \in Ticket : CreateTicket(t) \/ AdmitDirect(t) \/ StatusRequeue(t)
           \/ \E r \in Replica : RankWave(r) \/ Pop(r) \/ Admit(r)
<1> USE DEF TypeOK, Rests, storeVars, replicaVars, clientVars
<1>1. CASE UNCHANGED <<ticket, pending, work, pc, req>>
  BY <1>1
<1>2. CASE Tick
  BY <1>1, <1>2 DEF Tick
<1>3. ASSUME NEW t \in Ticket, TicketBegin(t) \/ StatusRead(t) PROVE Rests
  BY <1>3 DEF TicketBegin, StatusRead
<1>4. ASSUME NEW t \in Ticket, StatusRank(t) PROVE Rests
  <2>1. CASE pending[t] = 0 /\ req[t].val > 0
    <3>1. req' = [req EXCEPT ![t].pc = "requeue"] /\ UNCHANGED <<ticket, pending, work, pc>>
      BY <1>4, <2>1 DEF StatusRank
    <3>2. req[t] \in ReqRec /\ req[t].val # 0
      BY <2>1
    <3>3. req'[t].val # 0
      BY <3>1, <3>2 DEF ReqRec
    <3> QED
      BY <3>1, <3>3
  <2>2. CASE ~(pending[t] = 0 /\ req[t].val > 0)
    BY <1>4, <2>2 DEF StatusRank, NoReq
  <2> QED
    BY <2>1, <2>2
<1>5. ASSUME NEW r \in Replica,
             AcquireSet(r) \/ AcquireOwn(r) \/ Renew(r) \/ SweepDone(r) \/ CalmStop(r) \/ Restart(r)
             \/ BeginTick(r) \/ WavesDone(r)
      PROVE  Rests
  BY <1>5 DEF AcquireSet, AcquireOwn, Renew, Goto, SweepDone, CalmStop, Restart, BeginTick, WavesDone
<1>6. ASSUME NEW r \in Replica, AcquireLost(r) \/ FetchKey(r) PROVE UNCHANGED <<ticket, pending, work, pc, req>>
  BY <1>6 DEF AcquireLost, FetchKey
<1>7. ASSUME NEW r \in Replica, CloseElapsed(r) \/ CloseStray(r) PROVE Rests
  BY <1>7 DEF CloseElapsed, CloseStray, PopWave, Goto
<1>8. ASSUME NEW r \in Replica, DelWave(r) PROVE Rests
  BY <1>8 DEF DelWave, Record, Goto
<1>9. ASSUME NEW r \in Replica, Count(r) PROVE Rests
  <2>1. work[r] = {} /\ pc[r] = "count"
    BY <1>9 DEF Count, Placement, HandsEmpty
  <2>2. /\ UNCHANGED <<ticket, pending, req>>
        /\ Sleep(r) \/ (Goto(r, "pop") /\ UNCHANGED work)
    BY <1>9, Zenon DEF Count
  <2>3. CASE Sleep(r)
    <3>1. work' = work
      BY <2>1, <2>3 DEF Sleep
    <3> QED
      BY <2>1, <2>2, <2>3, <3>1 DEF Sleep, Goto
  <2>4. CASE Goto(r, "pop") /\ UNCHANGED work
    BY <2>1, <2>2, <2>4 DEF Goto
  <2> QED
    BY <2>2, <2>3, <2>4
<1>10. ASSUME NEW r \in Replica, FinishTick(r) PROVE Rests
  BY <1>10 DEF FinishTick, Sleep, Goto
<1>11. ASSUME NEW c \in Configs, PutRoom(c) PROVE UNCHANGED <<ticket, pending, work, pc, req>>
  BY <1>11 DEF PutRoom
<1>12. CASE UNCHANGED vars
  BY <1>1, <1>12 DEF vars
<1> QED
  BY <1>1, <1>2, <1>3, <1>4, <1>5, <1>6, <1>7, <1>8, <1>9, <1>10, <1>11, <1>12
  DEF CalmNext, Step, Client

(* While one replica works, no other holds a ticket. *)
LEMMA Alone ==
    ASSUME Placement, LeaseInv, NEW r \in Replica, pc[r] \notin {"idle", "down"}, NEW q \in Replica \ {r}
    PROVE  pc[q] \in {"idle", "down"} /\ work[q] = {} /\ batch[q] = {}
<1>1. pc[q] \in {"idle", "down"}
  BY DEF LeaseInv
<1> QED
  BY <1>1 DEF Placement, HandsEmpty

(* Steps that move no ticket. *)
LEMMA RestsStep ==
    ASSUME TypeOK, TypeOK', OrderInv, CalmNext, Rests
    PROVE  OrderInv'
<1>1. now \in Nat /\ now' \in Nat /\ now <= now'
  BY CalmFrame DEF TypeOK
<1>2. \A t \in Ticket : ticket[t].wave \in Int /\ Ends(ticket[t].wave) \in Int
  BY Fields, EndsMonotone DEF TypeOK
<1>3. ScoredInv'
  BY <1>1, <1>2 DEF OrderInv, ScoredInv, Rests, Over, Ends
<1>4. QueuedInv' /\ HeadsInv' /\ EnteredInv' /\ InOrder'
  BY DEF OrderInv, QueuedInv, HeadsInv, EnteredInv, InOrder, Rests
<1> QED
  BY <1>3, <1>4 DEF OrderInv

(* Who enters the line enters a wave later than any that was drawn. *)
LEMMA EnterStep ==
    ASSUME TypeOK, TypeOK', Placement, CalmInv, OrderInv,
           NEW v \in Ticket, CreateTicket(v) \/ AdmitDirect(v)
    PROVE  OrderInv'
<1>1. /\ UNCHANGED <<now, pending, work, pc>> /\ ticket[v].status = "none"
      /\ \A t \in Ticket \ {v} : ticket'[t] = ticket[t] /\ req'[t] = req[t]
      /\ req'[v].pc = "idle"
  BY DEF CreateTicket, AdmitDirect, Placement, CreatesFresh, NoReq, TypeOK, replicaVars
<1>2. /\ ticket'[v].score = 0
      /\ \/ ticket'[v].status = "admitted" /\ ticket'[v].wave = 0
         \/ /\ ticket'[v].status = "waiting" /\ ticket'[v].wave = req[v].val
            /\ req[v].pc = "create"
  BY DEF CreateTicket, AdmitDirect, TypeOK
<1>3. ScoredInv'
  BY <1>1, <1>2 DEF OrderInv, ScoredInv, Over, Ends
<1>4. QueuedInv'
  BY <1>1, <1>2 DEF OrderInv, QueuedInv
<1>5. ticket[v].score = 0
  BY <1>1 DEF Placement, FreshClean
<1>6. HeadsInv'
  <2>1. \A r \in Replica : v \notin work[r]
    BY <1>5 DEF Placement, ScoresAgree
  <2> QED
    BY <1>1, <1>2, <2>1 DEF OrderInv, HeadsInv, TypeOK
<1>7. EnteredInv'
  BY <1>1, <1>2 DEF OrderInv, EnteredInv
<1>8. InOrder'
  <2> SUFFICES ASSUME NEW t \in Ticket, NEW u \in Ticket,
                      ticket'[t].status = "admitted", ticket'[u].status = "waiting"
               PROVE  ticket'[t].wave <= ticket'[u].wave
    BY DEF InOrder
  <2>1. CASE t # v /\ u # v
    BY <1>1, <2>1 DEF OrderInv, InOrder
  <2>2. CASE t = v
    <3>1. u # v /\ ticket'[t].wave = 0
      BY <1>2, <2>2
    <3>2. ticket'[u] = ticket[u] /\ ticket[u].wave >= 1
      BY <1>1, <3>1 DEF CalmInv, EntryInv
    <3> QED
      BY <3>1, <3>2, Fields DEF TypeOK
  <2>3. CASE t # v /\ u = v
    <3>1. ticket'[t] = ticket[t] /\ ticket'[u].wave = req[v].val /\ req[v].val >= 1 /\ ~Over(req[v].val)
      BY <1>1, <1>2, <2>3 DEF CalmInv, EntryInv
    <3>2. ticket[t].wave = 0 \/ Over(ticket[t].wave)
      BY <3>1 DEF OrderInv, EnteredInv, ScoredInv
    <3>3. ticket[t].wave \in Int /\ req[v].val \in Int /\ now \in Nat
      BY Fields DEF TypeOK
    <3>4. /\ Ends(ticket[t].wave) \in Int /\ Ends(req[v].val) \in Int
          /\ (req[v].val <= ticket[t].wave <=> Ends(req[v].val) <= Ends(ticket[t].wave))
      BY <3>3, EndsMonotone
    <3> QED
      BY <3>1, <3>2, <3>3, <3>4 DEF Over
  <2> QED
    BY <2>1, <2>2, <2>3
<1> QED
  BY <1>3, <1>4, <1>6, <1>7, <1>8 DEF OrderInv

(* A poll puts a ticket back with its own score. *)
LEMMA RequeueStep ==
    ASSUME TypeOK, TypeOK', OrderInv, NEW v \in Ticket, StatusRequeue(v)
    PROVE  OrderInv'
<1>1. /\ UNCHANGED <<now, ticket, work, pc>> /\ req[v].pc = "requeue" /\ pending'[v] = req[v].val
      /\ \A t \in Ticket \ {v} : pending'[t] = pending[t] /\ req'[t] = req[t]
      /\ req'[v].pc = "idle"
  BY DEF StatusRequeue, NoReq, TypeOK, replicaVars
<1>2. ScoredInv' /\ HeadsInv' /\ EnteredInv' /\ InOrder'
  BY <1>1 DEF OrderInv, ScoredInv, HeadsInv, EnteredInv, InOrder, Over, Ends
<1>3. QueuedInv'
  BY <1>1 DEF OrderInv, QueuedInv
<1> QED
  BY <1>2, <1>3 DEF OrderInv

(* The ranks one score has room for: none of them carries into the wave.   *)
Ranks == 10000000
RanksFit == Cardinality(Ticket) <= Ranks

(* A score with such a rank lies between those of its wave and the next.   *)
LEMMA ScoreBounds ==
    /\ Ranks \in Nat
    /\ \A m \in Int, k \in 0..(Ranks - 1) : m >= 1 =>
         /\ WaveScore(m, k) # 0 /\ WaveScore(m, 0) <= WaveScore(m, k)
         /\ WaveScore(m, k) < WaveScore(m + 1, 0)
<1>1. Ranks \in Nat /\ Ranks > 0
  BY SMT DEF Ranks
<1>2. \A m, k \in Int : m >= 1 /\ 0 <= k /\ k < Ranks =>
        /\ m * Ranks + k # 0 /\ m * Ranks + 0 <= m * Ranks + k
        /\ m * Ranks + k < (m + 1) * Ranks + 0
  BY SMT DEF Ranks
<1>3. \A m, k \in Int : WaveScore(m, k) = m * Ranks + k
  BY SMT DEF WaveScore, Ranks
<1>4. ASSUME NEW m \in Int, NEW k \in 0..(Ranks - 1), m >= 1
      PROVE  /\ WaveScore(m, k) # 0 /\ WaveScore(m, 0) <= WaveScore(m, k)
             /\ WaveScore(m, k) < WaveScore(m + 1, 0)
  <2>1. m + 1 \in Int /\ k \in Int /\ 0 <= k /\ k < Ranks /\ 0 \in Int
    BY <1>1
  <2>2. /\ WaveScore(m, k) = m * Ranks + k /\ WaveScore(m, 0) = m * Ranks + 0
        /\ WaveScore(m + 1, 0) = (m + 1) * Ranks + 0
    BY <1>3, <2>1
  <2> QED
    BY <1>2, <1>4, <2>1, <2>2
<1> QED
  BY <1>1, <1>4

(* CloseWave gives the tickets of a wave scores that begin with its number. *)
LEMMA RankStep ==
    ASSUME TypeOK, TypeOK', Placement, CalmInv, LeaseInv, OrderInv,
           RanksFit, NEW r \in Replica, RankWave(r)
    PROVE  OrderInv'
<1> DEFINE B == batch[r]
           n == tick[r].n
<1>1. PICK f \in Shuffles(B) :
        /\ ticket' = [t \in Ticket |-> IF t \in B THEN Scored(t, WaveScore(n, f[t])) ELSE ticket[t]]
        /\ pending' = [t \in Ticket |-> IF t \in B THEN WaveScore(n, f[t]) ELSE pending[t]]
  BY Zenon DEF RankWave
<1>2. /\ UNCHANGED <<now, work, req>> /\ pc[r] = "rank"
      /\ \A q \in Replica : pc'[q] = "admit" => pc[q] = "admit" /\ q # r
  BY DEF RankWave, Goto, TypeOK, clientVars
<1>3. ASSUME NEW t \in B
      PROVE  /\ t \in Ticket /\ ticket[t].wave = n /\ ticket[t].status = "waiting" /\ n >= 1
             /\ n \in Int /\ Over(n) /\ f[t] \in 0..(Ranks - 1)
  <2>1. t \in Ticket /\ ticket[t].status = "waiting"
    BY DEF TypeOK, Placement, UndrawnWaits, Undrawn
  <2>2. ticket[t].wave = n /\ n >= 1 /\ n \in Int /\ Over(n)
    BY <1>2, <2>1, Fields DEF CalmInv, ClosedInv, EntryInv, TypeOK
  <2>3. /\ IsFiniteSet(B) /\ Cardinality(B) \in Nat /\ Cardinality(Ticket) \in Nat
        /\ Cardinality(B) <= Cardinality(Ticket)
    <3>1. B \subseteq Ticket
      BY DEF TypeOK
    <3> QED
      BY <3>1, ConstantsAssumption, FS_Subset, FS_CardinalityType
  <2>4. f[t] \in 0..(Cardinality(B) - 1)
    BY DEF Shuffles
  <2>5. f[t] \in 0..(Ranks - 1)
    <3> HIDE DEF B
    <3> QED
      BY <2>3, <2>4, ScoreBounds DEF RanksFit
  <2> QED
    BY <2>1, <2>2, <2>5
<1>4. \A t \in Ticket :
        /\ ticket'[t].wave = ticket[t].wave /\ ticket'[t].status = ticket[t].status
        /\ t \notin B => ticket'[t] = ticket[t] /\ pending'[t] = pending[t]
        /\ t \in B => /\ ticket'[t].score = WaveScore(n, f[t]) /\ pending'[t] = WaveScore(n, f[t])
  <2>1. \A t \in Ticket : ticket[t] \in TicketRec
    BY DEF TypeOK
  <2>2. \A e \in TicketRec : \A x :
           LET g == [e EXCEPT !.score = x] IN g.wave = e.wave /\ g.status = e.status /\ g.score = x
    BY DEF TicketRec
  <2> QED
    BY <1>1, <2>1, <2>2 DEF Scored
<1>5. \A t \in B : /\ WaveScore(n, f[t]) # 0
                   /\ WaveScore(n, 0) <= WaveScore(n, f[t])
                   /\ WaveScore(n, f[t]) < WaveScore(n + 1, 0)
  <2> SUFFICES ASSUME NEW t \in B PROVE /\ WaveScore(n, f[t]) # 0
                                         /\ WaveScore(n, 0) <= WaveScore(n, f[t])
                                         /\ WaveScore(n, f[t]) < WaveScore(n + 1, 0)
    OBVIOUS
  <2>1. n \in Int /\ n >= 1 /\ f[t] \in 0..(Ranks - 1)
    BY <1>3
  <2> QED
    BY <2>1, ScoreBounds
<1>6. ScoredInv'
  BY <1>2, <1>3, <1>4, <1>5 DEF OrderInv, ScoredInv, Over, Ends
<1>7. QueuedInv'
  BY <1>2, <1>4, <1>5 DEF OrderInv, QueuedInv
<1>8. HeadsInv'
  <2>1. \A q \in Replica : pc'[q] # "admit"
    <3>1. \A q \in Replica \ {r} : pc[q] \in {"idle", "down"}
      BY <1>2, Alone
    <3> QED
      BY <1>2, <3>1
  <2> QED
    BY <2>1 DEF HeadsInv
<1>9. EnteredInv' /\ InOrder'
  BY <1>3, <1>4 DEF OrderInv, EnteredInv, InOrder
<1> QED
  BY <1>6, <1>7, <1>8, <1>9 DEF OrderInv

(* ZPOPMIN takes the lowest scores of all who are drawn and wait. *)
LEMMA PopStep ==
    ASSUME TypeOK, TypeOK', Placement, LeaseInv, OrderInv, NEW r \in Replica, Pop(r)
    PROVE  OrderInv'
<1>1. PICK S \in Heads(tick[r].k) :
        /\ work' = [work EXCEPT ![r] = S]
        /\ pending' = [t \in Ticket |-> IF t \in S THEN 0 ELSE pending[t]]
  BY Zenon DEF Pop
<1>2. /\ UNCHANGED <<now, ticket, req>> /\ pc[r] = "pop"
      /\ \A q \in Replica : pc'[q] = IF q = r THEN "admit" ELSE pc[q]
      /\ work'[r] = S /\ \A q \in Replica \ {r} : work'[q] = work[q]
      /\ \A t \in Ticket : pending'[t] = IF t \in S THEN 0 ELSE pending[t]
  BY <1>1 DEF Pop, Goto, TypeOK, clientVars
<1>3. /\ S \subseteq PendingSet
      /\ \A t \in S, u \in PendingSet \ S : pending[t] <= pending[u]
  BY DEF Heads
<1>4. work[r] = {} /\ \A q \in Replica \ {r} : work[q] = {} /\ pc[q] # "admit"
  BY <1>2, Alone DEF Placement, HandsEmpty
<1>5. \A t \in Ticket : ticket[t].status = "waiting" /\ ticket[t].score # 0 => pending[t] # 0
  BY <1>4 DEF OrderInv, QueuedInv
<1>6. ScoredInv' /\ EnteredInv' /\ InOrder'
  BY <1>2 DEF OrderInv, ScoredInv, EnteredInv, InOrder, Over, Ends
<1>7. QueuedInv'
  BY <1>2, <1>4, <1>5 DEF OrderInv, QueuedInv
<1>8. HeadsInv'
  <2> SUFFICES ASSUME NEW t \in S, NEW u \in Ticket \ S,
                      ticket[u].status = "waiting", ticket[u].score # 0
               PROVE  ticket[t].score <= ticket[u].score
    BY <1>2, <1>4 DEF HeadsInv
  <2>1. t \in PendingSet /\ u \in PendingSet \ S
    BY <1>3, <1>5 DEF PendingSet
  <2>2. pending[t] = ticket[t].score /\ pending[u] = ticket[u].score
    BY <2>1 DEF PendingSet, Placement, ScoresAgree
  <2> QED
    BY <1>3, <2>1, <2>2
<1> QED
  BY <1>6, <1>7, <1>8 DEF OrderInv

(* The lowest score is admitted, and no wave that was drawn before is left. *)
LEMMA AdmitStep ==
    ASSUME TypeOK, TypeOK', Placement, CalmInv, LeaseInv, DrawInv, OrderInv,
           NEW r \in Replica, Admit(r)
    PROVE  OrderInv'
<1>1. PICK v \in NextIds(r) :
        /\ ticket' = [ticket EXCEPT ![v] = Marked(v, tick[r].now + tick[r].cfg.passTTL)]
        /\ work' = [work EXCEPT ![r] = @ \ {v}]
  BY Zenon DEF Admit
<1>2. v \in Ticket /\ v \in work[r] /\ \A u \in work[r] : ticket[v].score <= ticket[u].score
  BY DEF NextIds, TypeOK
<1>3. /\ UNCHANGED <<now, pending, pc, req>> /\ pc[r] = "admit"
      /\ work'[r] = work[r] \ {v} /\ \A q \in Replica \ {r} : work'[q] = work[q]
  BY <1>1 DEF Admit, TypeOK, clientVars
<1>4. /\ \A t \in Ticket \ {v} : ticket'[t] = ticket[t]
      /\ ticket'[v].status = "admitted" /\ ticket'[v].wave = ticket[v].wave
      /\ ticket'[v].score = ticket[v].score
  <2>1. ticket[v] \in TicketRec
    BY <1>2 DEF TypeOK
  <2>2. \A x : LET g == Marked(v, x)
               IN g.status = "admitted" /\ g.wave = ticket[v].wave /\ g.score = ticket[v].score
    BY <2>1 DEF Marked, TicketRec
  <2> QED
    BY <1>1, <1>2, <2>2 DEF TypeOK
<1>5. ticket[v].score # 0
  BY <1>2 DEF Placement, ScoresAgree
<1>6. \A q \in Replica \ {r} : work[q] = {} /\ batch[q] = {} /\ pc[q] # "admit"
  BY <1>3, Alone
<1>7. ScoredInv' /\ EnteredInv'
  BY <1>3, <1>4, <1>5 DEF OrderInv, ScoredInv, EnteredInv, Over, Ends
<1>8. QueuedInv'
  BY <1>3, <1>4 DEF OrderInv, QueuedInv
<1>9. HeadsInv'
  <2> SUFFICES ASSUME NEW t \in work'[r], NEW u \in Ticket \ work'[r],
                      ticket'[u].status = "waiting", ticket'[u].score # 0
               PROVE  ticket'[t].score <= ticket'[u].score
    BY <1>3, <1>6 DEF HeadsInv
  <2>1. u # v /\ u \in Ticket \ work[r] /\ t \in work[r] /\ t \in Ticket
    BY <1>3, <1>4 DEF TypeOK
  <2>2. ticket[t].score <= ticket[u].score
    BY <1>3, <1>4, <2>1 DEF OrderInv, HeadsInv
  <2> QED
    BY <1>4, <2>1, <2>2
<1>10. InOrder'
  <2> SUFFICES ASSUME NEW u \in Ticket, u # v, ticket[u].status = "waiting"
               PROVE  ticket[v].wave <= ticket[u].wave
    BY <1>2, <1>4 DEF OrderInv, InOrder
  <2>1. /\ ticket[v].wave \in Int /\ ticket[u].wave \in Int /\ ticket[v].score \in Int
        /\ ticket[u].score \in Int /\ now \in Nat
    BY <1>2, Fields DEF TypeOK
  <2>2. /\ Over(ticket[v].wave) /\ WaveScore(ticket[v].wave, 0) <= ticket[v].score
    BY <1>2, <1>5 DEF OrderInv, ScoredInv
  <2>3. CASE u \in inWave
    <3>1. ~Over(ticket[u].wave)
      BY <1>3, <2>3 DEF DrawInv, Closed, Fresh
    <3>2. /\ Ends(ticket[v].wave) \in Int /\ Ends(ticket[u].wave) \in Int
          /\ (ticket[u].wave <= ticket[v].wave <=> Ends(ticket[u].wave) <= Ends(ticket[v].wave))
      BY <2>1, EndsMonotone
    <3> QED
      BY <2>1, <2>2, <3>1, <3>2 DEF Over
  <2>4. CASE ticket[u].score # 0
    <3>1. ticket[v].score <= ticket[u].score
      BY <1>2, <1>3, <2>4 DEF OrderInv, HeadsInv
    <3>2. ticket[u].score < WaveScore(ticket[u].wave + 1, 0)
      BY <2>4 DEF OrderInv, ScoredInv
    <3> QED
      BY <2>1, <2>2, <3>1, <3>2 DEF WaveScore
  <2>5. \A q \in Replica : u \notin batch[q]
    BY <1>3, <1>6 DEF Placement, HandsEmpty
  <2> QED
    BY <2>3, <2>4, <2>5 DEF CalmInv, ShelterInv
<1> QED
  BY <1>7, <1>8, <1>9, <1>10 DEF OrderInv

(* As long as the room is on course and ranks fit, the order is kept. *)
LEMMA OrderHolds == Spec => [](OnCourse /\ RanksFit => OrderInv)
<1> DEFINE Inv == OnCourse /\ RanksFit => OrderInv
           Course == OnCourse => CalmInv /\ LeaseInv /\ DrawInv
           Base == TypeOK /\ Placement /\ BudgetOK /\ Course
<1>1. Init => Inv
  BY DEF Init, OrderInv, ScoredInv, QueuedInv, HeadsInv, EnteredInv, InOrder, NoTicket, NoReq
<1>2. Base /\ Base' /\ Inv /\ [Next]_vars => Inv'
  <2> SUFFICES ASSUME Base, Base', Inv, [Next]_vars, OnCourse', RanksFit PROVE OrderInv'
    OBVIOUS
  <2>1. CalmInv /\ LeaseInv /\ DrawInv /\ OrderInv
    BY CourseStays
  <2>2. CalmNext
    BY <2>1, CourseSteps DEF CalmInv, PromptNext
  <2> QED
    BY <2>1, <2>2, OrderSteps, RestsStep, EnterStep, RequeueStep, RankStep, PopStep, AdmitStep
<1> QED
  BY <1>1, <1>2, TypeCorrect, PlacementCorrect, CalmHolds, CourseHolds, PTL DEF Spec

(* No visitor of a later wave is admitted while one of an earlier wave     *)
(* waits, for any number of replicas that hand the lease on and of         *)
(* visitors up to the ten million ranks of a score.                        *)
THEOREM WavesInOrder == Spec => []WaveOrder
<1>1. (OnCourse /\ RanksFit => OrderInv) => WaveOrder
  BY DEF WaveOrder, RanksFit, Ranks, OrderInv, InOrder, Waiting
<1> QED
  BY <1>1, OrderHolds, PTL

-----------------------------------------------------------------------------
(* The limits of the room: max_active and rate *)

(* The terms of the room are those it began with. *)
TermsInv ==
    /\ cfg.state # "open" /\ cfg.rate = InitCfg.rate /\ cfg.maxActive = InitCfg.maxActive
    /\ \A r \in Replica : /\ tick[r].cfg.rate = InitCfg.rate
                          /\ tick[r].cfg.maxActive = InitCfg.maxActive
    /\ \A t \in Ticket : req[t].pc # "direct"

(* One replica works at a time, and at the time its tick began. *)
SoleInv == \A r \in Replica :
    /\ loop[r].wake <= now + 1
    /\ pc[r] \notin {"idle", "down"} => lock.owner = r /\ now < lock.exp
    /\ pc[r] \in Busy => tick[r].now = now
    /\ Ran(r) /\ lock.owner = r => now < lock.exp
    /\ pc[r] = "down" => lock.owner # r

(* The active set knows every pass that is still valid. *)
PassInv == \A t \in Ticket :
    ticket[t].status = "admitted" => active[t] = ticket[t].exp \/ ticket[t].exp <= now

(* There is room for those who are active and those who are about to be. *)
Act == {t \in Ticket : active[t] > now}
CapInv == InitCfg.maxActive > 0 =>
    /\ Cardinality(Act) <= InitCfg.maxActive
    /\ \A r \in Replica :
          /\ pc[r] = "pop" => Cardinality(Act) + tick[r].k <= InitCfg.maxActive
          /\ pc[r] = "admit" => Cardinality(Act) + Cardinality(work[r]) <= InitCfg.maxActive

(* What the rate allows until a time, and the seconds a tick has not yet   *)
(* credited to its bucket.                                                 *)
Earned(s) == InitCfg.rate * (s - Start)
Uncredited(r) == IF pc[r] \in {"waves", "rank", "del", "sweep", "count"} THEN tick[r].dt ELSE 0

(* A bucket holds what was earned up to its last tick and not yet spent;   *)
(* who does not lead has an empty one.                                     *)
Leads(r) == Alive(r) /\ loop[r].leader
Bucket(r) ==
    /\ ~loop[r].leader => loop[r].tokens = 0
    /\ loop[r].last <= now
    /\ pc[r] # "admit" => tick[r].done = 0
    /\ Uncredited(r) >= 0
    /\ pc[r] \in Busy => loop[r].leader
    /\ pc[r] = "pop" => tick[r].k <= loop[r].tokens
    /\ pc[r] = "admit" => Cardinality(work[r]) + tick[r].done <= loop[r].tokens
    /\ Leads(r) => admittedTotal + loop[r].tokens - tick[r].done + InitCfg.rate * Uncredited(r)
                      <= Earned(loop[r].last)

(* A leader that lost its lease has yet to notice in this second; until it *)
(* does, whoever took over has no tokens.                                  *)
Behind(r) == Leads(r) /\ lock.owner # r => pc[r] = "idle" /\ loop[r].wake <= now
TakesOver(r) == /\ loop[r].tokens = 0 /\ Uncredited(r) = 0
                /\ now < lock.exp /\ (Ran(r) \/ pc[r] \in Busy)
LeadersInv ==
    /\ \A r \in Replica : Behind(r)
    /\ \A r, s \in Replica : Leads(r) /\ Leads(s) /\ r # s =>
          lock.owner \in {r, s} /\ (lock.owner = r => TakesOver(r))

RateInv == (\A r \in Replica : Bucket(r)) /\ LeadersInv /\ admittedTotal <= Earned(now)

(* The terms of a configuration. *)
Terms(c) == c.state # "open" /\ c.rate = InitCfg.rate /\ c.maxActive = InitCfg.maxActive

(* The steps of a room in which no command fails and no replica stalls. *)
SteadyNext ==
    \/ Tick /\ Slow = {}
    \/ \E t \in Ticket : Client(t)
    \/ \E r \in Replica : Step(r) \/ Crash(r) \/ Stop(r) \/ Restart(r) \/ FetchKey(r)
    \/ \E c \in Configs : PutRoom(c) /\ Terms(cfg')
    \/ FlushPending \/ FlushWaves
    \/ UNCHANGED vars

(* As long as the room is steady it was before, and only those happen. *)
LEMMA SteadySteps ==
    ASSUME TypeOK, BudgetOK, Steady', [Next]_vars
    PROVE  Steady /\ (TermsInv => SteadyNext)
<1> DEFINE K == {"err", "stall", "late"}
<1>1. K \in SUBSET BudgetKeys /\ {"conf"} \in SUBSET BudgetKeys
  BY DEF BudgetKeys
<1>2. \A k \in K : ~Spend(k)
  BY <1>1, Spared DEF Steady, TypeOK
<1>3. ~Spend("err") /\ ~Spend("stall") /\ ~Spend("late")
  BY <1>2
<1>4. Steady
  BY <1>1, BudgetStep DEF Steady, SameTerms
<1>5. CASE Tick
  <2>1. Slow = {}
    BY <1>3, <1>5 DEF Tick
  <2> QED
    BY <1>4, <1>5, <2>1 DEF SteadyNext
<1>6. ASSUME NEW r \in Replica, Failure(r) PROVE Crash(r) \/ Stop(r)
  BY <1>3, <1>6, Zenon DEF Failure, AcquireErr, SweepErr, TickErr, DelErr, AdmitSkip, AdmitErr
<1>7. ASSUME NEW c \in Configs, PutRoom(c), TermsInv PROVE Terms(cfg')
  <2>1. ~Without({"conf"})'
    BY <1>1, <1>7, Spared DEF PutRoom, TypeOK
  <2>2. Refused(c) \/ Terms(Validate(c))
    BY <2>1 DEF Steady, SameTerms, Terms
  <2> QED
    BY <1>7, <2>2 DEF PutRoom, TermsInv, Terms
<1> QED
  BY <1>4, <1>5, <1>6, <1>7 DEF Next, Operator, SteadyNext

(* A step that touches no bucket, no lease and nobody's work. *)
Aside ==
    /\ UNCHANGED <<pc, tick, lock, work, admittedTotal>>
    /\ \A r \in Replica : /\ loop'[r].wake = loop[r].wake /\ loop'[r].leader = loop[r].leader
                          /\ loop'[r].tokens = loop[r].tokens /\ loop'[r].last = loop[r].last
    /\ \/ now' = now /\ active' \in {active, Purged(now)}
       \/ now' = now + 1 /\ Slow = {} /\ active' = active
    /\ \A t \in Ticket : \/ ticket'[t].status = ticket[t].status /\ ticket'[t].exp = ticket[t].exp
                         \/ ticket'[t].status = "waiting"

(* A step of the closing of waves. *)
WavePhases == {"waves", "rank", "del", "sweep"}
Phase(r) ==
    /\ pc[r] \in WavePhases /\ pc'[r] \in WavePhases \cup {"count"}
    /\ tick'[r].now = tick[r].now /\ tick'[r].dt = tick[r].dt /\ tick'[r].cfg = tick[r].cfg
    /\ tick'[r].k = tick[r].k /\ tick'[r].done = tick[r].done
    /\ \A q \in Replica \ {r} : pc'[q] = pc[q] /\ tick'[q] = tick[q]
    /\ UNCHANGED <<now, lock, loop, work, active, admittedTotal>>
    /\ \A t \in Ticket : ticket'[t].status = ticket[t].status /\ ticket'[t].exp = ticket[t].exp

(* What the updates of a tick leave to the bucket. *)
LEMMA TickKeeps ==
    ASSUME TypeOK, NEW r \in Replica
    PROVE  /\ NextWave(r).dt = tick[r].dt /\ NextWave(r).k = tick[r].k /\ NextWave(r).done = tick[r].done
           /\ \A S : /\ SweepOf(r, S).dt = tick[r].dt /\ SweepOf(r, S).k = tick[r].k
                     /\ SweepOf(r, S).done = tick[r].done
           /\ \A n : /\ TakeStray(r, n).dt = tick[r].dt /\ TakeStray(r, n).k = tick[r].k
                     /\ TakeStray(r, n).done = tick[r].done
<1>1. tick[r] \in TickRec
  BY DEF TypeOK
<1>2. \A e \in TickRec : \A n :
        LET f == [e EXCEPT !.n = n] IN f.dt = e.dt /\ f.k = e.k /\ f.done = e.done
  BY DEF TickRec
<1>3. \A e \in TickRec : \A S :
        LET f == [e EXCEPT !.strays = S, !.sweep = TRUE] IN f.dt = e.dt /\ f.k = e.k /\ f.done = e.done
  BY DEF TickRec
<1>4. \A e \in TickRec : \A n, S :
        LET f == [e EXCEPT !.n = n, !.strays = S] IN f.dt = e.dt /\ f.k = e.k /\ f.done = e.done
  BY DEF TickRec
<1> QED
  BY <1>1, <1>2, <1>3, <1>4 DEF NextWave, SweepOf, TakeStray

(* What a steady step is to the limits. *)
LEMMA LimitSteps ==
    ASSUME TypeOK, TermsInv, SteadyNext
    PROVE  \/ Aside
           \/ \E r \in Replica : \/ AcquireSet(r) \/ AcquireOwn(r) \/ Renew(r) \/ AcquireLost(r)
                                 \/ BeginTick(r) \/ Phase(r) \/ Count(r) \/ Pop(r) \/ Admit(r)
                                 \/ FinishTick(r) \/ Crash(r) \/ Stop(r) \/ Restart(r)
<1> USE DEF TypeOK, storeVars, replicaVars, clientVars, WavePhases
<1>1. CASE UNCHANGED <<pc, tick, lock, work, admittedTotal, loop, now, active, ticket>>
  BY <1>1 DEF Aside
<1>2. CASE Tick /\ Slow = {}
  BY <1>2 DEF Tick, Aside
<1>3. ASSUME NEW t \in Ticket, TicketBegin(t) \/ StatusRead(t) \/ StatusRequeue(t)
      PROVE  UNCHANGED <<pc, tick, lock, work, admittedTotal, loop, now, active, ticket>>
  BY <1>3, Zenon DEF TicketBegin, StatusRead, StatusRequeue
<1>4. ASSUME NEW t \in Ticket, CreateTicket(t) PROVE Aside
  BY <1>4 DEF CreateTicket, Aside
<1>5. ASSUME NEW t \in Ticket, AdmitDirect(t) PROVE FALSE
  BY <1>5 DEF AdmitDirect, TermsInv
<1>6. ASSUME NEW t \in Ticket, StatusRank(t) PROVE Aside
  <2>1. /\ UNCHANGED <<pc, tick, lock, work, admittedTotal, loop, now, ticket>> /\ active' = Purged(now)
    BY <1>6, Zenon DEF StatusRank
  <2> QED
    BY <2>1 DEF Aside
<1>7. ASSUME NEW r \in Replica, FetchKey(r) PROVE Aside
  BY <1>7 DEF FetchKey, Aside, LoopRec
<1>8. ASSUME NEW c \in Configs, PutRoom(c)
      PROVE  UNCHANGED <<pc, tick, lock, work, admittedTotal, loop, now, active, ticket>>
  BY <1>8 DEF PutRoom
<1>9. CASE FlushPending \/ FlushWaves
  BY <1>1, <1>9 DEF FlushPending, FlushWaves
<1>10. ASSUME NEW r \in Replica, CloseElapsed(r) PROVE Phase(r)
  BY <1>10, TickUpdates, TickKeeps DEF CloseElapsed, PopWave, Goto, Phase
<1>11. ASSUME NEW r \in Replica, WavesDone(r) PROVE Phase(r)
  BY <1>11, TickUpdates, TickKeeps DEF WavesDone, Goto, Phase
<1>12. ASSUME NEW r \in Replica, CloseStray(r) PROVE Phase(r)
  BY <1>12, TickUpdates, TickKeeps DEF CloseStray, PopWave, Goto, Phase
<1>13. ASSUME NEW r \in Replica, SweepDone(r) PROVE Phase(r)
  BY <1>13 DEF SweepDone, Goto, Phase
<1>14. ASSUME NEW r \in Replica, RankWave(r) PROVE Phase(r)
  <2>1. PICK f \in Shuffles(batch[r]) :
          ticket' = [t \in Ticket |-> IF t \in batch[r]
                                        THEN Scored(t, WaveScore(tick[r].n, f[t]))
                                        ELSE ticket[t]]
    BY <1>14, Zenon DEF RankWave
  <2>2. \A u \in Ticket : \A n : Scored(u, n).exp = ticket[u].exp /\ Scored(u, n).status = ticket[u].status
    BY DEF Scored, TicketRec
  <2>3. \A u \in Ticket : ticket'[u].status = ticket[u].status /\ ticket'[u].exp = ticket[u].exp
    BY <2>1, <2>2
  <2> QED
    BY <1>14, <2>3 DEF RankWave, Goto, Phase
<1>15. ASSUME NEW r \in Replica, DelWave(r) PROVE Phase(r)
  BY <1>15, TickUpdates, TickKeeps DEF DelWave, Record, Goto, Phase
<1>16. CASE UNCHANGED vars
  BY <1>1, <1>16 DEF vars
<1> QED
  BY <1>1, <1>2, <1>3, <1>4, <1>5, <1>6, <1>7, <1>8, <1>9, <1>10, <1>11, <1>12, <1>13, <1>14, <1>15, <1>16
  DEF SteadyNext, Step, Client

(* What the steps of Manager.loop and tickOnce do to lease and bucket. *)
Others(r) == \A q \in Replica \ {r} : /\ pc'[q] = pc[q] /\ tick'[q] = tick[q]
                                      /\ loop'[q] = loop[q] /\ work'[q] = work[q]

(* Asking for the lease changes the lease and what an iteration keeps.     *)
LEMMA LeaseMoves ==
    ASSUME TypeOK, NEW r \in Replica
    PROVE  /\ AcquireSet(r) =>
                /\ pc[r] = "idle" /\ loop[r].wake <= now /\ LockFree
                /\ lock'.owner = r /\ lock'.exp = now + LeaseTTL /\ pc'[r] = "begin"
                /\ Others(r) /\ UNCHANGED <<now, tick, loop, work, active, ticket, admittedTotal>>
           /\ AcquireOwn(r) =>
                /\ pc[r] = "idle" /\ loop[r].wake <= now /\ ~LockFree /\ lock.owner = r /\ pc'[r] = "renew"
                /\ Others(r) /\ UNCHANGED <<now, tick, loop, work, lock, active, ticket, admittedTotal>>
           /\ Renew(r) =>
                /\ pc[r] = "renew" /\ pc'[r] = "begin" /\ lock'.owner = lock.owner
                /\ lock'.exp = (IF LockFree THEN lock.exp ELSE now + LeaseTTL)
                /\ Others(r) /\ UNCHANGED <<now, tick, loop, work, active, ticket, admittedTotal>>
           /\ AcquireLost(r) =>
                /\ pc[r] = "idle" /\ ~LockFree /\ lock.owner # r
                /\ loop'[r].wake = now + 1 /\ ~loop'[r].leader
                /\ loop'[r].tokens = 0 /\ loop'[r].last = now
                /\ Others(r) /\ UNCHANGED <<now, pc, tick, work, lock, active, ticket, admittedTotal>>
<1> USE DEF TypeOK, storeVars, Due, Goto, Others
<1>1. AcquireSet(r) =>
         /\ pc[r] = "idle" /\ loop[r].wake <= now /\ LockFree
         /\ lock'.owner = r /\ lock'.exp = now + LeaseTTL /\ pc'[r] = "begin"
         /\ Others(r) /\ UNCHANGED <<now, tick, loop, work, active, ticket, admittedTotal>>
  BY DEF AcquireSet
<1>2. AcquireOwn(r) =>
         /\ pc[r] = "idle" /\ loop[r].wake <= now /\ ~LockFree /\ lock.owner = r /\ pc'[r] = "renew"
         /\ Others(r) /\ UNCHANGED <<now, tick, loop, work, lock, active, ticket, admittedTotal>>
  BY DEF AcquireOwn
<1>3. Renew(r) =>
         /\ pc[r] = "renew" /\ pc'[r] = "begin" /\ lock'.owner = lock.owner
         /\ lock'.exp = (IF LockFree THEN lock.exp ELSE now + LeaseTTL)
         /\ Others(r) /\ UNCHANGED <<now, tick, loop, work, active, ticket, admittedTotal>>
  BY DEF Renew, LockRec
<1>4. AcquireLost(r) =>
         /\ pc[r] = "idle" /\ ~LockFree /\ lock.owner # r
         /\ loop'[r].wake = now + 1 /\ ~loop'[r].leader
         /\ loop'[r].tokens = 0 /\ loop'[r].last = now
         /\ Others(r) /\ UNCHANGED <<now, pc, tick, work, lock, active, ticket, admittedTotal>>
  BY DEF AcquireLost
<1> QED
  BY <1>1, <1>2, <1>3, <1>4

(* A tick begins at the time it reads, and makes its replica leader.       *)
LEMMA BeginMove ==
    ASSUME TypeOK, NEW r \in Replica, BeginTick(r)
    PROVE  /\ pc[r] = "begin" /\ pc'[r] = "waves"
           /\ tick'[r].now = now /\ tick'[r].cfg = cfg /\ tick'[r].done = 0
           /\ tick'[r].dt = (IF loop[r].leader THEN now - loop[r].last ELSE 0)
           /\ loop'[r].leader /\ loop'[r].last = now
           /\ loop'[r].tokens = loop[r].tokens /\ loop'[r].wake = loop[r].wake
           /\ Others(r) /\ UNCHANGED <<now, work, lock, active, ticket, admittedTotal>>
BY DEF TypeOK, LoopRec, storeVars, Goto, Others, BeginTick

(* Count refills the bucket and takes no more than the quota, or sleeps.   *)
LEMMA CountMove ==
    ASSUME TypeOK, NEW r \in Replica, Count(r)
    PROVE  LET act == Cardinality({t \in Ticket : active'[t] # 0})
               k == Quota(r, Cardinality(PendingSet), act, Refilled(r))
           IN  /\ pc[r] = "count" /\ active' = Purged(tick[r].now)
               /\ Others(r) /\ UNCHANGED <<now, lock, ticket, admittedTotal>>
               /\ loop'[r].tokens = Refilled(r)
               /\ loop'[r].leader = loop[r].leader /\ loop'[r].last = loop[r].last
               /\ \/ /\ k > 0 /\ pc'[r] = "pop" /\ tick'[r].k = k /\ work'[r] = work[r]
                     /\ tick'[r].now = tick[r].now /\ tick'[r].cfg = tick[r].cfg
                     /\ tick'[r].done = tick[r].done /\ loop'[r].wake = loop[r].wake
                  \/ /\ pc'[r] = "idle" /\ tick'[r] = NoTick /\ work'[r] = {}
                     /\ loop'[r].wake = now + 1
<1> DEFINE act == Cardinality({t \in Ticket : active'[t] # 0})
           k == Quota(r, Cardinality(PendingSet), act, Refilled(r))
<1> HIDE DEF act, k
<1>1. /\ pc[r] = "count" /\ active' = Purged(tick[r].now) /\ UNCHANGED <<now, lock, ticket, admittedTotal>>
      /\ \/ /\ k > 0 /\ loop' = [loop EXCEPT ![r].tokens = Refilled(r)]
            /\ tick' = [tick EXCEPT ![r].k = k] /\ Goto(r, "pop") /\ UNCHANGED <<batch, work>>
         \/ loop' = [loop EXCEPT ![r] = Slept(r, Refilled(r))] /\ Sleep(r)
  BY Zenon DEF Count, act, k
<1>2. CASE /\ k > 0 /\ loop' = [loop EXCEPT ![r].tokens = Refilled(r)]
           /\ tick' = [tick EXCEPT ![r].k = k] /\ Goto(r, "pop") /\ UNCHANGED <<batch, work>>
  <2>1. Others(r) /\ pc'[r] = "pop" /\ work'[r] = work[r]
    BY <1>2 DEF TypeOK, Others, Goto
  <2>2. /\ tick'[r].k = k /\ tick'[r].now = tick[r].now /\ tick'[r].cfg = tick[r].cfg
        /\ tick'[r].done = tick[r].done
    BY <1>2 DEF TypeOK, TickRec
  <2>3. /\ loop'[r].tokens = Refilled(r) /\ loop'[r].leader = loop[r].leader
        /\ loop'[r].last = loop[r].last /\ loop'[r].wake = loop[r].wake
    BY <1>2 DEF TypeOK, LoopRec
  <2> QED
    BY <1>1, <1>2, <2>1, <2>2, <2>3 DEF act, k
<1>3. CASE loop' = [loop EXCEPT ![r] = Slept(r, Refilled(r))] /\ Sleep(r)
  <2>1. Others(r) /\ pc'[r] = "idle" /\ tick'[r] = NoTick /\ work'[r] = {}
    BY <1>3 DEF TypeOK, Others, Sleep, Goto
  <2>2. /\ loop'[r].tokens = Refilled(r) /\ loop'[r].leader = loop[r].leader
        /\ loop'[r].last = loop[r].last /\ loop'[r].wake = now + 1
    BY <1>3 DEF TypeOK, LoopRec, Slept
  <2> QED
    BY <1>1, <2>1, <2>2
<1> QED
  BY <1>1, <1>2, <1>3

(* The heads of pending go to the hands of the replica.                    *)
LEMMA PopMove ==
    ASSUME TypeOK, NEW r \in Replica, Pop(r)
    PROVE  /\ pc[r] = "pop" /\ pc'[r] = "admit" /\ work'[r] \in Heads(tick[r].k)
           /\ Others(r) /\ UNCHANGED <<now, lock, loop, tick, active, ticket, admittedTotal>>
BY DEF TypeOK, Goto, Others, Pop

(* One popped ticket gets its pass and enters the active set.              *)
LEMMA AdmitMove ==
    ASSUME TypeOK, NEW r \in Replica, Admit(r)
    PROVE  /\ pc[r] = "admit" /\ pc' = pc /\ admittedTotal' = admittedTotal + 1
           /\ tick'[r].done = tick[r].done + 1 /\ tick'[r].now = tick[r].now
           /\ tick'[r].cfg = tick[r].cfg
           /\ Others(r) /\ UNCHANGED <<now, lock, loop>>
           /\ \E v \in work[r] : /\ v \in Ticket /\ work'[r] = work[r] \ {v}
                                 /\ ticket'[v].status = "admitted" /\ active'[v] = ticket'[v].exp
                                 /\ \A t \in Ticket \ {v} : /\ ticket'[t] = ticket[t]
                                                            /\ active'[t] = active[t]
<1>1. PICK v \in NextIds(r) :
        /\ ticket' = [ticket EXCEPT ![v] = Marked(v, tick[r].now + tick[r].cfg.passTTL)]
        /\ active' = [active EXCEPT ![v] = tick[r].now + tick[r].cfg.passTTL]
        /\ work' = [work EXCEPT ![r] = @ \ {v}]
  BY Zenon DEF Admit
<1>2. v \in work[r] /\ v \in Ticket
  BY DEF NextIds, TypeOK
<1>3. \A x : LET g == Marked(v, x) IN g.status = "admitted" /\ g.exp = x
  BY <1>2 DEF Marked, TypeOK, TicketRec
<1>4. /\ work'[r] = work[r] \ {v} /\ ticket'[v].status = "admitted" /\ active'[v] = ticket'[v].exp
      /\ \A t \in Ticket \ {v} : ticket'[t] = ticket[t] /\ active'[t] = active[t]
  BY <1>1, <1>2, <1>3 DEF TypeOK
<1>5. /\ pc[r] = "admit" /\ pc' = pc /\ admittedTotal' = admittedTotal + 1 /\ UNCHANGED <<now, lock, loop>>
      /\ tick' = [tick EXCEPT ![r].done = @ + 1]
  BY DEF Admit
<1>6. /\ tick'[r].done = tick[r].done + 1 /\ tick'[r].now = tick[r].now /\ tick'[r].cfg = tick[r].cfg
  BY <1>5 DEF TypeOK, TickRec
<1>7. Others(r)
  BY <1>1, <1>5 DEF Others, TypeOK
<1> QED
  BY <1>2, <1>4, <1>5, <1>6, <1>7

(* The tokens of the admitted are paid, and the loop sleeps.               *)
LEMMA FinishMove ==
    ASSUME TypeOK, NEW r \in Replica, FinishTick(r)
    PROVE  /\ pc[r] = "admit" /\ pc'[r] = "idle" /\ tick'[r] = NoTick /\ work'[r] = {}
           /\ loop'[r].tokens = loop[r].tokens - tick[r].done
           /\ loop'[r].leader = loop[r].leader /\ loop'[r].last = loop[r].last
           /\ loop'[r].wake = now + 1
           /\ Others(r) /\ UNCHANGED <<now, lock, active, ticket, admittedTotal>>
BY DEF TypeOK, LoopRec, storeVars, Sleep, Slept, Goto, Others, FinishTick

(* Who goes down leaves its hands empty; who comes back does not lead.     *)
LEMMA DownMoves ==
    ASSUME TypeOK, NEW r \in Replica
    PROVE  /\ Crash(r) =>
                /\ pc'[r] = "down" /\ tick'[r] = NoTick /\ work'[r] = {}
                /\ lock' = IF lock.owner = r THEN [lock EXCEPT !.owner = Gone] ELSE lock
                /\ Others(r) /\ UNCHANGED <<now, loop, active, ticket, admittedTotal>>
           /\ Stop(r) =>
                /\ pc'[r] = "down" /\ tick'[r] = NoTick /\ work'[r] = {}
                /\ lock.owner # r => lock' = lock
                /\ lock.owner = r => lock'.owner \in {NoOne, Gone}
                /\ Others(r) /\ UNCHANGED <<now, loop, active, ticket, admittedTotal>>
           /\ Restart(r) =>
                /\ pc[r] = "down" /\ pc'[r] = "idle" /\ tick' = tick /\ work' = work
                /\ ~loop'[r].leader /\ loop'[r].tokens = 0
                /\ loop'[r].last = now /\ loop'[r].wake = now + 1
                /\ Others(r) /\ UNCHANGED <<now, lock, active, ticket, admittedTotal>>
<1> USE DEF TypeOK, storeVars, Goto, Others, LockRec
<1>1. Crash(r) =>
         /\ pc'[r] = "down" /\ tick'[r] = NoTick /\ work'[r] = {}
         /\ lock' = IF lock.owner = r THEN [lock EXCEPT !.owner = Gone] ELSE lock
         /\ Others(r) /\ UNCHANGED <<now, loop, active, ticket, admittedTotal>>
  BY DEF Crash, Halt, LeaveLease
<1>2. Stop(r) =>
         /\ pc'[r] = "down" /\ tick'[r] = NoTick /\ work'[r] = {}
         /\ lock.owner # r => lock' = lock
         /\ lock.owner = r => lock'.owner \in {NoOne, Gone}
         /\ Others(r) /\ UNCHANGED <<now, loop, active, ticket, admittedTotal>>
  BY DEF Stop, Halt, LeaveLease
<1>3. Restart(r) =>
         /\ pc[r] = "down" /\ pc'[r] = "idle" /\ tick' = tick /\ work' = work
         /\ ~loop'[r].leader /\ loop'[r].tokens = 0
         /\ loop'[r].last = now /\ loop'[r].wake = now + 1
         /\ Others(r) /\ UNCHANGED <<now, lock, active, ticket, admittedTotal>>
  BY DEF Restart
<1> QED
  BY <1>1, <1>2, <1>3

(* The terms of the room stay. *)
LEMMA TermsStep ==
    ASSUME TypeOK, TermsInv, SteadyNext
    PROVE  TermsInv'
<1> USE DEF storeVars, replicaVars, clientVars
<1>1. Terms(cfg')
  <2>1. \A r \in Replica : Step(r) => UNCHANGED cfg
    BY Zenon DEF Step, AcquireSet, AcquireOwn, Renew, AcquireLost, BeginTick, CloseElapsed,
       WavesDone, CloseStray, SweepDone, RankWave, DelWave, Count, Pop, Admit, FinishTick
  <2>2. \A t \in Ticket : Client(t) => UNCHANGED cfg
    BY Zenon DEF Client, TicketBegin, CreateTicket, AdmitDirect, StatusRead, StatusRank, StatusRequeue
  <2>3. \A r \in Replica : Crash(r) \/ Stop(r) \/ Restart(r) \/ FetchKey(r) => UNCHANGED cfg
    BY DEF Crash, Stop, Halt, Restart, FetchKey
  <2>4. Tick \/ FlushPending \/ FlushWaves \/ UNCHANGED vars => UNCHANGED cfg
    BY DEF Tick, FlushPending, FlushWaves, vars
  <2> QED
    BY <2>1, <2>2, <2>3, <2>4 DEF SteadyNext, TermsInv, Terms
<1>2. \A t \in Ticket : req'[t].pc # "direct"
  <2>1. \A r \in Replica : Step(r) => UNCHANGED req
    BY Zenon DEF Step, AcquireSet, AcquireOwn, Renew, AcquireLost, BeginTick, CloseElapsed,
       WavesDone, CloseStray, SweepDone, RankWave, DelWave, Count, Pop, Admit, FinishTick
  <2>2. ASSUME NEW t \in Ticket, Client(t) PROVE \A u \in Ticket : req'[u].pc # "direct"
    <3>1. CASE TicketBegin(t)
      BY <3>1 DEF TicketBegin, TermsInv, TypeOK
    <3>2. CASE StatusRank(t)
      <4>1. req[t] \in ReqRec /\ req' \in {[req EXCEPT ![t].pc = "requeue"], [req EXCEPT ![t] = NoReq]}
        BY <3>2, Zenon DEF StatusRank, TypeOK
      <4>2. req'[t].pc # "direct" /\ \A u \in Ticket \ {t} : req'[u] = req[u]
        BY <4>1 DEF TypeOK, ReqRec, NoReq
      <4> QED
        BY <4>2 DEF TermsInv
    <3>3. CASE CreateTicket(t) \/ AdmitDirect(t) \/ StatusRead(t) \/ StatusRequeue(t)
      BY <3>3 DEF CreateTicket, AdmitDirect, StatusRead, StatusRequeue, TermsInv, TypeOK, NoReq
    <3> QED
      BY <2>2, <3>1, <3>2, <3>3 DEF Client
  <2>3. \A r \in Replica : Crash(r) \/ Stop(r) \/ Restart(r) \/ FetchKey(r) => UNCHANGED req
    BY DEF Crash, Stop, Halt, Restart, FetchKey
  <2>4. Tick \/ FlushPending \/ FlushWaves \/ (\E c \in Configs : PutRoom(c)) \/ UNCHANGED vars => UNCHANGED req
    BY DEF Tick, FlushPending, FlushWaves, PutRoom, vars
  <2> QED
    BY <2>1, <2>2, <2>3, <2>4 DEF SteadyNext, TermsInv
<1>3. \A r \in Replica : tick'[r].cfg.rate = InitCfg.rate /\ tick'[r].cfg.maxActive = InitCfg.maxActive
  <2>1. CASE Aside
    BY <2>1 DEF Aside, TermsInv
  <2>2. NoTick.cfg.rate = InitCfg.rate /\ NoTick.cfg.maxActive = InitCfg.maxActive
    BY DEF NoTick
  <2>3. ASSUME NEW r \in Replica, AcquireSet(r) \/ AcquireOwn(r) \/ Renew(r) \/ AcquireLost(r) \/ Pop(r) \/ Restart(r)
        PROVE  UNCHANGED tick
    BY <2>3, LeaseMoves, PopMove, DownMoves
  <2>4. ASSUME NEW r \in Replica, BeginTick(r) \/ Phase(r) \/ Admit(r) \/ FinishTick(r)
                                      \/ Crash(r) \/ Stop(r)
        PROVE  \A q \in Replica : tick'[q].cfg \in {tick[q].cfg, cfg, NoTick.cfg}
    BY <2>4, BeginMove, AdmitMove, FinishMove, DownMoves DEF Phase, Others
  <2>5. ASSUME NEW r \in Replica, Count(r) PROVE \A q \in Replica : tick'[q].cfg \in {tick[q].cfg, NoTick.cfg}
    BY <2>5, CountMove DEF Others
  <2> QED
    BY <2>1, <2>2, <2>3, <2>4, <2>5, LimitSteps DEF TermsInv
<1> QED
  BY <1>1, <1>2, <1>3 DEF TermsInv, Terms

(* One replica works at a time. *)
LEMMA SoleStep ==
    ASSUME TypeOK, TypeOK', TermsInv, SoleInv, SteadyNext
    PROVE  SoleInv'
<1> USE ConstantsAssumption DEF Busy, Ran, LockRec, LoopRec
<1>0. /\ now \in Nat /\ lock \in LockRec /\ \A r \in Replica : loop[r] \in LoopRec /\ pc[r] \in PcValues
      /\ NoOne \notin Replica /\ Gone \notin Replica
  BY DEF TypeOK
<1>1. CASE Aside
  <2>1. CASE now' = now
    BY <1>1, <2>1 DEF Aside, SoleInv
  <2>2. CASE now' = now + 1 /\ Slow = {}
    <3>1. \A r \in Replica : pc[r] = "down" \/ (pc[r] = "idle" /\ loop[r].wake > now)
      BY <1>0, <2>2 DEF Slow, Alive
    <3> QED
      BY <1>0, <1>1, <2>2, <3>1 DEF Aside, SoleInv
  <2> QED
    BY <1>1, <2>1, <2>2 DEF Aside
<1>2. ASSUME NEW r \in Replica, AcquireSet(r) PROVE SoleInv'
  <2>1. \A q \in Replica : pc[q] \in {"idle", "down"}
    BY <1>0, <1>2, LeaseMoves DEF SoleInv, LockFree
  <2> QED
    BY <1>0, <1>2, <2>1, LeaseMoves DEF SoleInv, Others
<1>3. ASSUME NEW r \in Replica, AcquireOwn(r) PROVE SoleInv'
  BY <1>0, <1>3, LeaseMoves DEF SoleInv, Others, LockFree
<1>4. ASSUME NEW r \in Replica, Renew(r) PROVE SoleInv'
  BY <1>0, <1>4, LeaseMoves DEF SoleInv, Others, LockFree
<1>5. ASSUME NEW r \in Replica, AcquireLost(r) PROVE SoleInv'
  BY <1>0, <1>5, LeaseMoves DEF SoleInv, Others, LockFree
<1>6. ASSUME NEW r \in Replica, BeginTick(r) PROVE SoleInv'
  BY <1>0, <1>6, BeginMove DEF SoleInv, Others
<1>7. ASSUME NEW r \in Replica, Phase(r) PROVE SoleInv'
  BY <1>0, <1>7 DEF SoleInv, Phase, WavePhases
<1>8. ASSUME NEW r \in Replica, Count(r) PROVE SoleInv'
  <2>1. /\ Others(r) /\ UNCHANGED <<now, lock>> /\ pc[r] = "count"
        /\ \/ pc'[r] = "pop" /\ tick'[r].now = tick[r].now /\ loop'[r].wake = loop[r].wake
           \/ pc'[r] = "idle" /\ loop'[r].wake = now + 1
    BY <1>8, CountMove
  <2> QED
    BY <1>0, <2>1 DEF SoleInv, Others
<1>9. ASSUME NEW r \in Replica, Pop(r) \/ Admit(r) PROVE SoleInv'
  BY <1>0, <1>9, PopMove, AdmitMove DEF SoleInv, Others
<1>10. ASSUME NEW r \in Replica, FinishTick(r) PROVE SoleInv'
  BY <1>0, <1>10, FinishMove DEF SoleInv, Others
<1>11. ASSUME NEW r \in Replica, Crash(r) PROVE SoleInv'
  BY <1>0, <1>11, DownMoves DEF SoleInv, Others
<1>12. ASSUME NEW r \in Replica, Stop(r) PROVE SoleInv'
  BY <1>0, <1>12, DownMoves DEF SoleInv, Others
<1>13. ASSUME NEW r \in Replica, Restart(r) PROVE SoleInv'
  BY <1>0, <1>13, DownMoves DEF SoleInv, Others
<1> QED
  BY <1>1, <1>2, <1>3, <1>4, <1>5, <1>6, <1>7, <1>8, <1>9, <1>10, <1>11, <1>12, <1>13, LimitSteps
(* The active set keeps every pass until its end. *)
LEMMA PassStep ==
    ASSUME TypeOK, TypeOK', TermsInv, SoleInv, PassInv, SteadyNext
    PROVE  PassInv'
<1>0. /\ now \in Nat /\ \A t \in Ticket : active[t] \in Int /\ ticket[t].exp \in Int
  BY Fields DEF TypeOK
<1>1. CASE Aside
  <2>1. \A t \in Ticket : \/ ticket'[t].status = ticket[t].status /\ ticket'[t].exp = ticket[t].exp
                          \/ ticket'[t].status = "waiting"
    BY <1>1 DEF Aside
  <2>2. CASE now' = now /\ active' \in {active, Purged(now)}
    BY <1>0, <2>1, <2>2 DEF PassInv, Purged
  <2>3. CASE now' = now + 1 /\ active' = active
    BY <1>0, <2>1, <2>3 DEF PassInv
  <2> QED
    BY <1>1, <2>2, <2>3 DEF Aside
<1>2. CASE UNCHANGED <<now, active, ticket>>
  BY <1>2 DEF PassInv
<1>3. ASSUME NEW r \in Replica, Phase(r) PROVE PassInv'
  BY <1>3 DEF Phase, PassInv
<1>4. ASSUME NEW r \in Replica, Count(r) PROVE PassInv'
  <2>1. active' = Purged(now) /\ UNCHANGED <<now, ticket>>
    <3>1. active' = Purged(tick[r].now) /\ UNCHANGED <<now, ticket>> /\ pc[r] = "count"
      BY <1>4, CountMove
    <3> QED
      BY <3>1 DEF SoleInv, Busy
  <2> QED
    BY <1>0, <2>1 DEF PassInv, Purged
<1>5. ASSUME NEW r \in Replica, Admit(r) PROVE PassInv'
  BY <1>5, AdmitMove DEF PassInv
<1>6. ASSUME NEW r \in Replica,
             \/ AcquireSet(r) \/ AcquireOwn(r) \/ Renew(r) \/ AcquireLost(r) \/ BeginTick(r)
             \/ Pop(r) \/ FinishTick(r) \/ Crash(r) \/ Stop(r) \/ Restart(r)
      PROVE  UNCHANGED <<now, active, ticket>>
  BY <1>6, LeaseMoves, BeginMove, PopMove, FinishMove, DownMoves
<1> QED
  BY <1>1, <1>2, <1>3, <1>4, <1>5, <1>6, LimitSteps

(* A smaller set of tickets has fewer of them. *)
LEMMA Fewer ==
    ASSUME NEW A, NEW B \in SUBSET Ticket, A \subseteq B
    PROVE  Cardinality(A) \in Nat /\ Cardinality(B) \in Nat /\ Cardinality(A) <= Cardinality(B)
BY ConstantsAssumption, FS_Subset, FS_CardinalityType

(* Count leaves room for all it lets in. *)
LEMMA CountCap ==
    ASSUME TypeOK, TypeOK', TermsInv, SoleInv, CapInv, NEW r \in Replica, Count(r)
    PROVE  CapInv'
<1> SUFFICES ASSUME InitCfg.maxActive > 0 PROVE CapInv'
  BY DEF CapInv
<1> DEFINE A == {t \in Ticket : active'[t] # 0}
<1>0. /\ now \in Nat /\ InitCfg.maxActive \in Int
      /\ \A t \in Ticket : active[t] \in Int
  BY ConstantsAssumption, Fields DEF TypeOK
<1>1. /\ tick[r].now = now /\ UNCHANGED now /\ active' = Purged(now)
      /\ pc'[r] # "admit" /\ Others(r)
      /\ pc'[r] = "pop" => tick'[r].k = Quota(r, Cardinality(PendingSet), Cardinality(A), Refilled(r))
  BY CountMove DEF SoleInv, Busy
<1>2. Act' = A /\ Act' = Act
  BY <1>0, <1>1 DEF Act, Purged
<1>3. Cardinality(A) \in Nat /\ Cardinality(PendingSet) \in Nat /\ Refilled(r) \in Int
  <2>1. A \subseteq Ticket /\ PendingSet \subseteq Ticket
    BY DEF PendingSet
  <2>2. loop[r].tokens \in Int /\ tick[r].cfg.rate \in Int /\ tick[r].dt \in Int /\ BurstSec \in Int
    BY ConstantsAssumption, Fields DEF TypeOK
  <2>3. tick[r].cfg.rate * tick[r].dt \in Int /\ tick[r].cfg.rate * BurstSec \in Int
    BY <2>2
  <2> QED
    BY <2>1, <2>2, <2>3, Fewer DEF Refilled, MinOf
<1>4. pc'[r] = "pop" => tick'[r].k <= InitCfg.maxActive - Cardinality(A)
  <2>1. tick[r].cfg.maxActive = InitCfg.maxActive
    BY DEF TermsInv
  <2> HIDE DEF A
  <2> QED
    BY <1>0, <1>1, <1>3, <2>1 DEF Quota, MinOf
<1>5. \A q \in Replica \ {r} : pc'[q] \notin {"pop", "admit"}
  <2> HIDE DEF A
  <2>1. pc[r] = "count" /\ Others(r)
    BY CountMove
  <2>2. lock.owner = r
    BY <2>1 DEF SoleInv
  <2>3. \A q \in Replica \ {r} : pc[q] \in {"idle", "down"}
    BY <2>2 DEF SoleInv
  <2>4. \A q \in Replica \ {r} : pc'[q] = pc[q]
    BY <2>1 DEF Others
  <2> QED
    BY <2>3, <2>4
<1>6. pc'[r] = "pop" => Cardinality(Act') + tick'[r].k <= InitCfg.maxActive
  <2>1. TypeOK' => tick'[r].k \in Int
    BY Fields DEF TypeOK, TickRec
  <2> HIDE DEF A
  <2> QED
    BY <1>0, <1>2, <1>3, <1>4, <2>1
<1> QED
  BY <1>1, <1>2, <1>5, <1>6 DEF CapInv

(* Who is let in was counted with those about to be. *)
LEMMA AdmitCap ==
    ASSUME TypeOK, TypeOK', SoleInv, CapInv, NEW r \in Replica, Admit(r)
    PROVE  CapInv'
<1> SUFFICES ASSUME InitCfg.maxActive > 0 PROVE CapInv'
  BY DEF CapInv
<1>1. PICK v \in work[r] :
        /\ v \in Ticket /\ work'[r] = work[r] \ {v}
        /\ \A t \in Ticket \ {v} : active'[t] = active[t]
  BY AdmitMove
<1>2. Act' \subseteq Act \cup {v} /\ Act \subseteq Ticket /\ work[r] \subseteq Ticket
  BY <1>1, AdmitMove DEF Act, TypeOK
<1>3. IsFiniteSet(Act) /\ IsFiniteSet(work[r])
  BY <1>2, ConstantsAssumption, FS_Subset
<1>4. /\ Cardinality(work'[r]) = Cardinality(work[r]) - 1 /\ Cardinality(work[r]) \in Nat
      /\ Cardinality(Act \cup {v}) <= Cardinality(Act) + 1
      /\ Cardinality(Act) \in Nat /\ Cardinality(Act \cup {v}) \in Nat
  <2>1. Cardinality(work'[r]) = Cardinality(work[r]) - 1 /\ Cardinality(work[r]) \in Nat
    BY <1>1, <1>3, FS_RemoveElement, FS_CardinalityType
  <2>2. Cardinality(Act) \in Nat /\ IsFiniteSet(Act \cup {v})
        /\ Cardinality(Act \cup {v}) = IF v \in Act THEN Cardinality(Act) ELSE Cardinality(Act) + 1
    BY <1>3, FS_AddElement, FS_CardinalityType
  <2> QED
    BY <2>1, <2>2
<1>5. Cardinality(Act') \in Nat /\ Cardinality(Act') <= Cardinality(Act \cup {v})
  BY <1>1, <1>2, Fewer
<1>6. Cardinality(Act) + Cardinality(work[r]) <= InitCfg.maxActive /\ InitCfg.maxActive \in Int
  BY AdmitMove, ConstantsAssumption, Fields DEF CapInv
<1>7. Cardinality(work'[r]) \in Nat
  BY <1>1, <1>3, FS_RemoveElement, FS_CardinalityType
<1>8. Cardinality(Act') + Cardinality(work'[r]) <= InitCfg.maxActive /\ Cardinality(Act') <= InitCfg.maxActive
  BY <1>4, <1>5, <1>6, <1>7
<1>9. pc' = pc /\ \A q \in Replica \ {r} : pc[q] \notin {"pop", "admit"}
  BY AdmitMove DEF SoleInv
<1>10. pc[r] = "admit"
  BY AdmitMove
<1> QED
  BY <1>8, <1>9, <1>10 DEF CapInv

(* The room never fills beyond what it allows. *)
LEMMA CapStep ==
    ASSUME TypeOK, TypeOK', TermsInv, SoleInv, CapInv, SteadyNext
    PROVE  CapInv'
<1>0. /\ now \in Nat /\ InitCfg.maxActive \in Int
      /\ \A t \in Ticket : active[t] \in Int
  BY ConstantsAssumption, Fields DEF TypeOK
<1>1. ASSUME Act' \subseteq Act, \A q \in Replica :
               \/ pc'[q] \notin {"pop", "admit"}
               \/ pc'[q] = pc[q] /\ tick'[q] = tick[q] /\ work'[q] = work[q]
      PROVE  CapInv'
  <2>1. Act \subseteq Ticket /\ Act' \subseteq Ticket
    BY DEF Act
  <2>2. Cardinality(Act) \in Nat /\ Cardinality(Act') \in Nat /\ Cardinality(Act') <= Cardinality(Act)
    BY <1>1, <2>1, Fewer
  <2>3. \A q \in Replica : tick[q].k \in Int /\ Cardinality(work[q]) \in Nat
    BY Fewer, Fields DEF TypeOK, TickRec
  <2> QED
    BY <1>0, <1>1, <2>2, <2>3 DEF CapInv
<1>2. CASE Aside
  <2>1. Act' \subseteq Act
    <3>1. CASE now' = now /\ active' \in {active, Purged(now)}
      BY <1>0, <3>1 DEF Act, Purged
    <3>2. CASE now' = now + 1 /\ active' = active
      BY <1>0, <3>2 DEF Act
    <3> QED
      BY <1>2, <3>1, <3>2 DEF Aside
  <2> QED
    BY <1>1, <1>2, <2>1 DEF Aside
<1>3. ASSUME NEW r \in Replica, Phase(r) PROVE CapInv'
  <2>1. Act' = Act /\ \A q \in Replica : pc'[q] \notin {"pop", "admit"} \/ (pc'[q] = pc[q] /\ tick'[q] = tick[q] /\ work'[q] = work[q])
    BY <1>3 DEF Phase, Act, WavePhases
  <2> QED
    BY <1>1, <2>1
<1>4. ASSUME NEW r \in Replica, Pop(r) PROVE CapInv'
  <2>1. /\ pc[r] = "pop" /\ work'[r] \in Heads(tick[r].k) /\ pc'[r] = "admit"
        /\ UNCHANGED <<now, active>> /\ Others(r)
    BY <1>4, PopMove
  <2>2. Cardinality(work'[r]) = MinOf(tick[r].k, Cardinality(PendingSet)) /\ tick[r].k \in Int
    BY <2>1, Fields DEF Heads, TypeOK, TickRec
  <2>3. Cardinality(PendingSet) \in Nat
    BY Fewer DEF PendingSet
  <2>4. Cardinality(work'[r]) <= tick[r].k /\ Cardinality(work'[r]) \in Int
    BY <2>2, <2>3 DEF MinOf
  <2>5. Act' = Act /\ Cardinality(Act) \in Nat
    BY <2>1, Fewer DEF Act
  <2>6. \A q \in Replica \ {r} : pc'[q] \notin {"pop", "admit"}
    BY <2>1 DEF Others, SoleInv
  <2> QED
    BY <1>0, <2>1, <2>2, <2>4, <2>5, <2>6 DEF CapInv
<1>5. ASSUME NEW r \in Replica, BeginTick(r) PROVE CapInv'
  <2>1. Act' = Act /\ Others(r) /\ pc'[r] = "waves"
    BY <1>5, BeginMove DEF Act
  <2> QED
    BY <1>1, <2>1 DEF Others
<1>6. ASSUME NEW r \in Replica, AcquireSet(r) \/ AcquireOwn(r) \/ Renew(r) \/ AcquireLost(r) PROVE CapInv'
  <2>1. /\ Act' = Act /\ Others(r)
        /\ pc'[r] \notin {"pop", "admit"} \/ (pc'[r] = pc[r] /\ tick'[r] = tick[r] /\ work'[r] = work[r])
    BY <1>6, LeaseMoves DEF Act
  <2> QED
    BY <1>1, <2>1 DEF Others
<1>7. ASSUME NEW r \in Replica, FinishTick(r) \/ Crash(r) \/ Stop(r) \/ Restart(r) PROVE CapInv'
  <2>1. Act' = Act /\ Others(r) /\ pc'[r] \in {"idle", "down"}
    BY <1>7, FinishMove, DownMoves DEF Act
  <2> QED
    BY <1>1, <2>1 DEF Others
<1> QED
  BY <1>2, <1>3, <1>4, <1>5, <1>6, <1>7, LimitSteps, CountCap, AdmitCap

(* At the start the room is empty. *)
LEMMA LimitInit == Init /\ Steady => TermsInv /\ SoleInv /\ PassInv /\ CapInv
<1> SUFFICES ASSUME Init, Steady PROVE TermsInv /\ SoleInv /\ PassInv /\ CapInv
  OBVIOUS
<1>1. TermsInv
  BY DEF Init, TermsInv, Steady, SameTerms, NoTick, NoReq
<1>2. SoleInv
  BY ConstantsAssumption DEF Init, SoleInv, Ran, Busy
<1>3. PassInv
  BY DEF Init, PassInv, NoTicket
<1>4. CapInv
  <2>1. Act = {} /\ InitCfg.maxActive \in Int
    BY ConstantsAssumption, Fields DEF Init, Act
  <2> QED
    BY <2>1, FS_EmptySet DEF Init, CapInv
<1> QED
  BY <1>1, <1>2, <1>3, <1>4

(* As long as the room is steady its limits hold. *)
LEMMA LimitsHold == Spec => [](Steady => TermsInv /\ SoleInv /\ PassInv /\ CapInv)
<1> DEFINE Inv == Steady => TermsInv /\ SoleInv /\ PassInv /\ CapInv
<1>1. Init => Inv
  BY LimitInit
<1>2. TypeOK /\ TypeOK' /\ BudgetOK /\ Inv /\ [Next]_vars => Inv'
  BY SteadySteps, TermsStep, SoleStep, PassStep, CapStep
<1> QED
  BY <1>1, <1>2, TypeCorrect, CalmHolds, PTL DEF Spec

(* max_active holds for any number of replicas and visitors: the active    *)
(* set may forget no valid pass, and the room the admitter sees in it is   *)
(* not given away twice, through crashes, stops, restarts and flushes.     *)
THEOREM RoomNeverOverfull == Spec => []ActiveCap
<1>1. TypeOK /\ (Steady => TermsInv /\ SoleInv /\ PassInv /\ CapInv) => ActiveCap
  <2> SUFFICES ASSUME TypeOK, Steady, TermsInv, PassInv, CapInv, cfg.maxActive > 0
               PROVE  Cardinality(ValidPasses) <= cfg.maxActive
    BY DEF ActiveCap
  <2>1. ValidPasses \subseteq Act /\ Act \subseteq Ticket
    BY Fields DEF ValidPasses, Act, PassInv, TypeOK
  <2>2. /\ Cardinality(ValidPasses) \in Nat /\ Cardinality(Act) \in Nat
        /\ Cardinality(ValidPasses) <= Cardinality(Act)
    BY <2>1, Fewer
  <2>3. cfg.maxActive = InitCfg.maxActive /\ cfg.maxActive \in Int
    BY ConstantsAssumption, Fields DEF TermsInv
  <2> QED
    BY <2>2, <2>3 DEF CapInv
<1> QED
  BY <1>1, TypeCorrect, LimitsHold, PTL
(* What the rate makes of a number of seconds. *)
LEMMA Worth ==
    ASSUME NEW x \in Int
    PROVE  /\ InitCfg.rate * x \in Int /\ (x >= 0 => InitCfg.rate * x >= 0)
           /\ x = 0 => InitCfg.rate * x = 0
<1>1. InitCfg.rate \in Nat
  BY ConstantsAssumption, Fields
<1> QED
  BY <1>1

(* A difference of seconds is worth the rate for each. *)
LEMMA EarnedBy ==
    ASSUME NEW a \in Int, NEW b \in Int
    PROVE  Earned(b) = Earned(a) + InitCfg.rate * (b - a)
<1>1. InitCfg.rate \in Nat /\ Start \in Nat
  BY ConstantsAssumption, Fields
<1> QED
  BY <1>1 DEF Earned

(* What is earned grows with time. *)
LEMMA EarnedGrows ==
    /\ \A a \in Int : Earned(a) \in Int
    /\ \A a, b \in Int : a <= b => Earned(a) <= Earned(b)
<1>1. \A a \in Int : Earned(a) \in Int
  BY ConstantsAssumption, Fields DEF Earned
<1>2. ASSUME NEW a \in Int, NEW b \in Int, a <= b PROVE Earned(a) <= Earned(b)
  <2>1. b - a \in Int /\ b - a >= 0
    BY <1>2
  <2>2. InitCfg.rate * (b - a) \in Int /\ InitCfg.rate * (b - a) >= 0
    BY <2>1, Worth
  <2>3. Earned(b) = Earned(a) + InitCfg.rate * (b - a)
    BY EarnedBy
  <2> QED
    BY <1>1, <2>2, <2>3
<1> QED
  BY <1>1, <1>2

(* The numbers a bucket is made of. *)
LEMMA BucketType ==
    ASSUME TypeOK, NEW r \in Replica
    PROVE  /\ now \in Nat /\ admittedTotal \in Nat /\ lock.exp \in Nat
           /\ loop[r].tokens \in Int /\ loop[r].last \in Nat /\ loop[r].wake \in Nat
           /\ loop[r].leader \in BOOLEAN /\ pc[r] \in PcValues
           /\ tick[r].done \in Nat /\ tick[r].dt \in Int /\ tick[r].k \in Int
           /\ Uncredited(r) \in Int /\ Cardinality(work[r]) \in Nat
           /\ InitCfg.rate * Uncredited(r) \in Int
<1>1. tick[r] \in TickRec /\ loop[r] \in LoopRec /\ lock \in LockRec /\ work[r] \subseteq Ticket
  BY DEF TypeOK
<1>2. Uncredited(r) \in Int
  BY <1>1, Fields DEF Uncredited
<1>3. InitCfg.rate * Uncredited(r) \in Int
  BY <1>2, Worth
<1>4. Cardinality(work[r]) \in Nat
  BY <1>1, Fewer
<1>5. loop[r].wake \in Nat /\ loop[r].leader \in BOOLEAN /\ lock.exp \in Nat
  BY <1>1 DEF LoopRec, LockRec
<1> QED
  BY <1>1, <1>2, <1>3, <1>4, <1>5, Fields DEF TypeOK

(* A bucket nobody touches stays as it is. *)
LEMMA BucketKeeps ==
    ASSUME TypeOK, TypeOK', NEW q \in Replica, Bucket(q), now' \in {now, now + 1},
           pc'[q] = pc[q], tick'[q] = tick[q], work'[q] = work[q], admittedTotal' = admittedTotal,
           loop'[q].leader = loop[q].leader, loop'[q].tokens = loop[q].tokens,
           loop'[q].last = loop[q].last
    PROVE  Bucket(q)'
<1>1. now \in Nat /\ loop[q].last \in Nat
  BY BucketType
<1>2. Uncredited(q)' = Uncredited(q)
  BY DEF Uncredited
<1>3. (InitCfg.rate * Uncredited(q))' = InitCfg.rate * Uncredited(q)
  BY <1>2
<1>4. Leads(q)' <=> Leads(q)
  BY DEF Leads, Alive
<1>5. Earned(loop[q].last)' = Earned(loop[q].last)
  BY DEF Earned
<1> QED
  BY <1>1, <1>2, <1>3, <1>4, <1>5 DEF Bucket

(* Steps that touch no bucket. *)
LEMMA RestStep ==
    ASSUME TypeOK, TypeOK', SoleInv, SoleInv', RateInv, Aside
    PROVE  RateInv'
<1>0. now' \in {now, now + 1} /\ now \in Nat
  BY DEF Aside, TypeOK
<1>1. \A q \in Replica : Bucket(q)'
  BY <1>0, BucketKeeps DEF Aside, RateInv
<1>2. \A q \in Replica : (Leads(q)' <=> Leads(q)) /\ Uncredited(q)' = Uncredited(q)
  BY DEF Aside, Leads, Alive, Uncredited
<1>3. LeadersInv'
  <2>1. CASE now' = now
    <3>1. \A q \in Replica : (Behind(q)' <=> Behind(q)) /\ (TakesOver(q)' <=> TakesOver(q))
      BY <1>2, <2>1 DEF Aside, Behind, TakesOver, Ran
    <3> QED
      BY <1>2, <3>1 DEF Aside, RateInv, LeadersInv
  <2>2. CASE now' = now + 1 /\ Slow = {}
    <3>1. \A q \in Replica : Leads(q) => loop[q].wake > now
      BY <2>2, BucketType DEF Slow, Leads
    <3>2. \A q \in Replica : Leads(q) => lock.owner = q
      BY <3>1, BucketType DEF RateInv, LeadersInv, Behind
    <3> QED
      BY <1>2, <3>2 DEF Aside, LeadersInv, Behind
  <2> QED
    BY <2>1, <2>2 DEF Aside
<1>4. admittedTotal' <= Earned(now')
  <2>1. Earned(now) \in Int /\ Earned(now') \in Int /\ Earned(now) <= Earned(now')
    <3>1. now' \in Int /\ now \in Int /\ now <= now'
      BY <1>0
    <3> QED
      BY <3>1, EarnedGrows
  <2>2. admittedTotal' = admittedTotal /\ admittedTotal \in Nat /\ admittedTotal <= Earned(now)
    BY DEF Aside, RateInv, TypeOK
  <2> QED
    BY <2>1, <2>2
<1> QED
  BY <1>1, <1>3, <1>4 DEF RateInv, Earned
(* The owner of the lease moves: only its own bucket is at stake, and      *)
(* whoever else leads still finds it with no tokens.                       *)
LEMMA OwnerStep ==
    ASSUME TypeOK, TypeOK', RateInv, NEW r \in Replica, Others(r), now' = now,
           lock.owner = r, lock'.owner = r, admittedTotal' = admittedTotal, Bucket(r)',
           ASSUME NEW q \in Replica \ {r}, Leads(q), Leads(r)' PROVE TakesOver(r)'
    PROVE  RateInv'
<1>1. \A q \in Replica : Bucket(q)'
  BY BucketKeeps DEF Others, RateInv
<1>2. \A q \in Replica \ {r} : Leads(q)' <=> Leads(q)
  BY DEF Leads, Alive, Others
<1>3. \A q \in Replica : Behind(q)'
  BY <1>2 DEF RateInv, LeadersInv, Behind, Others
<1>4. \A q, s \in Replica : Leads(q)' /\ Leads(s)' /\ q # s => r \in {q, s}
  BY <1>2 DEF RateInv, LeadersInv
<1>5. LeadersInv'
  BY <1>2, <1>3, <1>4 DEF LeadersInv
<1>6. (admittedTotal <= Earned(now))'
  BY DEF RateInv, Earned
<1> QED
  BY <1>1, <1>5, <1>6 DEF RateInv

(* Asking for the lease: who finds it free has no other leader beside it.  *)
LEMMA AskStep ==
    ASSUME TypeOK, TypeOK', SoleInv, RateInv, NEW r \in Replica,
           AcquireSet(r) \/ AcquireOwn(r) \/ Renew(r) \/ AcquireLost(r)
    PROVE  RateInv'
<1>0. Bucket(r) /\ LeadersInv /\ r # NoOne /\ r # Gone
  BY ConstantsAssumption DEF RateInv
<1> USE DEF Others
<1>1. CASE AcquireSet(r)
  <2>1. /\ pc[r] = "idle" /\ pc'[r] = "begin" /\ LockFree /\ lock'.owner = r /\ Others(r)
        /\ UNCHANGED <<now, tick, loop, work, admittedTotal>>
    BY <1>1, LeaseMoves
  <2>2. \A q \in Replica : pc[q] \in {"idle", "down"} /\ (lock.owner = q => lock.exp <= now)
    BY <2>1, BucketType, ConstantsAssumption DEF SoleInv, LockFree
  <2>3. Bucket(r)'
    BY <2>1 DEF Bucket, Uncredited, Leads, Alive, Busy, RateInv, Earned
  <2>4. \A q \in Replica : Bucket(q)' /\ (Leads(q)' <=> Leads(q))
    BY <2>1, <2>3, BucketKeeps DEF RateInv, Leads, Alive
  <2>5. \A q \in Replica : Behind(q)'
    <3> SUFFICES ASSUME NEW q \in Replica, Leads(q)', lock'.owner # q
                 PROVE  pc'[q] = "idle" /\ loop'[q].wake <= now'
      BY DEF Behind
    <3>1. q # r /\ Leads(q) /\ pc'[q] = pc[q] /\ loop'[q].wake = loop[q].wake /\ now' = now
      BY <2>1, <2>4
    <3>2. pc[q] = "idle"
      BY <2>2, <3>1 DEF Leads, Alive
    <3>3. CASE lock.owner # q
      BY <1>0, <3>1, <3>2, <3>3 DEF LeadersInv, Behind
    <3>4. CASE lock.owner = q
      <4>1. now \in Nat /\ lock.exp \in Nat /\ loop[q].wake \in Nat /\ lock.exp <= now
        BY <2>2, <3>4, BucketType
      <4>2. ~(loop[q].wake > now)
        BY <3>2, <3>4, <4>1 DEF SoleInv, Ran
      <4> QED
        BY <3>1, <3>2, <4>1, <4>2
    <3> QED
      BY <3>3, <3>4
  <2>6. \A q, s \in Replica : ~(Leads(q) /\ Leads(s) /\ q # s)
    <3> SUFFICES ASSUME NEW q \in Replica, NEW s \in Replica, Leads(q), Leads(s), q # s PROVE FALSE
      OBVIOUS
    <3>1. PICK u \in {q, s} : lock.owner = u /\ TakesOver(u)
      BY <1>0 DEF LeadersInv
    <3>2. now \in Nat /\ lock.exp \in Nat /\ now < lock.exp /\ lock.exp <= now
      BY <2>2, <3>1, BucketType DEF TakesOver
    <3> QED
      BY <3>2
  <2>7. LeadersInv'
    BY <2>4, <2>5, <2>6 DEF LeadersInv
  <2>8. (admittedTotal <= Earned(now))'
    BY <2>1 DEF RateInv, Earned
  <2> QED
    BY <2>4, <2>7, <2>8 DEF RateInv
<1>2. CASE AcquireOwn(r) \/ Renew(r)
  <2>1. /\ lock.owner = r /\ lock'.owner = r /\ Others(r) /\ pc'[r] \in {"renew", "begin"}
        /\ pc[r] = "renew" \/ (pc[r] = "idle" /\ loop[r].wake <= now)
        /\ UNCHANGED <<now, tick, loop, work, admittedTotal>>
    BY <1>2, LeaseMoves DEF SoleInv
  <2>2. Bucket(r)'
    BY <1>0, <2>1 DEF Bucket, Uncredited, Leads, Alive, Busy, Earned
  <2>3. ASSUME NEW q \in Replica \ {r}, Leads(q), Leads(r)' PROVE TakesOver(r)'
    <3>1. Leads(r)
      BY <2>1, <2>3 DEF Leads, Alive
    <3>2. TakesOver(r)
      BY <1>0, <2>1, <2>3, <3>1 DEF LeadersInv
    <3> QED
      BY <2>1, <3>2, BucketType DEF TakesOver, Ran, Busy
  <2> QED
    BY <2>1, <2>2, <2>3, OwnerStep
<1>3. CASE AcquireLost(r)
  <2>1. /\ pc[r] = "idle" /\ lock.owner # r /\ Others(r) /\ ~loop'[r].leader
        /\ loop'[r].tokens = 0 /\ loop'[r].last = now
        /\ UNCHANGED <<now, pc, tick, work, lock, admittedTotal>>
    BY <1>3, LeaseMoves
  <2>2. Bucket(r)' /\ ~Leads(r)'
    BY <1>0, <2>1, BucketType DEF Bucket, Uncredited, Leads, Busy
  <2>3. \A q \in Replica \ {r} : /\ Bucket(q)' /\ (Leads(q)' <=> Leads(q)) /\ (Behind(q)' <=> Behind(q))
                                 /\ (TakesOver(q)' <=> TakesOver(q))
    BY <2>1, BucketKeeps DEF RateInv, Leads, Alive, Behind, TakesOver, Ran, Uncredited
  <2>4. LeadersInv'
    BY <1>0, <2>1, <2>2, <2>3 DEF LeadersInv, Behind
  <2>5. (admittedTotal <= Earned(now))'
    BY <2>1 DEF RateInv, Earned
  <2> QED
    BY <2>2, <2>3, <2>4, <2>5 DEF RateInv
<1> QED
  BY <1>1, <1>2, <1>3
(* A tick begins with the seconds since the last one to its credit, or     *)
(* with none if its replica did not lead.                                  *)
LEMMA BeginRate ==
    ASSUME TypeOK, TypeOK', SoleInv, RateInv, NEW r \in Replica, BeginTick(r)
    PROVE  RateInv'
<1>1. /\ pc[r] = "begin" /\ pc'[r] = "waves" /\ tick'[r].done = 0
      /\ tick'[r].dt = (IF loop[r].leader THEN now - loop[r].last ELSE 0)
      /\ loop'[r].leader /\ loop'[r].last = now /\ loop'[r].tokens = loop[r].tokens
      /\ Others(r) /\ UNCHANGED <<now, lock, admittedTotal>>
  BY BeginMove
<1>2. lock.owner = r /\ now < lock.exp /\ Bucket(r) /\ LeadersInv /\ Alive(r) /\ admittedTotal <= Earned(now)
  BY <1>1 DEF SoleInv, RateInv, Alive
<1>3. /\ now \in Nat /\ admittedTotal \in Nat /\ loop[r].tokens \in Int /\ loop[r].last \in Nat
      /\ loop[r].leader \in BOOLEAN
  BY BucketType
<1>4. Uncredited(r) = 0 /\ Uncredited(r)' = tick'[r].dt /\ tick[r].done = 0
  BY <1>1, <1>2 DEF Uncredited, Bucket
<1>5. InitCfg.rate * 0 = 0 /\ InitCfg.rate * (now - loop[r].last) \in Int
  <2>1. now - loop[r].last \in Int /\ 0 \in Int
    BY <1>3
  <2> QED
    BY <2>1, Worth
<1>6. tick'[r].dt >= 0 /\ loop[r].last <= now
  BY <1>1, <1>2, <1>3 DEF Bucket
<1>7. admittedTotal + loop[r].tokens + InitCfg.rate * tick'[r].dt <= Earned(now)
  <2>1. CASE loop[r].leader
    <3>1. admittedTotal + loop[r].tokens <= Earned(loop[r].last)
      BY <1>2, <1>3, <1>4, <1>5, <2>1 DEF Bucket, Leads
    <3>2. Earned(now) = Earned(loop[r].last) + InitCfg.rate * (now - loop[r].last)
      <4>1. now \in Int /\ loop[r].last \in Int
        BY <1>3
      <4> QED
        BY <4>1, EarnedBy
    <3>3. Earned(now) \in Int /\ Earned(loop[r].last) \in Int /\ tick'[r].dt = now - loop[r].last
      BY <1>1, <1>3, <2>1, EarnedGrows
    <3> QED
      BY <1>3, <1>5, <3>1, <3>2, <3>3
  <2>2. CASE ~loop[r].leader
    <3>1. loop[r].tokens = 0 /\ tick'[r].dt = 0
      BY <1>1, <1>2, <2>2 DEF Bucket
    <3> QED
      BY <1>2, <1>3, <1>5, <3>1
  <2> QED
    BY <2>1, <2>2
<1>8. Bucket(r)'
  <2>1. (InitCfg.rate * Uncredited(r))' = InitCfg.rate * tick'[r].dt /\ Earned(loop[r].last)' = Earned(now)
    BY <1>1, <1>4 DEF Earned
  <2>2. InitCfg.rate * tick'[r].dt \in Int
    BY <1>1, <1>3, <1>5
  <2>3. (admittedTotal + loop[r].tokens - tick[r].done + InitCfg.rate * Uncredited(r) <= Earned(loop[r].last))'
    BY <1>1, <1>3, <1>7, <2>1, <2>2
  <2> QED
    BY <1>1, <1>3, <1>4, <1>6, <2>3 DEF Bucket
<1>9. ASSUME NEW q \in Replica \ {r}, Leads(q) PROVE TakesOver(r)'
  <2>1. ~loop[r].leader
    BY <1>1, <1>2, <1>9 DEF LeadersInv, Leads, TakesOver, Ran, Busy
  <2> QED
    BY <1>1, <1>2, <1>4, <2>1 DEF TakesOver, Busy, Bucket
<1> QED
  BY <1>1, <1>2, <1>8, <1>9, OwnerStep

(* Closing waves costs nothing. *)
LEMMA PhaseRate ==
    ASSUME TypeOK, TypeOK', SoleInv, RateInv, NEW r \in Replica, Phase(r)
    PROVE  RateInv'
<1>1. /\ pc[r] \in WavePhases /\ pc'[r] \in WavePhases \cup {"count"}
      /\ tick'[r].dt = tick[r].dt /\ tick'[r].done = tick[r].done
      /\ Others(r) /\ UNCHANGED <<now, lock, loop, work, admittedTotal>>
  BY DEF Phase, Others
<1>2. lock.owner = r /\ Bucket(r) /\ LeadersInv
  BY <1>1 DEF SoleInv, RateInv, WavePhases
<1>3. Uncredited(r)' = Uncredited(r) /\ (Leads(r)' <=> Leads(r))
  BY <1>1 DEF Uncredited, WavePhases, Leads, Alive
<1>4. Bucket(r)'
  BY <1>1, <1>2, <1>3 DEF Bucket, WavePhases, Busy, Earned
<1>5. ASSUME NEW q \in Replica \ {r}, Leads(q), Leads(r)' PROVE TakesOver(r)'
  <2>1. TakesOver(r)
    BY <1>2, <1>3, <1>5 DEF LeadersInv
  <2> QED
    BY <1>1, <1>3, <2>1 DEF TakesOver, WavePhases, Busy
<1> QED
  BY <1>1, <1>2, <1>4, <1>5, OwnerStep

(* Count credits the seconds of its tick and no more. *)
LEMMA CountRate ==
    ASSUME TypeOK, TypeOK', TermsInv, SoleInv, RateInv, NEW r \in Replica, Count(r)
    PROVE  RateInv'
<1> DEFINE P == InitCfg.rate * tick[r].dt
           A == {t \in Ticket : active'[t] # 0}
<1>1. /\ pc[r] = "count" /\ Others(r) /\ UNCHANGED <<now, lock, admittedTotal>>
      /\ loop'[r].tokens = Refilled(r)
      /\ loop'[r].leader = loop[r].leader /\ loop'[r].last = loop[r].last
      /\ \/ /\ pc'[r] = "pop" /\ tick'[r].done = tick[r].done
            /\ tick'[r].k = Quota(r, Cardinality(PendingSet), Cardinality(A), Refilled(r))
         \/ /\ pc'[r] = "idle" /\ tick'[r].done = 0 /\ loop'[r].wake = now + 1
  BY CountMove DEF NoTick
<1>2. lock.owner = r /\ now < lock.exp /\ Bucket(r) /\ LeadersInv /\ Leads(r)
  BY <1>1 DEF SoleInv, RateInv, Alive, Leads, Bucket, Busy
<1>3. /\ now \in Nat /\ admittedTotal \in Nat /\ loop[r].tokens \in Int /\ loop[r].last \in Nat
      /\ loop[r].leader \in BOOLEAN /\ tick[r].dt \in Int
  BY BucketType
<1>4. Uncredited(r) = tick[r].dt /\ Uncredited(r)' = 0 /\ tick[r].done = 0 /\ tick'[r].done = 0
  BY <1>1, <1>2 DEF Uncredited, Bucket
<1>5. /\ P \in Int /\ InitCfg.rate * BurstSec \in Nat /\ InitCfg.rate * 0 = 0
      /\ Earned(loop[r].last) \in Int
  <2>1. P \in Int /\ InitCfg.rate * 0 = 0
    BY <1>3, Worth
  <2>2. InitCfg.rate * BurstSec \in Nat
    BY ConstantsAssumption, Fields
  <2>3. Earned(loop[r].last) \in Int
    BY <1>3, EarnedGrows
  <2> QED
    BY <2>1, <2>2, <2>3
<1>6. /\ Refilled(r) = MinOf(loop[r].tokens + P, InitCfg.rate * BurstSec)
      /\ Refilled(r) <= loop[r].tokens + P /\ Refilled(r) \in Int
  <2>1. Refilled(r) = MinOf(loop[r].tokens + P, InitCfg.rate * BurstSec)
    BY DEF Refilled, TermsInv
  <2> HIDE DEF P
  <2> QED
    BY <1>3, <1>5, <2>1 DEF MinOf
<1>7. admittedTotal + Refilled(r) <= Earned(loop[r].last)
  <2>1. admittedTotal + loop[r].tokens - 0 + P <= Earned(loop[r].last)
    BY <1>2, <1>4 DEF Bucket
  <2> HIDE DEF P
  <2> QED
    BY <1>3, <1>5, <1>6, <2>1
<1>8. pc'[r] = "pop" => tick'[r].k <= Refilled(r)
  <2>1. Cardinality(A) \in Nat /\ Cardinality(PendingSet) \in Nat /\ tick[r].cfg.maxActive \in Int
    BY Fewer, Fields DEF PendingSet, TypeOK
  <2> HIDE DEF A, P
  <2> QED
    BY <1>1, <1>6, <2>1 DEF Quota, MinOf
<1>9. Bucket(r)'
  <2>1. (InitCfg.rate * Uncredited(r))' = 0 /\ Earned(loop[r].last)' = Earned(loop[r].last)
    BY <1>1, <1>4, <1>5 DEF Earned
  <2> HIDE DEF P
  <2>2. (admittedTotal + loop[r].tokens - tick[r].done + InitCfg.rate * Uncredited(r) <= Earned(loop[r].last))'
    BY <1>1, <1>3, <1>4, <1>6, <1>7, <2>1
  <2> QED
    BY <1>1, <1>2, <1>3, <1>4, <1>8, <2>2 DEF Bucket, Leads
<1>10. ASSUME NEW q \in Replica \ {r}, Leads(q) PROVE TakesOver(r)'
  <2>1. loop[r].tokens = 0 /\ tick[r].dt = 0
    BY <1>2, <1>4, <1>10 DEF LeadersInv, TakesOver
  <2>2. P = 0
    BY <1>5, <2>1
  <2> HIDE DEF P
  <2>3. Refilled(r) = 0
    BY <1>5, <1>6, <2>1, <2>2 DEF MinOf
  <2> QED
    BY <1>1, <1>2, <1>3, <1>4, <2>3 DEF TakesOver, Busy, Ran
<1> QED
  BY <1>1, <1>2, <1>9, <1>10, OwnerStep
(* No more are popped than there are tokens. *)
LEMMA PopRate ==
    ASSUME TypeOK, TypeOK', SoleInv, RateInv, NEW r \in Replica, Pop(r)
    PROVE  RateInv'
<1>1. /\ pc[r] = "pop" /\ pc'[r] = "admit" /\ work'[r] \in Heads(tick[r].k)
      /\ Others(r) /\ UNCHANGED <<now, lock, loop, tick, admittedTotal>>
  BY PopMove
<1>2. lock.owner = r /\ Bucket(r) /\ LeadersInv
  BY <1>1 DEF SoleInv, RateInv
<1>3. Cardinality(work'[r]) <= tick[r].k
  <2>1. Cardinality(work'[r]) = MinOf(tick[r].k, Cardinality(PendingSet))
    BY <1>1 DEF Heads
  <2>2. tick[r].k \in Int /\ Cardinality(PendingSet) \in Nat
    BY BucketType, Fewer DEF PendingSet
  <2> QED
    BY <2>1, <2>2 DEF MinOf
<1>4. Uncredited(r)' = Uncredited(r) /\ (Leads(r)' <=> Leads(r))
  BY <1>1 DEF Uncredited, Leads, Alive
<1>5. Bucket(r)'
  <2>1. tick[r].done = 0 /\ tick[r].k <= loop[r].tokens
    BY <1>1, <1>2 DEF Bucket
  <2>2. Cardinality(work'[r]) \in Nat /\ tick[r].k \in Int /\ loop[r].tokens \in Int
    BY BucketType, Fewer DEF TypeOK
  <2>3. Cardinality(work'[r]) + tick[r].done <= loop[r].tokens
    BY <1>3, <2>1, <2>2
  <2> QED
    BY <1>1, <1>2, <1>4, <2>3 DEF Bucket, Busy, Earned
<1>6. ASSUME NEW q \in Replica \ {r}, Leads(q), Leads(r)' PROVE TakesOver(r)'
  <2>1. TakesOver(r)
    BY <1>2, <1>4, <1>6 DEF LeadersInv
  <2> QED
    BY <1>1, <1>4, <2>1 DEF TakesOver, Busy
<1> QED
  BY <1>1, <1>2, <1>5, <1>6, OwnerStep

(* Who is let in is paid for by a token its replica has, and no other      *)
(* replica leads meanwhile.                                                *)
LEMMA AdmitRate ==
    ASSUME TypeOK, TypeOK', SoleInv, RateInv, NEW r \in Replica, Admit(r)
    PROVE  RateInv'
<1>1. /\ pc[r] = "admit" /\ pc' = pc /\ admittedTotal' = admittedTotal + 1
      /\ tick'[r].done = tick[r].done + 1
      /\ Others(r) /\ UNCHANGED <<now, lock, loop>>
  BY AdmitMove
<1>2. PICK v \in work[r] : v \in Ticket /\ work'[r] = work[r] \ {v}
  BY AdmitMove
<1>3. lock.owner = r /\ Bucket(r) /\ LeadersInv /\ Leads(r)
  BY <1>1 DEF SoleInv, RateInv, Leads, Alive, Bucket, Busy
<1>4. Cardinality(work'[r]) = Cardinality(work[r]) - 1 /\ Cardinality(work[r]) >= 1
  <2>1. IsFiniteSet(work[r])
    BY ConstantsAssumption, FS_Subset DEF TypeOK
  <2>2. Cardinality(work'[r]) = Cardinality(work[r]) - 1
    BY <1>2, <2>1, FS_RemoveElement
  <2>3. Cardinality(work'[r]) \in Nat /\ Cardinality(work[r]) \in Nat
    BY <1>2, <2>1, FS_RemoveElement, FS_CardinalityType
  <2> QED
    BY <2>2, <2>3
<1>5. /\ now \in Nat /\ admittedTotal \in Nat /\ loop[r].tokens \in Int /\ loop[r].last \in Nat
      /\ tick[r].done \in Nat /\ Cardinality(work[r]) \in Nat
      /\ Earned(loop[r].last) \in Int /\ Earned(now) \in Int
  BY BucketType, EarnedGrows
<1>6. /\ Cardinality(work[r]) + tick[r].done <= loop[r].tokens
      /\ admittedTotal + loop[r].tokens - tick[r].done + InitCfg.rate * 0 <= Earned(loop[r].last)
      /\ loop[r].last <= now /\ Uncredited(r) = 0
  BY <1>1, <1>3 DEF Bucket, Uncredited
<1>7. InitCfg.rate * 0 = 0
  BY Worth
<1>8. Bucket(r)'
  <2>1. (InitCfg.rate * Uncredited(r))' = 0 /\ Earned(loop[r].last)' = Earned(loop[r].last) /\ Uncredited(r)' = 0
    BY <1>1, <1>7 DEF Earned, Uncredited
  <2>2. (admittedTotal + loop[r].tokens - tick[r].done + InitCfg.rate * Uncredited(r) <= Earned(loop[r].last))'
    BY <1>1, <1>5, <1>6, <1>7, <2>1
  <2>3. (Cardinality(work[r]) + tick[r].done <= loop[r].tokens)'
    BY <1>1, <1>4, <1>5, <1>6
  <2> QED
    BY <1>1, <1>3, <1>6, <2>1, <2>2, <2>3 DEF Bucket, Leads
<1>9. \A q \in Replica \ {r} : ~Leads(q)
  <2> SUFFICES ASSUME NEW q \in Replica \ {r}, Leads(q) PROVE FALSE
    OBVIOUS
  <2>1. loop[r].tokens = 0
    BY <1>3 DEF LeadersInv, TakesOver
  <2> QED
    BY <1>4, <1>5, <1>6, <2>1
<1>10. \A q \in Replica \ {r} : Bucket(q)' /\ ~Leads(q)'
  <2> SUFFICES ASSUME NEW q \in Replica \ {r} PROVE Bucket(q)' /\ ~Leads(q)'
    OBVIOUS
  <2>1. pc'[q] = pc[q] /\ tick'[q] = tick[q] /\ loop'[q] = loop[q] /\ work'[q] = work[q] /\ now' = now
    BY <1>1 DEF Others
  <2>2. ~Leads(q) /\ ~Leads(q)' /\ Uncredited(q)' = Uncredited(q)
    BY <1>9, <2>1 DEF Leads, Alive, Uncredited
  <2> QED
    BY <2>1, <2>2 DEF Bucket, RateInv
<1>11. LeadersInv'
  BY <1>1, <1>3, <1>10 DEF LeadersInv, Behind
<1>12. (admittedTotal <= Earned(now))'
  <2>1. Earned(loop[r].last) <= Earned(now)
    BY <1>5, <1>6, EarnedGrows
  <2>2. admittedTotal + 1 <= Earned(now)
    BY <1>4, <1>5, <1>6, <1>7, <2>1
  <2> QED
    BY <1>1, <2>2 DEF Earned
<1> QED
  BY <1>8, <1>10, <1>11, <1>12 DEF RateInv

(* The tokens of all who were let in are paid. *)
LEMMA FinishRate ==
    ASSUME TypeOK, TypeOK', SoleInv, RateInv, NEW r \in Replica, FinishTick(r)
    PROVE  RateInv'
<1>1. /\ pc[r] = "admit" /\ pc'[r] = "idle" /\ tick'[r].done = 0
      /\ loop'[r].tokens = loop[r].tokens - tick[r].done
      /\ loop'[r].leader = loop[r].leader /\ loop'[r].last = loop[r].last
      /\ loop'[r].wake = now + 1
      /\ Others(r) /\ UNCHANGED <<now, lock, admittedTotal>>
  BY FinishMove DEF NoTick
<1>2. lock.owner = r /\ now < lock.exp /\ Bucket(r) /\ LeadersInv /\ Leads(r)
  BY <1>1 DEF SoleInv, RateInv, Leads, Alive, Bucket, Busy
<1>3. /\ now \in Nat /\ admittedTotal \in Nat /\ loop[r].tokens \in Int /\ tick[r].done \in Nat
      /\ Cardinality(work[r]) \in Nat
  BY BucketType
<1>4. Uncredited(r) = 0 /\ Uncredited(r)' = 0
  BY <1>1 DEF Uncredited
<1>5. Bucket(r)'
  <2>1. /\ (InitCfg.rate * Uncredited(r))' = 0 /\ InitCfg.rate * Uncredited(r) = 0
        /\ Earned(loop[r].last)' = Earned(loop[r].last) /\ Earned(loop[r].last) \in Int
    BY <1>1, <1>4, Worth, BucketType, EarnedGrows DEF Earned
  <2>2. admittedTotal + loop[r].tokens - tick[r].done + 0 <= Earned(loop[r].last)
    BY <1>2, <2>1 DEF Bucket
  <2>3. (admittedTotal + loop[r].tokens - tick[r].done + InitCfg.rate * Uncredited(r) <= Earned(loop[r].last))'
    BY <1>1, <1>3, <2>1, <2>2
  <2> QED
    BY <1>1, <1>2, <1>4, <2>3 DEF Bucket, Leads, Busy
<1>6. ASSUME NEW q \in Replica \ {r}, Leads(q) PROVE TakesOver(r)'
  <2>1. loop[r].tokens = 0
    BY <1>2, <1>6 DEF LeadersInv, TakesOver
  <2>2. tick[r].done = 0
    BY <1>1, <1>2, <1>3, <2>1 DEF Bucket
  <2> QED
    BY <1>1, <1>2, <1>3, <1>4, <2>1, <2>2 DEF TakesOver, Ran
<1> QED
  BY <1>1, <1>2, <1>5, <1>6, OwnerStep

(* Who goes down spends nothing more, and who comes back has nothing.      *)
LEMMA DownRate ==
    ASSUME TypeOK, TypeOK', SoleInv, RateInv, NEW r \in Replica, Crash(r) \/ Stop(r) \/ Restart(r)
    PROVE  RateInv'
<1>0. Bucket(r) /\ LeadersInv /\ NoOne \notin Replica /\ Gone \notin Replica
  BY ConstantsAssumption DEF RateInv
<1>1. /\ Others(r) /\ UNCHANGED <<now, admittedTotal>>
      /\ \A q \in Replica \ {r} : lock.owner = q \/ lock'.owner = q => lock' = lock
  <2>1. CASE Crash(r)
    BY <1>0, <2>1, DownMoves DEF TypeOK, LockRec
  <2>2. CASE Stop(r)
    BY <1>0, <2>2, DownMoves
  <2>3. CASE Restart(r)
    BY <2>3, DownMoves
  <2> QED
    BY <2>1, <2>2, <2>3
<1>2. Bucket(r)' /\ ~Leads(r)'
  <2>1. CASE Crash(r)
    <3>1. pc'[r] = "down" /\ tick'[r].done = 0 /\ UNCHANGED <<now, loop>>
      BY <2>1, DownMoves DEF NoTick
    <3> QED
      BY <1>0, <3>1 DEF Bucket, Leads, Alive, Uncredited, Busy
  <2>2. CASE Stop(r)
    <3>1. pc'[r] = "down" /\ tick'[r].done = 0 /\ UNCHANGED <<now, loop>>
      BY <2>2, DownMoves DEF NoTick
    <3> QED
      BY <1>0, <3>1 DEF Bucket, Leads, Alive, Uncredited, Busy
  <2>3. CASE Restart(r)
    BY <1>0, <2>3, DownMoves, BucketType DEF Bucket, Leads, Alive, Uncredited, Busy
  <2> QED
    BY <2>1, <2>2, <2>3
<1>3. \A q \in Replica \ {r} :
        /\ Bucket(q)' /\ (Leads(q)' <=> Leads(q)) /\ pc'[q] = pc[q] /\ loop'[q] = loop[q]
        /\ Uncredited(q)' = Uncredited(q)
  BY <1>1, BucketKeeps DEF Others, RateInv, Leads, Alive, Uncredited
<1>4. \A q \in Replica \ {r} : Behind(q)' /\ (TakesOver(q) /\ lock.owner = q => TakesOver(q)')
  BY <1>0, <1>1, <1>3 DEF LeadersInv, Behind, TakesOver, Ran
<1>5. LeadersInv'
  <2>1. \A q \in Replica : Behind(q)'
    BY <1>2, <1>4 DEF Behind
  <2>2. ASSUME NEW q \in Replica, NEW s \in Replica, Leads(q)', Leads(s)', q # s
        PROVE  lock'.owner \in {q, s} /\ (lock'.owner = q => TakesOver(q)')
    <3>1. q # r /\ s # r /\ Leads(q) /\ Leads(s)
      BY <1>2, <1>3, <2>2
    <3>2. lock.owner \in {q, s} /\ (lock.owner = q => TakesOver(q))
      BY <1>0, <2>2, <3>1 DEF LeadersInv
    <3>3. lock' = lock
      BY <1>1, <3>1, <3>2
    <3> QED
      BY <1>4, <3>1, <3>2, <3>3
  <2> QED
    BY <2>1, <2>2 DEF LeadersInv
<1>6. (admittedTotal <= Earned(now))'
  BY <1>1 DEF RateInv, Earned
<1> QED
  BY <1>2, <1>3, <1>5, <1>6 DEF RateInv

(* At the start nobody leads and nothing is spent. *)
LEMMA RateInit == Init => RateInv
<1> SUFFICES ASSUME Init PROVE RateInv
  OBVIOUS
<1>1. \A r \in Replica : /\ pc[r] = "idle" /\ ~loop[r].leader /\ loop[r].tokens = 0
                         /\ loop[r].last = Start /\ tick[r].done = 0
  BY DEF Init, NoTick
<1>2. now = Start /\ Start \in Nat /\ admittedTotal = 0
  BY ConstantsAssumption DEF Init
<1>3. LeadersInv /\ \A r \in Replica : Bucket(r)
  BY <1>1, <1>2 DEF LeadersInv, Behind, Leads, Bucket, Uncredited, Busy
<1>4. Earned(now) = 0
  <2>1. now - Start = 0
    BY <1>2
  <2> QED
    BY <2>1, Worth DEF Earned
<1> QED
  BY <1>2, <1>3, <1>4 DEF RateInv

(* As long as the room is steady what is spent was earned. *)
LEMMA RateHolds == Spec => [](Steady => RateInv)
<1> DEFINE Limits == Steady => TermsInv /\ SoleInv /\ PassInv /\ CapInv
           Inv == Steady => RateInv
<1>1. Init => Inv
  BY RateInit
<1>2. TypeOK /\ TypeOK' /\ BudgetOK /\ Limits /\ Limits' /\ Inv /\ [Next]_vars => Inv'
  <2> SUFFICES ASSUME TypeOK, TypeOK', BudgetOK, Limits, Limits', Inv, [Next]_vars, Steady'
               PROVE  RateInv'
    OBVIOUS
  <2>1. Steady /\ TermsInv /\ SoleInv /\ SoleInv' /\ RateInv /\ SteadyNext
    BY SteadySteps
  <2> QED
    BY <2>1, LimitSteps, RestStep, AskStep, BeginRate, PhaseRate, CountRate, PopRate, AdmitRate,
       FinishRate, DownRate
<1> QED
  BY <1>1, <1>2, TypeCorrect, CalmHolds, LimitsHold, PTL DEF Spec

(* rate holds for any number of replicas: whichever of them leads, what    *)
(* was admitted and what a bucket may still spend were earned since the    *)
(* start, through crashes, stops and takeovers.                            *)
THEOREM RateNeverExceeded == Spec => []RateBound
<1>1. TypeOK /\ (Steady => TermsInv /\ SoleInv /\ PassInv /\ CapInv) /\ (Steady => RateInv) => RateBound
  <2> SUFFICES ASSUME TypeOK, RateInv, NEW r \in Replica
               PROVE  admittedTotal + Credit(r) <= InitCfg.rate * (now - Start)
    BY DEF RateBound
  <2>1. /\ now \in Nat /\ admittedTotal \in Nat /\ loop[r].tokens \in Int /\ loop[r].last \in Nat
        /\ tick[r].done \in Nat /\ Uncredited(r) \in Int /\ InitCfg.rate * Uncredited(r) \in Int
    BY BucketType
  <2>2. Bucket(r) /\ admittedTotal <= Earned(now)
    BY DEF RateInv
  <2>3. Earned(now) \in Int /\ Earned(loop[r].last) \in Int /\ Earned(loop[r].last) <= Earned(now)
    BY <2>1, <2>2, EarnedGrows DEF Bucket
  <2>4. CASE Leads(r)
    <3>1. InitCfg.rate * Uncredited(r) >= 0
      BY <2>1, <2>2, Worth DEF Bucket
    <3>2. admittedTotal + loop[r].tokens - tick[r].done <= Earned(now)
      BY <2>1, <2>2, <2>3, <2>4, <3>1 DEF Bucket
    <3>3. Credit(r) = loop[r].tokens - tick[r].done
      BY <2>4 DEF Credit, Leads
    <3> QED
      BY <2>1, <3>2, <3>3 DEF Earned
  <2>5. CASE ~Leads(r)
    <3>1. Credit(r) \in Int /\ Credit(r) <= 0
      BY <2>1, <2>2, <2>5 DEF Credit, Leads, Bucket, Alive, Busy
    <3>2. admittedTotal + Credit(r) <= Earned(now)
      BY <2>1, <2>2, <2>3, <3>1
    <3> QED
      BY <3>2 DEF Earned
  <2> QED
    BY <2>4, <2>5
<1> QED
  BY <1>1, TypeCorrect, LimitsHold, RateHolds, PTL
=============================================================================
