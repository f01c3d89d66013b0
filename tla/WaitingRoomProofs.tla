-------------------------- MODULE WaitingRoomProofs --------------------------
(* Theorems about WaitingRoom, for any number of tickets and replicas. *)
EXTENDS WaitingRoom, FiniteSetTheorems, TLAPS

(* Every configuration Validate accepts is one the admitter can work with: *)
(* a positive rate, a positive wave length, a positive pass lifetime.      *)
LEMMA ValidateType ==
    ASSUME NEW c \in RawConfig, ~Refused(c)
    PROVE  Validate(c) \in Config
<1>1. /\ c.state \in States \cup {"unset", "other"} /\ c.rate \in Int
      /\ c.maxActive \in Int /\ c.waveSec \in Int /\ c.passTTL \in Int
  BY DEF RawConfig
<1>2. (IF c.state = "unset" THEN "queue" ELSE c.state) \in States
  BY <1>1 DEF Refused, States
<1>3. (IF c.rate <= 0 THEN 10 ELSE c.rate) \in Nat \ {0}
  BY <1>1
<1>4. (IF c.waveSec < 1 THEN 30 ELSE c.waveSec) \in Nat \ {0}
  BY <1>1
<1>5. (IF c.passTTL < MinPassTTL THEN 1200 ELSE c.passTTL) \in Nat \ {0}
  BY <1>1, ConstantsAssumption
<1> QED
  BY <1>1, <1>2, <1>3, <1>4, <1>5 DEF Validate, Config

(* The sizes the admitter compares are numbers: Ticket is finite. *)
LEMMA CardType ==
    ASSUME NEW S, S \subseteq Ticket
    PROVE  Cardinality(S) \in Nat
BY ConstantsAssumption, FS_Subset, FS_CardinalityType

(* The ranks a shuffle draws are numbers. *)
LEMMA ShuffleType ==
    ASSUME NEW S, S \subseteq Ticket, NEW f \in Shuffles(S), NEW t \in S
    PROVE  f[t] \in Int
BY CardType DEF Shuffles

(* room.WaveScore of a wave and a rank is a number. *)
LEMMA WaveScoreType ==
    ASSUME NEW w \in Int, NEW rank \in Int
    PROVE  WaveScore(w, rank) \in Int
BY SMT DEF WaveScore

(* A room as it is created has well-typed state. *)
LEMMA TypeInit == Init => TypeOK
BY ConstantsAssumption
DEF Init, TypeOK, NoTicket, NoReq, NoTick, NoFlush, BudgetKeys, TicketRec, ReqRec,
    TickRec, FlushRec, LockRec, LoopRec, PcValues, ReqValues

(* What the helpers of the actions keep well typed. *)
LEMMA SpendType ==
    ASSUME budget \in [BudgetKeys -> Int], NEW key \in BudgetKeys, Spend(key)
    PROVE  budget' \in [BudgetKeys -> Int]
BY DEF Spend, BudgetKeys

(* The state of an admitter between two ticks is well typed. *)
LEMMA NoTickType == NoTick \in TickRec
BY ConstantsAssumption DEF NoTick, TickRec

(* An iteration that ends leaves well-typed admitters. *)
LEMMA SleepType ==
    ASSUME TypeOK, NEW r \in Replica, Sleep(r)
    PROVE  /\ pc' \in [Replica -> PcValues]
           /\ tick' \in [Replica -> TickRec]
           /\ batch' \in [Replica -> SUBSET Ticket]
           /\ work' \in [Replica -> SUBSET Ticket]
BY NoTickType DEF TypeOK, Sleep, Goto, PcValues

(* The fields of the records the variables hold, and of their updates. *)
LEMMA Fields ==
    /\ \A c \in Config : /\ c.rate \in Nat /\ c.maxActive \in Int
                         /\ c.waveSec \in Nat \ {0} /\ c.passTTL \in Nat
    /\ \A e \in TicketRec : e.wave \in Int /\ e.score \in Int /\ e.exp \in Int
    /\ \A e \in LoopRec : e.tokens \in Int /\ e.last \in Nat /\ e.key \in BOOLEAN
    /\ \A e \in TickRec : /\ e.now \in Nat /\ e.dt \in Int /\ e.cfg \in Config
                          /\ e.n \in Int /\ e.strays \subseteq Int
                          /\ e.k \in Int /\ e.done \in Nat
    /\ \A e \in ReqRec : e.val \in Int
    /\ \A e \in FlushRec : e.cur \in Int
<1>1. \A c \in Config : /\ c.rate \in Nat /\ c.maxActive \in Int
                       /\ c.waveSec \in Nat \ {0} /\ c.passTTL \in Nat
  BY DEF Config
<1>2. \A e \in TicketRec : e.wave \in Int /\ e.score \in Int /\ e.exp \in Int
  BY DEF TicketRec
<1>3. \A e \in LoopRec : e.tokens \in Int /\ e.last \in Nat /\ e.key \in BOOLEAN
  BY DEF LoopRec
<1>4. \A e \in TickRec : /\ e.now \in Nat /\ e.dt \in Int /\ e.cfg \in Config
                        /\ e.n \in Int /\ e.strays \subseteq Int
                        /\ e.k \in Int /\ e.done \in Nat
  BY DEF TickRec
<1>5. \A e \in ReqRec : e.val \in Int
  BY DEF ReqRec
<1>6. \A e \in FlushRec : e.cur \in Int
  BY DEF FlushRec
<1> QED
  BY <1>1, <1>2, <1>3, <1>4, <1>5, <1>6

(* Putting an admitter to sleep keeps its record well typed. *)
LEMMA SleptType ==
    ASSUME TypeOK, NEW r \in Replica, NEW tokens \in Int
    PROVE  Slept(r, tokens) \in LoopRec
<1>1. \A e \in LoopRec, m \in Nat, n \in Int :
          [e EXCEPT !.tokens = n, !.wake = m] \in LoopRec
  BY Zenon DEF LoopRec
<1>2. loop[r] \in LoopRec /\ now + 1 \in Nat
  BY DEF TypeOK
<1> QED
  BY <1>1, <1>2, Zenon DEF Slept

(* Moving on to the next wave keeps the tick well typed. *)
LEMMA NextWaveType ==
    ASSUME TypeOK, NEW r \in Replica
    PROVE  NextWave(r) \in TickRec
<1>1. tick[r] \in TickRec /\ tick[r].n + 1 \in Int
  BY Fields DEF TypeOK
<1>2. \A e \in TickRec, n \in Int : [e EXCEPT !.n = n] \in TickRec
  BY Zenon DEF TickRec
<1> QED
  BY <1>1, <1>2, Zenon DEF NextWave

(* Writing the scores of a wave keeps the tickets well typed. *)
LEMMA ScoredType ==
    ASSUME TypeOK, NEW t \in Ticket, NEW n \in Int
    PROVE  Scored(t, n) \in TicketRec
<1>1. ticket[t] \in TicketRec
  BY DEF TypeOK
<1>2. \A e \in TicketRec : [e EXCEPT !.score = n] \in TicketRec
  BY Zenon DEF TicketRec
<1> QED
  BY <1>1, <1>2, Zenon DEF Scored

(* Marking a ticket admitted keeps it well typed. *)
LEMMA MarkedType ==
    ASSUME TypeOK, NEW t \in Ticket, NEW n \in Int
    PROVE  Marked(t, n) \in TicketRec
<1>1. ticket[t] \in TicketRec
  BY DEF TypeOK
<1>2. \A e \in TicketRec : [e EXCEPT !.status = "admitted", !.exp = n] \in TicketRec
  BY Zenon DEF TicketRec
<1> QED
  BY <1>1, <1>2, Zenon DEF Marked

(* room.Wave of an instant is a wave number. *)
LEMMA WaveType ==
    ASSUME NEW c \in Config, NEW t \in Nat
    PROVE  Wave(t, c.waveSec) \in Int
BY DEF Wave, Config

(* The active set without its expired members is still one. *)
LEMMA PurgedType ==
    ASSUME active \in [Ticket -> Int], NEW at \in Nat
    PROVE  Purged(at) \in [Ticket -> Int]
BY DEF Purged

(* What ZPOPMIN may return is a set of tickets. *)
LEMMA HeadsType ==
    ASSUME NEW k, NEW S \in Heads(k)
    PROVE  S \subseteq Ticket
BY DEF Heads, PendingSet

(* The list of orphan waves, or a part of it, is well typed. *)
LEMMA SweepOfType ==
    ASSUME TypeOK, NEW r \in Replica
    PROVE  /\ \A S \in SUBSET Strays(r) : SweepOf(r, S) \in TickRec
           /\ SweepOf(r, Strays(r)) \in TickRec
           /\ tick \in [Replica -> TickRec]
<1>1. \A e \in TickRec, b \in BOOLEAN, S \in SUBSET Int :
         [e EXCEPT !.strays = S, !.sweep = b] \in TickRec
  BY Zenon DEF TickRec
<1>2. tick[r] \in TickRec /\ Strays(r) \in SUBSET Int
  BY Fields DEF Strays, WaveKeys, TypeOK
<1>3. \A S \in SUBSET Strays(r) : S \in SUBSET Int
  BY <1>2
<1> QED
  BY <1>1, <1>2, <1>3, Zenon DEF SweepOf, TypeOK

(* Every step of every handler keeps the state well typed. *)
LEMMA TypeStep == TypeOK /\ [Next]_vars => TypeOK'
<1> SUFFICES ASSUME TypeOK, [Next]_vars PROVE TypeOK'
  OBVIOUS
<1> USE DEF TypeOK
<1>1. CASE Tick
  <2>1. budget' \in [BudgetKeys -> Int]
    BY <1>1, SpendType DEF Tick, BudgetKeys
  <2> QED
    BY <1>1, <2>1 DEF Tick, storeVars, replicaVars, clientVars
<1>2. CASE FlushPending
  <2>1. budget' \in [BudgetKeys -> Int]
    BY <1>2, SpendType DEF FlushPending, BudgetKeys
  <2>2. flush' \in FlushRec
    BY <1>2, WaveType DEF FlushPending, FlushRec
  <2> QED
    BY <1>2, <2>1, <2>2 DEF FlushPending, storeVars, replicaVars, clientVars
<1>3. CASE FlushWaves
  <2>1. flush' \in FlushRec
    BY <1>3 DEF FlushWaves, FlushRec, NoFlush
  <2>2. lastWave' \in Int
    BY <1>3, Fields DEF FlushWaves
  <2> QED
    BY <1>3, <2>1, <2>2 DEF FlushWaves, storeVars, replicaVars, clientVars
<1>4. ASSUME NEW t \in Ticket, TicketBegin(t) PROVE TypeOK'
  <2>1. req' \in [Ticket -> ReqRec]
    <3>1. CASE cfg.state = "queue"
      <4>1. Wave(now, cfg.waveSec) \in Int
        BY WaveType
      <4>2. (Wave(now, cfg.waveSec) + 1) * cfg.waveSec + WaveGrace \in Int
        BY <4>1, Fields, ConstantsAssumption
      <4> QED
        BY <1>4, <3>1, <4>1, <4>2 DEF TicketBegin, ReqRec, ReqValues
    <3>2. CASE cfg.state = "open"
      BY <1>4, <3>2, Fields DEF TicketBegin, ReqRec, ReqValues
    <3> QED
      BY <1>4, <3>1, <3>2 DEF TicketBegin
  <2> QED
    BY <1>4, <2>1 DEF TicketBegin, storeVars, replicaVars, clientVars
<1>5. ASSUME NEW t \in Ticket, CreateTicket(t) PROVE TypeOK'
  <2>1. req' \in [Ticket -> ReqRec]
    BY <1>5 DEF CreateTicket, ReqRec, ReqValues, NoReq
  <2>2. ticket' \in [Ticket -> TicketRec]
    BY <1>5 DEF CreateTicket, ReqRec, TicketRec
  <2> QED
    BY <1>5, <2>1, <2>2 DEF CreateTicket, storeVars, replicaVars, clientVars
<1>6. ASSUME NEW t \in Ticket, AdmitDirect(t) PROVE TypeOK'
  <2>1. req' \in [Ticket -> ReqRec]
    BY <1>6 DEF AdmitDirect, ReqRec, ReqValues, NoReq
  <2>2. ticket' \in [Ticket -> TicketRec]
    BY <1>6 DEF AdmitDirect, ReqRec, TicketRec
  <2> QED
    BY <1>6, <2>1, <2>2 DEF AdmitDirect, storeVars, replicaVars, clientVars
<1>7. ASSUME NEW t \in Ticket, StatusRead(t) PROVE TypeOK'
  <2>1. req' \in [Ticket -> ReqRec]
    BY <1>7 DEF StatusRead, ReqRec, ReqValues, TicketRec
  <2> QED
    BY <1>7, <2>1 DEF StatusRead, storeVars, replicaVars, clientVars
<1>8. ASSUME NEW t \in Ticket, StatusRank(t) PROVE TypeOK'
  <2>1. [req[t] EXCEPT !.pc = "requeue"] \in ReqRec
    BY DEF ReqRec, ReqValues
  <2>3. NoReq \in ReqRec
    BY DEF NoReq, ReqRec, ReqValues
  <2>4. req' \in [Ticket -> ReqRec]
    BY <1>8, <2>1, <2>3 DEF StatusRank
  <2>2. active' \in [Ticket -> Int]
    BY <1>8, PurgedType DEF StatusRank
  <2> QED
    BY <1>8, <2>4, <2>2 DEF StatusRank, storeVars, replicaVars, clientVars
<1>9. ASSUME NEW t \in Ticket, StatusRequeue(t) PROVE TypeOK'
  <2>1. req' \in [Ticket -> ReqRec]
    BY <1>9 DEF StatusRequeue, ReqRec, ReqValues, NoReq
  <2>2. pending' \in [Ticket -> Int]
    BY <1>9, Fields DEF StatusRequeue
  <2> QED
    BY <1>9, <2>1, <2>2 DEF StatusRequeue, storeVars, replicaVars, clientVars
<1>10. ASSUME NEW c \in Configs, PutRoom(c) PROVE TypeOK'
  <2>1. budget' \in [BudgetKeys -> Int]
    BY <1>10, SpendType DEF PutRoom, BudgetKeys
  <2>2. cfg' \in Config
    BY <1>10, ValidateType, ConstantsAssumption DEF PutRoom
  <2> QED
    BY <1>10, <2>1, <2>2 DEF PutRoom, storeVars, replicaVars, clientVars
<1>11. ASSUME NEW r \in Replica, AcquireSet(r) PROVE TypeOK'
  <2>1. pc' \in [Replica -> PcValues]
    BY <1>11 DEF AcquireSet, Goto, PcValues
  <2>2. lock' \in LockRec
    BY <1>11, ConstantsAssumption DEF AcquireSet, LockRec
  <2> QED
    BY <1>11, <2>1, <2>2 DEF AcquireSet, storeVars, replicaVars, clientVars
<1>12. ASSUME NEW r \in Replica, AcquireOwn(r) PROVE TypeOK'
  <2>1. pc' \in [Replica -> PcValues]
    BY <1>12 DEF AcquireOwn, Goto, PcValues
  <2> QED
    BY <1>12, <2>1 DEF AcquireOwn, storeVars, replicaVars, clientVars
<1>13. ASSUME NEW r \in Replica, Renew(r) PROVE TypeOK'
  <2>1. pc' \in [Replica -> PcValues]
    BY <1>13 DEF Renew, Goto, PcValues
  <2>2. lock' \in LockRec
    BY <1>13, ConstantsAssumption DEF Renew, LockRec
  <2> QED
    BY <1>13, <2>1, <2>2 DEF Renew, storeVars, replicaVars, clientVars
<1>14. ASSUME NEW r \in Replica, AcquireLost(r) PROVE TypeOK'
  <2>1. loop' \in [Replica -> LoopRec]
    BY <1>14 DEF AcquireLost, LoopRec
  <2> QED
    BY <1>14, <2>1 DEF AcquireLost, storeVars, replicaVars, clientVars
<1>15. ASSUME NEW r \in Replica, BeginTick(r) PROVE TypeOK'
  <2>1. pc' \in [Replica -> PcValues]
    BY <1>15 DEF BeginTick, Goto, PcValues
  <2>2. loop' \in [Replica -> LoopRec]
    <3>1. \A e \in LoopRec, b \in BOOLEAN, m \in Nat :
            [e EXCEPT !.leader = b, !.last = m] \in LoopRec
      BY Zenon DEF LoopRec
    <3>2. [loop[r] EXCEPT !.leader = TRUE, !.last = now] \in LoopRec
      BY <3>1, Zenon
    <3> QED
      BY <1>15, <3>2, Zenon DEF BeginTick
  <2>3. tick' \in [Replica -> TickRec]
    <3>1. ResumeWave(Wave(now, cfg.waveSec)) \in Int
      BY WaveType, ConstantsAssumption DEF ResumeWave
    <3>2. (IF loop[r].leader THEN now - loop[r].last ELSE 0) \in Int
      BY Fields
    <3> QED
      BY <1>15, <3>1, <3>2 DEF BeginTick, TickRec
  <2> QED
    BY <1>15, <2>1, <2>2, <2>3 DEF BeginTick, storeVars, replicaVars, clientVars
<1>16. ASSUME NEW r \in Replica, CloseElapsed(r) PROVE TypeOK'
  <2>1. pc' \in [Replica -> PcValues]
    BY <1>16 DEF CloseElapsed, Goto, PcValues, PopWave
  <2>2. tick' \in [Replica -> TickRec]
    BY <1>16, NextWaveType DEF CloseElapsed
  <2>3. batch' \in [Replica -> SUBSET Ticket]
    BY <1>16 DEF CloseElapsed, PopWave, WaveMembers
  <2>4. lastWave' \in Int
    BY <1>16, Fields DEF CloseElapsed, PopWave
  <2>5. inWave' \subseteq Ticket
    BY <1>16 DEF CloseElapsed, PopWave
  <2> QED
    BY <1>16, <2>1, <2>2, <2>3, <2>4, <2>5 DEF CloseElapsed, storeVars, replicaVars,
      clientVars
<1>17. ASSUME NEW r \in Replica, WavesDone(r) PROVE TypeOK'
  <2>1. pc' \in [Replica -> PcValues]
    BY <1>17 DEF WavesDone, Goto, PcValues
  <2>2. tick' \in [Replica -> TickRec]
    BY <1>17, SweepOfType DEF WavesDone
  <2> QED
    BY <1>17, <2>1, <2>2 DEF WavesDone, storeVars, replicaVars, clientVars
<1>18. ASSUME NEW r \in Replica, CloseStray(r) PROVE TypeOK'
  <2>1. pc' \in [Replica -> PcValues]
    BY <1>18 DEF CloseStray, Goto, PcValues, PopWave
  <2>2. tick' \in [Replica -> TickRec]
    <3>1. \A e \in TickRec, n \in Int, S \in SUBSET Int :
            [e EXCEPT !.n = n, !.strays = S] \in TickRec
      BY Zenon DEF TickRec
    <3>2. tick[r] \in TickRec /\ \A n \in tick[r].strays :
            n \in Int /\ tick[r].strays \ {n} \in SUBSET Int
      BY Fields
    <3>3. \A n \in tick[r].strays : TakeStray(r, n) \in TickRec
      BY <3>1, <3>2, Zenon DEF TakeStray
    <3> QED
      BY <1>18, <3>3 DEF CloseStray
  <2>3. batch' \in [Replica -> SUBSET Ticket]
    BY <1>18 DEF CloseStray, PopWave, WaveMembers
  <2>4. lastWave' \in Int
    BY <1>18 DEF CloseStray, PopWave
  <2>5. inWave' \subseteq Ticket
    BY <1>18 DEF CloseStray, PopWave
  <2> QED
    BY <1>18, <2>1, <2>2, <2>3, <2>4, <2>5 DEF CloseStray, storeVars, replicaVars,
      clientVars
<1>19. ASSUME NEW r \in Replica, SweepDone(r) PROVE TypeOK'
  <2>1. pc' \in [Replica -> PcValues]
    BY <1>19 DEF SweepDone, Goto, PcValues
  <2> QED
    BY <1>19, <2>1 DEF SweepDone, storeVars, replicaVars, clientVars
<1>20. ASSUME NEW r \in Replica, RankWave(r) PROVE TypeOK'
  <2>1. pc' \in [Replica -> PcValues]
    BY <1>20 DEF RankWave, Goto, PcValues
  <2>2. ticket' \in [Ticket -> TicketRec]
    <3>1. PICK f \in Shuffles(batch[r]) :
            ticket' = [t \in Ticket |-> IF t \in batch[r]
                                          THEN Scored(t, WaveScore(tick[r].n, f[t]))
                                          ELSE ticket[t]]
      BY <1>20, Zenon DEF RankWave
    <3>2. \A t \in batch[r] : Scored(t, WaveScore(tick[r].n, f[t])) \in TicketRec
      BY ShuffleType, WaveScoreType, ScoredType, Fields
    <3> QED
      BY <3>1, <3>2
  <2>3. pending' \in [Ticket -> Int]
    <3>1. PICK f \in Shuffles(batch[r]) :
            pending' = [t \in Ticket |-> IF t \in batch[r] THEN WaveScore(tick[r].n, f[t])
                                                           ELSE pending[t]]
      BY <1>20, Zenon DEF RankWave
    <3>2. \A t \in batch[r] : WaveScore(tick[r].n, f[t]) \in Int
      BY ShuffleType, WaveScoreType, Fields
    <3> QED
      BY <3>1, <3>2
  <2>4. batch' \in [Replica -> SUBSET Ticket]
    BY <1>20 DEF RankWave
  <2> QED
    BY <1>20, <2>1, <2>2, <2>3, <2>4 DEF RankWave, storeVars, replicaVars, clientVars
<1>21. ASSUME NEW r \in Replica, DelWave(r) PROVE TypeOK'
  <2>1. pc' \in [Replica -> PcValues]
    BY <1>21 DEF DelWave, Record, Goto, PcValues
  <2>2. tick' \in [Replica -> TickRec]
    BY <1>21, NextWaveType DEF DelWave, Record
  <2>3. lastWave' \in Int
    BY <1>21, Fields DEF DelWave, Record
  <2> QED
    BY <1>21, <2>1, <2>2, <2>3 DEF DelWave, Record, storeVars, replicaVars, clientVars
<1>22. ASSUME NEW r \in Replica, Count(r) PROVE TypeOK'
  <2>1. active' \in [Ticket -> Int]
    BY <1>22, PurgedType, Fields DEF Count
  <2>2. Refilled(r) \in Int
    BY ConstantsAssumption, Fields DEF Refilled, MinOf
  <2>3. Cardinality(PendingSet) \in Int
    BY CardType DEF PendingSet
  <2>4. Cardinality({t \in Ticket : active'[t] # 0}) \in Int
    BY CardType
  <2>5. \A act \in Int : Quota(r, Cardinality(PendingSet), act, Refilled(r)) \in Int
    BY <2>2, <2>3, Fields DEF Quota, MinOf
  <2>6. CASE Sleep(r)
    <3>1. loop' \in [Replica -> LoopRec]
      <4>1. [loop[r] EXCEPT !.tokens = Refilled(r)] \in LoopRec
        <5>1. \A e \in LoopRec, n \in Int : [e EXCEPT !.tokens = n] \in LoopRec
          BY Zenon DEF LoopRec
        <5> QED
          BY <2>2, <5>1, Zenon
      <4>2. Slept(r, Refilled(r)) \in LoopRec
        BY <2>2, SleptType
      <4>3. \/ loop' = [loop EXCEPT ![r].tokens = Refilled(r)]
            \/ loop' = [loop EXCEPT ![r] = Slept(r, Refilled(r))]
        BY <1>22, Zenon DEF Count
      <4> QED
        BY <4>1, <4>2, <4>3, Zenon
    <3> QED
      BY <1>22, <2>1, <2>6, <3>1, SleepType DEF Count, clientVars
  <2>7. CASE ~Sleep(r)
    <3> DEFINE k == Quota(r, Cardinality(PendingSet),
                          Cardinality({t \in Ticket : active'[t] # 0}), Refilled(r))
    <3>1. /\ loop' = [loop EXCEPT ![r].tokens = Refilled(r)]
          /\ tick' = [tick EXCEPT ![r].k = k]
          /\ Goto(r, "pop") /\ UNCHANGED <<batch, work>>
      BY <1>22, <2>7, Zenon DEF Count
    <3>2. k \in Int
      BY <2>4, <2>5
    <3>3. [loop[r] EXCEPT !.tokens = Refilled(r)] \in LoopRec
      <4>1. \A e \in LoopRec, n \in Int : [e EXCEPT !.tokens = n] \in LoopRec
        BY Zenon DEF LoopRec
      <4> QED
        BY <2>2, <4>1, Zenon
    <3>4. [tick[r] EXCEPT !.k = k] \in TickRec
      <4>1. \A e \in TickRec, n \in Int : [e EXCEPT !.k = n] \in TickRec
        BY Zenon DEF TickRec
      <4> HIDE DEF k
      <4> QED
        BY <3>2, <4>1, Zenon
    <3>5. loop' \in [Replica -> LoopRec]
      BY <3>1, <3>3, Zenon
    <3>6. tick' \in [Replica -> TickRec]
      BY <3>1, <3>4, Zenon
    <3>7. pc' \in [Replica -> PcValues]
      BY <3>1 DEF Goto, PcValues
    <3>8. UNCHANGED <<now, cfg, ticket, inWave, pending, lastWave, lock, admittedTotal,
                      clientVars, budget>>
      BY <1>22, Zenon DEF Count
    <3> QED
      BY <2>1, <3>1, <3>5, <3>6, <3>7, <3>8 DEF clientVars
  <2> QED
    BY <1>22, <2>6, <2>7 DEF Count, storeVars, replicaVars, clientVars
<1>23. ASSUME NEW r \in Replica, Pop(r) PROVE TypeOK'
  <2>1. pc' \in [Replica -> PcValues]
    BY <1>23 DEF Pop, Goto, PcValues
  <2>2. pending' \in [Ticket -> Int]
    BY <1>23 DEF Pop
  <2>3. work' \in [Replica -> SUBSET Ticket]
    BY <1>23, HeadsType DEF Pop
  <2> QED
    BY <1>23, <2>1, <2>2, <2>3 DEF Pop, storeVars, replicaVars, clientVars
<1>24. ASSUME NEW r \in Replica, Admit(r) PROVE TypeOK'
  <2>1. ticket' \in [Ticket -> TicketRec] /\ active' \in [Ticket -> Int]
    <3> DEFINE exp == tick[r].now + tick[r].cfg.passTTL
    <3>1. PICK t \in NextIds(r) :
            /\ ticket' = [ticket EXCEPT ![t] = Marked(t, exp)]
            /\ active' = [active EXCEPT ![t] = exp]
      BY <1>24, Zenon DEF Admit
    <3>2. exp \in Int /\ t \in Ticket
      BY Fields DEF NextIds
    <3> QED
      BY <3>1, <3>2, MarkedType
  <2>2. work' \in [Replica -> SUBSET Ticket]
    BY <1>24 DEF Admit
  <2>3. tick' \in [Replica -> TickRec]
    <3>1. tick[r] \in TickRec /\ tick[r].done + 1 \in Nat
      BY Fields
    <3>2. \A e \in TickRec, m \in Nat : [e EXCEPT !.done = m] \in TickRec
      BY Zenon DEF TickRec
    <3>3. [tick[r] EXCEPT !.done = @ + 1] \in TickRec
      BY <3>1, <3>2, Zenon
    <3> QED
      BY <1>24, <3>3, Zenon DEF Admit
  <2> QED
    BY <1>24, <2>1, <2>2, <2>3 DEF Admit, storeVars, replicaVars, clientVars
<1>25. ASSUME NEW r \in Replica, FinishTick(r) PROVE TypeOK'
  <2>1. loop' \in [Replica -> LoopRec]
    BY <1>25, SleptType, Fields DEF FinishTick
  <2>2. /\ pc' \in [Replica -> PcValues] /\ tick' \in [Replica -> TickRec]
      /\ batch' \in [Replica -> SUBSET Ticket] /\ work' \in [Replica -> SUBSET Ticket]
    BY <1>25, SleepType DEF FinishTick
  <2> QED
    BY <1>25, <2>1, <2>2 DEF FinishTick, storeVars, replicaVars, clientVars
<1>26. ASSUME NEW r \in Replica, AcquireErr(r) PROVE TypeOK'
  <2>1. budget' \in [BudgetKeys -> Int]
    BY <1>26, SpendType DEF AcquireErr, BudgetKeys
  <2>2. lock' \in LockRec
    BY <1>26, ConstantsAssumption DEF AcquireErr, LockRec
  <2>3. loop' \in [Replica -> LoopRec]
    BY <1>26, SleptType, Fields DEF AcquireErr
  <2>4. pc' \in [Replica -> PcValues]
    BY <1>26 DEF AcquireErr, Goto, PcValues
  <2> QED
    BY <1>26, <2>1, <2>2, <2>3, <2>4 DEF AcquireErr, storeVars, replicaVars, clientVars
<1>27. ASSUME NEW r \in Replica, TickErr(r) PROVE TypeOK'
  <2>1. budget' \in [BudgetKeys -> Int]
    BY <1>27, SpendType DEF TickErr, BudgetKeys
  <2>2. /\ pc' \in [Replica -> PcValues] /\ tick' \in [Replica -> TickRec]
      /\ batch' \in [Replica -> SUBSET Ticket] /\ work' \in [Replica -> SUBSET Ticket]
    BY <1>27, SleepType DEF TickErr
  <2>3. loop' \in [Replica -> LoopRec]
    BY <1>27, SleptType, Fields DEF TickErr
  <2>4. ticket' \in [Ticket -> TicketRec] /\ pending' \in [Ticket -> Int]
    <3>1. CASE UNCHANGED ticket /\ UNCHANGED pending
      BY <3>1
    <3>2. CASE /\ pc[r] = "rank"
               /\ \E f \in Shuffles(batch[r]), S \in SUBSET batch[r] :
                    /\ ticket' = [t \in Ticket |->
                                    IF t \in S THEN Scored(t, WaveScore(tick[r].n, f[t]))
                                               ELSE ticket[t]]
                    /\ \/ UNCHANGED pending
                       \/ /\ S = batch[r]
                          /\ pending' = [t \in Ticket |->
                                           IF t \in S THEN WaveScore(tick[r].n, f[t])
                                                      ELSE pending[t]]
      <4>1. PICK f \in Shuffles(batch[r]), S \in SUBSET batch[r] :
              /\ ticket' = [t \in Ticket |->
                              IF t \in S THEN Scored(t, WaveScore(tick[r].n, f[t]))
                                         ELSE ticket[t]]
              /\ \/ UNCHANGED pending
                 \/ /\ S = batch[r]
                    /\ pending' = [t \in Ticket |->
                                     IF t \in S THEN WaveScore(tick[r].n, f[t])
                                                ELSE pending[t]]
        BY <3>2
      <4>2. \A t \in S : /\ WaveScore(tick[r].n, f[t]) \in Int
                         /\ Scored(t, WaveScore(tick[r].n, f[t])) \in TicketRec
        BY ShuffleType, WaveScoreType, ScoredType, Fields
      <4> QED
        BY <4>1, <4>2
    <3>3. CASE /\ UNCHANGED ticket
               /\ \E S \in Heads(tick[r].k) :
                    pending' = [t \in Ticket |-> IF t \in S THEN 0 ELSE pending[t]]
      BY <3>3
    <3> QED
      BY <1>27, <3>1, <3>2, <3>3 DEF TickErr
  <2>5. inWave' \subseteq Ticket
    BY <1>27 DEF TickErr
  <2> QED
    BY <1>27, <2>1, <2>2, <2>3, <2>4, <2>5 DEF TickErr, storeVars, replicaVars,
      clientVars
<1>28. ASSUME NEW r \in Replica, AdmitSkip(r) PROVE TypeOK'
  <2>1. budget' \in [BudgetKeys -> Int]
    BY <1>28, SpendType DEF AdmitSkip, BudgetKeys
  <2>2. work' \in [Replica -> SUBSET Ticket]
    BY <1>28 DEF AdmitSkip
  <2>3. pending' \in [Ticket -> Int]
    BY <1>28, Fields DEF AdmitSkip, NextIds
  <2> QED
    BY <1>28, <2>1, <2>2, <2>3 DEF AdmitSkip, storeVars, replicaVars, clientVars
<1>29. ASSUME NEW r \in Replica, AdmitErr(r) PROVE TypeOK'
  <2>1. budget' \in [BudgetKeys -> Int]
    BY <1>29, SpendType DEF AdmitErr, BudgetKeys
  <2>2. /\ pc' \in [Replica -> PcValues] /\ tick' \in [Replica -> TickRec]
      /\ batch' \in [Replica -> SUBSET Ticket] /\ work' \in [Replica -> SUBSET Ticket]
    BY <1>29, SleepType DEF AdmitErr
  <2>3. loop' \in [Replica -> LoopRec]
    BY <1>29, SleptType, Fields DEF AdmitErr
  <2>4. ticket' \in [Ticket -> TicketRec] /\ active' \in [Ticket -> Int]
    <3> DEFINE exp == tick[r].now + tick[r].cfg.passTTL
    <3>1. PICK t \in NextIds(r) :
            /\ UNCHANGED ticket \/ ticket' = [ticket EXCEPT ![t] = Marked(t, exp)]
            /\ UNCHANGED active \/ active' = [active EXCEPT ![t] = exp]
      BY <1>29, Zenon DEF AdmitErr
    <3>2. exp \in Int /\ t \in Ticket
      BY Fields DEF NextIds
    <3> QED
      BY <3>1, <3>2, MarkedType
  <2>5. pending' \in [Ticket -> Int]
    BY <1>29, Fields DEF AdmitErr, NextIds
  <2>6. admittedTotal' \in Nat
    BY <1>29 DEF AdmitErr
  <2> QED
    BY <1>29, <2>1, <2>2, <2>3, <2>4, <2>5, <2>6 DEF AdmitErr, storeVars, replicaVars,
      clientVars
<1>30. ASSUME NEW r \in Replica, Crash(r) PROVE TypeOK'
  <2>1. budget' \in [BudgetKeys -> Int]
    BY <1>30, SpendType DEF Crash, BudgetKeys
  <2>2. lock' \in LockRec
    BY <1>30 DEF Crash, LeaveLease, LockRec
  <2>3. tick' \in [Replica -> TickRec]
    BY <1>30, NoTickType DEF Crash, Halt
  <2>4. pc' \in [Replica -> PcValues]
    BY <1>30 DEF Crash, Halt, Goto, PcValues
  <2>5. batch' \in [Replica -> SUBSET Ticket]
    BY <1>30 DEF Crash, Halt
  <2>6. work' \in [Replica -> SUBSET Ticket]
    BY <1>30 DEF Crash, Halt
  <2> QED
    BY <1>30, <2>1, <2>2, <2>3, <2>4, <2>5, <2>6 DEF Crash, Halt, storeVars, replicaVars,
      clientVars
<1>31. ASSUME NEW r \in Replica, Stop(r) PROVE TypeOK'
  <2>1. budget' \in [BudgetKeys -> Int]
    BY <1>31, SpendType DEF Stop, BudgetKeys
  <2>2. lock' \in LockRec
    BY <1>31 DEF Stop, LeaveLease, LockRec
  <2>3. tick' \in [Replica -> TickRec]
    BY <1>31, NoTickType DEF Stop, Halt
  <2>4. pc' \in [Replica -> PcValues]
    BY <1>31 DEF Stop, Halt, Goto, PcValues
  <2>5. batch' \in [Replica -> SUBSET Ticket]
    BY <1>31 DEF Stop, Halt
  <2>6. work' \in [Replica -> SUBSET Ticket]
    BY <1>31 DEF Stop, Halt
  <2> QED
    BY <1>31, <2>1, <2>2, <2>3, <2>4, <2>5, <2>6 DEF Stop, Halt, storeVars, replicaVars,
      clientVars
<1>32. ASSUME NEW r \in Replica, Restart(r) PROVE TypeOK'
  <2>1. pc' \in [Replica -> PcValues]
    BY <1>32 DEF Restart, Goto, PcValues
  <2>2. loop' \in [Replica -> LoopRec]
    BY <1>32 DEF Restart, LoopRec
  <2> QED
    BY <1>32, <2>1, <2>2 DEF Restart, storeVars, replicaVars, clientVars
<1>33. ASSUME NEW r \in Replica, FetchKey(r) PROVE TypeOK'
  <2>1. loop' \in [Replica -> LoopRec]
    <3>1. \A e \in LoopRec, b \in BOOLEAN : [e EXCEPT !.key = b] \in LoopRec
      BY Zenon DEF LoopRec
    <3>2. [loop[r] EXCEPT !.key = TRUE] \in LoopRec
      BY <3>1, Zenon
    <3> QED
      BY <1>33, <3>2, Zenon DEF FetchKey
  <2> QED
    BY <1>33, <2>1 DEF FetchKey, storeVars, replicaVars, clientVars
<1>34. ASSUME NEW r \in Replica, SweepErr(r) PROVE TypeOK'
  <2>1. budget' \in [BudgetKeys -> Int]
    BY <1>34, SpendType DEF SweepErr, BudgetKeys
  <2>2. pc' \in [Replica -> PcValues]
    BY <1>34 DEF SweepErr, Goto, PcValues
  <2>3. tick' \in [Replica -> TickRec]
    BY <1>34, SweepOfType DEF SweepErr
  <2> QED
    BY <1>34, <2>1, <2>2, <2>3 DEF SweepErr, storeVars, replicaVars, clientVars
<1>35. ASSUME NEW r \in Replica, DelErr(r) PROVE TypeOK'
  <2>1. budget' \in [BudgetKeys -> Int]
    BY <1>35, SpendType DEF DelErr, BudgetKeys
  <2>2. pc' \in [Replica -> PcValues]
    BY <1>35 DEF DelErr, Record, Goto, PcValues
  <2>3. tick' \in [Replica -> TickRec]
    BY <1>35, NextWaveType DEF DelErr, Record
  <2>4. lastWave' \in Int
    BY <1>35, Fields DEF DelErr, Record
  <2> QED
    BY <1>35, <2>1, <2>2, <2>3, <2>4 DEF DelErr, storeVars, replicaVars, clientVars
<1>36. CASE UNCHANGED vars
  BY <1>36 DEF vars, storeVars, replicaVars, clientVars
<1> QED
    BY <1>1, <1>2, <1>3, <1>4, <1>5, <1>6, <1>7, <1>8, <1>9, <1>10, <1>11, <1>12, <1>13,
      <1>14, <1>15, <1>16, <1>17, <1>18, <1>19, <1>20, <1>21, <1>22, <1>23, <1>24,
      <1>25, <1>26, <1>27, <1>28, <1>29, <1>30, <1>31, <1>32, <1>33, <1>34, <1>35,
      <1>36
    DEF Next, Client, Step, Failure, Operator

(* The room is well typed in every reachable state; in particular no       *)
(* accepted configuration lets room.Wave divide by zero.                   *)
THEOREM TypeCorrect == Spec => []TypeOK
BY TypeInit, TypeStep, PTL DEF Spec

=============================================================================
