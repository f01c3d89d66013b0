--------------------------- MODULE PlacementProofs ---------------------------
(* The placement of tickets in a waiting room, and that the room implements *)
(* the line of visitors, for any number of tickets and replicas.            *)
EXTENDS WaitingRoomProofs

(* No ticket exists yet: each is in one place at most. *)
LEMMA PlacementInit == Init => Placement
BY DEF Init, Placement, FreshClean, UndrawnWaits, BatchesApart, ScoresAgree, CreatesFresh,
       HandsEmpty, Undrawn, NoTicket, NoReq

(* What the updates of a ticket leave alone. *)
LEMMA UpdateFields ==
    ASSUME TypeOK, NEW t \in Ticket, NEW n \in Int
    PROVE  /\ Scored(t, n).status = ticket[t].status
           /\ Scored(t, n).score = n
           /\ Marked(t, n).status = "admitted"
           /\ Marked(t, n).score = ticket[t].score
<1>1. ticket[t] \in TicketRec
  BY DEF TypeOK
<1>2. Scored(t, n).status = ticket[t].status /\ Scored(t, n).score = n
  BY <1>1 DEF Scored, TicketRec
<1>3. Marked(t, n).status = "admitted" /\ Marked(t, n).score = ticket[t].score
  BY <1>1 DEF Marked, TicketRec
<1> QED
  BY <1>2, <1>3

(* Steps that move only the program counters. *)
LEMMA MovesKeepPlacement ==
    ASSUME Placement, UNCHANGED <<ticket, inWave, pending, batch, work, req>>,
           \A r \in Replica : /\ pc'[r] # "rank" => batch[r] = {}
                              /\ pc'[r] # "admit" => work[r] = {}
    PROVE  Placement'
BY DEF Placement, FreshClean, UndrawnWaits, BatchesApart, ScoresAgree, CreatesFresh,
       HandsEmpty, Undrawn

(* The end of an iteration drops what the replica holds in its hands. *)
LEMMA SleepKeepsPlacement ==
    ASSUME TypeOK, Placement, NEW r \in Replica, Sleep(r),
           UNCHANGED <<ticket, inWave, pending, req>>
    PROVE  Placement'
BY DEF TypeOK, Placement, FreshClean, UndrawnWaits, BatchesApart, ScoresAgree, CreatesFresh,
       HandsEmpty, Undrawn, Sleep, Goto

(* A wave, or the part S of it that was written down, gets its scores. *)
LEMMA DrawKeepsPlacement ==
    ASSUME TypeOK, Placement, HandsEmpty', NEW r \in Replica, pc[r] = "rank",
           NEW S \in SUBSET batch[r],
           \A t \in S : /\ ticket'[t].status = ticket[t].status
                        /\ pending'[t] \in {pending[t], ticket'[t].score},
           \A t \in Ticket \ S : ticket'[t] = ticket[t] /\ pending'[t] = pending[t],
           batch' = [batch EXCEPT ![r] = {}],
           \A q \in Replica : work'[q] \subseteq work[q],
           UNCHANGED <<inWave, req>>
    PROVE  Placement'
<1> USE DEF TypeOK, Placement
<1>1. FreshClean'
  BY DEF FreshClean, UndrawnWaits, Undrawn
<1>2. UndrawnWaits'
  BY DEF UndrawnWaits, Undrawn, BatchesApart
<1>3. BatchesApart'
  BY DEF BatchesApart
<1>4. ScoresAgree'
  BY DEF ScoresAgree, UndrawnWaits, Undrawn
<1>5. CreatesFresh'
  BY DEF CreatesFresh
<1> QED
  BY <1>1, <1>2, <1>3, <1>4, <1>5

(* An admitter marks a ticket it popped, or only puts it back. *)
LEMMA MarkKeepsPlacement ==
    ASSUME TypeOK, Placement, HandsEmpty', NEW r \in Replica, NEW t \in Ticket, t \in work[r],
           \/ ticket'[t] = ticket[t]
           \/ ticket'[t].status = "admitted" /\ ticket'[t].score = ticket[t].score,
           \A u \in Ticket \ {t} : ticket'[u] = ticket[u],
           \A u \in Ticket : pending'[u] \in {pending[u], ticket[u].score},
           \A q \in Replica : batch'[q] \subseteq batch[q] /\ work'[q] \subseteq work[q],
           UNCHANGED <<inWave, req>>
    PROVE  Placement'
<1> USE DEF TypeOK, Placement
<1>1. FreshClean'
  BY DEF FreshClean, Undrawn
<1>2. UndrawnWaits'
  BY DEF UndrawnWaits, Undrawn, ScoresAgree
<1>3. BatchesApart'
  BY DEF BatchesApart
<1>4. ScoresAgree'
  BY DEF ScoresAgree
<1>5. CreatesFresh'
  BY DEF CreatesFresh, FreshClean, ScoresAgree
<1> QED
  BY <1>1, <1>2, <1>3, <1>4, <1>5

(* Losing tickets from a wave, from pending or from a replica's hands. *)
LEMMA LossKeepsPlacement ==
    ASSUME TypeOK, Placement, HandsEmpty', UNCHANGED <<ticket, req>>,
           inWave' \subseteq inWave,
           \A t \in Ticket : pending'[t] \in {0, pending[t]},
           \A q \in Replica : batch'[q] \subseteq batch[q] /\ work'[q] \subseteq work[q]
    PROVE  Placement'
<1> USE DEF TypeOK, Placement
<1>1. FreshClean' /\ UndrawnWaits'
  BY DEF FreshClean, UndrawnWaits, Undrawn
<1>2. BatchesApart'
  BY DEF BatchesApart
<1>3. ScoresAgree' /\ CreatesFresh'
  BY DEF ScoresAgree, CreatesFresh
<1> QED
  BY <1>1, <1>2, <1>3

(* Every step keeps a waiting ticket in one place, with one score. *)
LEMMA PlacementStep == TypeOK /\ Placement /\ [Next]_vars => Placement'
<1> SUFFICES ASSUME TypeOK, Placement, [Next]_vars PROVE Placement'
  OBVIOUS
<1> USE DEF storeVars, replicaVars, clientVars
<1>1. CASE UNCHANGED <<ticket, inWave, pending, batch, work, req, pc>>
  BY <1>1, MovesKeepPlacement DEF Placement, HandsEmpty
<1>2. CASE Tick
  BY <1>1, <1>2 DEF Tick
<1>3. CASE FlushPending
  BY <1>3 DEF FlushPending, TypeOK, Placement, FreshClean, UndrawnWaits, BatchesApart,
    ScoresAgree, CreatesFresh, HandsEmpty, Undrawn
<1>4. CASE FlushWaves
  BY <1>4 DEF FlushWaves, TypeOK, Placement, FreshClean, UndrawnWaits, BatchesApart,
    ScoresAgree, CreatesFresh, HandsEmpty, Undrawn
<1>5. ASSUME NEW t \in Ticket, TicketBegin(t) PROVE Placement'
  <2>1. PICK e : req' = [req EXCEPT ![t] = e] /\ e.pc \in {"create", "direct"}
    <3>1. CASE cfg.state = "queue"
      <4> DEFINE w == Wave(now, cfg.waveSec)
                 e == [pc |-> "create", val |-> w, due |-> (w + 1) * cfg.waveSec + WaveGrace]
      <4>1. req' = [req EXCEPT ![t] = e] /\ e.pc = "create"
        BY <1>5, <3>1, Zenon DEF TicketBegin
      <4> QED
        BY <4>1, Zenon
    <3>2. CASE cfg.state = "open"
      <4> DEFINE e == [pc |-> "direct", val |-> now + cfg.passTTL, due |-> 0]
      <4>1. req' = [req EXCEPT ![t] = e] /\ e.pc = "direct"
        BY <1>5, <3>2, Zenon DEF TicketBegin
      <4> QED
        BY <4>1, Zenon
    <3> QED
      BY <1>5, <3>1, <3>2 DEF TicketBegin
  <2>2. ticket[t].status = "none" /\ UNCHANGED <<ticket, inWave, pending, batch, work, pc>>
    BY <1>5 DEF TicketBegin
  <2> QED
    BY <2>1, <2>2 DEF TypeOK, Placement, FreshClean, UndrawnWaits, BatchesApart,
       ScoresAgree, CreatesFresh, HandsEmpty, Undrawn
<1>6. ASSUME NEW t \in Ticket, CreateTicket(t) PROVE Placement'
  BY <1>6 DEF CreateTicket, TypeOK, Placement, FreshClean, UndrawnWaits, BatchesApart,
    ScoresAgree, CreatesFresh, HandsEmpty, Undrawn, NoReq
<1>7. ASSUME NEW t \in Ticket, AdmitDirect(t) PROVE Placement'
  BY <1>7 DEF AdmitDirect, TypeOK, Placement, FreshClean, UndrawnWaits, BatchesApart,
    ScoresAgree, CreatesFresh, HandsEmpty, Undrawn, NoReq
<1>8. ASSUME NEW t \in Ticket, StatusRead(t) PROVE Placement'
  BY <1>8 DEF StatusRead, TypeOK, Placement, FreshClean, UndrawnWaits, BatchesApart,
    ScoresAgree, CreatesFresh, HandsEmpty, Undrawn
<1>9. ASSUME NEW t \in Ticket, StatusRank(t) PROVE Placement'
  <2>1. PICK e : /\ req' = [req EXCEPT ![t] = e]
                 /\ e.pc = "idle" \/ (e.pc = "requeue" /\ e.val = req[t].val)
    <3>1. req[t] \in ReqRec
      BY DEF TypeOK
    <3>2. LET e == [req[t] EXCEPT !.pc = "requeue"]
          IN e.pc = "requeue" /\ e.val = req[t].val
      BY <3>1 DEF ReqRec
    <3>3. NoReq.pc = "idle"
      BY DEF NoReq
    <3> QED
      BY <1>9, <3>2, <3>3 DEF StatusRank
  <2>2. req[t].pc = "rank" /\ UNCHANGED <<ticket, inWave, pending, batch, work, pc>>
    BY <1>9 DEF StatusRank
  <2> QED
    BY <2>1, <2>2 DEF TypeOK, Placement, FreshClean, UndrawnWaits, BatchesApart,
       ScoresAgree, CreatesFresh, HandsEmpty, Undrawn
<1>10. ASSUME NEW t \in Ticket, StatusRequeue(t) PROVE Placement'
  BY <1>10 DEF StatusRequeue, TypeOK, Placement, FreshClean, UndrawnWaits, BatchesApart,
    ScoresAgree, CreatesFresh, HandsEmpty, Undrawn, NoReq
<1>11. ASSUME NEW c \in Configs, PutRoom(c) PROVE Placement'
  BY <1>1, <1>11 DEF PutRoom
<1>12. ASSUME NEW r \in Replica, AcquireSet(r) PROVE Placement'
  BY <1>12, MovesKeepPlacement DEF AcquireSet, Due, Goto, Placement, HandsEmpty, TypeOK
<1>13. ASSUME NEW r \in Replica, AcquireOwn(r) PROVE Placement'
  BY <1>13, MovesKeepPlacement DEF AcquireOwn, Due, Goto, Placement, HandsEmpty, TypeOK
<1>14. ASSUME NEW r \in Replica, Renew(r) PROVE Placement'
  BY <1>14, MovesKeepPlacement DEF Renew, Goto, Placement, HandsEmpty, TypeOK
<1>15. ASSUME NEW r \in Replica, BeginTick(r) PROVE Placement'
  BY <1>15, MovesKeepPlacement DEF BeginTick, Goto, Placement, HandsEmpty, TypeOK
<1>16. ASSUME NEW r \in Replica, WavesDone(r) PROVE Placement'
  BY <1>16, MovesKeepPlacement DEF WavesDone, Goto, Placement, HandsEmpty, TypeOK
<1>17. ASSUME NEW r \in Replica, SweepDone(r) PROVE Placement'
  BY <1>17, MovesKeepPlacement DEF SweepDone, Goto, Placement, HandsEmpty, TypeOK
<1>18. ASSUME NEW r \in Replica, Stop(r) PROVE Placement'
  BY <1>18 DEF Stop, Halt, Goto, TypeOK, Placement, FreshClean, UndrawnWaits, BatchesApart,
    ScoresAgree, CreatesFresh, HandsEmpty, Undrawn, clientVars
<1>19. ASSUME NEW r \in Replica, Restart(r) PROVE Placement'
  BY <1>19, MovesKeepPlacement DEF Restart, Goto, Placement, HandsEmpty, TypeOK
<1>20. ASSUME NEW r \in Replica, AcquireLost(r) PROVE Placement'
  BY <1>1, <1>20 DEF AcquireLost
<1>21. ASSUME NEW r \in Replica, AcquireErr(r) PROVE Placement'
  BY <1>21, MovesKeepPlacement DEF AcquireErr, Due, Goto, Placement, HandsEmpty, TypeOK
<1>22. ASSUME NEW r \in Replica, FetchKey(r) PROVE Placement'
  BY <1>1, <1>22 DEF FetchKey
<1>23. ASSUME NEW r \in Replica, CloseElapsed(r) PROVE Placement'
  <2>1. pc[r] = "waves" /\ UNCHANGED <<ticket, pending, work, req>>
    BY <1>23 DEF CloseElapsed
  <2>2. CASE PopWave(r, tick[r].n)
    BY <2>1, <2>2 DEF PopWave, WaveMembers, Goto, TypeOK, Placement, FreshClean,
       UndrawnWaits, BatchesApart, ScoresAgree, CreatesFresh, HandsEmpty, Undrawn
  <2>3. CASE UNCHANGED <<pc, batch, inWave>>
    BY <1>1, <2>1, <2>3
  <2> QED
    BY <1>23, <2>2, <2>3 DEF CloseElapsed
<1>24. ASSUME NEW r \in Replica, CloseStray(r) PROVE Placement'
  BY <1>24 DEF CloseStray, TypeOK, Placement, FreshClean, UndrawnWaits, BatchesApart,
    ScoresAgree, CreatesFresh, HandsEmpty, Undrawn, PopWave, WaveMembers, Goto
<1>25. ASSUME NEW r \in Replica, RankWave(r) PROVE Placement'
  <2>1. PICK f \in Shuffles(batch[r]) :
          /\ ticket' = [t \in Ticket |-> IF t \in batch[r]
                                           THEN Scored(t, WaveScore(tick[r].n, f[t]))
                                           ELSE ticket[t]]
          /\ pending' = [t \in Ticket |-> IF t \in batch[r] THEN WaveScore(tick[r].n, f[t])
                                                            ELSE pending[t]]
    BY <1>25, Zenon DEF RankWave
  <2>2. \A t \in batch[r] : t \in Ticket /\ WaveScore(tick[r].n, f[t]) \in Int
    BY ShuffleType, WaveScoreType, Fields DEF TypeOK
  <2>3. \A t \in batch[r] : /\ ticket'[t].status = ticket[t].status
                            /\ ticket'[t].score = pending'[t]
    BY <2>1, <2>2, UpdateFields
  <2>4. \A t \in Ticket \ batch[r] : ticket'[t] = ticket[t] /\ pending'[t] = pending[t]
    BY <2>1
  <2>5. /\ pc[r] = "rank" /\ pc' = [pc EXCEPT ![r] = "del"] /\ UNCHANGED <<inWave, req, work>>
        /\ batch' = [batch EXCEPT ![r] = {}]
    BY <1>25 DEF RankWave, Goto
  <2>6. HandsEmpty'
    BY <2>5 DEF Placement, HandsEmpty, TypeOK
  <2> QED
    BY <2>3, <2>4, <2>5, <2>6, DrawKeepsPlacement DEF TypeOK
<1>26. ASSUME NEW r \in Replica, DelWave(r) PROVE Placement'
  BY <1>26 DEF DelWave, Record, TypeOK, Placement, FreshClean, UndrawnWaits, BatchesApart,
    ScoresAgree, CreatesFresh, HandsEmpty, Undrawn, WaveMembers, Goto
<1>27. ASSUME NEW r \in Replica, Count(r) PROVE Placement'
  <2>1. CASE Sleep(r)
    BY <1>27, <2>1, SleepKeepsPlacement DEF Count
  <2>2. CASE ~Sleep(r)
    <3>1. pc[r] = "count" /\ Goto(r, "pop")
          /\ UNCHANGED <<ticket, inWave, pending, batch, work, req>>
      BY <1>27, <2>2, Zenon DEF Count
    <3> QED
      BY <3>1, MovesKeepPlacement DEF Goto, Placement, HandsEmpty, TypeOK
  <2> QED
    BY <2>1, <2>2
<1>28. ASSUME NEW r \in Replica, Pop(r) PROVE Placement'
  BY <1>28 DEF Pop, TypeOK, Placement, FreshClean, UndrawnWaits, BatchesApart,
    ScoresAgree, CreatesFresh, HandsEmpty, Undrawn, Heads, PendingSet, Goto
<1>29. ASSUME NEW r \in Replica, Admit(r) PROVE Placement'
  <2> DEFINE exp == tick[r].now + tick[r].cfg.passTTL
  <2>1. PICK t \in NextIds(r) : /\ ticket' = [ticket EXCEPT ![t] = Marked(t, exp)]
                                /\ work' = [work EXCEPT ![r] = @ \ {t}]
    BY <1>29, Zenon DEF Admit
  <2>2. t \in Ticket /\ t \in work[r] /\ exp \in Int
    BY Fields DEF NextIds, TypeOK
  <2>3. ticket'[t].status = "admitted" /\ ticket'[t].score = ticket[t].score
    BY <2>1, <2>2, UpdateFields DEF TypeOK
  <2>4. pc[r] = "admit" /\ UNCHANGED <<inWave, req, pending, pc, batch>>
    BY <1>29 DEF Admit
  <2>5. HandsEmpty'
    BY <2>1, <2>4 DEF Placement, HandsEmpty, TypeOK
  <2>6. \A u \in Ticket \ {t} : ticket'[u] = ticket[u]
    BY <2>1, <2>2 DEF TypeOK
  <2>7. \A q \in Replica : batch'[q] \subseteq batch[q] /\ work'[q] \subseteq work[q]
    BY <2>1, <2>4 DEF TypeOK
  <2> QED
    BY <2>2, <2>3, <2>4, <2>5, <2>6, <2>7, MarkKeepsPlacement
<1>30. ASSUME NEW r \in Replica, FinishTick(r) PROVE Placement'
  BY <1>30, SleepKeepsPlacement DEF FinishTick
<1>31. ASSUME NEW r \in Replica, TickErr(r) PROVE Placement'
  <2>1. Sleep(r) /\ UNCHANGED req
    BY <1>31 DEF TickErr
  <2>2. HandsEmpty'
    BY <2>1 DEF Placement, HandsEmpty, TypeOK, Sleep, Goto
  <2>3. \A q \in Replica : batch'[q] \subseteq batch[q] /\ work'[q] \subseteq work[q]
    BY <2>1 DEF TypeOK, Sleep
  <2>4. CASE /\ UNCHANGED ticket /\ inWave' \subseteq inWave
             /\ \A t \in Ticket : pending'[t] \in {0, pending[t]}
    BY <2>1, <2>2, <2>3, <2>4, LossKeepsPlacement
  <2>5. CASE /\ pc[r] = "rank" /\ UNCHANGED inWave
             /\ \E f \in Shuffles(batch[r]), S \in SUBSET batch[r] :
                  /\ ticket' = [t \in Ticket |->
                                  IF t \in S THEN Scored(t, WaveScore(tick[r].n, f[t]))
                                             ELSE ticket[t]]
                  /\ \/ UNCHANGED pending
                     \/ /\ S = batch[r]
                        /\ pending' = [t \in Ticket |->
                                         IF t \in S THEN WaveScore(tick[r].n, f[t])
                                                    ELSE pending[t]]
    <3>1. PICK f \in Shuffles(batch[r]), S \in SUBSET batch[r] :
            /\ ticket' = [t \in Ticket |->
                            IF t \in S THEN Scored(t, WaveScore(tick[r].n, f[t]))
                                       ELSE ticket[t]]
            /\ \/ UNCHANGED pending
               \/ /\ S = batch[r]
                  /\ pending' = [t \in Ticket |->
                                   IF t \in S THEN WaveScore(tick[r].n, f[t])
                                              ELSE pending[t]]
      BY <2>5
    <3>2. \A t \in S : t \in Ticket /\ WaveScore(tick[r].n, f[t]) \in Int
      BY ShuffleType, WaveScoreType, Fields DEF TypeOK
    <3>3. \A t \in S : /\ ticket'[t].status = ticket[t].status
                       /\ ticket'[t].score = WaveScore(tick[r].n, f[t])
      BY <3>1, <3>2, UpdateFields
    <3>4. \A t \in S : pending'[t] \in {pending[t], ticket'[t].score}
      BY <3>1, <3>2, <3>3
    <3>5. \A t \in Ticket \ S : ticket'[t] = ticket[t] /\ pending'[t] = pending[t]
      BY <3>1
    <3>6. batch' = [batch EXCEPT ![r] = {}]
      BY <2>1 DEF Sleep
    <3>7. \A t \in S : /\ ticket'[t].status = ticket[t].status
                       /\ pending'[t] \in {pending[t], ticket'[t].score}
      BY <3>3, <3>4
    <3>8. UNCHANGED <<inWave, req>> /\ \A q \in Replica : work'[q] \subseteq work[q]
      BY <2>1, <2>3, <2>5
    <3> QED
      BY <2>2, <2>5, <3>5, <3>6, <3>7, <3>8, DrawKeepsPlacement
  <2> QED
    BY <1>31, <2>4, <2>5 DEF TickErr, TypeOK
<1>32. ASSUME NEW r \in Replica, AdmitSkip(r) PROVE Placement'
  BY <1>32 DEF AdmitSkip, TypeOK, Placement, FreshClean, UndrawnWaits, BatchesApart,
    ScoresAgree, CreatesFresh, HandsEmpty, Undrawn, NextIds
<1>33. ASSUME NEW r \in Replica, AdmitErr(r) PROVE Placement'
  <2> DEFINE exp == tick[r].now + tick[r].cfg.passTTL
  <2>1. PICK t \in NextIds(r) :
          /\ UNCHANGED ticket \/ ticket' = [ticket EXCEPT ![t] = Marked(t, exp)]
          /\ pending' \in {pending, [pending EXCEPT ![t] = ticket[t].score]}
    BY <1>33, Zenon DEF AdmitErr
  <2>2. t \in Ticket /\ t \in work[r] /\ exp \in Int
    BY Fields DEF NextIds, TypeOK
  <2>3. \/ ticket'[t] = ticket[t]
        \/ ticket'[t].status = "admitted" /\ ticket'[t].score = ticket[t].score
    BY <2>1, <2>2, UpdateFields DEF TypeOK
  <2>4. pc[r] = "admit" /\ UNCHANGED <<inWave, req>> /\ Sleep(r)
    BY <1>33 DEF AdmitErr
  <2>5. HandsEmpty'
    BY <2>4 DEF Placement, HandsEmpty, TypeOK, Sleep, Goto
  <2>6. \A u \in Ticket \ {t} : ticket'[u] = ticket[u]
    BY <2>1, <2>2 DEF TypeOK
  <2>7. \A q \in Replica : batch'[q] \subseteq batch[q] /\ work'[q] \subseteq work[q]
    BY <2>4 DEF TypeOK, Sleep
  <2>8. \A u \in Ticket : pending'[u] \in {pending[u], ticket[u].score}
    BY <2>1, <2>2 DEF TypeOK
  <2> QED
    BY <2>2, <2>3, <2>4, <2>5, <2>6, <2>7, <2>8, MarkKeepsPlacement
<1>34. ASSUME NEW r \in Replica, Crash(r) PROVE Placement'
  BY <1>34 DEF Crash, Halt, Goto, TypeOK, Placement, FreshClean, UndrawnWaits, BatchesApart,
    ScoresAgree, CreatesFresh, HandsEmpty, Undrawn, clientVars
<1>35. ASSUME NEW r \in Replica, SweepErr(r) PROVE Placement'
  BY <1>35, MovesKeepPlacement DEF SweepErr, Goto, Placement, HandsEmpty, TypeOK, storeVars
<1>36. ASSUME NEW r \in Replica, DelErr(r) PROVE Placement'
  BY <1>36, MovesKeepPlacement DEF DelErr, Record, Goto, Placement, HandsEmpty, TypeOK,
    clientVars
<1>37. CASE UNCHANGED vars
  BY <1>1, <1>37 DEF vars
<1> QED
  BY <1>1, <1>2, <1>3, <1>4, <1>5, <1>6, <1>7, <1>8, <1>9, <1>10, <1>11, <1>12, <1>13,
    <1>14, <1>15, <1>16, <1>17, <1>18, <1>19, <1>20, <1>21, <1>22, <1>23, <1>24, <1>25,
    <1>26, <1>27, <1>28, <1>29, <1>30, <1>31, <1>32, <1>33, <1>34, <1>35, <1>36,
    <1>37
  DEF Next, Client, Step, Failure, Operator

(* Whatever crashes, errors, overlaps and flushes happen, a ticket is in   *)
(* one place: in one wave or one admitter's hands before its draw, and     *)
(* never with two different scores after it.                               *)
THEOREM PlacementCorrect == Spec => []Placement
<1>1. Init => TypeOK /\ Placement
  BY TypeInit, PlacementInit
<1>2. (TypeOK /\ Placement) /\ [Next]_vars => (TypeOK /\ Placement)'
  BY TypeStep, PlacementStep
<1> QED
  BY <1>1, <1>2, PTL DEF Spec

-----------------------------------------------------------------------------
(* The refinement: a step of the room is a step of the line or changes     *)
(* neither the stage nor the place of any visitor.                         *)

(* An empty room is an empty line. *)
LEMMA LineStart == Init => Line!LineInit
BY DEF Init, Line!LineInit, NoTicket

(* Scoring a wave is a draw of the abstract line. *)
LEMMA DrawIsDraw ==
    ASSUME TypeOK', \A t \in Ticket : ticket'[t].status = ticket[t].status,
           \A t \in Ticket : ticket'[t].score # ticket[t].score =>
                               ticket[t].status = "waiting" /\ ticket[t].score = 0
    PROVE  Line!Draw
<1>1. \A t \in Ticket : ticket'[t].score \in Int
  BY Fields DEF TypeOK
<1> QED
  BY <1>1 DEF Line!Draw

(* MarkAdmitted is an admission of the abstract line. *)
LEMMA MarkIsLetIn ==
    ASSUME TypeOK, NEW t \in Ticket, ticket[t].status # "none", ticket[t].score # 0,
           ticket'[t].status = "admitted", ticket'[t].score = ticket[t].score,
           \A u \in Ticket \ {t} : ticket'[u] = ticket[u]
    PROVE  Line!LetIn(t) \/ UNCHANGED Line!lineVars
<1>1. [u \in Ticket |-> ticket'[u].score] = [u \in Ticket |-> ticket[u].score]
  OBVIOUS
<1>2. CASE ticket[t].status = "admitted"
  <2>1. [u \in Ticket |-> ticket'[u].status] = [u \in Ticket |-> ticket[u].status]
    BY <1>2
  <2> QED
    BY <1>1, <2>1 DEF Line!lineVars
<1>3. CASE ticket[t].status = "waiting"
  <2>1. [u \in Ticket |-> ticket'[u].status]
          = [[u \in Ticket |-> ticket[u].status] EXCEPT ![t] = "admitted"]
    OBVIOUS
  <2> QED
    BY <1>1, <1>3, <2>1 DEF Line!LetIn
<1> QED
  BY <1>2, <1>3 DEF TypeOK, TicketRec

(* Every step of the room is a step of the line or a stutter. *)
LEMMA LineStep ==
    TypeOK /\ TypeOK' /\ Placement /\ [Next]_vars => [Line!LineNext]_(Line!lineVars)
<1> SUFFICES ASSUME TypeOK, TypeOK', Placement, [Next]_vars
             PROVE  Line!LineNext \/ UNCHANGED Line!lineVars
  OBVIOUS
<1>1. CASE UNCHANGED ticket
  BY <1>1 DEF Line!lineVars
<1>2. ASSUME NEW t \in Ticket, CreateTicket(t) PROVE Line!LineNext
  <2>1. ticket[t].status = "none" /\ ticket[t].score = 0
    BY <1>2 DEF CreateTicket, Placement, CreatesFresh, FreshClean
  <2>2. /\ ticket'[t].status = "waiting" /\ ticket'[t].score = 0
        /\ \A u \in Ticket \ {t} : ticket'[u] = ticket[u]
    BY <1>2 DEF CreateTicket, TypeOK
  <2>3. Line!Join(t)
    BY <2>1, <2>2 DEF Line!Join
  <2> QED
    BY <2>3 DEF Line!LineNext
<1>3. ASSUME NEW t \in Ticket, AdmitDirect(t) PROVE Line!LineNext
  <2>1. ticket[t].status = "none" /\ ticket[t].score = 0
    BY <1>3 DEF AdmitDirect, Placement, CreatesFresh, FreshClean
  <2>2. /\ ticket'[t].status = "admitted" /\ ticket'[t].score = 0
        /\ \A u \in Ticket \ {t} : ticket'[u] = ticket[u]
    BY <1>3 DEF AdmitDirect, TypeOK
  <2>3. Line!WalkIn(t)
    BY <2>1, <2>2 DEF Line!WalkIn
  <2> QED
    BY <2>3 DEF Line!LineNext
<1>4. ASSUME NEW r \in Replica, RankWave(r) PROVE Line!LineNext
  <2>1. PICK f \in Shuffles(batch[r]) :
          ticket' = [t \in Ticket |-> IF t \in batch[r]
                                        THEN Scored(t, WaveScore(tick[r].n, f[t]))
                                        ELSE ticket[t]]
    BY <1>4, Zenon DEF RankWave
  <2>2. \A t \in batch[r] : t \in Ticket /\ WaveScore(tick[r].n, f[t]) \in Int
    BY ShuffleType, WaveScoreType, Fields DEF TypeOK
  <2>3. \A t \in Ticket : ticket'[t].status = ticket[t].status
    BY <2>1, <2>2, UpdateFields
  <2>4. \A t \in batch[r] : ticket[t].status = "waiting" /\ ticket[t].score = 0
    BY DEF TypeOK, Placement, UndrawnWaits, Undrawn
  <2>5. Line!Draw
    BY <2>1, <2>3, <2>4, DrawIsDraw
  <2> QED
    BY <2>5 DEF Line!LineNext
<1>5. ASSUME NEW r \in Replica, TickErr(r), ticket' # ticket PROVE Line!LineNext
  <2>1. PICK f \in Shuffles(batch[r]), S \in SUBSET batch[r] :
          ticket' = [t \in Ticket |-> IF t \in S
                                        THEN Scored(t, WaveScore(tick[r].n, f[t]))
                                        ELSE ticket[t]]
    BY <1>5, Zenon DEF TickErr
  <2>2. \A t \in S : t \in Ticket /\ WaveScore(tick[r].n, f[t]) \in Int
    BY ShuffleType, WaveScoreType, Fields DEF TypeOK
  <2>3. \A t \in Ticket : ticket'[t].status = ticket[t].status
    BY <2>1, <2>2, UpdateFields
  <2>4. \A t \in S : ticket[t].status = "waiting" /\ ticket[t].score = 0
    BY DEF TypeOK, Placement, UndrawnWaits, Undrawn
  <2>5. Line!Draw
    BY <2>1, <2>3, <2>4, DrawIsDraw
  <2> QED
    BY <2>5 DEF Line!LineNext
<1>6. ASSUME NEW r \in Replica, Admit(r) \/ AdmitErr(r), ticket' # ticket
      PROVE  Line!LineNext \/ UNCHANGED Line!lineVars
  <2> DEFINE exp == tick[r].now + tick[r].cfg.passTTL
  <2>1. PICK t \in NextIds(r) : ticket' = [ticket EXCEPT ![t] = Marked(t, exp)]
    BY <1>6, Zenon DEF Admit, AdmitErr
  <2>2. t \in Ticket /\ t \in work[r] /\ exp \in Int
    BY Fields DEF NextIds, TypeOK
  <2>3. ticket'[t].status = "admitted" /\ ticket'[t].score = ticket[t].score
    BY <2>1, <2>2, UpdateFields DEF TypeOK
  <2>4. ticket[t].score # 0 /\ ticket[t].status # "none"
    BY <2>2 DEF Placement, ScoresAgree, FreshClean
  <2>5. \A u \in Ticket \ {t} : ticket'[u] = ticket[u]
    BY <2>1, <2>2 DEF TypeOK
  <2>6. Line!LetIn(t) \/ UNCHANGED Line!lineVars
    BY <2>2, <2>3, <2>4, <2>5, MarkIsLetIn
  <2> QED
    BY <2>2, <2>6 DEF Line!LineNext
<1>7. CASE Tick \/ FlushPending \/ FlushWaves \/ UNCHANGED vars
  BY <1>1, <1>7 DEF Tick, FlushPending, FlushWaves, vars, storeVars
<1>8. ASSUME NEW t \in Ticket,
             TicketBegin(t) \/ StatusRead(t) \/ StatusRank(t) \/ StatusRequeue(t)
      PROVE  UNCHANGED ticket
  BY <1>8 DEF TicketBegin, StatusRead, StatusRank, StatusRequeue, storeVars
<1>9. ASSUME NEW c \in Configs, PutRoom(c) PROVE UNCHANGED ticket
  BY <1>9 DEF PutRoom
<1>10. ASSUME NEW r \in Replica,
              \/ AcquireSet(r) \/ AcquireOwn(r) \/ Renew(r) \/ AcquireLost(r)
              \/ BeginTick(r) \/ CloseElapsed(r) \/ WavesDone(r) \/ CloseStray(r)
              \/ SweepDone(r) \/ DelWave(r) \/ Count(r) \/ Pop(r) \/ FinishTick(r)
       PROVE  UNCHANGED ticket
  BY <1>10, Zenon DEF AcquireSet, AcquireOwn, Renew, AcquireLost, BeginTick, CloseElapsed,
     WavesDone, CloseStray, SweepDone, DelWave, Count, Pop, FinishTick, storeVars
<1>11. ASSUME NEW r \in Replica,
              \/ AcquireErr(r) \/ SweepErr(r) \/ DelErr(r) \/ AdmitSkip(r) \/ Crash(r)
              \/ Stop(r) \/ Restart(r) \/ FetchKey(r)
       PROVE  UNCHANGED ticket
  BY <1>11, Zenon DEF AcquireErr, SweepErr, DelErr, AdmitSkip, Crash, Stop, Halt,
     Restart, FetchKey, storeVars
<1> QED
  BY <1>1, <1>2, <1>3, <1>4, <1>5, <1>6, <1>7, <1>8, <1>9, <1>10, <1>11
  DEF Next, Client, Step, Failure, Operator

(* Seen from a visitor every run of the room is a run of the line: one     *)
(* place, kept for good, and no pass from the line without it.             *)
THEOREM RoomImplementsLine == Spec => ImplementsLine
<1>1. (TypeOK /\ Placement) /\ (TypeOK /\ Placement)' /\ [Next]_vars
        => [Line!LineNext]_(Line!lineVars)
  BY LineStep
<1> QED
  BY <1>1, LineStart, TypeCorrect, PlacementCorrect, PTL
  DEF Spec, ImplementsLine, Line!LineSpec

=============================================================================
