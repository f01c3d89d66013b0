-------------------------- MODULE JobProtocolProofs --------------------------
(***************************************************************************)
(* Theorems about JobProtocol, for any number of jobs, of executions of    *)
(* the refresh script and of faults.                                       *)
(***************************************************************************)
EXTENDS JobProtocol, TLAPS

Working == {"read", "exec", "ended"}

(* Neither the runner nor the directory knows the job. *)
Untouched(j) ==
    /\ j \notin request /\ j \notin claims /\ result[j] = Absent
    /\ runs[j] = 0 /\ outcome[j] = "none"
    /\ j \notin runner.todo /\ j \notin runner.out
    /\ runner.pc \in Working => runner.job # j

(* A job whose handler is at work has not been written yet. *)
SubmitInv ==
    \A j \in Job :
        /\ submit[j] = "none" => row[j] = "none" /\ j \notin request
        /\ submit[j] \in {"write", "undo"} => row[j] = "pending" /\ j \notin request

(* A request exists only for a row; an unfinished row without a request is *)
(* the row of a job nobody has seen.                                       *)
RequestInv ==
    \A j \in Job :
        /\ j \in request => row[j] # "none"
        /\ j \notin request /\ row[j] \notin Terminal => Untouched(j)

(* A request that is not claimed was never worked on. *)
Idling(j) ==
    result[j] = Absent /\ runs[j] = 0 /\ outcome[j] = "none" /\ row[j] \in Active

ClaimInv ==
    /\ \A j \in Job : j \in request /\ j \notin claims =>
          Idling(j) /\ (runner.pc \in Working => runner.job # j)
    /\ runner.pc = "sweep" =>
          \A j \in runner.todo : j \in claims \/ j \notin request

(* The job the runner works on. *)
WorkInv ==
    LET j == runner.job
    IN  /\ runner.pc = "read" /\ j \in request => Idling(j)
        /\ runner.pc \in {"exec", "ended"} =>
              /\ j \in request /\ j \in claims
              /\ result[j] = Absent /\ row[j] \in Active /\ runs[j] = 1
        /\ runner.pc = "exec" => outcome[j] = "none"

(* A process that was started has ended, or is running now. *)
HistoryInv ==
    \A j \in Job :
        /\ runs[j] \in {0, 1}
        /\ runs[j] = 0 => outcome[j] = "none"
        /\ runs[j] = 1 => outcome[j] # "none" \/ (runner.pc = "exec" /\ runner.job = j)

(* What Manager.refresh has established where it is. *)
FollowInv ==
    /\ follow.pc = "read" => row[follow.job] \notin Terminal
    /\ follow.pc \in {"rmrequest", "rmclaim", "rmresult"} => row[follow.job] \in Terminal
    /\ follow.pc \in {"rmclaim", "rmresult"} => follow.job \notin request

(* The result of an unfinished row says what became of the process. *)
ResultInv ==
    \A j \in Job : row[j] \in Active =>
        /\ result[j] = "zero" => outcome[j] = "zero"
        /\ result[j] = "nonzero" => outcome[j] \in {"none", "nonzero"}
        /\ result[j] = "75" => outcome[j] # "none" \/ runs[j] = 0

JobInv ==
    /\ SubmitInv /\ RequestInv /\ ClaimInv /\ WorkInv
    /\ HistoryInv /\ FollowInv /\ ResultInv
    /\ VerdictHonest /\ NoSilentGhost

-----------------------------------------------------------------------------
(* The status Manager.refresh derives from an exit code is a final one. *)
LEMMA StatusType == \A rc : Status(rc) \in Terminal
BY DEF Status, Terminal

(* A fault uses up what is left of them. *)
LEMMA FaultType == faults \in 0..Faults /\ Fault => faults' \in 0..Faults
BY JobAssumption DEF Fault

(* Every variable keeps its type, whatever step is taken. *)
LEMMA TypeStep == JobTypeOK /\ [Next]_vars => JobTypeOK'
<1> SUFFICES ASSUME JobTypeOK, [Next]_vars PROVE JobTypeOK'
  OBVIOUS
<1> USE DEF JobTypeOK, Active, Terminal, Code, Absent, NoJob
<1>1. ASSUME NEW j \in Job, SubmitInsert(j) PROVE JobTypeOK'
  BY <1>1 DEF SubmitInsert, controlVars, dirVars, runnerVars
<1>2. ASSUME NEW j \in Job, SubmitWrite(j) PROVE JobTypeOK'
  BY <1>2 DEF SubmitWrite, controlVars, dirVars, runnerVars
<1>3. ASSUME NEW j \in Job, SubmitWriteErr(j) PROVE JobTypeOK'
  BY FaultType, <1>3 DEF SubmitWriteErr, controlVars, dirVars, runnerVars
<1>4. ASSUME NEW j \in Job, SubmitUndo(j) PROVE JobTypeOK'
  BY FaultType, <1>4 DEF SubmitUndo, controlVars, dirVars, runnerVars
<1>5. ASSUME NEW j \in Job, RefreshList(j) PROVE JobTypeOK'
  BY FaultType, <1>5 DEF RefreshList, controlVars, dirVars, runnerVars
<1>6. ASSUME NEW j \in Job, RunnerSweep(j) PROVE JobTypeOK'
  BY <1>6 DEF RunnerSweep, controlVars, dirVars, runnerVars
<1>7. ASSUME NEW j \in Job, PendingFilter(j) PROVE JobTypeOK'
  BY <1>7 DEF PendingFilter, controlVars, dirVars, runnerVars
<1>8. CASE RefreshResult
  BY FaultType, StatusType, <1>8 DEF RefreshResult, Status, Idle, controlVars, dirVars, runnerVars
<1>9. CASE Cleanup
  BY <1>9 DEF Cleanup, Idle, controlVars, dirVars, runnerVars
<1>10. CASE ControlCrash
  BY FaultType, <1>10 DEF ControlCrash, Idle, controlVars, dirVars, runnerVars
<1>11. CASE ControlStart
  BY <1>11 DEF ControlStart, controlVars, dirVars, runnerVars
<1>12. CASE RunnerStart
  BY <1>12 DEF RunnerStart, Dead, controlVars, dirVars, runnerVars
<1>13. CASE RunnerPoll
  <2>1. runner' = Dead \/ runner' = [runner EXCEPT !.pc = "stat", !.todo = request]
    BY <1>13 DEF RunnerPoll
  <2>2. UNCHANGED <<controlVars, dirVars, runs, outcome, pause, script, faults>>
    BY <1>13 DEF RunnerPoll
  <2>3. CASE runner' = Dead
    BY <2>2, <2>3 DEF Dead, controlVars, dirVars
  <2>4. CASE runner' = [runner EXCEPT !.pc = "stat", !.todo = request]
    BY <2>2, <2>4 DEF controlVars, dirVars
  <2> QED
    BY <2>1, <2>3, <2>4
<1>14. CASE PendingStat
  BY <1>14 DEF PendingStat, Dead, controlVars, dirVars, runnerVars
<1>15. CASE Claim
  <2>1. CASE runner.out = {}
    BY <2>1, <1>15 DEF Claim, controlVars, dirVars
  <2>2. ASSUME NEW j \in runner.out,
               runner' = IF j \in claims
                           THEN [runner EXCEPT !.out = @ \ {j}]
                           ELSE [runner EXCEPT !.out = @ \ {j}, !.pc = "read", !.job = j],
               claims' = claims \cup {j}
        PROVE  JobTypeOK'
    <3>1. j \in Job
      OBVIOUS
    <3> QED
      BY <2>2, <3>1, <1>15 DEF Claim, controlVars, dirVars
  <2> QED
    BY <2>1, <2>2, <1>15 DEF Claim
<1>16. CASE ReadGone
  BY <1>16 DEF ReadGone, controlVars, dirVars, runnerVars
<1>17. CASE RunJob
  BY <1>17 DEF RunJob, controlVars, dirVars, runnerVars
<1>18. CASE RunRefused
  BY <1>18 DEF RunRefused, WriteResult, controlVars, dirVars, runnerVars
<1>19. CASE JobExit
  BY <1>19 DEF JobExit, controlVars, dirVars, runnerVars
<1>20. CASE JobResult
  BY <1>20 DEF JobResult, WriteResult, controlVars, dirVars, runnerVars
<1>21. CASE RunnerKill
  BY FaultType, <1>21 DEF RunnerKill, Destroy, Dead, controlVars, dirVars, runnerVars
<1>22. CASE PauseAges
  BY <1>22 DEF PauseAges, controlVars, dirVars, runnerVars
<1>23. ASSUME NEW s \in Script, ScriptStart(s) PROVE JobTypeOK'
  BY <1>23 DEF ScriptStart, controlVars, dirVars, runnerVars
<1>24. ASSUME NEW s \in Script, ScriptTouch(s) PROVE JobTypeOK'
  BY <1>24 DEF ScriptTouch, controlVars, dirVars, runnerVars
<1>25. ASSUME NEW s \in Script, ScriptLeave(s) PROVE JobTypeOK'
  BY <1>25 DEF ScriptLeave, controlVars, dirVars, runnerVars
<1>26. ASSUME NEW s \in Script, ComposeStop(s) PROVE JobTypeOK'
  BY <1>26 DEF ComposeStop, controlVars, dirVars, runnerVars
<1>27. ASSUME NEW s \in Script, ComposeUp(s) PROVE JobTypeOK'
  BY <1>27 DEF ComposeUp, Destroy, Dead, controlVars, dirVars, runnerVars
<1>28. ASSUME NEW s \in Script, ScriptCheck(s) PROVE JobTypeOK'
  BY <1>28 DEF ScriptCheck, controlVars, dirVars, runnerVars
<1>29. ASSUME NEW s \in Script, ScriptRemove(s) PROVE JobTypeOK'
  BY <1>29 DEF ScriptRemove, controlVars, dirVars, runnerVars
<1>30. ASSUME NEW s \in Script, ScriptKill(s) PROVE JobTypeOK'
  BY FaultType, <1>30 DEF ScriptKill, controlVars, dirVars, runnerVars
<1>31. CASE UNCHANGED vars
  BY <1>31 DEF vars, controlVars, dirVars, runnerVars
<1> QED
  BY <1>1, <1>2, <1>3, <1>4, <1>5, <1>6, <1>7, <1>8, <1>9, <1>10, <1>11, <1>12, <1>13, <1>14, <1>15, <1>16, <1>17, <1>18, <1>19, <1>20, <1>21, <1>22, <1>23, <1>24, <1>25, <1>26, <1>27, <1>28, <1>29, <1>30, <1>31
  DEF Next, ControlStep, RunnerStep, ScriptStep

(* JobInv holds in the initial states. *)
LEMMA InvInit == Init => JobInv
BY DEF Init, JobInv, SubmitInv, RequestInv, ClaimInv, WorkInv, HistoryInv, FollowInv, ResultInv,
       VerdictHonest, NoSilentGhost, Untouched, Idling, Working, Idle, Dead, Active, Terminal, Absent

(* The runner's container may be destroyed at any moment. *)
LEMMA DestroyKeeps ==
    ASSUME JobTypeOK, JobInv, Destroy, UNCHANGED <<controlVars, dirVars, runs>>
    PROVE  JobInv'
<1> USE DEF JobTypeOK, JobInv, SubmitInv, RequestInv, ClaimInv, WorkInv, HistoryInv, FollowInv, ResultInv,
       VerdictHonest, NoSilentGhost, Untouched, Idling, Working, Active, Terminal, Code, Absent
<1>1. CASE runner.pc = "exec"
  BY <1>1 DEF Destroy, Dead, controlVars, dirVars
<1>2. CASE runner.pc # "exec"
  BY <1>2 DEF Destroy, Dead, controlVars, dirVars
<1> QED
  BY <1>1, <1>2

(* Every step keeps JobInv. *)
LEMMA InvStep == JobTypeOK /\ JobInv /\ [Next]_vars => JobInv'
<1> SUFFICES ASSUME JobTypeOK, JobInv, [Next]_vars PROVE JobInv'
  OBVIOUS
<1> USE DEF JobTypeOK, JobInv, SubmitInv, RequestInv, ClaimInv, WorkInv, HistoryInv, FollowInv, ResultInv,
       VerdictHonest, NoSilentGhost, Untouched, Idling, Working, Active, Terminal, Code, Absent
<1>1. ASSUME NEW j \in Job, SubmitInsert(j) PROVE JobInv'
  BY <1>1 DEF SubmitInsert, controlVars, dirVars, runnerVars
<1>2. ASSUME NEW j \in Job, SubmitWrite(j) PROVE JobInv'
  BY <1>2 DEF SubmitWrite, controlVars, dirVars, runnerVars
<1>3. ASSUME NEW j \in Job, SubmitWriteErr(j) PROVE JobInv'
  BY <1>3 DEF SubmitWriteErr, controlVars, dirVars, runnerVars
<1>4. ASSUME NEW j \in Job, SubmitUndo(j) PROVE JobInv'
  BY <1>4 DEF SubmitUndo, controlVars, dirVars, runnerVars
<1>5. ASSUME NEW j \in Job, RefreshList(j) PROVE JobInv'
  BY <1>5 DEF RefreshList, controlVars, dirVars, runnerVars
<1>6. ASSUME NEW j \in Job, RunnerSweep(j) PROVE JobInv'
  BY <1>6 DEF RunnerSweep, controlVars, dirVars, runnerVars
<1>7. ASSUME NEW j \in Job, PendingFilter(j) PROVE JobInv'
  BY <1>7 DEF PendingFilter, controlVars, dirVars, runnerVars
<1>8. CASE RefreshResult
  BY <1>8 DEF RefreshResult, Status, Idle, controlVars, dirVars, runnerVars
<1>9. CASE Cleanup
  BY <1>9 DEF Cleanup, Idle, controlVars, dirVars, runnerVars
<1>10. CASE ControlCrash
  BY <1>10 DEF ControlCrash, Idle, controlVars, dirVars, runnerVars
<1>11. CASE ControlStart
  BY <1>11 DEF ControlStart, controlVars, dirVars, runnerVars
<1>12. CASE RunnerStart
  BY <1>12 DEF RunnerStart, Dead, controlVars, dirVars, runnerVars
<1>13. CASE RunnerPoll
  <2>1. UNCHANGED <<controlVars, dirVars, runs, outcome>>
    BY <1>13 DEF RunnerPoll
  <2>2. CASE runner' = Dead
    BY <2>1, <2>2, <1>13 DEF RunnerPoll, Dead, controlVars, dirVars
  <2>3. CASE runner' = [runner EXCEPT !.pc = "stat", !.todo = request]
    BY <2>1, <2>3, <1>13 DEF RunnerPoll, controlVars, dirVars
  <2> QED
    BY <2>2, <2>3, <1>13 DEF RunnerPoll
<1>14. CASE PendingStat
  BY <1>14 DEF PendingStat, Dead, controlVars, dirVars, runnerVars
<1>15. CASE Claim
  <2>1. UNCHANGED <<controlVars, request, result, runs, outcome>> /\ runner.pc = "filter"
    BY <1>15 DEF Claim
  <2>2. CASE runner' = [runner EXCEPT !.pc = "poll"] /\ claims' = claims
    BY <2>1, <2>2 DEF controlVars
  <2>3. ASSUME NEW j \in runner.out, j \in claims,
               runner' = [runner EXCEPT !.out = @ \ {j}], claims' = claims \cup {j}
        PROVE  JobInv'
    BY <2>1, <2>3 DEF controlVars
  <2>4. ASSUME NEW j \in runner.out, j \notin claims,
               runner' = [runner EXCEPT !.out = @ \ {j}, !.pc = "read", !.job = j],
               claims' = claims \cup {j}
        PROVE  JobInv'
    BY <2>1, <2>4 DEF controlVars
  <2> HIDE DEF JobInv
  <2> QED
    BY <2>2, <2>3, <2>4, <1>15 DEF Claim
<1>16. CASE ReadGone
  BY <1>16 DEF ReadGone, controlVars, dirVars, runnerVars
<1>17. CASE RunJob
  BY <1>17 DEF RunJob, controlVars, dirVars, runnerVars
<1>18. CASE RunRefused
  BY <1>18 DEF RunRefused, WriteResult, controlVars, dirVars, runnerVars
<1>19. CASE JobExit
  <2>1. PICK rc \in Code : outcome' = [outcome EXCEPT ![runner.job] = rc]
    BY <1>19 DEF JobExit
  <2>2. runner' = [runner EXCEPT !.pc = "ended"] /\ runner.pc = "exec"
    BY <1>19 DEF JobExit
  <2>3. UNCHANGED <<controlVars, dirVars, runs>>
    BY <1>19 DEF JobExit
  <2> QED
    BY <2>1, <2>2, <2>3 DEF controlVars, dirVars
<1>20. CASE JobResult
  BY <1>20 DEF JobResult, WriteResult, controlVars, dirVars, runnerVars
<1>21. CASE RunnerKill
  BY <1>21, DestroyKeeps DEF RunnerKill
<1>22. CASE PauseAges
  BY <1>22 DEF PauseAges, controlVars, dirVars, runnerVars
<1>23. ASSUME NEW s \in Script, ScriptStart(s) PROVE JobInv'
  BY <1>23 DEF ScriptStart, controlVars, dirVars, runnerVars
<1>24. ASSUME NEW s \in Script, ScriptTouch(s) PROVE JobInv'
  BY <1>24 DEF ScriptTouch, controlVars, dirVars, runnerVars
<1>25. ASSUME NEW s \in Script, ScriptLeave(s) PROVE JobInv'
  BY <1>25 DEF ScriptLeave, controlVars, dirVars, runnerVars
<1>26. ASSUME NEW s \in Script, ComposeStop(s) PROVE JobInv'
  BY <1>26 DEF ComposeStop, controlVars, dirVars, runnerVars
<1>27. ASSUME NEW s \in Script, ComposeUp(s) PROVE JobInv'
  BY <1>27, DestroyKeeps DEF ComposeUp
<1>28. ASSUME NEW s \in Script, ScriptCheck(s) PROVE JobInv'
  BY <1>28 DEF ScriptCheck, controlVars, dirVars, runnerVars
<1>29. ASSUME NEW s \in Script, ScriptRemove(s) PROVE JobInv'
  BY <1>29 DEF ScriptRemove, controlVars, dirVars, runnerVars
<1>30. ASSUME NEW s \in Script, ScriptKill(s) PROVE JobInv'
  BY <1>30 DEF ScriptKill, controlVars, dirVars, runnerVars
<1>31. CASE UNCHANGED vars
  BY <1>31 DEF vars, controlVars, dirVars, runnerVars
<1> QED
  BY <1>1, <1>2, <1>3, <1>4, <1>5, <1>6, <1>7, <1>8, <1>9, <1>10, <1>11, <1>12, <1>13, <1>14, <1>15, <1>16, <1>17, <1>18, <1>19, <1>20, <1>21, <1>22, <1>23, <1>24, <1>25, <1>26, <1>27, <1>28, <1>29, <1>30, <1>31
  DEF Next, ControlStep, RunnerStep, ScriptStep

-----------------------------------------------------------------------------
(* The variables of the jobs' protocol hold values of their types.         *)
THEOREM JobTypesCorrect == Spec => []JobTypeOK
<1>1. Init => JobTypeOK
  BY JobAssumption DEF Init, JobTypeOK, Idle, Dead, Absent, NoJob, Active, Terminal, Code
<1> QED
  BY <1>1, TypeStep, PTL DEF Spec

(* The inductive invariant holds throughout. *)
LEMMA JobInvCorrect == Spec => []JobInv
BY InvInit, InvStep, JobTypesCorrect, PTL DEF Spec

(* run.py: no job is started twice, nor after its row says it is over,     *)
(* wherever control, the runner and the refresh script die.                *)
THEOREM JobsRunOnce == Spec => []RunsOnce
<1>1. JobTypeOK /\ JobInv => RunsOnce
  BY DEF JobTypeOK, JobInv, HistoryInv, WorkInv, RunsOnce
<1> QED
  BY <1>1, JobTypesCorrect, JobInvCorrect, PTL

(* jobs.go, refresh: a final status is what became of the job's process.   *)
THEOREM VerdictsAreHonest == Spec => []VerdictHonest
<1>1. JobInv => VerdictHonest
  BY DEF JobInv
<1> QED
  BY <1>1, JobInvCorrect, PTL

(* jobs.go, Submit: an unfinished row without a request has a handler at   *)
(* work, or had one that a fault cut short.                                *)
THEOREM GhostsAreKnown == Spec => []NoSilentGhost
<1>1. JobInv => NoSilentGhost
  BY DEF JobInv
<1> QED
  BY <1>1, JobInvCorrect, PTL

(* jobs.go, Done: a final row never changes again.                         *)
THEOREM FinalRowsStay == Spec => DoneIsFinal
<1>1. JobTypeOK /\ JobInv /\ [Next]_vars =>
        [\A j \in Job : Done(j) => row'[j] = row[j]]_row
  <2> SUFFICES ASSUME JobTypeOK, JobInv, [Next]_vars, NEW k \in Job, Done(k), row' # row
               PROVE  row'[k] = row[k]
    OBVIOUS
  <2> USE DEF JobTypeOK, Done, Active, Terminal
  <2>1. ASSUME NEW j \in Job, SubmitInsert(j) \/ SubmitUndo(j)
        PROVE  row'[k] = row[k]
    BY <2>1 DEF SubmitInsert, SubmitUndo, JobInv, SubmitInv
  <2>2. ASSUME NEW j \in Job, RefreshList(j)
        PROVE  row'[k] = row[k]
    BY <2>2 DEF RefreshList
  <2>3. CASE RefreshResult
    BY <2>3 DEF RefreshResult, JobInv, FollowInv
  <2> QED
    BY <2>1, <2>2, <2>3
    DEF Next, ControlStep, RunnerStep, ScriptStep, vars, controlVars,
        SubmitWrite, SubmitWriteErr, Cleanup, ControlCrash, ControlStart,
        RunnerSweep, PendingFilter, RunnerStart, RunnerPoll, PendingStat, Claim, ReadGone,
        RunJob, RunRefused, JobExit, JobResult, RunnerKill, PauseAges, ScriptStart, ScriptTouch,
        ScriptLeave, ComposeStop, ComposeUp, ScriptCheck, ScriptRemove, ScriptKill
<1> QED
  BY <1>1, JobTypesCorrect, JobInvCorrect, PTL DEF Spec, DoneIsFinal
=============================================================================
