----------------------------- MODULE JobProtocol -----------------------------
(***************************************************************************)
(* Infrastructure jobs: flyc-control deposits a request and follows it     *)
(* (control/internal/jobs/jobs.go), the runner executes it (runner/run.py),*)
(* a host script replaces the runner's container between two jobs          *)
(* (runner-refresh.sh).  They share only the files of one directory and    *)
(* each of them may die between any two of its steps.                      *)
(*                                                                         *)
(* A file appears by a rename and is a member of a set here; what is in a  *)
(* request does not matter, and of an exit code only what refresh tells    *)
(* apart: 0, 75, anything else.                                            *)
(***************************************************************************)
EXTENDS Integers, FiniteSets

CONSTANTS
    Job,      \* ids of the jobs that may be submitted
    Script,   \* executions of runner-refresh.sh
    Faults    \* bound: crashes, failed writes and lost updates, all together

VARIABLES
    row,       \* status of each row of the table jobs
    request,   \* <id>.request.json
    claims,    \* <id>.claim
    result,    \* <id>.result.json: its rc, Absent when there is no such file
    pause,     \* .paused
    up,        \* is flyc-control running?
    submit,    \* the handler that submits each job
    follow,    \* the goroutine Manager.Run
    runner,    \* the process run.py
    script,    \* each execution of runner-refresh.sh
    runs,      \* history: how often each job was started
    outcome,   \* history: how the process of each job ended
    orphaned,  \* history: submissions a fault cut short
    faults     \* how many faults may still happen

dirVars == <<request, claims, result>>
controlVars == <<row, up, submit, follow, orphaned>>
runnerVars == <<runner, runs, outcome>>
vars == <<controlVars, dirVars, runnerVars, pause, script, faults>>

ASSUME JobAssumption == Faults \in Nat

Absent == "absent"
NoJob == "nojob"
Code == {"zero", "nonzero", "75"}
Active == {"pending", "running"}
Terminal == {"succeeded", "failed", "interrupted"}

Done(j) == row[j] \in Terminal

Fault == faults > 0 /\ faults' = faults - 1

Idle == [pc |-> "idle", job |-> NoJob]
Dead == [pc |-> "down", job |-> NoJob, todo |-> {}, out |-> {}, stopping |-> FALSE]

Init ==
    /\ row = [j \in Job |-> "none"]
    /\ request = {} /\ claims = {}
    /\ result = [j \in Job |-> Absent]
    /\ pause = "none"
    /\ up = TRUE
    /\ submit = [j \in Job |-> "none"]
    /\ follow = Idle
    /\ runner = Dead
    /\ script = [s \in Script |-> "none"]
    /\ runs = [j \in Job |-> 0]
    /\ outcome = [j \in Job |-> "none"]
    /\ orphaned = {}
    /\ faults = Faults

-----------------------------------------------------------------------------
(* Manager.Submit *)

(* The partial unique index lets one unfinished row exist: ErrBusy else. *)
SubmitInsert(j) ==
    /\ up /\ submit[j] = "none"
    /\ \A k \in Job : row[k] \notin Active
    /\ row' = [row EXCEPT ![j] = "pending"]
    /\ submit' = [submit EXCEPT ![j] = "write"]
    /\ UNCHANGED <<up, follow, orphaned, dirVars, runnerVars, pause, script, faults>>

SubmitWrite(j) ==
    /\ submit[j] = "write"
    /\ request' = request \cup {j}
    /\ submit' = [submit EXCEPT ![j] = "done"]
    /\ UNCHANGED <<row, up, follow, orphaned, claims, result, runnerVars, pause, script, faults>>

(* Mutant: the row is not deleted when the request cannot be written. *)
SubmitWriteErrKeep(j) ==
    /\ submit[j] = "write"
    /\ Fault
    /\ submit' = [submit EXCEPT ![j] = "done"]
    /\ UNCHANGED <<row, up, follow, orphaned, dirVars, runnerVars, pause, script>>

SubmitWriteErr(j) ==
    /\ submit[j] = "write"
    /\ Fault
    /\ submit' = [submit EXCEPT ![j] = "undo"]
    /\ UNCHANGED <<row, up, follow, orphaned, dirVars, runnerVars, pause, script>>

(* The row is deleted; the error of the deletion is ignored. *)
SubmitUndo(j) ==
    /\ submit[j] = "undo"
    /\ submit' = [submit EXCEPT ![j] = "done"]
    /\ \/ /\ row' = [row EXCEPT ![j] = "none"]
          /\ UNCHANGED <<orphaned, faults>>
       \/ /\ Fault
          /\ orphaned' = orphaned \cup {j}
          /\ UNCHANGED row
    /\ UNCHANGED <<up, follow, dirVars, runnerVars, pause, script>>

-----------------------------------------------------------------------------
(* Manager.refresh, one call after the other *)

(* Mutant: every row is looked at again. *)
RefreshListAll(j) ==
    /\ up /\ follow = Idle
    /\ row[j] # "none"
    /\ follow' = [pc |-> "read", job |-> j]
    /\ \/ /\ row' = [row EXCEPT ![j] = IF @ = "pending" /\ j \in claims THEN "running" ELSE @]
          /\ UNCHANGED faults
       \/ /\ row[j] = "pending" /\ j \in claims
          /\ Fault
          /\ UNCHANGED row
    /\ UNCHANGED <<up, submit, orphaned, dirVars, runnerVars, pause, script>>

(* The unfinished rows are listed - there is one at most - and a pending   *)
(* job that is claimed is now running; the error of the update is ignored. *)
(* Listing, stat and update are one step: what the others do between them  *)
(* has the same effect before or after.                                    *)
RefreshList(j) ==
    /\ up /\ follow = Idle
    /\ row[j] \in Active
    /\ follow' = [pc |-> "read", job |-> j]
    /\ \/ /\ row' = [row EXCEPT ![j] = IF @ = "pending" /\ j \in claims THEN "running" ELSE @]
          /\ UNCHANGED faults
       \/ /\ row[j] = "pending" /\ j \in claims
          /\ Fault
          /\ UNCHANGED row
    /\ UNCHANGED <<up, submit, orphaned, dirVars, runnerVars, pause, script>>

(* Mutant: the exit code itself is stored as the status. *)
StatusRaw(rc) == rc

Status(rc) ==
    CASE rc = "zero" -> "succeeded" [] rc = "75" -> "interrupted" [] OTHER -> "failed"

(* Mutant: a missing result leaves the zero value in res.RC. *)
RefreshResultBlind ==
    LET j == follow.job
        rc == IF result[j] = Absent THEN "zero" ELSE result[j]
    IN  /\ follow.pc = "read"
        /\ \/ /\ row' = [row EXCEPT ![j] = IF @ = "none" THEN @ ELSE Status(rc)]
              /\ follow' = [follow EXCEPT !.pc = "rmrequest"]
              /\ UNCHANGED faults
           \/ /\ Fault
              /\ follow' = Idle
              /\ UNCHANGED row
        /\ UNCHANGED <<up, submit, orphaned, dirVars, runnerVars, pause, script>>

(* The result is read and the row updated; without a result, or when the   *)
(* update fails, the next round tries again.                               *)
RefreshResult ==
    LET j == follow.job
    IN  /\ follow.pc = "read"
        /\ \/ /\ result[j] = Absent
              /\ follow' = Idle
              /\ UNCHANGED <<row, faults>>
           \/ /\ result[j] # Absent
              /\ row' = [row EXCEPT ![j] = IF @ = "none" THEN @ ELSE Status(result[j])]
              /\ follow' = [follow EXCEPT !.pc = "rmrequest"]
              /\ UNCHANGED faults
           \/ /\ result[j] # Absent
              /\ Fault
              /\ follow' = Idle
              /\ UNCHANGED row
        /\ UNCHANGED <<up, submit, orphaned, dirVars, runnerVars, pause, script>>

(* Mutant: cleanup removes the claim first and the request last. *)
CleanupReversed ==
    LET j == follow.job
    IN  /\ \/ /\ follow.pc = "rmrequest"
              /\ claims' = claims \ {j}
              /\ follow' = [follow EXCEPT !.pc = "rmclaim"]
              /\ UNCHANGED <<request, result>>
           \/ /\ follow.pc = "rmclaim"
              /\ result' = [result EXCEPT ![j] = Absent]
              /\ follow' = [follow EXCEPT !.pc = "rmresult"]
              /\ UNCHANGED <<request, claims>>
           \/ /\ follow.pc = "rmresult"
              /\ request' = request \ {j}
              /\ follow' = Idle
              /\ UNCHANGED <<claims, result>>
        /\ UNCHANGED <<row, up, submit, orphaned, runnerVars, pause, script, faults>>

(* cleanup: the request, then the claim, then the result. *)
Cleanup ==
    LET j == follow.job
    IN  /\ \/ /\ follow.pc = "rmrequest"
              /\ request' = request \ {j}
              /\ follow' = [follow EXCEPT !.pc = "rmclaim"]
              /\ UNCHANGED <<claims, result>>
           \/ /\ follow.pc = "rmclaim"
              /\ claims' = claims \ {j}
              /\ follow' = [follow EXCEPT !.pc = "rmresult"]
              /\ UNCHANGED <<request, result>>
           \/ /\ follow.pc = "rmresult"
              /\ result' = [result EXCEPT ![j] = Absent]
              /\ follow' = Idle
              /\ UNCHANGED <<request, claims>>
        /\ UNCHANGED <<row, up, submit, orphaned, runnerVars, pause, script, faults>>

(* A deployment restarts flyc-control: every handler dies where it is. *)
ControlCrash ==
    /\ up
    /\ Fault
    /\ up' = FALSE
    /\ submit' = [j \in Job |-> IF submit[j] = "none" THEN "none" ELSE "done"]
    /\ orphaned' = orphaned \cup {j \in Job : submit[j] \in {"write", "undo"}}
    /\ follow' = Idle
    /\ UNCHANGED <<row, dirVars, runnerVars, pause, script>>

ControlStart ==
    /\ ~up
    /\ up' = TRUE
    /\ UNCHANGED <<row, submit, follow, orphaned, dirVars, runnerVars, pause, script, faults>>

-----------------------------------------------------------------------------
(* run.py *)

(* The container is started again, unless compose is replacing it.         *)
(* sweep_interrupted: the claims are listed once, ...                      *)
RunnerStart ==
    /\ runner.pc = "down"
    /\ \A s \in Script : script[s] # "stop"
    /\ runner' = [Dead EXCEPT !.pc = "sweep", !.todo = claims]
    /\ UNCHANGED <<controlVars, dirVars, runs, outcome, pause, script, faults>>

(* ... and one without a result by now gets code 75. *)
RunnerSweep(j) ==
    /\ runner.pc = "sweep" /\ j \in runner.todo
    /\ result' = [result EXCEPT ![j] = IF @ = Absent THEN "75" ELSE @]
    /\ runner' = [runner EXCEPT !.todo = @ \ {j}]
    /\ UNCHANGED <<controlVars, request, claims, runs, outcome, pause, script, faults>>

(* Mutant: a flag nobody refreshes is respected for ever. *)
RunnerPollPatient ==
    /\ runner.pc \in {"sweep", "poll"} /\ runner.todo = {}
    /\ \/ /\ runner.stopping
          /\ runner' = Dead
       \/ /\ ~runner.stopping /\ pause = "none"
          /\ runner' = [runner EXCEPT !.pc = "stat", !.todo = request]
    /\ UNCHANGED <<controlVars, dirVars, runs, outcome, pause, script, faults>>

(* The head of the loop: _stopping, then en_pause; pending() lists the     *)
(* requests, ...                                                           *)
RunnerPoll ==
    /\ runner.pc \in {"sweep", "poll"} /\ runner.todo = {}
    /\ \/ /\ runner.stopping
          /\ runner' = Dead
       \/ /\ ~runner.stopping /\ pause # "fresh"
          /\ runner' = [runner EXCEPT !.pc = "stat", !.todo = request]
    /\ UNCHANGED <<controlVars, dirVars, runs, outcome, pause, script, faults>>

(* ... sorted by date - a request removed meanwhile raises an exception    *)
(* nobody catches -                                                        *)
PendingStat ==
    /\ runner.pc = "stat"
    /\ runner' = IF runner.todo \subseteq request THEN [runner EXCEPT !.pc = "filter"] ELSE Dead
    /\ UNCHANGED <<controlVars, dirVars, runs, outcome, pause, script, faults>>

(* ... and those without a result kept. *)
PendingFilter(j) ==
    /\ runner.pc = "filter" /\ j \in runner.todo
    /\ runner' = [runner EXCEPT !.todo = @ \ {j},
                                !.out = IF result[j] = Absent THEN @ \cup {j} ELSE @]
    /\ UNCHANGED <<controlVars, dirVars, runs, outcome, pause, script, faults>>

(* The next job of the list, or the end of it; a stop asked for during a   *)
(* job ends the list too, and only then.                                   *)
Claim ==
    /\ runner.pc = "filter" /\ runner.todo = {}
    /\ IF runner.out = {}
         THEN /\ runner' = [runner EXCEPT !.pc = "poll"]
              /\ UNCHANGED claims
         ELSE \E j \in runner.out :
                /\ runner' = IF j \in claims
                               THEN [runner EXCEPT !.out = @ \ {j}]
                               ELSE [runner EXCEPT !.out = @ \ {j}, !.pc = "read", !.job = j]
                /\ claims' = claims \cup {j}
    /\ UNCHANGED <<controlVars, request, result, runs, outcome, pause, script, faults>>

(* write_result, and what follows a job in the loop. *)
WriteResult(rc) ==
    /\ result' = [result EXCEPT ![runner.job] = rc]
    /\ runner' = [runner EXCEPT !.job = NoJob, !.pc = IF runner.stopping THEN "poll" ELSE "filter",
                                !.out = IF runner.stopping THEN {} ELSE @]

(* An unreadable request gets code 2, and `continue' does not look at      *)
(* _stopping.                                                              *)
ReadGone ==
    /\ runner.pc = "read" /\ runner.job \notin request
    /\ result' = [result EXCEPT ![runner.job] = "nonzero"]
    /\ runner' = [runner EXCEPT !.job = NoJob, !.pc = "filter"]
    /\ UNCHANGED <<controlVars, request, claims, runs, outcome, pause, script, faults>>

(* run_job starts the process, ... *)
RunJob ==
    /\ runner.pc = "read" /\ runner.job \in request
    /\ runs' = [runs EXCEPT ![runner.job] = @ + 1]
    /\ runner' = [runner EXCEPT !.pc = "exec"]
    /\ UNCHANGED <<controlVars, dirVars, outcome, pause, script, faults>>

(* ... or refuses the request: code 2, nothing started. *)
RunRefused ==
    /\ runner.pc = "read" /\ runner.job \in request
    /\ WriteResult("nonzero")
    /\ UNCHANGED <<controlVars, request, claims, runs, outcome, pause, script, faults>>

(* The process ends by itself or because SIGTERM was passed on to it. *)
JobExit ==
    /\ runner.pc = "exec"
    /\ \E rc \in Code : outcome' = [outcome EXCEPT ![runner.job] = rc]
    /\ runner' = [runner EXCEPT !.pc = "ended"]
    /\ UNCHANGED <<controlVars, dirVars, runs, pause, script, faults>>

JobResult ==
    /\ runner.pc = "ended"
    /\ WriteResult(outcome[runner.job])
    /\ UNCHANGED <<controlVars, request, claims, runs, outcome, pause, script, faults>>

(* What becomes of the job's process when its container is destroyed. *)
Destroy ==
    /\ runner' = Dead
    /\ outcome' = IF runner.pc = "exec" THEN [outcome EXCEPT ![runner.job] = "cut"] ELSE outcome

RunnerKill ==
    /\ runner.pc # "down"
    /\ Fault
    /\ Destroy
    /\ UNCHANGED <<controlVars, dirVars, runs, pause, script>>

-----------------------------------------------------------------------------
(* runner-refresh.sh *)

(* occupe(): some claim has no result. *)
Occupied == \E j \in claims : result[j] = Absent

ScriptStart(s) ==
    /\ script[s] = "none"
    /\ pause' = "fresh"
    /\ script' = [script EXCEPT ![s] = "wait"]
    /\ UNCHANGED <<controlVars, dirVars, runnerVars, faults>>

(* The pause is kept fresh while a job runs. *)
ScriptTouch(s) ==
    /\ script[s] = "wait" /\ Occupied
    /\ pause' = "fresh"
    /\ UNCHANGED <<controlVars, dirVars, runnerVars, script, faults>>

(* Nothing runs: compose up - or an hour has passed. *)
ScriptLeave(s) ==
    /\ script[s] = "wait"
    /\ script' = [script EXCEPT ![s] = IF Occupied THEN "check" ELSE "up"]
    /\ UNCHANGED <<controlVars, dirVars, runnerVars, pause, faults>>

(* compose up stops the old container with SIGTERM ... *)
ComposeStop(s) ==
    /\ script[s] = "up"
    /\ runner' = IF runner.pc = "down" THEN runner ELSE [runner EXCEPT !.stopping = TRUE]
    /\ script' = [script EXCEPT ![s] = "stop"]
    /\ UNCHANGED <<controlVars, dirVars, runs, outcome, pause, faults>>

(* ... waits for its end, kills it after the grace period, and starts the  *)
(* new one.                                                                *)
ComposeUp(s) ==
    /\ script[s] = "stop"
    /\ Destroy
    /\ script' = [script EXCEPT ![s] = "check"]
    /\ UNCHANGED <<controlVars, dirVars, runs, pause, faults>>

(* liberer: if no other execution is alive ... *)
ScriptCheck(s) ==
    /\ script[s] = "check"
    /\ script' = [script EXCEPT ![s] =
                    IF \E t \in Script \ {s} : script[t] \notin {"none", "done"}
                      THEN "done" ELSE "remove"]
    /\ UNCHANGED <<controlVars, dirVars, runnerVars, pause, faults>>

(* ... the pause is lifted. *)
ScriptRemove(s) ==
    /\ script[s] = "remove"
    /\ pause' = "none"
    /\ script' = [script EXCEPT ![s] = "done"]
    /\ UNCHANGED <<controlVars, dirVars, runnerVars, faults>>

(* Killed without its trap: the flag stays.  (Not while compose has the    *)
(* container stopped: an operator has to start it again then.)             *)
ScriptKill(s) ==
    /\ script[s] \notin {"none", "stop", "done"}
    /\ Fault
    /\ script' = [script EXCEPT ![s] = "done"]
    /\ UNCHANGED <<controlVars, dirVars, runnerVars, pause>>

(* PAUSE_MAX_S without a touch: a script that waits touches every 5 s. *)
PauseAges ==
    /\ pause = "fresh"
    /\ \A s \in Script : script[s] # "wait"
    /\ pause' = "stale"
    /\ UNCHANGED <<controlVars, dirVars, runnerVars, script, faults>>

-----------------------------------------------------------------------------
ControlStep ==
    \/ \E j \in Job : SubmitWrite(j) \/ SubmitWriteErr(j) \/ SubmitUndo(j) \/ RefreshList(j)
    \/ RefreshResult \/ Cleanup \/ ControlStart

RunnerStep ==
    \/ \E j \in Job : RunnerSweep(j) \/ PendingFilter(j)
    \/ RunnerStart \/ RunnerPoll \/ PendingStat
    \/ Claim \/ ReadGone \/ RunJob \/ RunRefused \/ JobExit \/ JobResult

ScriptStep(s) ==
    \/ ScriptLeave(s) \/ ComposeStop(s) \/ ComposeUp(s) \/ ScriptCheck(s) \/ ScriptRemove(s)

Next ==
    \/ \E j \in Job : SubmitInsert(j)
    \/ ControlStep
    \/ ControlCrash
    \/ RunnerStep
    \/ RunnerKill
    \/ \E s \in Script : ScriptStart(s) \/ ScriptTouch(s) \/ ScriptStep(s) \/ ScriptKill(s)
    \/ PauseAges

Spec == Init /\ [][Next]_vars

(* Both processes are restarted by compose and go on; a script ends, since *)
(* it waits one hour at most; an untouched flag ages.                      *)
Fairness ==
    /\ WF_vars(ControlStep)
    /\ WF_vars(RunnerStep)
    /\ \A s \in Script : WF_vars(ScriptStep(s))
    /\ WF_vars(PauseAges)

FairSpec == Spec /\ Fairness

-----------------------------------------------------------------------------
(* Every variable holds a value of its type; a step that names a job names *)
(* an existing one, and a process that has ended left an exit code.        *)
JobTypeOK ==
    /\ row \in [Job -> {"none"} \cup Active \cup Terminal]
    /\ request \subseteq Job /\ claims \subseteq Job
    /\ result \in [Job -> Code \cup {Absent}]
    /\ pause \in {"none", "fresh", "stale"}
    /\ up \in BOOLEAN
    /\ submit \in [Job -> {"none", "write", "undo", "done"}]
    /\ follow \in [pc : {"idle", "read", "rmrequest", "rmclaim", "rmresult"},
                   job : Job \cup {NoJob}]
    /\ follow.pc # "idle" => follow.job \in Job
    /\ runner \in [pc : {"down", "sweep", "poll", "stat", "filter", "read", "exec",
                         "ended"},
                   job : Job \cup {NoJob}, todo : SUBSET Job, out : SUBSET Job,
                   stopping : BOOLEAN]
    /\ runner.pc \in {"read", "exec", "ended"} => runner.job \in Job
    /\ script \in [Script -> {"none", "wait", "up", "stop", "check", "remove", "done"}]
    /\ runs \in [Job -> Nat]
    /\ outcome \in [Job -> Code \cup {"none", "cut"}]
    /\ runner.pc = "ended" => outcome[runner.job] \in Code
    /\ orphaned \subseteq Job
    /\ faults \in 0..Faults

(* run.py, claim and sweep_interrupted: a job is started once at most, and *)
(* never after its row says it is over - although cleanup removes the      *)
(* claim while pending() may hold a list made before, and although either  *)
(* process may die at any step.                                            *)
RunsOnce ==
    /\ \A j \in Job : runs[j] <= 1
    /\ runner.pc = "exec" => row[runner.job] \in Active

(* jobs.go, refresh: what the row of a finished job says is what became of *)
(* its process, whatever restarted in between.                             *)
VerdictHonest ==
    \A j \in Job :
        /\ row[j] = "succeeded" => outcome[j] = "zero"
        /\ row[j] = "failed" => outcome[j] \in {"none", "nonzero"}
        /\ row[j] = "interrupted" => outcome[j] # "none" \/ runs[j] = 0

(* jobs.go, Done, "la tâche ne bougera plus": a finished row stays as it   *)
(* is, although the runner may write a second result for it.               *)
DoneIsFinal == [][\A j \in Job : Done(j) => row'[j] = row[j]]_row

(* jobs.go, Submit: an unfinished row whose job the runner will never see  *)
(* exists only while its handler is still at work, or when a fault cut the *)
(* handler short.                                                          *)
NoSilentGhost ==
    \A j \in Job :
        (row[j] \in Active /\ j \notin request) =>
            submit[j] \in {"write", "undo"} \/ j \in orphaned

(* A request that was written ends: its row becomes final despite restarts *)
(* of control and of the runner, lost updates, and pauses.                 *)
DepositedFinishes == \A j \in Job : (j \in request) ~> Done(j)
=============================================================================
