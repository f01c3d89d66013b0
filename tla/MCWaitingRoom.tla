---------------------------- MODULE MCWaitingRoom ----------------------------
(* Values of the constants of WaitingRoom for the model checker. *)
EXTENDS WaitingRoom, TLC

CONSTANTS Crashes, Stops, Cuts, Errors, Stalls, Lates, Flushes, Confs, Total

MCBudget == [k \in BudgetKeys |->
               CASE k = "crash" -> Crashes [] k = "stop" -> Stops [] k = "cut" -> Cuts
                 [] k = "err" -> Errors [] k = "stall" -> Stalls [] k = "late" -> Lates
                 [] k = "flush" -> Flushes [] k = "conf" -> Confs
                 [] k = "all" -> Total]

(* Seconds are those of the code except for the lease (5 s) and the pass   *)
(* (at least 60 s), which are scaled down.                                 *)
QueueCfg == [state |-> "queue", rate |-> 1, maxActive |-> 2, waveSec |-> 2, passTTL |-> 2]

(* Bodies of PUT room: closing the room; opening it, and one that leaves   *)
(* every field to Validate; one that Validate refuses.                     *)
CloseBodies == {[QueueCfg EXCEPT !.state = "closed"]}
OpenBodies == {[QueueCfg EXCEPT !.state = "open"],
               [state |-> "unset", rate |-> 0, maxActive |-> -1, waveSec |-> 0, passTTL |-> 0]}
RefusedBodies == {[QueueCfg EXCEPT !.waveSec = 601]}

Symm == Permutations(Ticket) \cup Permutations(Replica)
=============================================================================
