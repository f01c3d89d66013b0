---------------------------- MODULE MCEventStream ----------------------------
(* Values of the constants of EventStream for the model checker. *)
EXTENDS EventStream, TLC

CONSTANTS Breaks, Confs, Lost

MCBudget == [k \in Kinds |-> CASE k = "break" -> Breaks [] k = "conf" -> Confs
                               [] k = "lost" -> Lost]

Symm == Permutations(Visitor) \cup Permutations(Slot)
=============================================================================
