----------------------------- MODULE VisitorLine -----------------------------
(***************************************************************************)
(* What a waiting room promises one visitor, whatever happens to the       *)
(* replicas: a visitor joins once, is given a place at most once, keeps    *)
(* it, is let in from the line only with a place, and is never sent back.  *)
(* A place is a positive number drawn when the visitor's wave is closed.   *)
(***************************************************************************)
EXTENDS Integers

CONSTANT Visitor

VARIABLES
    stage,   \* "none", "waiting" or "admitted"
    place    \* 0 until a place is drawn

lineVars == <<stage, place>>

LineInit == /\ stage = [v \in Visitor |-> "none"]
            /\ place = [v \in Visitor |-> 0]

Join(v) == /\ stage[v] = "none"
           /\ stage' = [stage EXCEPT ![v] = "waiting"]
           /\ UNCHANGED place

(* The room is open: no line. *)
WalkIn(v) == /\ stage[v] = "none"
             /\ stage' = [stage EXCEPT ![v] = "admitted"]
             /\ UNCHANGED place

(* A whole wave draws at once, or the part of it that was written down. *)
Draw == /\ place' \in [Visitor -> Int]
        /\ \A v \in Visitor : place'[v] # place[v] =>
                                 stage[v] = "waiting" /\ place[v] = 0
        /\ UNCHANGED stage

LetIn(v) == /\ stage[v] = "waiting"
            /\ place[v] # 0
            /\ stage' = [stage EXCEPT ![v] = "admitted"]
            /\ UNCHANGED place

LineNext == Draw \/ \E v \in Visitor : Join(v) \/ WalkIn(v) \/ LetIn(v)

LineSpec == LineInit /\ [][LineNext]_lineVars
=============================================================================
