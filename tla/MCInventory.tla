----------------------------- MODULE MCInventory -----------------------------
(* Values of the constants of Inventory for the model checker. *)
EXTENDS Inventory

CONSTANTS a, b

\* What Ansible installed: all roles but the queue on one host, and a second one.
Installed ==
    {[name |-> a, row |-> [roles |-> {"data", "edge"}, ip |-> 1, state |-> "ready"]],
     [name |-> b, row |-> [roles |-> {"edge", "queue"}, ip |-> 2, state |-> "ready"]]}

\* A fresh installation, and one that has edges but was never seeded.
NoRows == [n \in {} |-> <<>>]
MCStarts ==
    {[seed |-> Installed, registry |-> [edge |-> NoRows, queue |-> NoRows]],
     [seed |-> {}, registry |-> [edge |-> [n \in {b} |-> URL(2, DefaultPort.dp)],
                                 queue |-> [n \in {b} |-> URL(2, DefaultPort.q)]]]}
MCShapes == {{"data"}, {"edge", "queue"}}
=============================================================================
