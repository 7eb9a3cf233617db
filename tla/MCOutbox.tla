------------------------------ MODULE MCOutbox ------------------------------
(* TLC instance of Outbox: three messages shared by two pollers. *)
EXTENDS Outbox, TLC

Symmetry == Permutations(Message) \cup Permutations(Worker)
=============================================================================
