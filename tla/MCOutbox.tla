------------------------------ MODULE MCOutbox ------------------------------
(* Instances of Outbox for TLC. *)
EXTENDS Outbox, TLC

CONSTANTS w1, w2, e1, e2, e3

Symmetry == Permutations(Workers)
=============================================================================
