-------------------------- MODULE MCConsumerCompletion --------------------------
(* Small instances of ConsumerCompletion for TLC. *)
EXTENDS ConsumerCompletion, TLC

CONSTANTS e1, e2, w1, w2

Symmetry == Permutations(Workers)
================================================================================
