----------------------------- MODULE MCConsumer -----------------------------
(* Consumer for TLC: pods are interchangeable. *)
EXTENDS Consumer, TLC

Symmetry == Permutations(Consumers)
=============================================================================
