-------------------------- MODULE MCTransaction --------------------------
(* Module Transaction on small instances. *)
EXTENDS Transaction, TLC

Symmetry == Permutations(Txs) \cup Permutations(Conns)
=============================================================================
