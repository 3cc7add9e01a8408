----------------------------- MODULE MCPrepared -----------------------------
(* Model-checking instance of Prepared. *)
EXTENDS Prepared, TLC

Symmetry == Permutations(Calls) \cup Permutations(Stmts)
=============================================================================
