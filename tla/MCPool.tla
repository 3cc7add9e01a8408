------------------------------- MODULE MCPool -------------------------------
(* Model-checking instance of Pool. *)
EXTENDS Pool

\* Callers and connections are interchangeable: sound for the runs that check
\* no liveness.
Symmetry == Permutations(Callers) \cup Permutations(Conns)
=============================================================================
