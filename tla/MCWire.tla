------------------------------- MODULE MCWire -------------------------------
(* Module Wire on small instances. *)
EXTENDS Wire

\* A string of one character, for which the worst case is reserved, and bytes.
MCFields == {[reserve |-> 4, written |-> 2], [reserve |-> 3, written |-> 3]}
=============================================================================
