------------------------------ MODULE MCListen ------------------------------
(* Module Listen on small instances. *)
EXTENDS Listen
=============================================================================
