---------------------------- MODULE MCConnection ----------------------------
(* Model-checking instance of Connection. *)
EXTENDS Connection
=============================================================================
