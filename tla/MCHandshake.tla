---------------------------- MODULE MCHandshake ----------------------------
(* Module Handshake on small instances. *)
EXTENDS Handshake
=============================================================================
