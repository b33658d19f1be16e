---------------------------- MODULE MCHandshake ----------------------------
(* A small instance of Handshake for TLC: sizes and bodies of three bytes. *)
EXTENDS Handshake
=============================================================================
