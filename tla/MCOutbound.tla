----------------------------- MODULE MCOutbound -----------------------------
(* Outbound on one single message, queued or sent where it is made, and    *)
(* one fan-out of two chunks.                                              *)
EXTENDS Outbound
=============================================================================
