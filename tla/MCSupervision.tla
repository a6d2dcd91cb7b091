--------------------------- MODULE MCSupervision ---------------------------
(* Two pollers, of one bot that much happens to and of two bots, one for   *)
(* each of them, that little does.                                         *)
EXTENDS Supervision
MCUpsets == <<2, 1>>
MCMost == 2
=============================================================================
