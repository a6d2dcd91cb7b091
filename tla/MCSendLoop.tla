----------------------------- MODULE MCSendLoop -----------------------------
(* One send and two requests with an update each, against one close(), and *)
(* a second loop built after it.                                           *)
EXTENDS WebProcess
==============================================================================
