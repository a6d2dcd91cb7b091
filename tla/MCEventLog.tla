----------------------------- MODULE MCEventLog -----------------------------
(* One thread that records and one that flushes, drains and stops the log, *)
(* with a queue and a batch of two, so that a full queue, two writers at   *)
(* once and a suspended writer all happen.                                 *)
EXTENDS EventLog
=============================================================================
