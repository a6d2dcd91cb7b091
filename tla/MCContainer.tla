---------------------------- MODULE MCContainer ----------------------------
(* Three queues, of which two share a connection and so a lane; the third  *)
(* is the process's own and may be named on the command line.              *)
EXTENDS Container, TLC
CONSTANTS q1, q2, q3

MCQueue == {q1, q2, q3}
MCLaneOf == (q1 :> "shared") @@ (q2 :> "shared") @@ (q3 :> "own")
MCNamings == {{}, {q3}}
MCTables ==
    {(q1 :> "ours") @@ (q2 :> "none") @@ (q3 :> "theirs"),
     (q1 :> "none") @@ (q2 :> "none") @@ (q3 :> "ours"),
     [q \in MCQueue |-> "none"]}
=============================================================================
