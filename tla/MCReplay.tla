------------------------------ MODULE MCReplay ------------------------------
(* Three runs over two endings of a message that was lost, which may be    *)
(* delivered after all, and one the deployment discarded.                  *)
EXTENDS Replay, TLC
CONSTANTS m, n
Ending(message, code) == [message |-> message, code |-> code]
MCEndings == << Ending(m, "lost"), Ending(m, "lost"), Ending(n, "deliberate") >>
MCUnargued == {{}, {m}}
Symmetry == Permutations(Run)
=============================================================================
