-------------------------- MODULE MCTaskSystem ---------------------------
(* One event and one job besides the shutdown task: enough for a timer to  *)
(* be handed over while a packet is posted, stopped by the task before it, *)
(* or cut off by a shutdown that flushes what is left.                     *)
EXTENDS TaskSystem

CONSTANTS e1, j1
MCEvent == {e1}
MCJob == {j1}
MCTask == MCEvent \cup MCJob \cup {ShutdownTask}
MCDelay == {1, 2}

=============================================================================
