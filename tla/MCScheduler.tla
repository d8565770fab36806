--------------------------- MODULE MCScheduler ---------------------------
(* The scheduler with three events and ids of two values, so that the id   *)
(* counter wraps while an older event with the same id is still pending.   *)
EXTENDS Scheduler, TLC

CONSTANTS e1, e2, e3
MCEvent == {e1, e2, e3}
MCDelay == {1, 2}

\* The events are interchangeable: no property of this run is temporal.
EventSymmetry == Permutations(MCEvent)

=============================================================================
