----------------------------- MODULE MCNetwork -----------------------------
(***************************************************************************)
(* A connection of each kind in turn, with two messages.  The state has no *)
(* symmetry: a liveness property is checked.                               *)
(***************************************************************************)
EXTENDS Network
=============================================================================
