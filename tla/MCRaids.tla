------------------------------ MODULE MCRaids ------------------------------
(* Two raids of two events or none; they are loaded, and reloaded once.    *)
EXTENDS Raids

CONSTANTS r1, r2
MCRaid == {r1, r2}

=============================================================================
