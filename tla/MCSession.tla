----------------------------- MODULE MCSession ------------------------------
(* One character and three clients, each of which may find it in the game, *)
(* with a client or without, taken over by another, or gone.               *)
EXTENDS Session

CONSTANTS c1, c2, c3, n1
ThreeClients == {c1, c2, c3}
OneName == {n1}

=============================================================================
