------------------------------ MODULE MCTrade ------------------------------
(* Three tiles: two of them in reach of each other, the third within a     *)
(* trade's distance of one of them only.  Three players, so that one comes *)
(* between two others; a box and a bag that may lie in each other, and a   *)
(* coin.                                                                   *)
EXTENDS Trade, TLC

CONSTANTS a, b, c, box, bag, coin
MCPlayer == {a, b, c}
MCItem == {box, bag, coin}
MCContainer == {box, bag}
MCTile == {0, 2, 3}
TradeSymmetry == Permutations(Player) \cup Permutations(Container)

\* No action reads touched or the position of who is not in the game, and the properties
\* only the new value of touched, in a step: states that differ in them alone are one.
TradeView == <<online, [p \in online |-> pos[p]], loc, tradeVars>>

=============================================================================
