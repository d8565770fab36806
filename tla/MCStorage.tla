----------------------------- MODULE MCStorage ------------------------------
EXTENDS Storage, TLC

CONSTANTS a, b, bag, box, c1, c2, axe
TwoPlayers == {a, b}
MCTile == {0, 2}
MCRoom == (bag :> 1) @@ (box :> 2)
MCHeft == [t \in Thing |-> IF t = axe THEN 3 ELSE IF t = box THEN 2 ELSE 1]
MCStrength == (a :> 5) @@ (b :> 1)
StorageSymmetry == Permutations(Stack)

=============================================================================
