---------------------------- MODULE MCCreatures -----------------------------
\* Places 1 and 2 see each other, 3 is out of sight of both; who walks from 1 to 3 leaves
\* summons behind that are too far away.
EXTENDS Creatures, TLC

CONSTANTS p1, m1, m2
OnePlayer == {p1}
TwoMonsters == {m1, m2}
MCPlace == 1 .. 3
MCSees == {v \in MCPlace \X MCPlace : v[1] = v[2] \/ 3 \notin {v[1], v[2]}}
MCAfar == {<<1, 3>>}
MCRoaming == {1, 2}

\* inRange is only read of a summon, and is set when a monster becomes one: states that
\* differ in it for others are one.
CreatureView ==
    <<life, pos, master, aims, targets, idle,
      [m \in Monster |-> master[m] # Nobody /\ inRange[m]],
      listed, checked, turn, pending, spawnVars>>
CreatureSymmetry == Permutations(Player) \cup Permutations(Monster)

=============================================================================
