------------------------------ MODULE MCDecay ------------------------------
(* A small instance of Decay: four buckets of four units each. *)
EXTENDS Decay, TLC

CONSTANTS i1, i2, i3, ringOff, ringOn, corpse, bones, puddle, stain

MCItems == {i1, i2, i3}
Addresses == Permutations(MCItems)
MCTypes == {ringOff, ringOn, corpse, bones, puddle, stain}

Entry(to, time, stops, kind, top, on, off) ==
  [decayTo |-> to, decayTime |-> time, stopTime |-> stops, kind |-> kind, onTop |-> top,
   equipTo |-> on, deEquipTo |-> off]

\* A ring whose time runs while it is worn, a corpse that is replaced by bones, and a
\* puddle that becomes a stain on top of the tile.
MCInfo ==
  ringOff :> Entry(Never, 0, TRUE, "none", FALSE, ringOn, Never) @@
  ringOn :> Entry(Vanish, 5, FALSE, "none", FALSE, Never, ringOff) @@
  corpse :> Entry(bones, 2, FALSE, "container", FALSE, Never, Never) @@
  bones :> Entry(Vanish, 1, FALSE, "none", FALSE, Never, Never) @@
  puddle :> Entry(stain, 2, FALSE, "none", FALSE, Never, Never) @@
  stain :> Entry(Vanish, 3, FALSE, "none", TRUE, Never, Never)

\* Corpses are loaded with what was left of their time: next to each boundary of the
\* wheel, within one turn and over two.
MCMade(t) ==
  CASE t = corpse -> {1, 2, 13, 14, 17, 18, 29, 30}
    [] t = puddle -> {8}
    [] t = ringOff -> {0}
    [] OTHER -> {}
=============================================================================
