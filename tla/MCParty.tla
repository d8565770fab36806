------------------------------ MODULE MCParty ------------------------------
(* Three players: a leader, a member and one who is invited by both of two *)
(* parties at a time.  A third party would need a third player to invite   *)
(* somebody who is in no party, so two addresses are enough.  Two spots:   *)
(* near the leader and away from him.                                      *)
EXTENDS Party, TLC

CONSTANTS a, b, c, x1, x2
MCPlayer == {a, b, c}
MCPartyId == {x1, x2}
OneSpot == {1}
TwoSpots == {1, 2}
PartySymmetry == Permutations(MCPlayer) \cup Permutations(MCPartyId)

=============================================================================
