------------------------------ MODULE Barter ------------------------------
(***************************************************************************)
(* What a player may rely on when he trades: a deal has two sides and ends *)
(* for both at once, what is on offer stays where it is and as it is, and  *)
(* things change hands only when both sides have agreed.                   *)
(***************************************************************************)
CONSTANTS
    Player,
    NoPlayer,
    Item,
    NoItem

VARIABLES
    with,    \* the other side of every player's deal
    offer,   \* the thing every player has on the table
    agreed,  \* the players who accepted the deal they are in
    holder   \* the player, or the place in the world, that has every thing

vars == <<with, offer, agreed, holder>>

Init ==
    /\ with = [p \in Player |-> NoPlayer]
    /\ offer = [p \in Player |-> NoItem]
    /\ agreed = {}

\* A player puts the first thing on the table and names the other side.
Open(p, q, i) ==
    /\ p # q /\ with[p] = NoPlayer /\ with[q] = NoPlayer
    /\ \A r \in Player : offer[r] # i
    /\ with' = [with EXCEPT ![p] = q, ![q] = p]
    /\ offer' = [offer EXCEPT ![p] = i]
    /\ UNCHANGED <<agreed, holder>>

\* The other side answers with a thing of its own.
Answer(p, i) ==
    /\ with[p] # NoPlayer /\ offer[p] = NoItem /\ p \notin agreed
    /\ \A r \in Player : offer[r] # i
    /\ offer' = [offer EXCEPT ![p] = i]
    /\ UNCHANGED <<with, agreed, holder>>

Agree(p) ==
    /\ with[p] # NoPlayer /\ with[p] \notin agreed
    /\ agreed' = agreed \cup {p}
    /\ UNCHANGED <<with, offer, holder>>

\* Ending the deals of a set of players ends them for the other sides too.
End(S) ==
    LET gone == S \cup {with[p] : p \in S} IN
    /\ with' = [p \in Player |-> IF p \in gone THEN NoPlayer ELSE with[p]]
    /\ offer' = [p \in Player |-> IF p \in gone THEN NoItem ELSE offer[p]]
    /\ agreed' = agreed \ gone

\* The second side agrees: both things leave the table, and nothing goes to
\* anybody but the two of them.
Swap(p) ==
    /\ with[p] # NoPlayer /\ p \notin agreed /\ with[p] \in agreed
    /\ offer[p] # NoItem /\ offer[with[p]] # NoItem
    /\ \E S \in SUBSET Player : End({p} \cup S)
    /\ \A i \in Item : holder'[i] \in {holder[i], p, with[p]}

\* The world goes on: deals are called off, and things change hands only by
\* way of the ground.  What is still on offer stays with whom it was.
World(S) ==
    /\ End(S)
    /\ \A i \in Item :
          holder[i] \in Player => holder'[i] \notin Player \ {holder[i]}
    /\ \A p \in Player :
          offer'[p] # NoItem => holder'[offer'[p]] = holder[offer'[p]]

Next ==
    \/ \E p, q \in Player, i \in Item : Open(p, q, i)
    \/ \E p \in Player, i \in Item : Answer(p, i)
    \/ \E p \in Player : Agree(p) \/ Swap(p)
    \/ \E S \in SUBSET Player : World(S)

Spec == Init /\ [][Next]_vars

=============================================================================
