------------------------------- MODULE Trade -------------------------------
(***************************************************************************)
(* Trading between players (src/source/game.cpp, the trade hooks of        *)
(* player.cpp).  One dispatcher thread runs every handler, so a handler is *)
(* one action; what makes trading hard is that the items on offer stay in  *)
(* the world, where any player, a walk or the decay of an item reaches     *)
(* them, and that every such event must find the trades it spoils.         *)
(*                                                                         *)
(* The map is a row of tiles, all in view of each other.  Capacity and     *)
(* free slots are a choice of the environment.                             *)
(***************************************************************************)
EXTENDS Integers, Nesting

CONSTANTS
    Player,
    NoPlayer,   \* the NULL player pointer
    Item,
    NoItem,     \* the NULL item pointer
    Tile,       \* the tiles, numbered along their row
    Gone        \* where an item is that was removed from the game

ASSUME TradeConstants ==
    /\ NoPlayer \notin Player
    /\ NoItem \notin Item
    /\ Container \subseteq Item
    /\ Tile \subseteq Int
    /\ Gone \notin Player \cup Item \cup Int
    /\ Player \cap Item = {} /\ Player \cap Int = {} /\ Item \cap Int = {}

VARIABLES
    online,        \* the players in the game
    pos,           \* the tile every player stands on
    loc,           \* getParent() of every item: a player, a tile, a container
    tradeState,    \* Player::tradeState
    tradePartner,  \* Player::tradePartner
    tradeItem,     \* Player::tradeItem
    tradeItems,    \* Game::tradeItems, the owner of every item on offer
    touched        \* history: the items the last step moved or changed

tradeVars == <<tradeState, tradePartner, tradeItem, tradeItems>>
vars == <<online, pos, loc, tradeVars, touched>>

-----------------------------------------------------------------------------
Place == Player \cup Tile \cup Container \cup {Gone}
TradeState == {"none", "initiated", "accept", "acknowledge", "transfer"}

\* TRADE_TRANSFER lasts only while playerAcceptTrade runs.
TypeOK ==
    /\ online \subseteq Player
    /\ pos \in [Player -> Tile]
    /\ loc \in [Item -> Place]
    /\ tradeState \in [Player -> TradeState \ {"transfer"}]
    /\ tradePartner \in [Player -> Player \cup {NoPlayer}]
    /\ tradeItem \in [Player -> Item \cup {NoItem}]
    /\ tradeItems \in [Item -> Player \cup {NoPlayer}]
    /\ touched \subseteq Item

\* Container::isHoldingItem: the items inside c, at any depth
Inside(c) == {i \in Item : c \in Around(loc, i)}

\* Thing::getTopParent: the player or the tile that has i in the end
Top(i) == TopOf(loc, i)

\* Thing::getPosition of an item that is in the game
PosOf(i) == IF Top(i) \in Player THEN pos[Top(i)] ELSE Top(i)

InRange(a, b, d) == a - b <= d /\ b - a <= d

\* What a client can name: his own things, and the things next to him.
InReach(p, i) ==
    \/ Top(i) = p
    \/ Top(i) \in Tile /\ InRange(Top(i), pos[p], 1)

Init ==
    /\ online = Player
    /\ pos \in [Player -> Tile]
    /\ loc \in [Item -> Player \cup Tile]
    /\ tradeState = [p \in Player |-> "none"]
    /\ tradePartner = [p \in Player |-> NoPlayer]
    /\ tradeItem = [p \in Player |-> NoItem]
    /\ tradeItems = [i \in Item |-> NoPlayer]
    /\ touched = {}

-----------------------------------------------------------------------------
(* Calling a trade off.                                                    *)

\* Variant: the other side keeps its half of the trade.
CloseTrades_OneSide(S) ==
    /\ tradeState' = [p \in Player |-> IF p \in S THEN "none" ELSE tradeState[p]]
    /\ tradePartner' = [p \in Player |->
                          IF p \in S THEN NoPlayer ELSE tradePartner[p]]
    /\ tradeItem' = [p \in Player |-> IF p \in S THEN NoItem ELSE tradeItem[p]]
    /\ tradeItems' = [i \in Item |->
          IF \E p \in S : tradeItem[p] = i THEN NoPlayer ELSE tradeItems[i]]

\* Variant: the items stay registered as being traded.
CloseTrades_KeepRegister(S) ==
    LET out == S \cup ({tradePartner[p] : p \in S} \ {NoPlayer}) IN
    /\ tradeState' = [p \in Player |->
                        IF p \in out THEN "none" ELSE tradeState[p]]
    /\ tradePartner' = [p \in Player |->
                          IF p \in out THEN NoPlayer ELSE tradePartner[p]]
    /\ tradeItem' = [p \in Player |-> IF p \in out THEN NoItem ELSE tradeItem[p]]
    /\ UNCHANGED tradeItems

\* internalCloseTrade for every player of S, one after the other: both sides
\* forget the trade and their items are taken off the register.
CloseTrades(S) ==
    LET out == S \cup ({tradePartner[p] : p \in S} \ {NoPlayer}) IN
    /\ tradeState' = [p \in Player |->
                        IF p \in out THEN "none" ELSE tradeState[p]]
    /\ tradePartner' = [p \in Player |->
                          IF p \in out THEN NoPlayer ELSE tradePartner[p]]
    /\ tradeItem' = [p \in Player |-> IF p \in out THEN NoItem ELSE tradeItem[p]]
    /\ tradeItems' = [i \in Item |->
          IF \E p \in out : tradeItem[p] = i THEN NoPlayer ELSE tradeItems[i]]

\* The trades a change to item i spoils.  A container tells the players within
\* two tiles, a tile everybody in view, an inventory only its owner.
Hears(r, i) ==
    /\ r \in online
    /\ \/ loc[i] = r
       \/ loc[i] \in Tile
       \/ loc[i] \in Container /\ InRange(pos[r], PosOf(loc[i]), 2)

\* Variant: what is inside the item on offer is not looked at.
Offered_Itself(r, i) == tradeItem[r] # NoItem /\ tradeItem[r] = i

\* checkTradeState: i is on offer or lies inside what is on offer.
Offered(r, i) ==
    tradeItem[r] # NoItem /\ (tradeItem[r] = i \/ i \in Inside(tradeItem[r]))

\* The item on offer leaves with i, or with the container that lost i.
\* The code asks the second question of the container i is taken from.
LeavesWith(r, i) ==
    IF loc[i] \in Container
    THEN tradeItem[r] \in Inside(loc[i]) /\ loc[tradeItem[r]] # loc[i]
    ELSE tradeItem[r] \in Inside(i)

\* onRemoveTileItem, onRemoveContainerItem, onRemoveInventoryItem
SpoiltByRemoval(i) ==
    {r \in Player : Hears(r, i) /\ (Offered(r, i) \/ LeavesWith(r, i))}

\* onAddContainerItem; tiles and inventories spoil nothing.
SpoiltByAdding(i, to) ==
    {r \in online : /\ to \in Container /\ InRange(pos[r], PosOf(to), 2)
                    /\ tradeItem[r] # NoItem
                    /\ to = tradeItem[r] \/ to \in Inside(tradeItem[r])}

\* onUpdateTileItem, onUpdateContainerItem, onUpdateInventoryItem with the
\* same item before and after
SpoiltByUpdate(i) == {r \in Player : Hears(r, i) /\ Offered(r, i)}

-----------------------------------------------------------------------------
(* The trade dialogue.                                                     *)

\* Variant: only the item itself is looked up.
AlreadyTraded_Shallow(i) == tradeItems[i] # NoPlayer

\* "This item is already being traded.": i, or what holds or is held by i.
AlreadyTraded(i) ==
    \E j \in Item : /\ tradeItems[j] # NoPlayer
                    /\ i = j \/ j \in Inside(i) \/ i \in Inside(j)

\* The player may offer, and the partner may be offered to.
PlayerFree(p, q) ==
    tradeState[p] = "none" \/ (tradeState[p] = "acknowledge" /\ tradePartner[p] = q)
PartnerFree(p, q) == tradeState[q] = "none" \/ tradePartner[q] = p

StartTrade(p, q, i) ==
    /\ PlayerFree(p, q) /\ PartnerFree(p, q)
    /\ LET asked == tradeState[q] = "none" IN
       /\ tradePartner' = [tradePartner EXCEPT ![p] = q,
                                               ![q] = IF asked THEN p ELSE @]
       /\ tradeState' = [tradeState EXCEPT ![p] = "initiated",
                                           ![q] = IF asked THEN "acknowledge" ELSE @]
    /\ tradeItem' = [tradeItem EXCEPT ![p] = i]
    /\ tradeItems' = [tradeItems EXCEPT ![i] = p]

\* playerRequestTrade.  An item out of reach starts a walk that calls the
\* handler again, which reads everything anew: a later RequestTrade.
RequestTrade(p, q, i) ==
    /\ p \in online /\ q \in online /\ p # q
    /\ InRange(pos[p], pos[q], 2)
    /\ InReach(p, i)
    /\ ~AlreadyTraded(i)
    /\ StartTrade(p, q, i)
    /\ touched' = {}
    /\ UNCHANGED <<online, pos, loc>>

MayAccept(p) ==
    /\ p \in online
    /\ tradeState[p] \in {"acknowledge", "initiated"}
    /\ tradePartner[p] # NoPlayer

\* playerAcceptTrade while the partner has not accepted
AcceptFirst(p) ==
    /\ MayAccept(p)
    /\ tradeState[tradePartner[p]] # "accept"
    /\ tradeState' = [tradeState EXCEPT ![p] = "accept"]
    /\ touched' = {}
    /\ UNCHANGED <<online, pos, loc, tradePartner, tradeItem, tradeItems>>

\* Variant: the own offer is a container like any other.
Destinations_OwnOffer(l, p, i) ==
    {p} \cup
    {c \in Container : TopOf(l, c) = p /\ c # i /\ i \notin Around(l, c)}

\* Player::__queryDestination: a slot, or a container he carries.  His own
\* offer is passed over, with what is in it only if it lies in a slot.
Destinations(l, p, i) ==
    {p} \cup
    {c \in Container :
        /\ TopOf(l, c) = p
        /\ c # i /\ i \notin Around(l, c)
        /\ c # tradeItem[p]
        /\ ~(tradeItem[p] \in Around(l, c) /\ l[tradeItem[p]] = p)}

\* Variant: an accept goes through as soon as one side has accepted.
PartnerAccepted_Any(p) == TRUE
PartnerAccepted(p) == tradeState[tradePartner[p]] = "accept"

\* playerAcceptTrade as the second to accept: both items find room (tested
\* with both still in place), then each is moved.  The result of the second
\* move is not looked at: it fails if its room left with the first item.
AcceptAndSwap(p) ==
    /\ MayAccept(p) /\ PartnerAccepted(p)
    /\ LET q == tradePartner[p]
           i == tradeItem[p]
           j == tradeItem[q] IN
       /\ i # NoItem /\ j # NoItem
       /\ \E d \in Destinations(loc, q, i), room \in Destinations(loc, p, j) :
             LET moved == [loc EXCEPT ![i] = d]
                 spoilt == {p, q} \cup SpoiltByRemoval(i) IN
             \/ \E e \in Destinations(moved, p, j) :
                   /\ loc' = [moved EXCEPT ![j] = e]
                   /\ CloseTrades(spoilt \cup SpoiltByRemoval(j))
             \/ /\ room \in Inside(i)
                /\ loc' = moved
                /\ CloseTrades(spoilt)
       /\ touched' = {i, j}
    /\ UNCHANGED <<online, pos>>

\* playerAcceptTrade as the second to accept: somebody has no room, or the
\* one who was asked accepted without offering anything.
AcceptAndFail(p) ==
    /\ MayAccept(p) /\ PartnerAccepted(p)
    /\ CloseTrades({p})
    /\ touched' = {}
    /\ UNCHANGED <<online, pos, loc>>

\* playerCloseTrade, also of a player who trades with nobody
PlayerCloseTrade(p) ==
    /\ p \in online
    /\ CloseTrades({p})
    /\ touched' = {}
    /\ UNCHANGED <<online, pos, loc>>

-----------------------------------------------------------------------------
(* The world around the trades.                                            *)

\* Variant: the other side's distance is not looked at.
TooFar_ItemOnly(p, x) ==
    tradeItem[p] # NoItem /\ Top(tradeItem[p]) # p /\ ~InRange(Top(tradeItem[p]), x, 1)

\* Player::onCreatureMove: he left the item on offer, or the other side.
TooFar(p, x) ==
    \/ /\ tradeItem[p] # NoItem /\ Top(tradeItem[p]) # p
       /\ ~InRange(Top(tradeItem[p]), x, 1)
    \/ tradePartner[p] # NoPlayer /\ ~InRange(pos[tradePartner[p]], x, 2)

\* A step, a push or a teleport: the hook is the mover's own.
Move(p, x) ==
    /\ p \in online
    /\ pos' = [pos EXCEPT ![p] = x]
    /\ IF TooFar(p, x) THEN CloseTrades({p}) ELSE UNCHANGED tradeVars
    /\ touched' = {}
    /\ UNCHANGED <<online, loc>>

\* internalMoveItem on behalf of p: the old place is told, then the new one.
MoveItem(p, i, to) ==
    /\ p \in online /\ InReach(p, i)
    /\ to # loc[i]
    /\ \/ to = p \/ to \in Tile
       \/ /\ to \in Container /\ InReach(p, to)
          /\ to # i /\ to \notin Inside(i)
    /\ CloseTrades(SpoiltByRemoval(i) \cup SpoiltByAdding(i, to))
    /\ loc' = [loc EXCEPT ![i] = to]
    /\ touched' = {i}
    /\ UNCHANGED <<online, pos>>

\* Decay, use, a merge or a script changes i where it is.
UpdateItem(i) ==
    /\ Top(i) \in Tile \cup online
    /\ CloseTrades(SpoiltByUpdate(i))
    /\ touched' = {i}
    /\ UNCHANGED <<online, pos, loc>>

\* internalRemoveItem: i is removed, and what is in it with it.
RemoveItem(i) ==
    /\ Top(i) \in Tile \cup online
    /\ CloseTrades(SpoiltByRemoval(i))
    /\ loc' = [loc EXCEPT ![i] = Gone]
    /\ touched' = {i} \cup Inside(i)
    /\ UNCHANGED <<online, pos>>

\* Variant: a player who leaves keeps his trade.
LeaveTrade_Keep(p) == UNCHANGED tradeVars

LeaveTrade(p) ==
    IF tradePartner[p] # NoPlayer THEN CloseTrades({p}) ELSE UNCHANGED tradeVars

\* Player::onCreatureDisappear: a logout, a kick or a death
Disappear(p) ==
    /\ p \in online
    /\ online' = online \ {p}
    /\ LeaveTrade(p)
    /\ touched' = {}
    /\ UNCHANGED <<pos, loc>>

\* The player comes back as a new Player object, at any free tile.
Appear(p, x) ==
    /\ p \notin online
    /\ online' = online \cup {p}
    /\ pos' = [pos EXCEPT ![p] = x]
    /\ touched' = {}
    /\ UNCHANGED <<loc, tradeVars>>

Dialogue(p) ==
    \/ \E q \in Player, i \in Item : RequestTrade(p, q, i)
    \/ AcceptFirst(p)
    \/ AcceptAndSwap(p)
    \/ AcceptAndFail(p)
    \/ PlayerCloseTrade(p)

Next ==
    \/ \E p \in Player : Dialogue(p) \/ Disappear(p)
    \/ \E p \in Player, x \in Tile : Move(p, x) \/ Appear(p, x)
    \/ \E p \in Player, i \in Item, to \in Place : MoveItem(p, i, to)
    \/ \E i \in Item : UpdateItem(i) \/ RemoveItem(i)

Spec == Init /\ [][Next]_vars

-----------------------------------------------------------------------------
(* Properties.                                                             *)

\* Player p's side of a trade fits the other side's.
SidesAgree(p) ==
    LET q == tradePartner[p] IN
    /\ (q = NoPlayer) <=> (tradeState[p] = "none")
    /\ tradeItem[p] # NoItem => tradeState[p] \in {"initiated", "accept"}
    /\ tradeState[p] = "initiated" => tradeItem[p] # NoItem
    /\ q # NoPlayer =>
          /\ p # q /\ tradePartner[q] = p /\ {p, q} \subseteq online
          /\ tradeItem[p] # NoItem \/ tradeItem[q] # NoItem
          /\ ~(tradeState[p] = "accept" /\ tradeState[q] = "accept")

\* A trade always has two sides that name each other and are both in the game,
\* in states that fit: one of them made the first offer, and at most one has
\* accepted.  Every handler writes only the two players it knows of.
PartnersAgree == \A p \in Player : SidesAgree(p)

\* Game::tradeItems is exactly what is on offer: it has an entry for an item as
\* long as its owner offers it, under his name, and no other.
RegisterIsExact ==
    \A p \in Player, i \in Item : (tradeItem[p] = i) <=> (tradeItems[i] = p)

\* Game::tradeItems is exactly what is on offer, so an item is offered once,
\* none is offered with another one that holds it, and none stays blocked
\* ("already being traded") when its trade is over.
RegisterMatchesOffers ==
    /\ RegisterIsExact
    /\ \A i, j \in Item :
          tradeItems[i] # NoPlayer /\ tradeItems[j] # NoPlayer => i \notin Inside(j)

\* While a trade is open both sides are two tiles apart at most and each can
\* reach what he offers: it was not removed, carried away or left behind.
OfferInReach ==
    \A p \in Player :
        /\ tradePartner[p] # NoPlayer => InRange(pos[p], pos[tradePartner[p]], 2)
        /\ tradeItem[p] # NoItem => InReach(p, tradeItem[p])

\* What the other side sees is what he gets: as long as an offer stands,
\* nothing enters it, leaves it or changes in it, at any depth.
OfferUntouched ==
    [][\A p \in Player, i \in Item :
          tradeItem[p] = i /\ tradeItem'[p] = i =>
              /\ Inside(i)' = Inside(i)
              /\ touched' \cap ({i} \cup Inside(i)) = {}]_vars

\* A swap gives each side what the other one offered, provided no container
\* lies inside an offer: the code may store an incoming item there.
SwapIsComplete ==
    [][\A p \in Player, i, j \in Item : LET q == tradePartner[p] IN
          /\ tradeItem[p] = i /\ q # NoPlayer /\ tradeItem[q] = j
          /\ touched' = {i, j}
          /\ (Inside(i) \cup Inside(j)) \cap Container = {}
          => TopOf(loc', i) = q /\ TopOf(loc', j) = p]_vars

\* Trading as the players see it: deals are opened, answered and ended by both
\* sides at once, nothing on offer moves, and only two accepts swap.
Deal == INSTANCE Barter WITH
    with <- tradePartner,
    offer <- tradeItem,
    agreed <- {p \in Player : tradeState[p] = "accept"},
    holder <- [i \in Item |-> Top(i)]
ImplementsBarter == Deal!Spec

=============================================================================
