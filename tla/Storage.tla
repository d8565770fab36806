------------------------------ MODULE Storage ------------------------------
(***************************************************************************)
(* Where things are: slots of players, containers and tiles, and how       *)
(* Game::internalMoveItem and its relatives move them (game.cpp), on the   *)
(* queries and changes of the three kinds of cylinder (player.cpp,         *)
(* container.cpp, tile.cpp).  A handler asks the destination in several    *)
(* queries, then takes out and puts in; limits are tested against numbers  *)
(* that are cached along the way; and clients keep windows open on         *)
(* containers that anybody may carry off.                                  *)
(*                                                                         *)
(* The order of things in a container or on a tile is left out: what is    *)
(* first in it is any of them.  The tiles lie in a row, all in view.       *)
(***************************************************************************)
EXTENDS Integers, FiniteSets, FiniteSetsExt, Nesting

CONSTANTS
    Player,
    Tile,        \* the tiles, numbered along their row
    Stack,       \* item objects of one stackable kind, such as coins
    Gear,        \* every other item
    TwoHanded,   \* the gear that needs both hands (SLOTP_TWO_HAND)
    NoThing,     \* the NULL pointer
    Nowhere,     \* the parent of an object that is in no cylinder
    Room,        \* Container::capacity of each bag
    Heft,        \* the weight of each thing, of one piece if it is a stack
    Strength,    \* Player::getCapacity of each player
    MaxStack,    \* 100 in the code
    MaxAmount,   \* max_amount_items_inside_containers
    MaxBags,     \* max_containers_inside_player_inventory
    MaxDepth,    \* max_deepness_of_chain_of_containers, 0 for no limit
    TileLimit,   \* tile_limit, 0 for no limit
    AutoStack,   \* container_items_auto_stack
    Window,      \* the ids a client gives its container windows
    Perishable,  \* bound: the things that scripts, use or decay remove
    Curious,     \* bound: the players who open containers
    MaxPieces    \* bound: the pieces of stacks there may be at a time

Thing == Container \cup Stack \cup Gear

ASSUME StorageConstants ==
    /\ Tile \subseteq Int
    /\ TwoHanded \subseteq Gear /\ Perishable \subseteq Thing /\ Curious \subseteq Player
    /\ NoThing \notin Thing
    /\ Nowhere \notin Player \cup Tile \cup Thing
    /\ Container \cap Stack = {} /\ Container \cap Gear = {} /\ Stack \cap Gear = {}
    /\ Player \cap Tile = {} /\ Player \cap Thing = {} /\ Tile \cap Thing = {}
    /\ IsFiniteSet(Thing)
    /\ Room \in [Container -> Nat] /\ Heft \in [Thing -> Nat] /\ Strength \in [Player -> Nat]
    /\ \A t, u \in Stack : Heft[t] = Heft[u]
    /\ {MaxAmount, MaxBags, MaxDepth, TileLimit, MaxPieces} \subseteq Nat
    /\ MaxStack \in Nat \ {0}
    /\ AutoStack \in BOOLEAN

VARIABLES
    store,    \* the cylinders: parents, contents, counts and what is cached of them
    at,       \* the tile every player stands on
    window,   \* Player::containerVec: the container each window id shows
    ledger    \* history: what should exist, the pieces of stacks and the other things

vars == <<store, at, window, ledger>>

-----------------------------------------------------------------------------
(* Slots.  Of the ten slots those with rules of their own are kept: the    *)
(* hands, and one that only bags fit.                                      *)

Hand == {"right", "left"}
Slot == Hand \cup {"backpack"}
Other(k) == CHOOSE h \in Hand : h # k
NoSlot == "none"       \* INDEX_WHEREEVER, and 0 for a player

\* The order in which the slots are looked through.
Before(k, l) == <<k, l>> \in
    {<<"backpack", "right">>, <<"backpack", "left">>, <<"right", "left">>}
FirstOf(K) == CHOOSE k \in K : \A l \in K \ {k} : Before(k, l)

Fits(t, k) == k \in Hand \/ t \in Container

(* A store is a record:                                                    *)
(*   parent  Thing::getParent                                              *)
(*   inv     Player::inventory                                             *)
(*   inside  Container::itemlist, Tile::items                              *)
(*   units   the count of a stack; 0 when the object is not in use         *)
(*   weight, amount, depth   what a container caches of its contents       *)
(*   carried Player::inventoryWeight                                       *)
Place == Player \cup Tile \cup Container
Stores ==
    [parent : [Thing -> Place \cup {Nowhere}],
     inv : [Player -> [Slot -> Thing \cup {NoThing}]],
     inside : [Container \cup Tile -> SUBSET Thing],
     units : [Stack -> 0 .. MaxStack],
     weight : [Container -> Nat], amount : [Container -> Nat], depth : [Container -> Nat],
     carried : [Player -> Nat]]

TypeOK ==
    /\ store \in Stores
    /\ at \in [Player -> Tile]
    /\ window \in [Player -> [Window -> Container \cup {NoThing}]]

\* The containers around a place or thing x, x among them if it is one
BagsUp(s, x) == IF x \in Container THEN {x} \cup Around(s.parent, x) ELSE {}

\* The player, the tile or the nowhere a thing is in the end (getTopParent).
Holder(s, x) == IF x \in Thing THEN TopOf(s.parent, x) ELSE x

\* Bag b and the bags in it at any depth, as a ContainerIterator finds them: the least
\* set with b and what its members hold
Nested(s, b) ==
    {c \in Container : \A S \in SUBSET (Container \ {c}) :
        b \in S => \E d \in S : s.inside[d] \cap (Container \ S) # {}}

\* What is in a bag at any depth; nothing in what is no bag
Contents(s, b) == IF b \in Container THEN UNION {s.inside[c] : c \in Nested(s, b)} ELSE {}

\* Thing::getPosition of a thing that is somewhere, and the tile of a place
TileOf(s, x) == IF Holder(s, x) \in Player THEN at[Holder(s, x)] ELSE Holder(s, x)

Near(x, y) == x - y <= 1 /\ y - x <= 1

\* Item::getWeight, Thing::getTotalAmountOfItemsInside
Weight(s, t) ==
    CASE t \in Container -> Heft[t] + s.weight[t]
      [] t \in Stack -> Heft[t] * s.units[t]
      [] OTHER -> Heft[t]
Amount(s, t) == IF t \in Container THEN s.amount[t] ELSE 1

\* What the things in T weigh
Load(s, T) == SumFunctionOnSet([t \in Thing |-> Weight(s, t)], T)

-----------------------------------------------------------------------------
(* Changes of one cylinder: __addThing, __removeThing, __updateThing.      *)

\* updateItemWeight and updateAmountOfItems: every bag from x upward is told.
Credit(s, x, w, a) ==
    [s EXCEPT !.weight = [b \in Container |-> @[b] + IF b \in BagsUp(s, x) THEN w ELSE 0],
              !.amount = [b \in Container |-> @[b] + IF b \in BagsUp(s, x) THEN a ELSE 0]]

\* A bag's depth is only told when it is put into another bag, and its own bags
\* are not told then.  Nothing reads it when there is no limit.
Deepened(s, b, t) ==
    IF t \notin Container \/ MaxDepth = 0 THEN s
    ELSE IF s.parent[b] \in Container THEN [s EXCEPT !.depth[t] = s.depth[b] + 1]
    ELSE [s EXCEPT !.depth = [@ EXCEPT ![b] = 1, ![t] = 2]]

Put(s, pl, k, t) ==
    LET placed == [s EXCEPT !.parent[t] = pl] IN
    CASE pl \in Player -> [placed EXCEPT !.inv[pl][k] = t]
      [] pl \in Tile -> [placed EXCEPT !.inside[pl] = @ \cup {t}]
      [] OTHER -> Deepened(Credit([placed EXCEPT !.inside[pl] = @ \cup {t}],
                                  pl, Weight(s, t), Amount(s, t)), pl, t)

\* Container::__removeThing only tells the bags above of a partial removal when
\* the bag has a parent; without one there are none.
Whole(s, t, m) == t \notin Stack \/ m = s.units[t]
TakePart(s, t, m) ==
    Credit([s EXCEPT !.units[t] = @ - m], s.parent[t], -(m * Heft[t]), 0)
\* A mutant: the bags above are not told of what is taken out.
X_TakeWhole(s, t) ==
    LET pl == s.parent[t]
        gone == [s EXCEPT !.parent[t] = Nowhere]
    IN  IF pl \in Player
        THEN [gone EXCEPT !.inv[pl] = [k \in Slot |-> IF @[k] = t THEN NoThing ELSE @[k]]]
        ELSE [gone EXCEPT !.inside[pl] = @ \ {t}]

TakeWhole(s, t) ==
    LET pl == s.parent[t]
        gone == [s EXCEPT !.parent[t] = Nowhere]
    IN  IF pl \in Player
        THEN [gone EXCEPT !.inv[pl] = [k \in Slot |-> IF @[k] = t THEN NoThing ELSE @[k]]]
        ELSE [Credit(gone, pl, -Weight(s, t), -Amount(s, t)) EXCEPT !.inside[pl] = @ \ {t}]
Take(s, t, m) == IF Whole(s, t, m) THEN TakeWhole(s, t) ELSE TakePart(s, t, m)

Grow(s, t, m) == Credit([s EXCEPT !.units[t] = @ + m], s.parent[t], m * Heft[t], 0)

\* Player::updateInventoryWeight of the players among X
Inventory(s, p) == {s.inv[p][k] : k \in Slot} \ {NoThing}
Weighed(s, X) ==
    [s EXCEPT !.carried = [p \in Player |->
        IF p \in X THEN Load(s, Inventory(s, p)) ELSE @[p]]]

-----------------------------------------------------------------------------
(* The queries.  A verdict of __queryAdd is "ok", "exchange"               *)
(* (RET_NEEDEXCHANGE), "hands" (RET_BOTHHANDSNEEDTOBEFREE) or "no".        *)

\* Player::canAddContainer: what is carried already is counted again.
CanAddContainer(s, p, b) ==
    LET bags == Container \cap UNION {{t} \cup Contents(s, t) : t \in Inventory(s, p)}
    IN  1 + Cardinality(Container \cap Contents(s, b)) + Cardinality(bags) <= MaxBags

HasCapacity(s, p, t, n) ==
    Holder(s, t) = p \/ (IF t \in Stack THEN Heft[t] * n ELSE Weight(s, t)) < Strength[p] - s.carried[p]

\* A mutant: a hand takes anything the other hand leaves room for.
X_HandVerdict(s, p, k, t) ==
    LET u == s.inv[p][Other(k)] IN
    IF t \in TwoHanded /\ u \notin {NoThing, t} THEN "hands" ELSE "ok"

HandVerdict(s, p, k, t) ==
    LET u == s.inv[p][Other(k)] IN
    IF u = NoThing \/ (u = t /\ t \in TwoHanded) THEN "ok"
    ELSE IF t \in TwoHanded THEN "hands"
    ELSE IF u \in TwoHanded THEN "no" ELSE "ok"

PlayerVerdict(s, p, k, t, n) ==
    LET x == s.inv[p][k]
        hand == IF k \in Hand THEN HandVerdict(s, p, k, t) ELSE "ok"
    IN  IF k = NoSlot \/ ~Fits(t, k) \/ (t \in Container /\ ~CanAddContainer(s, p, t)) THEN "no"
        ELSE IF hand # "ok" THEN hand
        ELSE IF x # NoThing /\ ~({x, t} \subseteq Stack) THEN "exchange"
        ELSE IF HasCapacity(s, p, t, n) THEN "ok" ELSE "no"

\* Container::__queryAdd: the room is only looked at when no index was given, and
\* the player who carries the bag is asked about his capacity.
BagVerdict(s, b, x, t, n) ==
    LET p == Holder(s, b) IN
    IF /\ t \notin BagsUp(s, b)
       /\ x = NoThing => Cardinality(s.inside[b]) < Room[b]
       /\ p \in Player => /\ t \in Container => CanAddContainer(s, p, t)
                          /\ HasCapacity(s, p, t, n)
       /\ MaxDepth > 0 /\ t \in Container /\ s.parent[b] \in Container => s.depth[b] + 1 <= MaxDepth
       /\ MaxAmount > 0 =>
            \A c \in BagsUp(s, b) : s.amount[c] + Amount(s, t) <= MaxAmount + 1
    THEN "ok" ELSE "no"

\* Tile::__queryAdd: the ground and the creatures count as well.
TileVerdict(s, l) ==
    IF TileLimit > 0
       /\ 1 + Cardinality(s.inside[l]) + Cardinality({p \in Player : at[p] = l}) > TileLimit
    THEN "no" ELSE "ok"

\* A destination is a place with a slot (of a player) and the thing found there.
To(pl, k, x) == [place |-> pl, slot |-> k, item |-> x]

Verdict(s, d, t, n) ==
    CASE d.place \in Player -> PlayerVerdict(s, d.place, d.slot, t, n)
      [] d.place \in Container -> BagVerdict(s, d.place, d.item, t, n)
      [] OTHER -> TileVerdict(s, d.place)

\* __queryMaxCount
MaxCount(s, d, t, n) ==
    LET both == d.item \in Stack /\ t \in Stack
        left == IF both THEN MaxStack - s.units[d.item] ELSE 0
    IN  CASE d.place \in Player ->
                IF d.item # NoThing THEN left ELSE IF t \in Stack THEN MaxStack ELSE 1
          [] d.place \in Container ->
                LET free == Max({0, Room[d.place] - Cardinality(s.inside[d.place])})
                IN  IF t \in Stack THEN free * MaxStack + left ELSE free
          [] OTHER -> Max({1, n})

\* Container::__queryDestination, from which a further bag is asked in turn
BagDest(s, b, x, t) ==
    LET alike == {y \in s.inside[b] : y \in Stack \ {t} /\ s.units[y] < MaxStack}
        stacked(c, same) == IF AutoStack /\ t \in Stack /\ s.parent[t] # c /\ same # {}
                            THEN {To(c, NoSlot, y) : y \in same} ELSE {}
        sub == {y \in s.inside[x] : y \in Stack \ {t} /\ s.units[y] < MaxStack}
    IN  IF stacked(b, alike) # {} THEN stacked(b, alike)
        ELSE IF x \notin Container THEN {To(b, NoSlot, x)}
        ELSE IF stacked(x, sub) # {} THEN stacked(x, sub)
        ELSE {To(x, NoSlot, NoThing)}

\* Player::__queryDestination without a slot: a free slot, a bag in a slot, a bag
\* deeper down, or the player himself, who will refuse.
RoomFor(s, p, t) ==
    LET n == IF t \in Stack THEN s.units[t] ELSE 1
        free == {k \in Slot : s.inv[p][k] = NoThing /\ PlayerVerdict(s, p, k, t, n) = "ok"}
        takes(b) == BagVerdict(s, b, NoThing, t, n) = "ok"
        worn == {k \in Slot : s.inv[p][k] \in Container /\ takes(s.inv[p][k])}
        deeper == {b \in Container : Holder(s, b) = p /\ s.parent[b] # p /\ takes(b)}
    IN  CASE free # {} -> {To(p, FirstOf(free), NoThing)}
          [] free = {} /\ worn # {} -> {To(s.inv[p][FirstOf(worn)], NoSlot, NoThing)}
          [] free = {} /\ worn = {} /\ deeper # {} -> {To(b, NoSlot, NoThing) : b \in deeper}
          [] OTHER -> {To(p, NoSlot, NoThing)}

\* The loop of internalMoveItem over __queryDestination
Destinations(s, d, t) ==
    CASE d.place \in Container -> BagDest(s, d.place, d.item, t)
      [] d.place \in Player /\ d.slot # NoSlot ->
            LET x == s.inv[d.place][d.slot] IN
            IF x \in Container THEN BagDest(s, x, NoThing, t) ELSE {To(d.place, d.slot, x)}
      [] d.place \in Player /\ d.slot = NoSlot ->
            UNION {IF e.place \in Container THEN BagDest(s, e.place, NoThing, t) ELSE {e} :
                     e \in RoomFor(s, d.place, t)}
      [] OTHER -> {To(d.place, NoSlot, x) :
                     x \in IF s.inside[d.place] = {} THEN {NoThing} ELSE s.inside[d.place]}

-----------------------------------------------------------------------------
(* Moving.  The operators give the set of stores a call may leave behind.  *)

\* Objects a new stack can be made of.
Fresh(s) == {f \in Stack : s.units[f] = 0}

\* The second half of internalMoveItem: n of t go to d, where part of them may
\* join the stack found there; f becomes the object of what is left of them.
Shift(s, d, t, m, f) ==
    LET joined == IF {t, d.item} \subseteq Stack
                  THEN Min({MaxStack - s.units[d.item], m}) ELSE 0
        taken == Take(s, t, m)
        grown == IF joined > 0 THEN Grow(taken, d.item, joined) ELSE taken
        rest == m - joined
        put == IF t \notin Stack THEN Put(grown, d.place, d.slot, t)
               ELSE IF rest > 0 THEN Put([grown EXCEPT !.units[f] = rest], d.place, d.slot, f)
               ELSE IF Whole(s, t, m) THEN [grown EXCEPT !.units[t] = 0] ELSE grown
    IN  Weighed(put, {Holder(s, t), Holder(s, d.place)})

Shifts(s, d, t, n) ==
    LET max == MaxCount(s, d, t, n)
        m == IF t \in Stack THEN Min({n, max}) ELSE 1
    IN  IF max = 0 \/ n = 0 \/ (t \in Stack /\ m > s.units[t]) THEN {s}
        ELSE {Shift(s, d, t, m, f) : f \in IF Whole(s, t, m) THEN {t} ELSE Fresh(s)}

\* RET_NEEDEXCHANGE: what is worn goes where t came from, if it may; then t is
\* tried again, and may now be refused.
MayExchange(s, d, t) ==
    LET pl == s.parent[t]
        n == IF d.item \in Stack THEN s.units[d.item] ELSE 1
        back == To(pl, IF pl \in Player THEN CHOOSE k \in Slot : s.inv[pl][k] = t ELSE NoSlot, t)
    IN  /\ Verdict(s, back, d.item, n) = "ok"
        /\ MaxCount(s, [back EXCEPT !.item = NoThing], d.item, n) > 0

Exchanged(s, d, t) ==
    LET n == IF d.item \in Stack THEN s.units[d.item] ELSE 1
    IN  Weighed(Put(Take(s, d.item, n), s.parent[t], NoSlot, d.item),
                {Holder(s, t), d.place})

Exchanges(s, d, t, n) ==
    IF ~MayExchange(s, d, t) THEN {s}
    ELSE LET e == Exchanged(s, d, t)
             free == [d EXCEPT !.item = NoThing]
         IN  IF Verdict(e, free, t, n) = "ok" THEN Shifts(e, free, t, n) ELSE {e}

\* A move to a tile or into a bag, where nothing is exchanged
MoveOut(s, pl, t, n) ==
    UNION {IF d.item = t \/ Verdict(s, d, t, n) # "ok" THEN {s} ELSE Shifts(s, d, t, n) :
             d \in Destinations(s, To(pl, NoSlot, NoThing), t)}

\* RET_BOTHHANDSNEEDTOBEFREE: Player::__queryAdd, a query, moves what the hand
\* holds to where t is, forgets it whether or not that worked, and refuses t.
HandsFreed(s, p, k, t) ==
    LET u == s.inv[p][k]
        n == IF u \in Stack THEN s.units[u] ELSE 1
        from == s.parent[t]
        shown == from \in {window[p][i] : i \in Window}
        forget(r) == [r EXCEPT !.inv[p][k] = NoThing]
    IN  CASE u = NoThing -> {s}
          [] u # NoThing /\ from \in Container /\ (Cardinality(s.inside[from]) >= Room[from] \/ ~shown) -> {s}
          [] u # NoThing /\ from \in Container /\ Cardinality(s.inside[from]) < Room[from] /\ shown ->
                {forget(r) : r \in MoveOut(s, from, u, n)}
          [] OTHER -> {forget(r) : r \in MoveOut(s, TileOf(s, t), u, n)}

\* Game::internalMoveItem
Moved(s, to, t, n) ==
    UNION {LET verdict == Verdict(s, d, t, n) IN
           CASE d.item = t -> {s}
             [] d.item # t /\ verdict = "ok" -> Shifts(s, d, t, n)
             [] d.item # t /\ verdict = "exchange" -> Exchanges(s, d, t, n)
             [] d.item # t /\ verdict = "hands" -> HandsFreed(s, d.place, d.slot, t)
             [] OTHER -> {s} : d \in Destinations(s, to, t)}

-----------------------------------------------------------------------------
(* Windows.  When a bag is moved, the postRemoveNotification of where it   *)
(* was reaches the player who carried it, or everybody who sees the tile.  *)

Shown(q) == {window[q][i] : i \in Window} \ {NoThing}

\* A mutant: what is inside of what is taken away stays open.
X_AutoClose(s, w, B) ==
    [i \in Window |-> IF w[i] \in B THEN NoThing ELSE w[i]]

\* Player::autoCloseContainers: what shows b, or anything inside it
AutoClose(s, w, B) ==
    [i \in Window |-> IF BagsUp(s, w[i]) \cap B # {} THEN NoThing ELSE w[i]]

\* Player::postRemoveNotification: b is gone, out of range, or with somebody else
TakenFrom(s, q, b) ==
    \/ Holder(s, b) \notin {q} \cup Tile
    \/ ~Near(at[q], TileOf(s, b))

Notified(pl) ==
    LET h == Holder(store, pl) IN IF h \in Player THEN {h} ELSE Player

\* The windows once t, which was at pl, is where s says.
WindowsAfter(s, t, pl) ==
    [q \in Player |->
        IF t \in Container /\ q \in Notified(pl) /\ TakenFrom(s, q, t)
        THEN AutoClose(s, window[q], {t}) ELSE window[q]]

-----------------------------------------------------------------------------
(* What players do.                                                        *)

\* What internalGetThing finds for a client: his slots, the open windows, the map
\* next to him (further away he walks there first, and asks again).
CanName(p, t) ==
    LET pl == store.parent[t] IN
    CASE pl = p -> t \in Inventory(store, p)
      [] pl \in Container -> pl \in Shown(p) /\ Near(at[p], TileOf(store, pl))
      [] pl \in Tile -> Near(at[p], pl)
      [] OTHER -> FALSE

\* Where he may ask to put it: a tile, a slot, any free slot, a place in an open
\* window, or one container up.
Targets(p) ==
    {To(l, NoSlot, NoThing) : l \in Tile} \cup {To(p, k, NoThing) : k \in Slot \cup {NoSlot}}
    \cup (UNION {{To(b, NoSlot, x) : x \in store.inside[b] \cup {NoThing}} : b \in Shown(p)})
    \cup {To(store.parent[b], NoSlot, NoThing) : b \in {c \in Shown(p) : store.parent[c] \in Container}}

\* A thing is not asked to stay where it is.
Elsewhere(p, t, to) ==
    CASE to.place \in Container -> TRUE
      [] to.place = p -> IF to.slot = NoSlot THEN TRUE ELSE store.inv[p][to.slot] # t
      [] OTHER -> to.place # store.parent[t]

\* A move that is refused and changes nothing is no step.
MoveItem(p, t) ==
    /\ CanName(p, t)
    /\ \E to \in Targets(p), n \in 1 .. IF t \in Stack THEN store.units[t] ELSE 1 :
         /\ Elsewhere(p, t, to)
         /\ \E s \in Moved(store, to, t, n) \ {store} :
              /\ store' = s
              /\ window' = WindowsAfter(s, t, store.parent[t])
    /\ UNCHANGED <<at, ledger>>

\* Actions::internalUseItem of a container: open it in window i, or close it.
UseContainer(p, b, i) ==
    /\ p \in Curious /\ CanName(p, b)
    /\ IF b \in Shown(p)
       THEN \E j \in Window : /\ window[p][j] = b
                              /\ window' = [window EXCEPT ![p][j] = NoThing]
       ELSE window' = [window EXCEPT ![p][i] = b]
    /\ UNCHANGED <<store, at, ledger>>

CloseContainer(p, i) ==
    /\ window[p][i] # NoThing
    /\ window' = [window EXCEPT ![p][i] = NoThing]
    /\ UNCHANGED <<store, at, ledger>>

MoveUpContainer(p, i) ==
    /\ window[p][i] # NoThing /\ store.parent[window[p][i]] \in Container
    /\ window' = [window EXCEPT ![p][i] = store.parent[window[p][i]]]
    /\ UNCHANGED <<store, at, ledger>>

\* A step, a push or a teleport; the player's own bags come along
Walk(p, l) ==
    LET far == {b \in Shown(p) : Holder(store, b) # p /\ ~Near(l, TileOf(store, b))} IN
    /\ l # at[p]
    /\ at' = [at EXCEPT ![p] = l]
    /\ window' = [window EXCEPT ![p] = AutoClose(store, @, far)]
    /\ UNCHANGED <<store, ledger>>

-----------------------------------------------------------------------------
(* What the game does for them.                                            *)

\* Player::__queryMaxCount without a slot, for a stack of n
PlayerRoom(s, p, t, n) ==
    LET bags == Container \cap UNION {{x} \cup Contents(s, x) : x \in Inventory(s, p)}
        free(b) == Max({0, Room[b] - Cardinality(s.inside[b])})
        slot(k) ==
            LET x == s.inv[p][k] IN
            CASE x = NoThing /\ PlayerVerdict(s, p, k, t, n) = "ok" -> MaxStack
              [] x \in Stack /\ PlayerVerdict(s, p, k, t, MaxStack - s.units[x]) = "ok"
                    -> MaxStack - s.units[x]
              [] OTHER -> 0
    IN  MapThenSumSet(LAMBDA b : free(b) * MaxStack, bags) + MapThenSumSet(slot, Slot)

\* A mutant: what no longer fits on the stack is forgotten.
X_Laid(s, l, f) ==
    {IF d.item \in Stack
     THEN [Grow(s, d.item, Min({MaxStack - s.units[d.item], s.units[f]})) EXCEPT !.units[f] = 0]
     ELSE Put(s, l, NoSlot, f) : d \in Destinations(s, To(l, NoSlot, NoThing), f)}

\* internalAddItem of the new stack f to a tile, with FLAG_NOLIMIT: it joins the
\* stack on top, and the rest becomes a stack of its own.
Laid(s, l, f) ==
    {LET joined == IF d.item \in Stack THEN Min({MaxStack - s.units[d.item], s.units[f]}) ELSE 0
         grown == IF joined > 0 THEN Grow(s, d.item, joined) ELSE s
         rest == s.units[f] - joined
     IN  IF rest = 0 THEN [grown EXCEPT !.units[f] = 0]
         ELSE Put([grown EXCEPT !.units[f] = rest], l, NoSlot, f) :
       d \in Destinations(s, To(l, NoSlot, NoThing), f)}

\* internalPlayerAddItem and addMoney: to the player, or else to his tile.  The
\* destination is asked once, so a bag's stacks are not joined.
Given(s, p, f) ==
    LET n == s.units[f]
        to == RoomFor(s, p, f)
        fits(d) == Verdict(s, d, f, n) = "ok" /\ PlayerRoom(s, p, f, n) >= n
    IN  UNION {IF fits(d) THEN {Weighed(Put(s, d.place, d.slot, f), {p})}
               ELSE Laid(s, at[p], f) : d \in to}

Give(p, n) ==
    /\ ledger.pieces + n <= MaxPieces
    /\ \E f \in Fresh(store) : \E s \in Given([store EXCEPT !.units[f] = n], p, f) : store' = s
    /\ ledger' = [ledger EXCEPT !.pieces = @ + n]
    /\ UNCHANGED <<at, window>>

\* internalRemoveItem, by a script, by decay or by use; with a bag goes what is in it
Removed(s, t, m) ==
    LET rest == Take(s, t, m)
        gone == IF ~Whole(s, t, m) THEN {} ELSE {t} \cup IF t \in Container THEN Contents(s, t) ELSE {}
        emptied == [b \in Container \cup Tile |-> IF b \in gone THEN {} ELSE rest.inside[b]]
    IN  Weighed([rest EXCEPT !.parent = [x \in Thing |-> IF x \in gone THEN Nowhere ELSE @[x]],
                             !.units = [x \in Stack |-> IF x \in gone THEN 0 ELSE @[x]],
                             !.inside = emptied,
                             !.weight = [b \in Container |-> IF b \in gone THEN 0 ELSE @[b]],
                             !.amount = [b \in Container |-> IF b \in gone THEN 1 ELSE @[b]]],
                {Holder(s, t)})

\* An item whose slot forgot it is out of reach: __getIndexOfThing finds nothing.
Indexed(s, t) ==
    LET pl == s.parent[t] IN
    pl # Nowhere /\ IF pl \in Player THEN t \in Inventory(s, pl) ELSE t \in s.inside[pl]

Worth(T) == SumFunctionOnSet(store.units, T)

Remove(t, m) ==
    /\ t \in Perishable
    /\ Indexed(store, t)
    /\ m <= IF t \in Stack THEN store.units[t] ELSE 1
    /\ store' = Removed(store, t, m)
    /\ window' = IF t \in Container
                 THEN [q \in Player |-> IF q \in Notified(store.parent[t])
                                        THEN AutoClose(store, window[q], {t}) ELSE window[q]]
                 ELSE window
    /\ LET gone == {t} \cup IF t \in Container THEN Contents(store, t) ELSE {} IN
       ledger' = [pieces |-> ledger.pieces - IF t \in Stack THEN m ELSE Worth(gone \cap Stack),
                  things |-> ledger.things \ gone]
    /\ UNCHANGED at

\* Game::removeMoney: stacks from the smallest up, until there is enough; what was
\* taken too much is given back as a new stack.
Purse(p) == {t \in Stack : store.units[t] > 0 /\ Holder(store, t) = p /\ Indexed(store, t)}

Pay(p, money) ==
    /\ Worth(Purse(p)) >= money
    /\ \E R \in SUBSET Purse(p) : \E last \in Purse(p) \ R :
         /\ Worth(R) < money /\ money <= Worth(R) + store.units[last]
         /\ \A t \in R : store.units[t] <= store.units[last]
         /\ \A t \in Purse(p) \ R : store.units[t] >= store.units[last]
         /\ LET change == Worth(R) + store.units[last] - money
                step(t, s) == Removed(s, t, s.units[t])
                paid == FoldSet(step, store, R \cup {last})
            IN  IF change = 0 THEN store' = paid
                ELSE \E s \in Given([paid EXCEPT !.units[last] = change], p, last) : store' = s
    /\ ledger' = [ledger EXCEPT !.pieces = @ - money]
    /\ UNCHANGED <<at, window>>

-----------------------------------------------------------------------------
Empty ==
    [parent |-> [t \in Thing |-> Nowhere],
     inv |-> [p \in Player |-> [k \in Slot |-> NoThing]],
     inside |-> [b \in Container \cup Tile |-> {}],
     units |-> [t \in Stack |-> 0],
     weight |-> [b \in Container |-> 0], amount |-> [b \in Container |-> 1], depth |-> [b \in Container |-> 0],
     carried |-> [p \in Player |-> 0]]

\* The world as a map is loaded: bags and gear lie on tiles.
Init ==
    /\ \E lies \in [Container \cup Gear -> Tile] :
         store = [Empty EXCEPT
            !.parent = [t \in Thing |-> IF t \in Stack THEN Nowhere ELSE lies[t]],
            !.inside = [x \in Container \cup Tile |-> IF x \in Container THEN {}
                                               ELSE {t \in Container \cup Gear : lies[t] = x}]]
    /\ at \in [Player -> Tile]
    /\ window = [p \in Player |-> [i \in Window |-> NoThing]]
    /\ ledger = [pieces |-> 0, things |-> Container \cup Gear]

Next ==
    \/ \E p \in Player, t \in Thing : MoveItem(p, t)
    \/ \E p \in Player, b \in Container, i \in Window : UseContainer(p, b, i)
    \/ \E p \in Player, i \in Window : CloseContainer(p, i) \/ MoveUpContainer(p, i)
    \/ \E p \in Player, l \in Tile : Walk(p, l)
    \/ \E p \in Player, n \in 1 .. MaxStack : Give(p, n) \/ Pay(p, n)
    \/ \E t \in Thing, m \in 1 .. MaxStack : Remove(t, m)

Spec == Init /\ [][Next]_vars

-----------------------------------------------------------------------------
(* Properties.                                                             *)

\* A thing the code believes to be on a player who has it in no slot.
Forgotten(p) == {t \in Thing : store.parent[t] = p} \ Inventory(store, p)

\* What the code keeps twice agrees: parents with contents, in one place only and
\* never in a circle; the weights and numbers cached by containers and players
\* with what is in them.  Every limit is tested against these.
BooksAgree ==
    /\ \A pl \in Container \cup Tile : store.inside[pl] = {t \in Thing : store.parent[t] = pl}
    /\ \A p \in Player : \A t \in Inventory(store, p) :
         /\ store.parent[t] = p
         /\ Cardinality({k \in Slot : store.inv[p][k] = t}) = 1
    /\ \A t \in Stack : store.units[t] > 0 <=> store.parent[t] # Nowhere
    /\ \A b \in Container :
         /\ b \notin Around(store.parent, b)
         /\ store.weight[b] = Load(store, store.inside[b])
         /\ store.amount[b] = 1 + Cardinality(Contents(store, b))
    /\ \A p \in Player : Forgotten(p) = {} =>
         store.carried[p] = Load(store, Inventory(store, p))

\* No sequence of moves, merges and exchanges gets past a limit that the queries
\* test before the change: the room of a bag, the number of things in it at any
\* depth, the strength of a player, hands that hold one two-handed thing.
LimitsHold ==
    /\ \A b \in Container : Cardinality(store.inside[b]) <= Room[b]
    /\ MaxAmount > 0 => \A b \in Container : Cardinality(Contents(store, b)) <= MaxAmount
    /\ \A p \in Player : store.carried[p] < Strength[p] \/ store.carried[p] = 0
    /\ \A p \in Player, k \in Hand :
         store.inv[p][k] \in TwoHanded => store.inv[p][Other(k)] = NoThing

\* A container a client has open is one he may look into: it exists, he carries it
\* or it lies next to him, whatever was done to it and to what it is in.
WindowsInReach ==
    \A q \in Player : \A b \in Shown(q) : ~TakenFrom(store, q, b)

\* Moving things about neither makes nor loses any: not a piece of a stack, however
\* it is split, joined or exchanged, and not a bag with what is in it.  What is paid
\* is exactly the price.
NothingLost ==
    LET existing == {t \in Thing : Holder(store, t) # Nowhere} IN
    /\ Worth(existing \cap Stack) = ledger.pieces
    /\ existing \ Stack = ledger.things

\* cylinder.h: __queryAdd is to "query if the cylinder can add an object".  A player
\* who is asked never loses what he holds.
NothingForgotten == \A p \in Player : Forgotten(p) = {}

=============================================================================
