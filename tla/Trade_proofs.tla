---------------------------- MODULE Trade_proofs ----------------------------
(***************************************************************************)
(* Proofs about Trade, for any players, items, depth of containers and map.*)
(*                                                                         *)
(* First the dialogue.  PartnersAgree is inductive together with the types:*)
(* every handler either starts a trade between two players (RequestTrade), *)
(* moves one side of it on (AcceptFirst), or ends trades by CloseTrades.   *)
(* Whatever set of trades the hooks find spoilt, CloseTrades ends them for *)
(* both sides, because partners name each other; so the proof does not     *)
(* depend on which items lie where.  The register of offered items is      *)
(* exact given these two, because a player offers only while he offers     *)
(* nothing.                                                                *)
(*                                                                         *)
(* Then what is on offer.  What a container holds is a least fixed point;  *)
(* what Around and TopOf are, and what a move does to them as long as no   *)
(* container lies in itself (Grounded), is in Nesting_proofs.  What is     *)
(* offered is in reach of the one who offers it, and so lies near enough   *)
(* that the hooks tell him of every item event at, around or inside it:    *)
(* after a step, either the offer is gone or the step spared it            *)
(* (OffersSpared).  That keeps offers in reach and apart (Inv), makes them *)
(* untouched, and with the two moves of a swap gives the barter the        *)
(* players see.                                                            *)
(***************************************************************************)
EXTENDS Trade, Nesting_proofs, TLAPS

\* What CloseTrades may change.
TradeTypeOK ==
    /\ tradeState \in [Player -> TradeState \ {"transfer"}]
    /\ tradePartner \in [Player -> Player \cup {NoPlayer}]
    /\ tradeItem \in [Player -> Item \cup {NoItem}]
    /\ tradeItems \in [Item -> Player \cup {NoPlayer}]

-----------------------------------------------------------------------------
(* CloseTrades.                                                            *)

LEMMA CloseTradesTypes ==
    ASSUME TypeOK, NEW S \in SUBSET Player, CloseTrades(S)
    PROVE  TradeTypeOK'
<1> DEFINE out == S \cup ({tradePartner[p] : p \in S} \ {NoPlayer})
<1>1. tradeState' \in [Player -> TradeState \ {"transfer"}]
  BY DEF TypeOK, CloseTrades, TradeState
<1>2. tradePartner' \in [Player -> Player \cup {NoPlayer}]
  BY DEF TypeOK, CloseTrades
<1>3. tradeItem' \in [Player -> Item \cup {NoItem}]
  BY DEF TypeOK, CloseTrades
<1>4. tradeItems' \in [Item -> Player \cup {NoPlayer}]
  BY DEF TypeOK, CloseTrades
<1> QED
  BY <1>1, <1>2, <1>3, <1>4 DEF TradeTypeOK

\* Ending trades keeps the other ones whole, even if some of the players whose
\* trades end leave the game.
LEMMA CloseTradesAgree ==
    ASSUME TypeOK, PartnersAgree, NEW S \in SUBSET Player, CloseTrades(S),
           online \ S \subseteq online'
    PROVE  PartnersAgree'
<1> DEFINE out == S \cup ({tradePartner[p] : p \in S} \ {NoPlayer})
<1> USE TradeConstants DEF TradeConstants
<1>1. ASSUME NEW p \in Player
      PROVE  /\ tradeState'[p] = IF p \in out THEN "none" ELSE tradeState[p]
             /\ tradePartner'[p] = IF p \in out THEN NoPlayer ELSE tradePartner[p]
             /\ tradeItem'[p] = IF p \in out THEN NoItem ELSE tradeItem[p]
  BY DEF CloseTrades
<1>2. ASSUME NEW p \in Player, tradePartner[p] # NoPlayer
      PROVE  /\ tradePartner[p] \in Player /\ tradePartner[tradePartner[p]] = p
             /\ p \in out <=> tradePartner[p] \in out
             /\ p \notin out => p \in online'
  <2>1. tradePartner[p] \in Player /\ tradePartner[tradePartner[p]] = p /\ p \in online
    BY <1>2 DEF TypeOK, PartnersAgree, SidesAgree
  <2>2. p \in out => tradePartner[p] \in out
    <3>1. ASSUME NEW r \in S, p = tradePartner[r]
          PROVE  tradePartner[p] = r
      BY <1>2, <3>1 DEF TypeOK, PartnersAgree, SidesAgree
    <3> QED
      BY <1>2, <2>1, <3>1
  <2>3. tradePartner[p] \in out => p \in out
    <3>1. ASSUME NEW r \in S, tradePartner[p] = tradePartner[r]
          PROVE  p = r
      BY <1>2, <2>1, <3>1 DEF TypeOK, PartnersAgree, SidesAgree
    <3>2. CASE tradePartner[p] \in S
      BY <1>2, <2>1, <3>2
    <3> QED
      BY <2>1, <3>1, <3>2
  <2>4. p \notin out => p \in online'
    BY <2>1
  <2> QED
    BY <2>1, <2>2, <2>3, <2>4
<1>3. ASSUME NEW p \in Player, p \in out
      PROVE  SidesAgree(p)'
  BY <1>1, <1>3 DEF SidesAgree
<1>4. ASSUME NEW p \in Player, p \notin out
      PROVE  SidesAgree(p)'
  <2>1. SidesAgree(p)
    BY DEF PartnersAgree
  <2>2. CASE tradePartner[p] = NoPlayer
    BY <1>1, <1>4, <2>1, <2>2 DEF SidesAgree
  <2>3. CASE tradePartner[p] # NoPlayer
    <3> DEFINE q == tradePartner[p]
    <3>1. q \in Player /\ tradePartner[q] = p /\ q \notin out
      BY <1>2, <1>4, <2>3
    <3>2. {p, q} \subseteq online'
      BY <1>2, <1>4, <2>3, <3>1
    <3> QED
      BY <1>1, <1>4, <2>1, <2>3, <3>1, <3>2 DEF SidesAgree
  <2> QED
    BY <2>2, <2>3
<1> QED
  BY <1>3, <1>4 DEF PartnersAgree

\* Ending trades keeps the register of offered items exact.
LEMMA CloseTradesRegister ==
    ASSUME TypeOK, RegisterIsExact, NEW S \in SUBSET Player, CloseTrades(S)
    PROVE  RegisterIsExact'
<1> DEFINE out == S \cup ({tradePartner[p] : p \in S} \ {NoPlayer})
<1> USE TradeConstants DEF TradeConstants
<1>1. out \subseteq Player
  BY DEF TypeOK
<1>2. ASSUME NEW p \in Player, NEW i \in Item
      PROVE  (tradeItem'[p] = i) <=> (tradeItems'[i] = p)
  <2>1. tradeItem'[p] = IF p \in out THEN NoItem ELSE tradeItem[p]
    BY DEF CloseTrades
  <2>2. tradeItems'[i] = IF \E r \in out : tradeItem[r] = i THEN NoPlayer
                                                          ELSE tradeItems[i]
    BY DEF CloseTrades
  <2>3. \A r \in Player : (tradeItem[r] = i) <=> (tradeItems[i] = r)
    BY DEF RegisterIsExact
  <2> QED
    BY <1>1, <2>1, <2>2, <2>3
<1> QED
  BY <1>2 DEF RegisterIsExact

-----------------------------------------------------------------------------
(* Types.                                                                  *)

LEMMA InitTypeOK == Init => TypeOK
  BY DEF Init, TypeOK, TradeState, Place

LEMMA NextTypeOK == TypeOK /\ [Next]_vars => TypeOK'
<1> SUFFICES ASSUME TypeOK, [Next]_vars PROVE TypeOK'
  OBVIOUS
<1> USE DEF TypeOK
<1>1. ASSUME NEW p \in Player, NEW q \in Player, NEW i \in Item, RequestTrade(p, q, i)
      PROVE  TypeOK'
  BY <1>1 DEF RequestTrade, StartTrade, TradeState
<1>2. ASSUME NEW p \in Player, AcceptFirst(p)
      PROVE  TypeOK'
  BY <1>2 DEF AcceptFirst, TradeState
<1>3. ASSUME NEW p \in Player, AcceptAndSwap(p)
      PROVE  TypeOK'
  <2> DEFINE q == tradePartner[p]
             i == tradeItem[p]
             j == tradeItem[q]
  <2>1. q \in Player /\ i \in Item /\ j \in Item
    BY <1>3 DEF AcceptAndSwap, MayAccept
  <2>2. Destinations(loc, q, i) \subseteq Place
    BY <2>1 DEF Destinations, Place
  <2>3. ASSUME NEW S \in SUBSET Player, CloseTrades(S)
        PROVE  TradeTypeOK'
    BY <2>3, CloseTradesTypes
  <2>4. SpoiltByRemoval(i) \subseteq Player /\ SpoiltByRemoval(j) \subseteq Player
    BY DEF SpoiltByRemoval
  <2>5. touched' = {i, j} /\ online' = online /\ pos' = pos
    BY <1>3 DEF AcceptAndSwap
  <2>6. PICK d \in Destinations(loc, q, i), room \in Destinations(loc, p, j) :
           LET moved == [loc EXCEPT ![i] = d]
               spoilt == {p, q} \cup SpoiltByRemoval(i) IN
           \/ \E e \in Destinations(moved, p, j) :
                 /\ loc' = [moved EXCEPT ![j] = e]
                 /\ CloseTrades(spoilt \cup SpoiltByRemoval(j))
           \/ /\ room \in Inside(i)
              /\ loc' = moved
              /\ CloseTrades(spoilt)
    BY <1>3 DEF AcceptAndSwap
  <2> DEFINE moved == [loc EXCEPT ![i] = d]
             spoilt == {p, q} \cup SpoiltByRemoval(i)
  <2>7. moved \in [Item -> Place]
    BY <2>2
  <2>8. loc' \in [Item -> Place] /\ TradeTypeOK'
    <3>1. CASE \E e \in Destinations(moved, p, j) :
                 /\ loc' = [moved EXCEPT ![j] = e]
                 /\ CloseTrades(spoilt \cup SpoiltByRemoval(j))
      <4>1. PICK e \in Destinations(moved, p, j) :
                 /\ loc' = [moved EXCEPT ![j] = e]
                 /\ CloseTrades(spoilt \cup SpoiltByRemoval(j))
        BY <3>1
      <4>2. e \in Place
        BY DEF Destinations, Place
      <4>3. spoilt \cup SpoiltByRemoval(j) \in SUBSET Player
        BY <2>1, <2>4
      <4> QED
        BY <2>3, <2>7, <4>1, <4>2, <4>3
    <3>2. CASE loc' = moved /\ CloseTrades(spoilt)
      <4>1. spoilt \in SUBSET Player
        BY <2>1, <2>4
      <4> QED
        BY <2>3, <2>7, <3>2, <4>1
    <3> QED
      BY <2>6, <3>1, <3>2
  <2> QED
    BY <2>1, <2>5, <2>8 DEF TradeTypeOK
<1>4. ASSUME NEW p \in Player, AcceptAndFail(p) \/ PlayerCloseTrade(p)
      PROVE  TypeOK'
  <2>1. TradeTypeOK'
    BY <1>4, CloseTradesTypes DEF AcceptAndFail, PlayerCloseTrade
  <2> QED
    BY <1>4, <2>1 DEF AcceptAndFail, PlayerCloseTrade, TradeTypeOK
<1>5. ASSUME NEW p \in Player, Disappear(p)
      PROVE  TypeOK'
  <2>1. TradeTypeOK'
    BY <1>5, CloseTradesTypes DEF Disappear, LeaveTrade, tradeVars, TradeTypeOK
  <2> QED
    BY <1>5, <2>1 DEF Disappear, TradeTypeOK
<1>6. ASSUME NEW p \in Player, NEW x \in Tile, Move(p, x)
      PROVE  TypeOK'
  <2>1. TradeTypeOK'
    BY <1>6, CloseTradesTypes DEF Move, tradeVars, TradeTypeOK
  <2> QED
    BY <1>6, <2>1 DEF Move, TradeTypeOK
<1>7. ASSUME NEW p \in Player, NEW x \in Tile, Appear(p, x)
      PROVE  TypeOK'
  BY <1>7 DEF Appear, tradeVars
<1>8. ASSUME NEW p \in Player, NEW i \in Item, NEW to \in Place, MoveItem(p, i, to)
      PROVE  TypeOK'
  <2>1. SpoiltByRemoval(i) \cup SpoiltByAdding(i, to) \in SUBSET Player
    BY DEF SpoiltByRemoval, SpoiltByAdding
  <2>2. TradeTypeOK'
    BY <1>8, <2>1, CloseTradesTypes DEF MoveItem
  <2> QED
    BY <1>8, <2>2 DEF MoveItem, TradeTypeOK
<1>9. ASSUME NEW i \in Item, UpdateItem(i)
      PROVE  TypeOK'
  <2>1. SpoiltByUpdate(i) \in SUBSET Player
    BY DEF SpoiltByUpdate
  <2>2. TradeTypeOK'
    BY <1>9, <2>1, CloseTradesTypes DEF UpdateItem
  <2> QED
    BY <1>9, <2>2 DEF UpdateItem, TradeTypeOK
<1>10. ASSUME NEW i \in Item, RemoveItem(i)
       PROVE  TypeOK'
  <2>1. SpoiltByRemoval(i) \in SUBSET Player /\ Inside(i) \subseteq Item
    BY DEF SpoiltByRemoval, Inside
  <2>2. TradeTypeOK'
    BY <1>10, <2>1, CloseTradesTypes DEF RemoveItem
  <2> QED
    BY <1>10, <2>1, <2>2 DEF RemoveItem, TradeTypeOK, Place
<1>11. CASE UNCHANGED vars
  BY <1>11 DEF vars, tradeVars
<1> QED
  BY <1>1, <1>2, <1>3, <1>4, <1>5, <1>6, <1>7, <1>8, <1>9, <1>10, <1>11 DEF Next, Dialogue

-----------------------------------------------------------------------------
(* The two sides of a trade.                                               *)

LEMMA InitPartnersAgree == Init => PartnersAgree
  BY TradeConstants DEF TradeConstants, Init, PartnersAgree, SidesAgree

LEMMA NextPartnersAgree == TypeOK /\ PartnersAgree /\ [Next]_vars => PartnersAgree'
<1> SUFFICES ASSUME TypeOK, PartnersAgree, [Next]_vars PROVE PartnersAgree'
  OBVIOUS
<1> USE TradeConstants DEF TradeConstants
<1>1. ASSUME NEW p \in Player, NEW q \in Player, NEW i \in Item, RequestTrade(p, q, i)
      PROVE  PartnersAgree'
  <2>1. ASSUME NEW r \in Player, r # p, r # q
        PROVE  SidesAgree(r)'
    <3>1. tradePartner[r] # p /\ tradePartner[r] # q
      BY <1>1, <2>1 DEF RequestTrade, StartTrade, PlayerFree, PartnerFree,
                        PartnersAgree, SidesAgree
    <3> QED
      BY <1>1, <2>1, <3>1
         DEF RequestTrade, StartTrade, TypeOK, PartnersAgree, SidesAgree
  <2>2. SidesAgree(p)' /\ SidesAgree(q)'
    BY <1>1 DEF RequestTrade, StartTrade, PlayerFree, PartnerFree, TypeOK,
                PartnersAgree, SidesAgree
  <2> QED
    BY <2>1, <2>2 DEF PartnersAgree
<1>2. ASSUME NEW p \in Player, AcceptFirst(p)
      PROVE  PartnersAgree'
  BY <1>2 DEF AcceptFirst, MayAccept, TypeOK, PartnersAgree, SidesAgree
<1>3. ASSUME NEW p \in Player, AcceptAndSwap(p)
      PROVE  PartnersAgree'
  <2> DEFINE q == tradePartner[p]
             i == tradeItem[p]
             j == tradeItem[q]
  <2>1. q \in Player
    BY <1>3 DEF AcceptAndSwap, MayAccept, TypeOK
  <2>2. /\ {p, q} \cup SpoiltByRemoval(i) \in SUBSET Player
        /\ {p, q} \cup SpoiltByRemoval(i) \cup SpoiltByRemoval(j) \in SUBSET Player
    BY <2>1 DEF SpoiltByRemoval
  <2>3. online' = online
    BY <1>3 DEF AcceptAndSwap
  <2>4. \/ CloseTrades({p, q} \cup SpoiltByRemoval(i))
        \/ CloseTrades({p, q} \cup SpoiltByRemoval(i) \cup SpoiltByRemoval(j))
    BY <1>3 DEF AcceptAndSwap
  <2> QED
    BY <2>2, <2>3, <2>4, CloseTradesAgree
<1>4. ASSUME NEW p \in Player, AcceptAndFail(p) \/ PlayerCloseTrade(p)
      PROVE  PartnersAgree'
  BY <1>4, CloseTradesAgree DEF AcceptAndFail, PlayerCloseTrade
<1>5. ASSUME NEW p \in Player, Disappear(p)
      PROVE  PartnersAgree'
  <2>1. CASE tradePartner[p] = NoPlayer
    BY <1>5, <2>1 DEF Disappear, LeaveTrade, tradeVars, TypeOK, PartnersAgree, SidesAgree
  <2>2. CASE tradePartner[p] # NoPlayer
    BY <1>5, <2>2, CloseTradesAgree DEF Disappear, LeaveTrade
  <2> QED
    BY <2>1, <2>2
<1>6. ASSUME NEW p \in Player, NEW x \in Tile, Move(p, x)
      PROVE  PartnersAgree'
  <2>1. CASE TooFar(p, x)
    BY <1>6, <2>1, CloseTradesAgree DEF Move
  <2>2. CASE ~TooFar(p, x)
    BY <1>6, <2>2 DEF Move, tradeVars, PartnersAgree, SidesAgree
  <2> QED
    BY <2>1, <2>2
<1>7. ASSUME NEW p \in Player, NEW x \in Tile, Appear(p, x)
      PROVE  PartnersAgree'
  BY <1>7 DEF Appear, tradeVars, PartnersAgree, SidesAgree
<1>8. ASSUME NEW p \in Player, NEW i \in Item, NEW to \in Place, MoveItem(p, i, to)
      PROVE  PartnersAgree'
  <2>1. SpoiltByRemoval(i) \cup SpoiltByAdding(i, to) \in SUBSET Player
    BY DEF SpoiltByRemoval, SpoiltByAdding, TypeOK
  <2> QED
    BY <1>8, <2>1, CloseTradesAgree DEF MoveItem
<1>9. ASSUME NEW i \in Item, UpdateItem(i)
      PROVE  PartnersAgree'
  <2>1. SpoiltByUpdate(i) \in SUBSET Player
    BY DEF SpoiltByUpdate
  <2> QED
    BY <1>9, <2>1, CloseTradesAgree DEF UpdateItem
<1>10. ASSUME NEW i \in Item, RemoveItem(i)
       PROVE  PartnersAgree'
  <2>1. SpoiltByRemoval(i) \in SUBSET Player
    BY DEF SpoiltByRemoval
  <2> QED
    BY <1>10, <2>1, CloseTradesAgree DEF RemoveItem
<1>11. CASE UNCHANGED vars
  BY <1>11 DEF vars, tradeVars, PartnersAgree, SidesAgree
<1> QED
  BY <1>1, <1>2, <1>3, <1>4, <1>5, <1>6, <1>7, <1>8, <1>9, <1>10, <1>11 DEF Next, Dialogue

-----------------------------------------------------------------------------
(* The register of offered items.                                          *)

LEMMA InitRegisterIsExact == Init => RegisterIsExact
  BY TradeConstants DEF TradeConstants, Init, RegisterIsExact

LEMMA NextRegisterIsExact ==
    TypeOK /\ PartnersAgree /\ RegisterIsExact /\ [Next]_vars => RegisterIsExact'
<1> SUFFICES ASSUME TypeOK, PartnersAgree, RegisterIsExact, [Next]_vars
             PROVE  RegisterIsExact'
  OBVIOUS
<1> USE TradeConstants DEF TradeConstants
<1>1. ASSUME NEW p \in Player, NEW q \in Player, NEW i \in Item, RequestTrade(p, q, i)
      PROVE  RegisterIsExact'
  <2>1. tradeItem[p] = NoItem
    BY <1>1 DEF RequestTrade, StartTrade, PlayerFree, TypeOK, PartnersAgree, SidesAgree
  <2>2. tradeItems[i] = NoPlayer
    BY <1>1 DEF RequestTrade, AlreadyTraded
  <2>3. /\ tradeItem' = [tradeItem EXCEPT ![p] = i]
        /\ tradeItems' = [tradeItems EXCEPT ![i] = p]
    BY <1>1 DEF RequestTrade, StartTrade
  <2> QED
    BY <2>1, <2>2, <2>3 DEF TypeOK, RegisterIsExact
<1>2. ASSUME NEW S \in SUBSET Player, CloseTrades(S)
      PROVE  RegisterIsExact'
  BY <1>2, CloseTradesRegister
<1>3. ASSUME NEW p \in Player, AcceptFirst(p)
      PROVE  RegisterIsExact'
  BY <1>3 DEF AcceptFirst, RegisterIsExact
<1>4. ASSUME NEW p \in Player, AcceptAndSwap(p)
      PROVE  RegisterIsExact'
  <2> DEFINE q == tradePartner[p]
             i == tradeItem[p]
             j == tradeItem[q]
  <2>1. q \in Player
    BY <1>4 DEF AcceptAndSwap, MayAccept, TypeOK
  <2>2. /\ {p, q} \cup SpoiltByRemoval(i) \in SUBSET Player
        /\ {p, q} \cup SpoiltByRemoval(i) \cup SpoiltByRemoval(j) \in SUBSET Player
    BY <2>1 DEF SpoiltByRemoval
  <2>3. \/ CloseTrades({p, q} \cup SpoiltByRemoval(i))
        \/ CloseTrades({p, q} \cup SpoiltByRemoval(i) \cup SpoiltByRemoval(j))
    BY <1>4 DEF AcceptAndSwap
  <2> QED
    BY <1>2, <2>2, <2>3
<1>5. ASSUME NEW p \in Player,
             AcceptAndFail(p) \/ PlayerCloseTrade(p) \/ Disappear(p)
      PROVE  RegisterIsExact'
  <2>1. CloseTrades({p}) \/ UNCHANGED tradeVars
    BY <1>5 DEF AcceptAndFail, PlayerCloseTrade, Disappear, LeaveTrade
  <2> QED
    BY <1>2, <2>1 DEF tradeVars, RegisterIsExact
<1>6. ASSUME NEW p \in Player, NEW x \in Tile, Move(p, x) \/ Appear(p, x)
      PROVE  RegisterIsExact'
  <2>1. CloseTrades({p}) \/ UNCHANGED tradeVars
    BY <1>6 DEF Move, Appear
  <2> QED
    BY <1>2, <2>1 DEF tradeVars, RegisterIsExact
<1>7. ASSUME NEW p \in Player, NEW i \in Item, NEW to \in Place, MoveItem(p, i, to)
      PROVE  RegisterIsExact'
  <2>1. SpoiltByRemoval(i) \cup SpoiltByAdding(i, to) \in SUBSET Player
    BY DEF SpoiltByRemoval, SpoiltByAdding, TypeOK
  <2> QED
    BY <1>2, <1>7, <2>1 DEF MoveItem
<1>8. ASSUME NEW i \in Item, UpdateItem(i) \/ RemoveItem(i)
      PROVE  RegisterIsExact'
  <2>1. SpoiltByUpdate(i) \in SUBSET Player /\ SpoiltByRemoval(i) \in SUBSET Player
    BY DEF SpoiltByUpdate, SpoiltByRemoval
  <2> QED
    BY <1>2, <1>8, <2>1 DEF UpdateItem, RemoveItem
<1>9. CASE UNCHANGED vars
  BY <1>9 DEF vars, tradeVars, RegisterIsExact
<1> QED
  BY <1>1, <1>3, <1>4, <1>5, <1>6, <1>7, <1>8, <1>9 DEF Next, Dialogue

-----------------------------------------------------------------------------
(* The theorems.                                                           *)

\* Every handler of the trade dialogue and every hook keeps the fields of a
\* trade in their types; in particular TRADE_TRANSFER never outlives the
\* handler that sets it.
THEOREM TradeTypes == Spec => []TypeOK
<1>1. Init => TypeOK
  BY InitTypeOK
<1>2. TypeOK /\ [Next]_vars => TypeOK'
  BY NextTypeOK
<1> QED
  BY <1>1, <1>2, PTL DEF Spec

\* Whatever players request, accept, cancel, walk, log out or do to the items
\* on offer, the two sides of a trade name each other, are both in the game
\* and are in states that fit (internalStartTrade, playerAcceptTrade,
\* internalCloseTrade and the hooks that call it).
THEOREM PartnersAlwaysAgree == Spec => []PartnersAgree
<1>1. Init => PartnersAgree
  BY InitPartnersAgree
<1>2. TypeOK /\ PartnersAgree /\ [Next]_vars => PartnersAgree'
  BY NextPartnersAgree
<1> QED
  BY <1>1, <1>2, TradeTypes, PTL DEF Spec

\* The register that answers "already being traded" never disagrees with the
\* players' own fields: no entry outlives its trade and none is missing.
THEOREM RegisterIsAlwaysExact == Spec => []RegisterIsExact
<1>1. Init => RegisterIsExact
  BY InitRegisterIsExact
<1>2. TypeOK /\ PartnersAgree /\ RegisterIsExact /\ [Next]_vars => RegisterIsExact'
  BY NextRegisterIsExact
<1> QED
  BY <1>1, <1>2, TradeTypes, PartnersAlwaysAgree, PTL DEF Spec

-----------------------------------------------------------------------------
(* Moving a thing.                                                         *)

Moved(l, i, to) == [l EXCEPT ![i] = to]

\* Nothing is put into itself.
MayGo(l, i, to) == to # i /\ (to \in Container => i \notin Around(l, to))

\* A move changes one entry.
LEMMA MovedType ==
    ASSUME NEW l \in [Item -> Place], NEW i \in Item, NEW to \in Place
    PROVE  /\ Moved(l, i, to) \in [Item -> Place]
           /\ Moved(l, i, to)[i] = to
           /\ \A j \in Item : j # i => Moved(l, i, to)[j] = l[j]
BY DEF Moved

\* Nothing changes around what is not in i.
LEMMA AroundOthers ==
    ASSUME NEW l \in [Item -> Place], NEW i \in Item, NEW to \in Place, NEW j \in Item,
           j # i, i \notin Around(l, j)
    PROVE  Around(Moved(l, i, to), j) = Around(l, j)
<1> DEFINE m == Moved(l, i, to)
<1>1. \A c \in {j} \cup Around(l, j) : m[c] = l[c] /\ c \in Item
  BY AroundIsClosed, MovedType, TradeConstants DEF TradeConstants
<1> HIDE DEF m
<1>2. ClosedFrom(m, Around(l, j), j)
  BY <1>1, AroundIsClosed DEF ClosedFrom
<1>3. Around(m, j) \subseteq Around(l, j)
  BY <1>2, AroundIsLeast, AroundIsClosed
<1>4. ClosedFrom(l, Around(m, j), j)
  BY <1>1, <1>3, AroundIsClosed DEF ClosedFrom
<1>5. Around(l, j) \subseteq Around(m, j)
  BY <1>4, AroundIsLeast, AroundIsClosed
<1> QED BY <1>3, <1>5 DEF m

\* What is in i stays there.
LEMMA AroundInside ==
    ASSUME NEW l \in [Item -> Place], NEW i \in Item, NEW to \in Place, NEW j \in Item, j # i
    PROVE  i \in Around(Moved(l, i, to), j) <=> i \in Around(l, j)
<1> DEFINE m == Moved(l, i, to)
<1>1. i \notin Around(l, j) => i \notin Around(m, j)
  BY AroundOthers
<1>2. m \in [Item -> Place] /\ l[i] \in Place
  BY MovedType
<1>3. Moved(m, i, l[i]) = l
  BY DEF Moved
<1> HIDE DEF m
<1>4. i \notin Around(m, j) => i \notin Around(l, j)
  BY <1>2, <1>3, AroundOthers
<1> QED BY <1>1, <1>4 DEF m

\* What is around the new place is as it was.
LEMMA AroundTarget ==
    ASSUME NEW l \in [Item -> Place], NEW i \in Item, NEW to \in Place, MayGo(l, i, to)
    PROVE  Around(Moved(l, i, to), i)
              = IF to \in Container THEN {to} \cup Around(l, to) ELSE {}
<1>1. Around(Moved(l, i, to), i)
         = IF to \in Container THEN {to} \cup Around(Moved(l, i, to), to) ELSE {}
  BY AroundUnfolds, MovedType
<1>2. to \in Container => Around(Moved(l, i, to), to) = Around(l, to)
  BY AroundOthers, TradeConstants DEF MayGo, TradeConstants
<1> QED BY <1>1, <1>2

\* A legal move leaves no container in itself.
LEMMA MovedGrounded ==
    ASSUME NEW l \in [Item -> Place], Grounded(l), NEW i \in Item, NEW to \in Place,
           MayGo(l, i, to)
    PROVE  Grounded(Moved(l, i, to))
<1> DEFINE m == Moved(l, i, to)
<1> SUFFICES ASSUME NEW S \in SUBSET Container, S # {}
             PROVE  \E c \in S : m[c] \notin S
  BY DEF Grounded
<1>1. \A c \in S : c \in Item /\ (c # i => m[c] = l[c])
  BY MovedType, TradeConstants DEF TradeConstants
<1>2. m[i] = to
  BY MovedType
<1> HIDE DEF m
<1>3. CASE i \notin S
  BY <1>1, <1>3 DEF Grounded
<1>4. CASE i \in S /\ to \notin S
  BY <1>2, <1>4
<1>5. CASE i \in S /\ to \in S
  <2> DEFINE U == S \cap ({to} \cup Around(l, to))
  <2>1. U \in SUBSET Container /\ to \in U /\ i \notin U
    BY <1>5 DEF MayGo
  <2>2. PICK c \in U : l[c] \notin U
    BY <2>1 DEF Grounded
  <2>3. l[c] \in S => l[c] \in U
    BY <2>2, AroundIsClosed DEF ClosedFrom
  <2> QED BY <1>1, <2>1, <2>2, <2>3
<1> QED BY <1>3, <1>4, <1>5

\* A thing that moves takes along what is in it, and nothing else.
LEMMA TopMoved ==
    ASSUME NEW l \in [Item -> Place], Grounded(l), NEW i \in Item, NEW to \in Place,
           MayGo(l, i, to), NEW j \in Item
    PROVE  TopOf(Moved(l, i, to), j) =
              IF j = i \/ i \in Around(l, j)
              THEN IF to \in Container THEN TopOf(l, to) ELSE to
              ELSE TopOf(l, j)
<1> DEFINE m == Moved(l, i, to)
           target == IF to \in Container THEN TopOf(l, to) ELSE to
<1>1. Grounded(m)
  BY MovedGrounded
<1>2. ASSUME NEW k \in Item, k # i, i \notin Around(l, k)
      PROVE  TopOf(m, k) = TopOf(l, k)
  <2>1. Around(m, k) = Around(l, k)
    BY <1>2, AroundOthers
  <2>2. \A c \in {k} \cup Around(l, k) : m[c] = l[c]
    <3>1. \A c \in {k} \cup Around(l, k) : c \in Item /\ c # i
      BY <1>2, AroundIsClosed, TradeConstants DEF TradeConstants
    <3>2. \A c \in Item : c # i => m[c] = l[c]
      BY MovedType
    <3> HIDE DEF m
    <3> QED BY <3>1, <3>2
  <2> HIDE DEF m
  <2>3. PICK a \in {k} \cup Around(l, k) : m[a] \notin Container /\ TopOf(m, k) = m[a]
    BY <1>1, <2>1, TopIsThere
  <2>4. PICK b \in {k} \cup Around(l, k) : l[b] \notin Container /\ TopOf(l, k) = l[b]
    BY TopIsThere
  <2>5. a = b
    BY <2>2, <2>3, <2>4, TopIsUnique
  <2> QED BY <2>2, <2>3, <2>4, <2>5
<1>3. TopOf(m, i) = target
  <2>1. TopOf(m, i) = IF to \in Container THEN TopOf(m, to) ELSE to
    BY <1>1, TopUnfolds, MovedType
  <2>2. to \in Container => TopOf(m, to) = TopOf(l, to)
    BY <1>2, TradeConstants DEF MayGo, TradeConstants
  <2> QED BY <2>1, <2>2
<1>4. ASSUME j # i, i \in Around(l, j)
      PROVE  TopOf(m, j) = target
  <2>1. i \in Around(m, j)
    BY <1>4, AroundInside
  <2> QED BY <1>1, <1>3, <2>1, TopOfAround
<1> QED BY <1>2, <1>3, <1>4

\* A thing that neither moves nor holds, lies with or gets what moves
Unhurt(l, k, i, to) ==
    /\ k # i /\ i \notin Around(l, k) /\ k \notin Around(l, i)
    /\ to \in Container => k # to /\ k \notin Around(l, to)

\* What is unhurt keeps what is around it, what is in it and its top.
LEMMA UnhurtIsTheSame ==
    ASSUME NEW l \in [Item -> Place], Grounded(l), NEW i \in Item, NEW to \in Place,
           MayGo(l, i, to), NEW k \in Item, Unhurt(l, k, i, to)
    PROVE  /\ Around(Moved(l, i, to), k) = Around(l, k)
           /\ TopOf(Moved(l, i, to), k) = TopOf(l, k)
           /\ \A j \in Item : k \in Around(Moved(l, i, to), j) <=> k \in Around(l, j)
<1> DEFINE m == Moved(l, i, to)
<1>1. Around(m, k) = Around(l, k) /\ TopOf(m, k) = TopOf(l, k)
  BY AroundOthers, TopMoved DEF Unhurt
<1>2. ASSUME NEW j \in Item
      PROVE  k \in Around(m, j) <=> k \in Around(l, j)
  <2>1. CASE j # i /\ i \notin Around(l, j)
    BY <2>1, AroundOthers
  <2>2. CASE j = i \/ i \in Around(l, j)
    <3>1. k \notin Around(l, j)
      BY <2>2, AroundIsAChain DEF Unhurt
    <3>2. i \in {j} \cup Around(m, j)
      BY <2>2, AroundInside
    <3>3. i \notin Around(m, k) /\ k # i
      BY <1>1 DEF Unhurt
    <3>4. k \notin Around(m, i)
      BY AroundTarget DEF Unhurt
    <3> HIDE DEF m
    <3>5. k \notin Around(m, j)
      BY <3>2, <3>3, <3>4, AroundIsAChain
    <3> QED BY <3>1, <3>5
  <2> QED BY <2>1, <2>2
<1> QED BY <1>1, <1>2

-----------------------------------------------------------------------------
(* What the hooks hear.                                                    *)

\* No offer lies inside another.
OffersApart ==
    \A i, j \in Item : tradeItems[i] # NoPlayer /\ tradeItems[j] # NoPlayer => i \notin Inside(j)

Base == TypeOK /\ PartnersAgree /\ RegisterIsExact
Inv == Base /\ Grounded(loc) /\ OfferInReach /\ OffersApart

\* A player is within two tiles of what lies where a thing in his reach lies.
LEMMA NearWhatIsInReach ==
    ASSUME TypeOK, NEW r \in Player, NEW k \in Item, InReach(r, k), NEW c, Top(c) = Top(k)
    PROVE  /\ Top(k) = r \/ Top(k) \in Tile
           /\ InRange(pos[r], PosOf(c), 2)
<1>1. pos[r] \in Int
  BY TradeConstants DEF TypeOK, TradeConstants
<1>2. CASE Top(k) = r
  BY <1>1, <1>2 DEF PosOf, InRange
<1>3. CASE Top(k) \in Tile /\ InRange(Top(k), pos[r], 1)
  <2>1. Top(k) \in Int /\ PosOf(c) = Top(k)
    BY <1>3, TradeConstants DEF TradeConstants, PosOf
  <2> QED BY <1>1, <1>3, <2>1 DEF InRange
<1> QED BY <1>2, <1>3 DEF InReach

\* He hears of what happens to it, around it and in it.
LEMMA HearsOfTheOffer ==
    ASSUME TypeOK, Grounded(loc), NEW r \in online, NEW k \in Item, InReach(r, k), NEW i \in Item,
           k = i \/ k \in Around(loc, i) \/ i \in Around(loc, k)
    PROVE  Hears(r, i)
<1>1. r \in Player
  BY DEF TypeOK
<1>2. Top(i) = Top(k)
  BY TopOfAround DEF Top
<1>3. CASE loc[i] \in Container
  <2>1. Top(loc[i]) = Top(k)
    BY <1>2, <1>3, TopUnfolds DEF Top
  <2> QED BY <1>1, <1>3, <2>1, NearWhatIsInReach DEF Hears
<1>4. CASE loc[i] \notin Container
  <2>1. loc[i] = Top(k)
    BY <1>2, <1>4, TopUnfolds DEF Top
  <2> QED BY <1>1, <2>1, NearWhatIsInReach DEF Hears
<1> QED BY <1>3, <1>4

\* Who offers is in the game, with his offer in reach.
LEMMA OffererIsThere ==
    ASSUME Inv, NEW r \in Player, tradeItem[r] # NoItem
    PROVE  tradeItem[r] \in Item /\ r \in online /\ InReach(r, tradeItem[r])
BY DEF Inv, Base, TypeOK, PartnersAgree, SidesAgree, OfferInReach

\* An offer that the removal of i does not spoil is not i, not in it and not around it.
LEMMA RemovalSpares ==
    ASSUME Inv, NEW r \in Player, tradeItem[r] # NoItem, NEW i \in Item, r \notin SpoiltByRemoval(i)
    PROVE  /\ tradeItem[r] # i /\ i \notin Around(loc, tradeItem[r])
           /\ tradeItem[r] \notin Around(loc, i)
<1> DEFINE k == tradeItem[r]
<1>1. k \in Item /\ r \in online /\ InReach(r, k) /\ TypeOK /\ Grounded(loc)
  BY OffererIsThere DEF Inv, Base
<1>2. ~(Hears(r, i) /\ (Offered(r, i) \/ LeavesWith(r, i)))
  BY DEF SpoiltByRemoval
<1>3. k = i \/ k \in Around(loc, i) => Offered(r, i)
  BY <1>1 DEF Offered, Inside
<1>4. ASSUME i \in Around(loc, k)
      PROVE  LeavesWith(r, i)
  <2>1. CASE loc[i] \in Container
    <3>1. loc[i] \in Around(loc, i) /\ loc[i] \in Around(loc, k)
      BY <1>4, <2>1, AroundUnfolds, AroundIsTransitive
    <3>2. ASSUME loc[k] = loc[i]
          PROVE  FALSE
      <4>1. i \in {loc[i]} \cup Around(loc, loc[i])
        BY <1>4, <3>2, AroundUnfolds
      <4>2. i \in Around(loc, i)
        BY <2>1, <4>1, AroundUnfolds
      <4> QED BY <1>1, <4>2, NothingAroundItself
    <3> QED BY <1>1, <2>1, <3>1, <3>2 DEF LeavesWith, Inside
  <2>2. CASE loc[i] \notin Container
    BY <1>1, <1>4, <2>2 DEF LeavesWith, Inside
  <2> QED BY <2>1, <2>2
<1>5. k = i \/ k \in Around(loc, i) \/ i \in Around(loc, k) => Hears(r, i)
  BY <1>1, HearsOfTheOffer
<1> QED BY <1>2, <1>3, <1>4, <1>5

\* An offer that an addition does not spoil is not what something is put into.
LEMMA AddingSpares ==
    ASSUME Inv, NEW r \in Player, tradeItem[r] # NoItem, NEW i, NEW to \in Container,
           r \notin SpoiltByAdding(i, to)
    PROVE  tradeItem[r] # to /\ tradeItem[r] \notin Around(loc, to)
<1> DEFINE k == tradeItem[r]
<1>1. k \in Item /\ r \in online /\ InReach(r, k) /\ TypeOK /\ Grounded(loc)
  BY OffererIsThere DEF Inv, Base
<1>2. to \in Item
  BY TradeConstants DEF TradeConstants
<1>3. ASSUME k = to \/ k \in Around(loc, to)
      PROVE  r \in SpoiltByAdding(i, to)
  <2>1. Top(to) = Top(k)
    BY <1>1, <1>3, TopOfAround DEF Top
  <2>2. InRange(pos[r], PosOf(to), 2)
    BY <1>1, <2>1, NearWhatIsInReach
  <2>3. to = k \/ to \in Inside(k)
    BY <1>2, <1>3 DEF Inside
  <2> QED BY <1>1, <2>2, <2>3 DEF SpoiltByAdding
<1> QED BY <1>3

\* An offer that an update does not spoil is not i and does not hold it.
LEMMA UpdateSpares ==
    ASSUME Inv, NEW r \in Player, tradeItem[r] # NoItem, NEW i \in Item, r \notin SpoiltByUpdate(i)
    PROVE  tradeItem[r] # i /\ i \notin Inside(tradeItem[r])
<1> DEFINE k == tradeItem[r]
<1>1. k \in Item /\ r \in online /\ InReach(r, k) /\ TypeOK /\ Grounded(loc)
  BY OffererIsThere DEF Inv, Base
<1>2. k = i \/ i \in Inside(k) => Offered(r, i)
  BY <1>1 DEF Offered
<1>3. k = i \/ i \in Inside(k) => Hears(r, i)
  BY <1>1, HearsOfTheOffer DEF Inside
<1> QED BY <1>2, <1>3 DEF SpoiltByUpdate

\* What trades are left when some are called off
LEMMA CloseTradesForgets ==
    ASSUME TypeOK, NEW S \in SUBSET Player, CloseTrades(S), NEW r \in Player
    PROVE  /\ tradeItem'[r] # NoItem => tradeItem'[r] = tradeItem[r] /\ r \notin S
           /\ tradePartner'[r] # NoPlayer => tradePartner'[r] = tradePartner[r] /\ r \notin S
BY DEF CloseTrades

-----------------------------------------------------------------------------
(* What a step does to what stays on offer.                                *)

\* A step leaves k where it is, with what is in it, and touches nothing of it.
Spares(k) ==
    /\ TopOf(loc', k) = Top(k)
    /\ \A j \in Item : k \in Around(loc', j) <=> k \in Around(loc, j)
    /\ touched' \cap ({k} \cup Inside(k)) = {}

OffersSpared ==
    \A r \in Player : tradeItem'[r] # NoItem /\ tradeItem'[r] = tradeItem[r] => Spares(tradeItem[r])

\* Every offer is spared where nothing moves ...
LEMMA RestSpares ==
    ASSUME loc' = loc, touched' = {}
    PROVE  OffersSpared
BY DEF OffersSpared, Spares, Top

\* ... and by a move that leaves it unhurt.
LEMMA MovedSpares ==
    ASSUME Inv, NEW i \in Item, NEW to \in Place, MayGo(loc, i, to), loc' = Moved(loc, i, to),
           NEW k \in Item, Unhurt(loc, k, i, to), touched' \subseteq {i} \cup Inside(i)
    PROVE  Spares(k)
<1>1. loc \in [Item -> Place] /\ Grounded(loc)
  BY DEF Inv, Base, TypeOK
<1>2. \A x : x \in {i} \cup Inside(i) => x \notin {k} \cup Inside(k)
  BY AroundIsAChain DEF Unhurt, Inside
<1>3. touched' \cap ({k} \cup Inside(k)) = {}
  BY <1>2
<1>4. Top(k) = TopOf(loc, k)
  BY DEF Top
<1> QED BY <1>1, <1>3, <1>4, UnhurtIsTheSame DEF Spares

\* The trades that MoveItem leaves open have offers it spares.
LEMMA MoveItemSpares ==
    ASSUME Inv, NEW p \in Player, NEW i \in Item, NEW to \in Place, MoveItem(p, i, to)
    PROVE  /\ MayGo(loc, i, to) /\ loc' = Moved(loc, i, to)
           /\ OffersSpared
<1>1. TypeOK /\ i \notin Player /\ i \notin Tile /\ Container \subseteq Item
      /\ Player \cap Container = {} /\ Tile \cap Container = {}
  BY TradeConstants DEF Inv, Base, TradeConstants
<1>2. MayGo(loc, i, to)
  BY <1>1 DEF MoveItem, MayGo, Inside
<1>3. loc' = Moved(loc, i, to) /\ touched' = {i}
  BY DEF MoveItem, Moved
<1>4. ASSUME NEW r \in Player, tradeItem'[r] # NoItem, tradeItem'[r] = tradeItem[r]
      PROVE  Spares(tradeItem[r])
  <2>1. SpoiltByRemoval(i) \cup SpoiltByAdding(i, to) \in SUBSET Player
    BY <1>1 DEF SpoiltByRemoval, SpoiltByAdding, TypeOK
  <2>2. r \notin SpoiltByRemoval(i) /\ r \notin SpoiltByAdding(i, to)
    BY <1>1, <1>4, <2>1, CloseTradesForgets DEF MoveItem
  <2>3. tradeItem[r] \in Item
    BY <1>4, OffererIsThere
  <2>4. Unhurt(loc, tradeItem[r], i, to)
    BY <1>4, <2>2, RemovalSpares, AddingSpares DEF Unhurt
  <2> QED BY <1>2, <1>3, <2>3, <2>4, MovedSpares
<1> QED BY <1>2, <1>3, <1>4 DEF OffersSpared

\* The same of RemoveItem ...
LEMMA RemoveItemSpares ==
    ASSUME Inv, NEW i \in Item, RemoveItem(i)
    PROVE  /\ MayGo(loc, i, Gone) /\ loc' = Moved(loc, i, Gone)
           /\ OffersSpared
<1>1. TypeOK /\ Gone \notin Container /\ Gone # i /\ Gone \in Place
  BY TradeConstants DEF Inv, Base, TradeConstants, Place
<1>2. MayGo(loc, i, Gone)
  BY <1>1 DEF MayGo
<1>3. loc' = Moved(loc, i, Gone) /\ touched' = {i} \cup Inside(i)
  BY DEF RemoveItem, Moved
<1>4. ASSUME NEW r \in Player, tradeItem'[r] # NoItem, tradeItem'[r] = tradeItem[r]
      PROVE  Spares(tradeItem[r])
  <2>1. SpoiltByRemoval(i) \in SUBSET Player
    BY DEF SpoiltByRemoval
  <2>2. r \notin SpoiltByRemoval(i)
    BY <1>1, <1>4, <2>1, CloseTradesForgets DEF RemoveItem
  <2>3. tradeItem[r] \in Item
    BY <1>4, OffererIsThere
  <2>4. Unhurt(loc, tradeItem[r], i, Gone)
    BY <1>1, <1>4, <2>2, RemovalSpares DEF Unhurt
  <2> QED BY <1>1, <1>2, <1>3, <2>3, <2>4, MovedSpares
<1> QED BY <1>2, <1>3, <1>4 DEF OffersSpared

\* ... and of UpdateItem.
LEMMA UpdateItemSpares ==
    ASSUME Inv, NEW i \in Item, UpdateItem(i)
    PROVE  OffersSpared
<1>1. TypeOK /\ SpoiltByUpdate(i) \in SUBSET Player
  BY DEF Inv, Base, SpoiltByUpdate
<1>2. ASSUME NEW r \in Player, tradeItem'[r] # NoItem, tradeItem'[r] = tradeItem[r]
      PROVE  Spares(tradeItem[r])
  <2>1. r \notin SpoiltByUpdate(i)
    BY <1>1, <1>2, CloseTradesForgets DEF UpdateItem
  <2>2. tradeItem[r] # i /\ i \notin Inside(tradeItem[r])
    BY <1>2, <2>1, UpdateSpares
  <2> QED BY <2>2 DEF UpdateItem, Spares, Top
<1> QED BY <1>2 DEF OffersSpared

\* A swap, move by move: target and second are the places the two things get.
LEMMA SwapMoves ==
    ASSUME Inv, NEW p \in Player, AcceptAndSwap(p)
    PROVE  LET q == tradePartner[p]
               i == tradeItem[p]
               j == tradeItem[q] IN
           /\ q \in Player /\ q # p /\ i \in Item /\ j \in Item /\ i # j
           /\ touched' = {i, j} /\ pos' = pos /\ online' = online
           /\ \E d \in Place :
                 /\ MayGo(loc, i, d)
                 /\ d = q \/ (d \in Container /\ Top(d) = q)
                 /\ d # j
                 /\ \/ \E e \in Place :
                          /\ MayGo(Moved(loc, i, d), j, e)
                          /\ e = p \/ (e \in Container /\ TopOf(Moved(loc, i, d), e) = p)
                          /\ loc' = Moved(Moved(loc, i, d), j, e)
                          /\ CloseTrades({p, q} \cup SpoiltByRemoval(i) \cup SpoiltByRemoval(j))
                    \/ /\ \E room \in Destinations(loc, p, j) : room \in Inside(i)
                       /\ loc' = Moved(loc, i, d)
                       /\ CloseTrades({p, q} \cup SpoiltByRemoval(i))
<1> DEFINE q == tradePartner[p]
           i == tradeItem[p]
           j == tradeItem[q]
<1>1. q \in Player /\ q # p /\ i \in Item /\ j \in Item
  BY DEF AcceptAndSwap, MayAccept, Inv, Base, TypeOK, PartnersAgree, SidesAgree
<1>2. i # j
  BY <1>1 DEF Inv, Base, RegisterIsExact
<1>3. touched' = {i, j} /\ pos' = pos /\ online' = online
  BY DEF AcceptAndSwap
<1>4. PICK d \in Destinations(loc, q, i), room \in Destinations(loc, p, j) :
           LET moved == [loc EXCEPT ![i] = d]
               spoilt == {p, q} \cup SpoiltByRemoval(i) IN
           \/ \E e \in Destinations(moved, p, j) :
                 /\ loc' = [moved EXCEPT ![j] = e]
                 /\ CloseTrades(spoilt \cup SpoiltByRemoval(j))
           \/ /\ room \in Inside(i)
              /\ loc' = moved
              /\ CloseTrades(spoilt)
  BY DEF AcceptAndSwap
<1>5. ASSUME NEW l, NEW a \in Player, NEW x \in Item, NEW y \in Destinations(l, a, x)
      PROVE  /\ y \in Place /\ MayGo(l, x, y)
             /\ y = a \/ (y \in Container /\ TopOf(l, y) = a)
  BY <1>5, TradeConstants DEF TradeConstants, Destinations, Place, MayGo
<1>6. d \in Place /\ MayGo(loc, i, d) /\ (d = q \/ (d \in Container /\ Top(d) = q)) /\ d # j
  <2>1. d # j
    BY <1>1, TradeConstants DEF Destinations, TradeConstants
  <2> QED BY <1>1, <1>5, <2>1 DEF Top
<1>7. CASE \E e \in Destinations(Moved(loc, i, d), p, j) :
                 /\ loc' = Moved(Moved(loc, i, d), j, e)
                 /\ CloseTrades({p, q} \cup SpoiltByRemoval(i) \cup SpoiltByRemoval(j))
  BY <1>1, <1>2, <1>3, <1>5, <1>6, <1>7
<1>8. CASE /\ room \in Inside(i) /\ loc' = Moved(loc, i, d)
           /\ CloseTrades({p, q} \cup SpoiltByRemoval(i))
  BY <1>1, <1>2, <1>3, <1>6, <1>8
<1> QED BY <1>4, <1>7, <1>8 DEF Moved

\* A swap moves what the two sides offer, and no third offer is near either.
LEMMA SwapSpares ==
    ASSUME Inv, NEW p \in Player, AcceptAndSwap(p)
    PROVE  Grounded(loc') /\ OffersSpared
<1> DEFINE q == tradePartner[p]
           i == tradeItem[p]
           j == tradeItem[q]
<1>1. /\ q \in Player /\ q # p /\ i \in Item /\ j \in Item /\ i # j
      /\ touched' = {i, j}
  BY SwapMoves
<1>2. PICK d \in Place :
         /\ MayGo(loc, i, d)
         /\ d = q \/ (d \in Container /\ Top(d) = q)
         /\ \/ \E e \in Place :
                  /\ MayGo(Moved(loc, i, d), j, e)
                  /\ e = p \/ (e \in Container /\ TopOf(Moved(loc, i, d), e) = p)
                  /\ loc' = Moved(Moved(loc, i, d), j, e)
                  /\ CloseTrades({p, q} \cup SpoiltByRemoval(i) \cup SpoiltByRemoval(j))
            \/ /\ loc' = Moved(loc, i, d)
               /\ CloseTrades({p, q} \cup SpoiltByRemoval(i))
  BY SwapMoves
<1> DEFINE m == Moved(loc, i, d)
<1>3. TypeOK /\ loc \in [Item -> Place] /\ Grounded(loc)
  BY DEF Inv, Base, TypeOK
<1>4. m \in [Item -> Place] /\ Grounded(m)
  BY <1>1, <1>2, <1>3, MovedType, MovedGrounded
<1>5. Grounded(loc')
  BY <1>1, <1>2, <1>4, MovedGrounded
<1>6. ASSUME NEW r \in Player, tradeItem'[r] # NoItem, tradeItem'[r] = tradeItem[r]
      PROVE  Spares(tradeItem[r])
  <2> DEFINE k == tradeItem[r]
  <2>1. r # p /\ r # q
    <3>1. /\ {p, q} \cup SpoiltByRemoval(i) \cup SpoiltByRemoval(j) \in SUBSET Player
          /\ {p, q} \cup SpoiltByRemoval(i) \in SUBSET Player
      BY <1>1 DEF SpoiltByRemoval
    <3> QED BY <1>2, <1>3, <1>6, <3>1, CloseTradesForgets
  <2>2. k \in Item /\ InReach(r, k)
    BY <1>6, OffererIsThere
  <2>3. k # i /\ k # j /\ tradeItems[k] = r /\ tradeItems[i] = p /\ tradeItems[j] = q
    BY <1>1, <2>1, <2>2 DEF Inv, Base, RegisterIsExact
  <2>4. /\ k \notin Around(loc, i) /\ i \notin Around(loc, k)
        /\ k \notin Around(loc, j) /\ j \notin Around(loc, k)
    BY <1>1, <2>2, <2>3, TradeConstants DEF Inv, OffersApart, Inside, TradeConstants
  <2>5. Top(k) # p /\ Top(k) # q
    BY <1>1, <2>1, <2>2, TradeConstants DEF InReach, TradeConstants
  <2>6. Unhurt(loc, k, i, d)
    <3>1. d \in Container => k # d /\ k \notin Around(loc, d)
      BY <1>1, <1>2, <1>3, <2>5, TopOfAround, TradeConstants DEF Top, TradeConstants
    <3> QED BY <2>3, <2>4, <3>1 DEF Unhurt
  <2>7. /\ Around(m, k) = Around(loc, k) /\ TopOf(m, k) = Top(k)
        /\ \A x \in Item : k \in Around(m, x) <=> k \in Around(loc, x)
    BY <1>1, <1>2, <1>3, <2>2, <2>6, UnhurtIsTheSame DEF Top
  <2>8. touched' \cap ({k} \cup Inside(k)) = {}
    BY <1>1, <2>3, <2>4 DEF Inside
  <2>9. CASE loc' = m
    BY <2>7, <2>8, <2>9 DEF Spares
  <2>10. CASE \E e \in Place :
                  /\ MayGo(m, j, e)
                  /\ e = p \/ (e \in Container /\ TopOf(m, e) = p)
                  /\ loc' = Moved(m, j, e)
    <3>1. PICK e \in Place :
             /\ MayGo(m, j, e)
             /\ e = p \/ (e \in Container /\ TopOf(m, e) = p)
             /\ loc' = Moved(m, j, e)
      BY <2>10
    <3> HIDE DEF m
    <3>2. e \in Container => k # e /\ k \notin Around(m, e)
      BY <1>1, <1>4, <2>5, <2>7, <3>1, TopOfAround, TradeConstants DEF TradeConstants
    <3>3. Unhurt(m, k, j, e)
      BY <1>1, <2>3, <2>4, <2>7, <3>2 DEF Unhurt
    <3>4. /\ TopOf(loc', k) = TopOf(m, k)
          /\ \A x \in Item : k \in Around(loc', x) <=> k \in Around(m, x)
      BY <1>1, <1>4, <2>2, <3>1, <3>3, UnhurtIsTheSame
    <3> QED BY <2>7, <2>8, <3>4 DEF Spares
  <2> QED BY <1>2, <2>9, <2>10
<1> QED BY <1>5, <1>6 DEF OffersSpared

\* Every step keeps the world grounded and spares what stays on offer.
LEMMA NextSpares ==
    ASSUME Inv, [Next]_vars
    PROVE  Grounded(loc') /\ (UNCHANGED vars \/ OffersSpared)
<1>1. Grounded(loc) /\ loc \in [Item -> Place]
  BY DEF Inv, Base, TypeOK
<1>2. ASSUME loc' = loc, touched' = {}
      PROVE  Grounded(loc') /\ OffersSpared
  BY <1>1, <1>2, RestSpares
<1>3. ASSUME NEW p \in Player, Dialogue(p) \/ Disappear(p)
      PROVE  Grounded(loc') /\ OffersSpared
  <2>1. CASE AcceptAndSwap(p)
    BY <2>1, SwapSpares
  <2>2. CASE ~AcceptAndSwap(p)
    <3>1. loc' = loc /\ touched' = {}
      BY <1>3, <2>2
      DEF Dialogue, RequestTrade, AcceptFirst, AcceptAndFail, PlayerCloseTrade, Disappear
    <3> QED BY <1>2, <3>1
  <2> QED BY <2>1, <2>2
<1>4. ASSUME NEW p \in Player, NEW x \in Tile, Move(p, x) \/ Appear(p, x)
      PROVE  Grounded(loc') /\ OffersSpared
  BY <1>2, <1>4 DEF Move, Appear
<1>5. ASSUME NEW p \in Player, NEW i \in Item, NEW to \in Place, MoveItem(p, i, to)
      PROVE  Grounded(loc') /\ OffersSpared
  BY <1>1, <1>5, MoveItemSpares, MovedGrounded
<1>6. ASSUME NEW i \in Item, UpdateItem(i)
      PROVE  Grounded(loc') /\ OffersSpared
  BY <1>1, <1>6, UpdateItemSpares DEF UpdateItem
<1>7. ASSUME NEW i \in Item, RemoveItem(i)
      PROVE  Grounded(loc') /\ OffersSpared
  <2>1. Gone \in Place
    BY DEF Place
  <2> QED BY <1>1, <1>7, <2>1, RemoveItemSpares, MovedGrounded
<1>8. CASE UNCHANGED vars
  BY <1>1, <1>8 DEF vars
<1> QED BY <1>3, <1>4, <1>5, <1>6, <1>7, <1>8 DEF Next

-----------------------------------------------------------------------------
(* The invariant.                                                          *)

\* Nothing is on offer at first, and nothing lies in a container.
LEMMA InitInv == Init => Inv
<1> SUFFICES ASSUME Init PROVE Inv
  OBVIOUS
<1>1. Base
  BY InitTypeOK, InitPartnersAgree, InitRegisterIsExact DEF Base
<1>2. Grounded(loc)
  <2>1. \A c \in Container : loc[c] \notin Container
    BY TradeConstants DEF Init, TradeConstants
  <2> QED BY <2>1 DEF Grounded
<1>3. OfferInReach /\ OffersApart
  BY DEF Init, OfferInReach, OffersApart
<1> QED BY <1>1, <1>2, <1>3 DEF Inv

\* A step after which nobody offers or names anything new, and nobody stands elsewhere
Ending ==
    /\ pos' = pos
    /\ \A r \in Player :
          /\ tradeItem'[r] # NoItem => tradeItem'[r] = tradeItem[r]
          /\ tradePartner'[r] # NoPlayer => tradePartner'[r] = tradePartner[r]

\* The items on offer are those that somebody offers.
LEMMA OfferedBySomebody ==
    ASSUME TypeOK, RegisterIsExact, NEW i \in Item
    PROVE  tradeItems[i] # NoPlayer <=> \E r \in Player : tradeItem[r] = i
BY TradeConstants DEF TypeOK, RegisterIsExact, TradeConstants

\* Offers that were apart and are spared stay apart ...
LEMMA EndingKeepsApart ==
    ASSUME Inv, Base', OffersSpared,
           \A r \in Player : tradeItem'[r] # NoItem => tradeItem'[r] = tradeItem[r]
    PROVE  OffersApart'
<1>1. ASSUME NEW i \in Item, tradeItems'[i] # NoPlayer
      PROVE  /\ tradeItems[i] # NoPlayer
             /\ \A j \in Item : i \in Around(loc', j) <=> i \in Around(loc, j)
  <2>1. TypeOK' /\ RegisterIsExact'
    BY DEF Base
  <2>2. PICK r \in Player : tradeItem'[r] = i
    BY <1>1, <2>1 DEF TypeOK, RegisterIsExact
  <2>3. tradeItem[r] = i /\ i # NoItem
    BY <2>2, TradeConstants DEF TradeConstants
  <2>4. Spares(i)
    BY <2>2, <2>3 DEF OffersSpared
  <2>5. tradeItems[i] # NoPlayer
    BY <2>3, OfferedBySomebody DEF Inv, Base
  <2> QED BY <2>4, <2>5 DEF Spares
<1> QED BY <1>1 DEF Inv, OffersApart, Inside

\* ... and in reach.
LEMMA EndingKeepsReach ==
    ASSUME Inv, OffersSpared, Ending
    PROVE  OfferInReach'
<1> SUFFICES ASSUME NEW r \in Player
             PROVE  /\ tradePartner'[r] # NoPlayer => InRange(pos'[r], pos'[tradePartner'[r]], 2)
                    /\ tradeItem'[r] # NoItem => InReach(r, tradeItem[r])' /\ tradeItem'[r] = tradeItem[r]
  BY DEF OfferInReach, InReach, Top, InRange
<1>1. tradePartner'[r] # NoPlayer => InRange(pos'[r], pos'[tradePartner'[r]], 2)
  BY DEF Ending, Inv, OfferInReach
<1>2. ASSUME tradeItem'[r] # NoItem
      PROVE  tradeItem'[r] = tradeItem[r] /\ InReach(r, tradeItem[r])'
  <2>1. tradeItem'[r] = tradeItem[r] /\ InReach(r, tradeItem[r])
    BY <1>2, OffererIsThere DEF Ending
  <2>2. TopOf(loc', tradeItem'[r]) = Top(tradeItem[r])
    BY <1>2, <2>1 DEF OffersSpared, Spares
  <2> QED BY <2>1, <2>2 DEF Ending, InReach, Top, InRange
<1> QED BY <1>1, <1>2

\* What is offered newly is in reach, on its own and offered to somebody near.
LEMMA RequestKeeps ==
    ASSUME Inv, Base', NEW p \in Player, NEW q \in Player, NEW i \in Item, RequestTrade(p, q, i)
    PROVE  OfferInReach' /\ OffersApart'
<1>1. /\ loc' = loc /\ pos' = pos /\ TypeOK
      /\ tradeItem' = [tradeItem EXCEPT ![p] = i]
      /\ tradeItems' = [tradeItems EXCEPT ![i] = p]
      /\ ~AlreadyTraded(i) /\ InReach(p, i) /\ InRange(pos[p], pos[q], 2) /\ p # q
  BY DEF RequestTrade, StartTrade, Inv, Base
<1>2. ASSUME NEW r \in Player
      PROVE  tradeItem'[r] # NoItem => InReach(r, tradeItem'[r])
  BY <1>1, OffererIsThere DEF TypeOK
<1>3. ASSUME NEW r \in Player
      PROVE  tradePartner'[r] # NoPlayer => InRange(pos[r], pos[tradePartner'[r]], 2)
  <2>1. tradePartner' = [tradePartner EXCEPT ![p] = q, ![q] = IF tradeState[q] = "none" THEN p ELSE @]
    BY DEF RequestTrade, StartTrade
  <2>2. InRange(pos[q], pos[p], 2)
    BY <1>1 DEF InRange
  <2>3. tradePartner[r] # NoPlayer => InRange(pos[r], pos[tradePartner[r]], 2)
    BY DEF Inv, OfferInReach
  <2> QED BY <1>1, <2>1, <2>2, <2>3 DEF TypeOK
<1>4. OfferInReach'
  BY <1>1, <1>2, <1>3 DEF OfferInReach, InReach, Top, InRange
<1>5. ASSUME NEW x \in Item, NEW y \in Item, tradeItems'[x] # NoPlayer, tradeItems'[y] # NoPlayer
      PROVE  x \notin Inside(y)
  <2>1. i \notin Inside(i)
    BY NothingAroundItself DEF Inv, Inside
  <2>2. \A z \in Item : tradeItems[z] # NoPlayer => z \notin Inside(i) /\ i \notin Inside(z)
    BY <1>1 DEF AlreadyTraded
  <2>3. tradeItems[x] # NoPlayer /\ tradeItems[y] # NoPlayer => x \notin Inside(y)
    BY DEF Inv, OffersApart
  <2> QED BY <1>1, <1>5, <2>1, <2>2, <2>3 DEF TypeOK
<1>6. OffersApart'
  BY <1>1, <1>5 DEF OffersApart, Inside
<1> QED BY <1>4, <1>6

\* A player who moves leaves neither his offer nor his partner behind.
LEMMA MoveKeeps ==
    ASSUME Inv, Base', NEW p \in Player, NEW x \in Tile, Move(p, x)
    PROVE  OfferInReach' /\ OffersApart'
<1>1. /\ loc' = loc /\ pos' = [pos EXCEPT ![p] = x] /\ TypeOK /\ touched' = {}
      /\ IF TooFar(p, x) THEN CloseTrades({p}) ELSE UNCHANGED tradeVars
      /\ Grounded(loc)
  BY DEF Move, Inv, Base
<1>2. ASSUME NEW r \in Player
      PROVE  /\ tradeItem'[r] # NoItem => tradeItem'[r] = tradeItem[r]
             /\ tradePartner'[r] # NoPlayer => tradePartner'[r] = tradePartner[r]
             /\ tradeItem'[p] # NoItem \/ tradePartner'[p] # NoPlayer => ~TooFar(p, x)
  BY <1>1, CloseTradesForgets DEF tradeVars
<1>3. OffersApart'
  BY <1>1, <1>2, RestSpares, EndingKeepsApart
<1>4. ASSUME NEW r \in Player, tradeItem'[r] # NoItem
      PROVE  InReach(r, tradeItem[r])'
  <2>1. tradeItem'[r] = tradeItem[r] /\ InReach(r, tradeItem[r])
    BY <1>2, <1>4, OffererIsThere
  <2>2. CASE r # p
    <3>1. pos'[r] = pos[r]
      BY <1>1, <2>2 DEF TypeOK
    <3> QED BY <1>1, <2>1, <3>1 DEF InReach, Top, InRange
  <2>3. CASE r = p
    <3>1. Top(tradeItem[p]) = p \/ (Top(tradeItem[p]) \in Tile /\ InRange(Top(tradeItem[p]), x, 1))
      BY <1>2, <1>4, <2>1, <2>3 DEF TooFar, InReach
    <3>2. pos'[p] = x
      BY <1>1 DEF TypeOK
    <3> QED BY <1>1, <2>1, <2>3, <3>1, <3>2 DEF InReach, Top, InRange
  <2> QED BY <2>2, <2>3
<1>5. ASSUME NEW r \in Player, tradePartner'[r] # NoPlayer
      PROVE  InRange(pos'[r], pos'[tradePartner'[r]], 2)
  <2>1. /\ tradePartner'[r] = tradePartner[r] /\ tradePartner[r] \in Player /\ tradePartner[r] # r
        /\ tradePartner'[tradePartner'[r]] = r
        /\ InRange(pos[r], pos[tradePartner[r]], 2)
    BY <1>2, <1>5 DEF Inv, Base, OfferInReach, TypeOK, PartnersAgree, SidesAgree
  <2>2. CASE r # p /\ tradePartner[r] # p
    BY <1>1, <2>1, <2>2 DEF TypeOK
  <2>3. CASE r = p
    <3>1. InRange(pos[tradePartner[p]], x, 2)
      BY <1>2, <1>5, <2>1, <2>3 DEF TooFar
    <3> QED BY <1>1, <2>1, <2>3, <3>1 DEF InRange, TypeOK
  <2>4. CASE tradePartner[r] = p
    <3>1. r \in Player /\ r # NoPlayer /\ tradePartner'[p] = r
      BY <2>1, <2>4, TradeConstants DEF TradeConstants
    <3>2. tradePartner[p] = r /\ ~TooFar(p, x)
      BY <1>2, <3>1
    <3>3. InRange(pos[r], x, 2)
      BY <3>1, <3>2 DEF TooFar
    <3> QED BY <1>1, <2>1, <2>4, <3>3 DEF TypeOK
  <2> QED BY <2>2, <2>3, <2>4
<1>6. OfferInReach'
  BY <1>4, <1>5 DEF OfferInReach, InReach, Top, InRange
<1> QED BY <1>3, <1>6

\* Every step keeps the invariant.
LEMMA NextInv == Inv /\ [Next]_vars => Inv'
<1> SUFFICES ASSUME Inv, [Next]_vars PROVE Inv'
  OBVIOUS
<1>1. Base'
  BY NextTypeOK, NextPartnersAgree, NextRegisterIsExact DEF Inv, Base
<1>2. Grounded(loc') /\ (UNCHANGED vars \/ OffersSpared)
  BY NextSpares
<1>3. TypeOK
  BY DEF Inv, Base
<1>4. ASSUME Ending, OffersSpared
      PROVE  OfferInReach' /\ OffersApart'
  BY <1>1, <1>4, EndingKeepsReach, EndingKeepsApart DEF Ending
<1>5. ASSUME NEW S \in SUBSET Player, CloseTrades(S), pos' = pos
      PROVE  Ending
  BY <1>3, <1>5, CloseTradesForgets DEF Ending
<1>6. ASSUME UNCHANGED vars
      PROVE  OfferInReach' /\ OffersApart'
  <2>1. OfferInReach'
    BY <1>6 DEF vars, tradeVars, Inv, OfferInReach, InReach, Top, InRange
  <2>2. OffersApart'
    BY <1>6 DEF vars, tradeVars, Inv, OffersApart, Inside
  <2> QED BY <2>1, <2>2
<1>7. ASSUME ~UNCHANGED vars
      PROVE  OfferInReach' /\ OffersApart'
  <2>1. OffersSpared
    BY <1>2, <1>7
  <2>2. ASSUME NEW p \in Player, NEW q \in Player, NEW i \in Item, RequestTrade(p, q, i)
        PROVE  OfferInReach' /\ OffersApart'
    BY <1>1, <2>2, RequestKeeps
  <2>3. ASSUME NEW p \in Player, NEW x \in Tile, Move(p, x)
        PROVE  OfferInReach' /\ OffersApart'
    BY <1>1, <2>3, MoveKeeps
  <2>4. ASSUME NEW p \in Player, NEW x \in Tile, Appear(p, x)
        PROVE  OfferInReach' /\ OffersApart'
    <3>1. /\ p \notin online /\ pos' = [pos EXCEPT ![p] = x] /\ loc' = loc
          /\ tradeItem' = tradeItem /\ tradePartner' = tradePartner
      BY <2>4 DEF Appear, tradeVars
    <3>2. \A r \in Player : tradePartner[r] # NoPlayer => r # p /\ tradePartner[r] # p
      BY <3>1 DEF Inv, Base, PartnersAgree, SidesAgree
    <3>3. \A r \in Player : tradeItem[r] # NoItem => r # p /\ InReach(r, tradeItem[r])
      BY <3>1, OffererIsThere
    <3>4. OfferInReach'
      <4>1. \A r \in Player : r # p => pos'[r] = pos[r]
        BY <1>3, <3>1 DEF TypeOK
      <4>2. \A r \in Player : tradePartner[r] \in Player \cup {NoPlayer}
        BY <1>3 DEF TypeOK
      <4> QED BY <3>1, <3>2, <3>3, <4>1, <4>2 DEF Inv, OfferInReach, InReach, Top, InRange
    <3> QED BY <1>1, <2>1, <3>1, <3>4, EndingKeepsApart
  <2>5. ASSUME NEW p \in Player,
               AcceptFirst(p) \/ AcceptAndFail(p) \/ PlayerCloseTrade(p) \/ Disappear(p)
        PROVE  Ending
    <3>1. pos' = pos
      BY <2>5 DEF AcceptFirst, AcceptAndFail, PlayerCloseTrade, Disappear
    <3>2. CloseTrades({p}) \/ (tradeItem' = tradeItem /\ tradePartner' = tradePartner)
      BY <2>5 DEF AcceptFirst, AcceptAndFail, PlayerCloseTrade, Disappear, LeaveTrade, tradeVars
    <3> QED BY <1>5, <3>1, <3>2 DEF Ending
  <2>6. ASSUME NEW p \in Player, AcceptAndSwap(p)
        PROVE  Ending
    <3> DEFINE q == tradePartner[p]
               i == tradeItem[p]
               j == tradeItem[q]
    <3>1. /\ q \in Player /\ pos' = pos
          /\ \/ CloseTrades({p, q} \cup SpoiltByRemoval(i) \cup SpoiltByRemoval(j))
             \/ CloseTrades({p, q} \cup SpoiltByRemoval(i))
      BY <2>6, SwapMoves
    <3>2. /\ {p, q} \cup SpoiltByRemoval(i) \cup SpoiltByRemoval(j) \in SUBSET Player
          /\ {p, q} \cup SpoiltByRemoval(i) \in SUBSET Player
      BY <3>1 DEF SpoiltByRemoval
    <3> QED BY <1>5, <3>1, <3>2
  <2>7. ASSUME NEW p \in Player, NEW i \in Item, NEW to \in Place, MoveItem(p, i, to)
        PROVE  Ending
    <3>1. SpoiltByRemoval(i) \cup SpoiltByAdding(i, to) \in SUBSET Player
      BY <1>3 DEF SpoiltByRemoval, SpoiltByAdding, TypeOK
    <3> QED BY <1>5, <2>7, <3>1 DEF MoveItem
  <2>8. ASSUME NEW i \in Item, UpdateItem(i) \/ RemoveItem(i)
        PROVE  Ending
    <3>1. SpoiltByUpdate(i) \in SUBSET Player /\ SpoiltByRemoval(i) \in SUBSET Player
      BY DEF SpoiltByUpdate, SpoiltByRemoval
    <3> QED BY <1>5, <2>8, <3>1 DEF UpdateItem, RemoveItem
  <2> QED
    BY <1>4, <1>7, <2>1, <2>2, <2>3, <2>4, <2>5, <2>6, <2>7, <2>8 DEF Next, Dialogue
<1> QED BY <1>1, <1>2, <1>6, <1>7 DEF Inv

\* Each side gets the other's offer, unless containers lie in what is offered.
LEMMA SwapGives ==
    ASSUME Inv, NEW p \in Player, AcceptAndSwap(p),
           (Inside(tradeItem[p]) \cup Inside(tradeItem[tradePartner[p]])) \cap Container = {}
    PROVE  /\ TopOf(loc', tradeItem[p]) = tradePartner[p]
           /\ TopOf(loc', tradeItem[tradePartner[p]]) = p
<1> DEFINE q == tradePartner[p]
           i == tradeItem[p]
           j == tradeItem[q]
<1>1. /\ q \in Player /\ i \in Item /\ j \in Item /\ i # j
      /\ loc \in [Item -> Place] /\ Grounded(loc)
      /\ Player \cap Item = {} /\ Container \subseteq Item
  BY SwapMoves, TradeConstants DEF Inv, Base, TypeOK, TradeConstants
<1>2. \A room \in Destinations(loc, p, j) : room \notin Inside(i)
  BY <1>1 DEF Destinations, Inside
<1>3. PICK d \in Place, e \in Place :
         /\ MayGo(loc, i, d) /\ d # j
         /\ d = q \/ (d \in Container /\ Top(d) = q)
         /\ MayGo(Moved(loc, i, d), j, e)
         /\ e = p \/ (e \in Container /\ TopOf(Moved(loc, i, d), e) = p)
         /\ loc' = Moved(Moved(loc, i, d), j, e)
  BY <1>2, SwapMoves
<1> DEFINE m == Moved(loc, i, d)
<1>4. m \in [Item -> Place] /\ Grounded(m)
  BY <1>1, <1>3, MovedType, MovedGrounded
<1>5. TopOf(m, i) = q
  BY <1>1, <1>3, TopMoved DEF Top
<1>6. j \notin Around(m, i)
  BY <1>1, <1>3, AroundTarget DEF Inside
<1> HIDE DEF m
<1>7. TopOf(loc', j) = p /\ TopOf(loc', i) = q
  BY <1>1, <1>3, <1>4, <1>5, <1>6, TopMoved DEF m
<1> QED BY <1>7

\* Two offers that are touched together are those of a swap.
LEMMA TouchedTogether ==
    ASSUME Inv, Next, NEW i \in Item, NEW j \in Item, i # j, touched' = {i, j},
           tradeItems[i] # NoPlayer, tradeItems[j] # NoPlayer
    PROVE  \E r \in Player : AcceptAndSwap(r)
<1>1. i \notin Inside(j) /\ j \notin Inside(i)
  BY DEF Inv, OffersApart
<1>2. ASSUME NEW x \in Item, RemoveItem(x)
      PROVE  FALSE
  <2>1. {x} \cup Inside(x) = {i, j}
    BY <1>2 DEF RemoveItem
  <2> QED BY <1>1, <2>1
<1>3. ASSUME NEW x \in Item, UpdateItem(x) \/ \E p \in Player, to \in Place : MoveItem(p, x, to)
      PROVE  FALSE
  <2>1. touched' = {x}
    BY <1>3 DEF UpdateItem, MoveItem
  <2> QED BY <2>1
<1>4. ASSUME NEW p \in Player, Disappear(p) \/ \E x \in Tile : Move(p, x) \/ Appear(p, x)
      PROVE  FALSE
  BY <1>4 DEF Disappear, Move, Appear
<1>5. ASSUME NEW p \in Player, Dialogue(p)
      PROVE  AcceptAndSwap(p)
  BY <1>5 DEF Dialogue, RequestTrade, AcceptFirst, AcceptAndFail, PlayerCloseTrade
<1> QED BY <1>2, <1>3, <1>4, <1>5 DEF Next

\* The two are the sides of that swap, whichever of them accepted last.
LEMMA NextSwapIsComplete ==
    ASSUME Inv, Next, NEW p \in Player, NEW i \in Item, NEW j \in Item,
           tradeItem[p] = i, tradePartner[p] # NoPlayer, tradeItem[tradePartner[p]] = j,
           touched' = {i, j}, (Inside(i) \cup Inside(j)) \cap Container = {}
    PROVE  TopOf(loc', i) = tradePartner[p] /\ TopOf(loc', j) = p
<1> DEFINE q == tradePartner[p]
<1>1. q \in Player /\ p # q /\ tradePartner[q] = p
  BY DEF Inv, Base, TypeOK, PartnersAgree, SidesAgree
<1>2. tradeItems[i] = p /\ tradeItems[j] = q /\ i # j /\ p # NoPlayer /\ q # NoPlayer
  BY <1>1, TradeConstants DEF Inv, Base, RegisterIsExact, TradeConstants
<1>3. PICK r \in Player : AcceptAndSwap(r)
  BY <1>2, TouchedTogether
<1>4. tradeItem[r] = i \/ tradeItem[r] = j
  BY <1>3 DEF AcceptAndSwap
<1>5. r = p \/ r = q
  BY <1>1, <1>2, <1>4 DEF Inv, Base, RegisterIsExact
<1> QED BY <1>1, <1>3, <1>5, SwapGives

-----------------------------------------------------------------------------
(* The deals of Barter.                                                    *)

Agreed == {p \in Player : tradeState[p] = "accept"}
Holder == [i \in Item |-> Top(i)]
dealVars == <<tradePartner, tradeItem, Agreed, Holder>>

\* Nobody holds anything else where nothing moves.
LEMMA RestHolds ==
    ASSUME loc' = loc
    PROVE  Holder' = Holder
BY DEF Holder, Top

\* Calling trades off ends the deals of the same players.
LEMMA CloseTradesEndsDeals ==
    ASSUME TypeOK, NEW S \in SUBSET Player, CloseTrades(S)
    PROVE  Deal!End(S)
<1> DEFINE out == S \cup ({tradePartner[p] : p \in S} \ {NoPlayer})
           gone == S \cup {tradePartner[p] : p \in S}
<1>1. \A p \in Player : p \in out <=> p \in gone
  BY TradeConstants DEF TradeConstants
<1>2. tradePartner' = [p \in Player |-> IF p \in gone THEN NoPlayer ELSE tradePartner[p]]
  BY <1>1 DEF CloseTrades
<1>3. tradeItem' = [p \in Player |-> IF p \in gone THEN NoItem ELSE tradeItem[p]]
  BY <1>1 DEF CloseTrades
<1>4. Agreed' = Agreed \ gone
  <2>1. \A p \in Player : tradeState'[p] = IF p \in gone THEN "none" ELSE tradeState[p]
    BY <1>1 DEF CloseTrades
  <2> QED BY <2>1 DEF Agreed
<1> QED BY <1>2, <1>3, <1>4 DEF Deal!End, Agreed

\* An item event ends deals and passes things on only by way of the ground.
LEMMA WorldGoesOn ==
    ASSUME Inv, NEW S \in SUBSET Player, CloseTrades(S), OffersSpared,
           \A i \in Item : Top(i) \in Player => TopOf(loc', i) \notin Player \ {Top(i)}
    PROVE  Deal!World(S)
<1>1. Deal!End(S)
  BY CloseTradesEndsDeals DEF Inv, Base
<1>2. \A i \in Item : Holder[i] \in Player => Holder'[i] \notin Player \ {Holder[i]}
  BY DEF Holder, Top
<1>3. ASSUME NEW p \in Player, tradeItem'[p] # NoItem
      PROVE  Holder'[tradeItem'[p]] = Holder[tradeItem'[p]]
  <2>1. tradeItem'[p] = tradeItem[p]
    BY <1>3, CloseTradesForgets DEF Inv, Base
  <2>2. tradeItem[p] \in Item /\ Spares(tradeItem[p])
    BY <1>3, <2>1, OffererIsThere DEF OffersSpared
  <2> QED BY <2>1, <2>2 DEF Spares, Holder, Top
<1> QED BY <1>1, <1>2, <1>3 DEF Deal!World, Holder

\* Calling trades off where nothing else happens
LEMMA OnlyCloses ==
    ASSUME Inv, NEW S \in SUBSET Player, CloseTrades(S), loc' = loc, touched' = {}
    PROVE  Deal!World(S)
BY RestSpares, WorldGoesOn DEF Top

\* playerRequestTrade opens a deal or answers an offer.
LEMMA RequestDeals ==
    ASSUME Inv, NEW p \in Player, NEW q \in Player, NEW i \in Item, RequestTrade(p, q, i)
    PROVE  Deal!Open(p, q, i) \/ Deal!Answer(p, i)
<1>1. /\ p # q /\ ~AlreadyTraded(i) /\ PlayerFree(p, q) /\ PartnerFree(p, q)
      /\ tradePartner' = [tradePartner EXCEPT ![p] = q, ![q] = IF tradeState[q] = "none" THEN p ELSE @]
      /\ tradeState' = [tradeState EXCEPT ![p] = "initiated",
                                          ![q] = IF tradeState[q] = "none" THEN "acknowledge" ELSE @]
      /\ tradeItem' = [tradeItem EXCEPT ![p] = i]
      /\ loc' = loc /\ TypeOK
  BY DEF RequestTrade, StartTrade, Inv, Base
<1>2. Holder' = Holder
  BY <1>1, RestHolds
<1>3. \A r \in Player : tradeItem[r] # i
  BY <1>1, OfferedBySomebody DEF AlreadyTraded, Inv, Base
<1>4. p # NoPlayer /\ q # NoPlayer
  BY TradeConstants DEF TradeConstants
<1>5. \A r \in Player :
         /\ tradePartner[r] = NoPlayer <=> tradeState[r] = "none"
         /\ tradePartner[r] # NoPlayer => tradePartner[tradePartner[r]] = r
         /\ tradeItem[r] # NoItem => tradeState[r] \in {"initiated", "accept"}
  BY DEF Inv, Base, PartnersAgree, SidesAgree
<1>6. tradeState[p] # "accept"
  BY <1>1 DEF PlayerFree
<1>7. Agreed' = Agreed
  <2>1. \A r \in Player : tradeState'[r] = "accept" <=> tradeState[r] = "accept"
    BY <1>1, <1>6 DEF TypeOK
  <2> QED BY <2>1 DEF Agreed
<1>8. CASE tradeState[p] = "none"
  <2>1. tradePartner[p] = NoPlayer /\ tradePartner[q] = NoPlayer /\ tradeState[q] = "none"
    BY <1>1, <1>4, <1>5, <1>8 DEF PartnerFree
  <2>2. tradePartner' = [tradePartner EXCEPT ![p] = q, ![q] = p]
    BY <1>1, <2>1
  <2> QED BY <1>1, <1>2, <1>3, <1>7, <2>1, <2>2 DEF Deal!Open, Agreed, Holder
<1>9. CASE tradeState[p] = "acknowledge" /\ tradePartner[p] = q
  <2>1. tradePartner[q] = p /\ tradeState[q] # "none" /\ tradeItem[p] = NoItem
    BY <1>4, <1>5, <1>9
  <2>2. tradePartner' = tradePartner
    BY <1>1, <1>9, <2>1 DEF TypeOK
  <2> QED BY <1>1, <1>2, <1>3, <1>4, <1>6, <1>7, <1>9, <2>1, <2>2 DEF Deal!Answer, Agreed, Holder
<1> QED BY <1>1, <1>8, <1>9 DEF PlayerFree

\* The first accept agrees.
LEMMA AcceptDeals ==
    ASSUME Inv, NEW p \in Player, AcceptFirst(p)
    PROVE  Deal!Agree(p)
<1>1. /\ tradePartner[p] # NoPlayer /\ tradeState[tradePartner[p]] # "accept"
      /\ tradeState' = [tradeState EXCEPT ![p] = "accept"]
      /\ loc' = loc /\ tradePartner' = tradePartner /\ tradeItem' = tradeItem /\ TypeOK
  BY DEF AcceptFirst, MayAccept, Inv, Base
<1>2. Holder' = Holder
  BY <1>1, RestHolds
<1>3. Agreed' = Agreed \cup {p}
  <2>1. \A r \in Player : tradeState'[r] = IF r = p THEN "accept" ELSE tradeState[r]
    BY <1>1 DEF TypeOK
  <2> QED BY <2>1 DEF Agreed
<1> QED BY <1>1, <1>2, <1>3 DEF Deal!Agree, Agreed, Holder

\* The second accept swaps.
LEMMA SwapDeals ==
    ASSUME Inv, NEW p \in Player, AcceptAndSwap(p)
    PROVE  Deal!Swap(p)
<1> DEFINE q == tradePartner[p]
           i == tradeItem[p]
           j == tradeItem[q]
           both == SpoiltByRemoval(i) \cup SpoiltByRemoval(j)
<1>1. /\ q # NoPlayer /\ q \in Player /\ i \in Item /\ j \in Item
      /\ p \notin Agreed /\ q \in Agreed /\ i # NoItem /\ j # NoItem
      /\ TypeOK /\ loc \in [Item -> Place] /\ Grounded(loc)
  BY SwapMoves, TradeConstants
  DEF AcceptAndSwap, MayAccept, PartnerAccepted, Agreed, Inv, Base, TypeOK, TradeConstants
<1>2. PICK d \in Place :
         /\ MayGo(loc, i, d)
         /\ d = q \/ (d \in Container /\ Top(d) = q)
         /\ \/ \E e \in Place :
                  /\ MayGo(Moved(loc, i, d), j, e)
                  /\ e = p \/ (e \in Container /\ TopOf(Moved(loc, i, d), e) = p)
                  /\ loc' = Moved(Moved(loc, i, d), j, e)
                  /\ CloseTrades({p, q} \cup SpoiltByRemoval(i) \cup SpoiltByRemoval(j))
            \/ /\ loc' = Moved(loc, i, d)
               /\ CloseTrades({p, q} \cup SpoiltByRemoval(i))
  BY SwapMoves
<1> DEFINE m == Moved(loc, i, d)
<1>3. \E S \in SUBSET Player : Deal!End({p} \cup S)
  <2>1. \E S \in SUBSET Player : CloseTrades({p} \cup S)
    <3>1. /\ {p, q} \cup SpoiltByRemoval(i) \cup SpoiltByRemoval(j) = {p} \cup ({q} \cup both)
          /\ {p, q} \cup SpoiltByRemoval(i) = {p} \cup ({q} \cup SpoiltByRemoval(i))
      OBVIOUS
    <3>2. {q} \cup both \in SUBSET Player /\ {q} \cup SpoiltByRemoval(i) \in SUBSET Player
      BY <1>1 DEF SpoiltByRemoval
    <3>3. CloseTrades({p} \cup ({q} \cup both)) \/ CloseTrades({p} \cup ({q} \cup SpoiltByRemoval(i)))
      BY <1>2, <3>1
    <3> QED BY <3>2, <3>3
  <2>2. PICK S \in SUBSET Player : CloseTrades({p} \cup S)
    BY <2>1
  <2>3. {p} \cup S \in SUBSET Player /\ TypeOK
    BY <1>1
  <2>4. Deal!End({p} \cup S)
    BY <2>2, <2>3, CloseTradesEndsDeals
  <2> QED BY <2>4
<1>4. ASSUME NEW x \in Item
      PROVE  TopOf(loc', x) \in {Top(x), p, q}
  <2>1. m \in [Item -> Place] /\ Grounded(m)
    BY <1>1, <1>2, MovedType, MovedGrounded
  <2>2. TopOf(m, x) \in {Top(x), q}
    <3>1. MayGo(loc, i, d) /\ (d = q \/ (d \in Container /\ TopOf(loc, d) = q))
      BY <1>2 DEF Top
    <3>2. d \notin Container \/ TopOf(loc, d) = q
      BY <1>1, <3>1, TradeConstants DEF TradeConstants
    <3> QED BY <1>1, <3>1, <3>2, TopMoved DEF Top
  <2>3. TopOf(loc', x) \in {TopOf(m, x), p}
    <3> HIDE DEF m
    <3>1. CASE \E e \in Place :
                  /\ MayGo(m, j, e)
                  /\ e = p \/ (e \in Container /\ TopOf(m, e) = p)
                  /\ loc' = Moved(m, j, e)
      <4>1. PICK e \in Place :
               /\ MayGo(m, j, e)
               /\ e = p \/ (e \in Container /\ TopOf(m, e) = p)
               /\ loc' = Moved(m, j, e)
        BY <3>1
      <4>2. e \notin Container \/ TopOf(m, e) = p
        BY <4>1, TradeConstants DEF TradeConstants
      <4> QED BY <1>1, <2>1, <4>1, <4>2, TopMoved
    <3>2. CASE loc' = m
      BY <3>2
    <3> QED BY <1>2, <3>1, <3>2 DEF m
  <2> QED BY <2>2, <2>3
<1>5. \A x \in Item : Holder'[x] \in {Holder[x], p, q}
  BY <1>4 DEF Holder, Top
<1> QED BY <1>1, <1>3, <1>5 DEF Deal!Swap, Agreed, Holder

\* A player moves what he has or what lies on the ground.
LEMMA MoveItemDeals ==
    ASSUME Inv, NEW p \in Player, NEW i \in Item, NEW to \in Place, MoveItem(p, i, to)
    PROVE  \E S \in SUBSET Player : Deal!World(S)
<1> DEFINE S == SpoiltByRemoval(i) \cup SpoiltByAdding(i, to)
<1>1. /\ loc \in [Item -> Place] /\ Grounded(loc) /\ S \in SUBSET Player
      /\ MayGo(loc, i, to) /\ loc' = Moved(loc, i, to) /\ OffersSpared /\ CloseTrades(S)
  BY MoveItemSpares DEF Inv, Base, TypeOK, SpoiltByRemoval, SpoiltByAdding, MoveItem
<1>2. ASSUME NEW x \in Item, Top(x) \in Player
      PROVE  TopOf(loc', x) \notin Player \ {Top(x)}
  <2>1. CASE x = i \/ i \in Around(loc, x)
    <3>1. Top(i) = Top(x)
      BY <1>1, <2>1, TopOfAround DEF Top
    <3>2. Top(x) = p
      BY <1>2, <3>1, TradeConstants DEF MoveItem, InReach, TradeConstants
    <3>3. TopOf(loc', x) = IF to \in Container THEN Top(to) ELSE to
      BY <1>1, <2>1, TopMoved DEF Top
    <3>4. CASE to \in Container
      <4>1. InReach(p, to)
        BY <3>4, TradeConstants DEF MoveItem, TradeConstants
      <4> QED BY <3>2, <3>3, <3>4, <4>1, TradeConstants DEF InReach, TradeConstants
    <3>5. CASE to \notin Container
      BY <3>2, <3>3, <3>5, TradeConstants DEF MoveItem, TradeConstants
    <3> QED BY <3>4, <3>5
  <2>2. CASE ~(x = i \/ i \in Around(loc, x))
    BY <1>1, <2>2, TopMoved DEF Top
  <2> QED BY <2>1, <2>2
<1> QED BY <1>1, <1>2, WorldGoesOn

\* What is removed goes to nobody.
LEMMA RemoveItemDeals ==
    ASSUME Inv, NEW i \in Item, RemoveItem(i)
    PROVE  \E S \in SUBSET Player : Deal!World(S)
<1>1. /\ loc \in [Item -> Place] /\ Grounded(loc) /\ SpoiltByRemoval(i) \in SUBSET Player
      /\ MayGo(loc, i, Gone) /\ loc' = Moved(loc, i, Gone) /\ OffersSpared
      /\ CloseTrades(SpoiltByRemoval(i))
      /\ Gone \in Place /\ Gone \notin Container /\ Gone \notin Player
  BY RemoveItemSpares, TradeConstants
  DEF Inv, Base, TypeOK, SpoiltByRemoval, RemoveItem, Place, TradeConstants
<1>2. \A x \in Item : TopOf(loc', x) \in {Top(x), Gone}
  BY <1>1, TopMoved DEF Top
<1> QED BY <1>1, <1>2, WorldGoesOn

\* What is updated stays where it is.
LEMMA UpdateItemDeals ==
    ASSUME Inv, NEW i \in Item, UpdateItem(i)
    PROVE  \E S \in SUBSET Player : Deal!World(S)
<1>1. /\ SpoiltByUpdate(i) \in SUBSET Player /\ loc' = loc /\ OffersSpared
      /\ CloseTrades(SpoiltByUpdate(i))
  BY UpdateItemSpares DEF SpoiltByUpdate, UpdateItem
<1> QED BY <1>1, WorldGoesOn DEF Top

\* There are no deals at first.
LEMMA InitDeals == Init => Deal!Init
BY DEF Init, Deal!Init

\* Every step of Trade is a step of Barter or changes nothing of it.
LEMMA NextDeals == Inv /\ [Next]_vars => [Deal!Next]_dealVars
<1> SUFFICES ASSUME Inv, [Next]_vars PROVE [Deal!Next]_dealVars
  OBVIOUS
<1>1. ASSUME UNCHANGED tradeVars, loc' = loc
      PROVE  UNCHANGED dealVars
  BY <1>1, RestHolds DEF tradeVars, dealVars, Agreed
<1>2. ASSUME NEW S \in SUBSET Player, Deal!World(S)
      PROVE  Deal!Next
  BY <1>2 DEF Deal!Next
<1>3. ASSUME NEW p \in Player, Dialogue(p)
      PROVE  Deal!Next
  <2>1. ASSUME NEW q \in Player, NEW i \in Item, RequestTrade(p, q, i)
        PROVE  Deal!Next
    BY <2>1, RequestDeals DEF Deal!Next
  <2>2. CASE AcceptFirst(p)
    BY <2>2, AcceptDeals DEF Deal!Next
  <2>3. CASE AcceptAndSwap(p)
    BY <2>3, SwapDeals DEF Deal!Next
  <2>4. CASE AcceptAndFail(p) \/ PlayerCloseTrade(p)
    BY <1>2, <2>4, OnlyCloses DEF AcceptAndFail, PlayerCloseTrade
  <2> QED BY <1>3, <2>1, <2>2, <2>3, <2>4 DEF Dialogue
<1>4. ASSUME NEW p \in Player, Disappear(p) \/ \E x \in Tile : Move(p, x) \/ Appear(p, x)
      PROVE  Deal!Next \/ UNCHANGED dealVars
  <2>1. /\ loc' = loc /\ touched' = {}
        /\ CloseTrades({p}) \/ UNCHANGED tradeVars
    BY <1>4 DEF Disappear, LeaveTrade, Move, Appear
  <2> QED BY <1>1, <1>2, <2>1, OnlyCloses
<1>5. ASSUME NEW p \in Player, NEW i \in Item, NEW to \in Place, MoveItem(p, i, to)
      PROVE  Deal!Next
  BY <1>2, <1>5, MoveItemDeals
<1>6. ASSUME NEW i \in Item, UpdateItem(i) \/ RemoveItem(i)
      PROVE  Deal!Next
  BY <1>2, <1>6, UpdateItemDeals, RemoveItemDeals
<1>7. CASE UNCHANGED vars
  BY <1>1, <1>7 DEF vars, tradeVars
<1> QED BY <1>3, <1>4, <1>5, <1>6, <1>7 DEF Next

-----------------------------------------------------------------------------
(* The theorems.                                                           *)

\* The strengthening the theorems below rest on: with the fields of every
\* trade in order, no container comes to lie in itself, everything on offer
\* stays in reach, and no offer lies inside another.
THEOREM OffersInvariant == Spec => []Inv
BY InitInv, NextInv, PTL DEF Spec

\* While a trade is open both sides stay within two tiles of each other, and
\* each within reach of his offer: whoever walks off or takes the offer away
\* ends the trade (onCreatureMove and the onRemove hooks).
THEOREM OffersStayInReach == Spec => []OfferInReach
<1>1. Inv => OfferInReach
  BY DEF Inv
<1> QED BY <1>1, OffersInvariant, PTL

\* Game::tradeItems is what is on offer, and nothing is offered inside
\* another offer: what playerRequestTrade's search through the containers
\* rules out, no later move brings about.
THEOREM RegisterAlwaysMatches == Spec => []RegisterMatchesOffers
<1>1. Inv => RegisterMatchesOffers
  BY DEF Inv, Base, OffersApart, RegisterMatchesOffers
<1> QED BY <1>1, OffersInvariant, PTL

\* As long as an offer stands nothing enters it, leaves it or changes in it,
\* at any depth: every item event that could is heard by the one who offers,
\* because he is near enough (the hooks' two tiles against his one).
THEOREM OffersAreUntouched == Spec => OfferUntouched
<1> DEFINE P == \A p \in Player, i \in Item :
                   tradeItem[p] = i /\ tradeItem'[p] = i =>
                      /\ Inside(i)' = Inside(i)
                      /\ touched' \cap ({i} \cup Inside(i)) = {}
<1>1. ASSUME Inv, [Next]_vars
      PROVE  P \/ UNCHANGED vars
  <2>1. CASE OffersSpared
    <3> SUFFICES ASSUME NEW p \in Player, NEW i \in Item, tradeItem[p] = i, tradeItem'[p] = i
                 PROVE  /\ Inside(i)' = Inside(i)
                        /\ touched' \cap ({i} \cup Inside(i)) = {}
      OBVIOUS
    <3>1. i # NoItem
      BY TradeConstants DEF TradeConstants
    <3>2. Spares(i)
      BY <2>1, <3>1 DEF OffersSpared
    <3> QED BY <3>2 DEF Spares, Inside
  <2> QED BY <1>1, <2>1, NextSpares
<1>2. Inv /\ [Next]_vars => [P]_vars
  BY <1>1
<1> QED BY <1>2, OffersInvariant, PTL DEF Spec, OfferUntouched

\* A swap gives each side what the other offered, if no container lies inside
\* either offer: playerAcceptTrade moves the second thing without looking at
\* the result, but its room can only have left inside the first.
THEOREM SwapsAreComplete == Spec => SwapIsComplete
<1> DEFINE P == \A p \in Player, i, j \in Item : LET q == tradePartner[p] IN
                   /\ tradeItem[p] = i /\ q # NoPlayer /\ tradeItem[q] = j
                   /\ touched' = {i, j}
                   /\ (Inside(i) \cup Inside(j)) \cap Container = {}
                   => TopOf(loc', i) = q /\ TopOf(loc', j) = p
<1>1. Inv /\ [Next]_vars => [P]_vars
  BY NextSwapIsComplete
<1> QED BY <1>1, OffersInvariant, PTL DEF Spec, SwapIsComplete

\* The trade dialogue, with every hook that calls a trade off, is the barter
\* the players see: deals open, are answered and end for both sides at once,
\* nothing on offer moves, and things change hands only in a swap both agreed
\* to or by way of the ground.
THEOREM TradeImplementsBarter == Spec => ImplementsBarter
<1>1. Inv /\ [Next]_vars => [Deal!Next]_Deal!vars
  BY NextDeals DEF dealVars, Agreed, Holder, Deal!vars
<1> QED BY <1>1, InitDeals, OffersInvariant, PTL DEF Spec, ImplementsBarter, Deal!Spec

=============================================================================
