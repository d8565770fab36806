--------------------------- MODULE Storage_proofs ---------------------------
(***************************************************************************)
(* Proofs about Storage, for any players, things, limits and map.          *)
(*                                                                         *)
(* The invariant is StorageInv.  Its core is Good(store), a predicate on   *)
(* a single store, so that what the handlers do in between can be stated:  *)
(* Sound(s, H) is the same without the limits, of a store from which the   *)
(* things H have been taken and not yet put anywhere.  Every function that *)
(* changes a store has a predicate that says what it does, such as Taken,  *)
(* PutInto, GrownBy or Shifted, and a lemma that it does.                  *)
(*                                                                         *)
(* Two facts carry the rest.  A weight or a number cached by a container   *)
(* is a sum over what lies in it, and telling each container from a place  *)
(* upward changes just these sums (JoinedCounts): what holds one of these  *)
(* containers holds no second, since they are a chain (ChainIsThin).  And  *)
(* what a query tests is the cached number, which is therefore the true    *)
(* one, before the change and after it (ShiftGood).                        *)
(*                                                                         *)
(* How far up, down or along a loop of the code goes is never counted:     *)
(* the containers around a thing are a least set, and sums are unfolded    *)
(* by the lemmas of Nesting_proofs.                                        *)
(***************************************************************************)
EXTENDS Storage, Nesting_proofs

\* What is in b at any depth, by the parents
Inner(l, b) == {x \in Thing : b \in Around(l, x)}

\* What a player wears weighs
LoadOf(s, p) == Load(s, Inventory(s, p))

-----------------------------------------------------------------------------
(* The parts of the invariant, of a store in which a handler may have      *)
(* things in hand.                                                         *)

\* Parents, contents and slots say the same, and no container lies in itself.
Placed(s) ==
    /\ Grounded(s.parent)
    /\ \A x \in Container \cup Tile : s.inside[x] = {t \in Thing : s.parent[t] = x}
    /\ \A p \in Player, k \in Slot : s.inv[p][k] # NoThing =>
         /\ s.parent[s.inv[p][k]] = p
         /\ \A j \in Slot : s.inv[p][j] = s.inv[p][k] => j = k
    /\ \A p \in Player, c \in Container : s.parent[c] = p => c \in Inventory(s, p)

\* What a container caches is right.
CountedAt(s, b) ==
    /\ s.weight[b] = Load(s, s.inside[b])
    /\ s.amount[b] = 1 + Cardinality(Inner(s.parent, b))

\* Every container is right.
Counted(s) == \A b \in Container : CountedAt(s, b)

\* What is nowhere, but for the things H in hand, is out of use or empty.
InUse(s, H) ==
    /\ \A t \in H : s.parent[t] = Nowhere
    /\ \A t \in Stack \ H : s.units[t] > 0 <=> s.parent[t] # Nowhere
    /\ \A c \in Container \ H : s.parent[c] = Nowhere => s.inside[c] = {}

\* All of that, with the things H in hand
Sound(s, H) == s \in Stores /\ Placed(s) /\ Counted(s) /\ InUse(s, H)

-----------------------------------------------------------------------------
(* Constants, types and sums.                                              *)

\* What the assumptions on the constants say of things, places and slots
LEMMA Constants ==
    /\ Container \subseteq Thing /\ Stack \subseteq Thing /\ Gear \subseteq Thing
    /\ IsFiniteSet(Thing) /\ IsFiniteSet(Stack) /\ IsFiniteSet(Container)
    /\ Container \cap Stack = {} /\ Stack \cap Gear = {} /\ Container \cap Gear = {}
    /\ Player \cap Tile = {} /\ Player \cap Thing = {} /\ Tile \cap Thing = {}
    /\ NoThing \notin Thing /\ Nowhere \notin Place /\ Nowhere \notin Thing
    /\ Nowhere \notin Container
    /\ \A t \in Thing : Heft[t] \in Nat
    /\ MaxStack \in Nat /\ MaxStack > 0
    /\ NoSlot \notin Slot
<1>1. NoSlot \notin Slot
  BY DEF NoSlot, Slot, Hand
<1>2. IsFiniteSet(Stack) /\ IsFiniteSet(Container)
  BY StorageConstants, FS_Subset DEF Thing
<1> QED BY <1>1, <1>2, StorageConstants DEF Thing, Place

\* The types of a store's fields
LEMMA StoreTypes ==
    ASSUME NEW s \in Stores
    PROVE  /\ s.parent \in [Thing -> Place \cup {Nowhere}]
           /\ s.inv \in [Player -> [Slot -> Thing \cup {NoThing}]]
           /\ s.inside \in [Container \cup Tile -> SUBSET Thing]
           /\ s.units \in [Stack -> 0 .. MaxStack]
           /\ s.weight \in [Container -> Nat] /\ s.amount \in [Container -> Nat]
           /\ s.depth \in [Container -> Nat]
           /\ s.carried \in [Player -> Nat]
BY DEF Stores

\* A store is put together from its fields.
LEMMA StoreMade ==
    ASSUME NEW pa \in [Thing -> Place \cup {Nowhere}],
           NEW iv \in [Player -> [Slot -> Thing \cup {NoThing}]],
           NEW ins \in [Container \cup Tile -> SUBSET Thing],
           NEW un \in [Stack -> 0 .. MaxStack],
           NEW we \in [Container -> Nat], NEW am \in [Container -> Nat],
           NEW de \in [Container -> Nat],
           NEW ca \in [Player -> Nat]
    PROVE  [parent |-> pa, inv |-> iv, inside |-> ins, units |-> un, weight |-> we,
            amount |-> am, depth |-> de, carried |-> ca] \in Stores
BY DEF Stores

\* The weight of a bag, of a stack and of gear
LEMMA Weigh ==
    ASSUME NEW s
    PROVE  /\ \A t \in Container : Weight(s, t) = Heft[t] + s.weight[t]
           /\ \A t \in Stack : Weight(s, t) = Heft[t] * s.units[t]
           /\ \A t \in Thing \ (Container \cup Stack) : Weight(s, t) = Heft[t]
BY Constants DEF Weight

\* A product of naturals is one.
LEMMA Product ==
    ASSUME NEW a \in Nat, NEW b \in Nat
    PROVE  a * b \in Nat
OBVIOUS

\* What a thing weighs is a natural number.
LEMMA WeightType ==
    ASSUME NEW s \in Stores, NEW t \in Thing
    PROVE  Weight(s, t) \in Nat
<1>1. CASE t \in Container
  BY <1>1, Weigh, Constants, StoreTypes
<1>2. CASE t \in Stack
  <2>1. Heft[t] \in Nat /\ s.units[t] \in Nat
    BY <1>2, Constants, StoreTypes
  <2> QED BY <1>2, <2>1, Weigh, Product
<1>3. CASE t \notin Container \cup Stack
  BY <1>3, Weigh, Constants
<1> QED BY <1>1, <1>2, <1>3

\* A load is a sum of weights, each of which is no more than the load.
LEMMA LoadType ==
    ASSUME NEW s \in Stores, NEW T \in SUBSET Thing
    PROVE  /\ Load(s, T) \in Nat
           /\ \A t \in T : Weight(s, t) <= Load(s, T)
<1> DEFINE F == [t \in Thing |-> Weight(s, t)]
<1>1. IsFiniteSet(T)
  BY Constants, FS_Subset
<1>2. \A t \in T : F[t] \in Nat /\ F[t] = Weight(s, t)
  BY WeightType
<1> HIDE DEF F
<1>3. SumFunctionOnSet(F, T) \in Nat /\ \A t \in T : F[t] <= SumFunctionOnSet(F, T)
  BY <1>1, <1>2, SumNat
<1> USE DEF F
<1> QED BY <1>2, <1>3 DEF Load

\* What a player wears are things, and they weigh something.
LEMMA InventoryType ==
    ASSUME NEW s \in Stores, NEW p \in Player
    PROVE  /\ Inventory(s, p) \in SUBSET Thing
           /\ LoadOf(s, p) \in Nat
<1>1. \A k \in Slot : s.inv[p][k] \in Thing \cup {NoThing}
  BY StoreTypes
<1>2. Inventory(s, p) \in SUBSET Thing
  BY <1>1 DEF Inventory
<1> QED BY <1>2, LoadType DEF LoadOf

\* Loads of two stores, compared
LEMMA LoadSame ==
    ASSUME NEW s \in Stores, NEW r, NEW T \in SUBSET Thing, \A t \in T : Weight(r, t) = Weight(s, t)
    PROVE  Load(r, T) = Load(s, T)
<1> DEFINE F == [t \in Thing |-> Weight(s, t)]
           G == [t \in Thing |-> Weight(r, t)]
<1>1. IsFiniteSet(T)
  BY Constants, FS_Subset
<1>2. \A t \in T : F[t] \in Int /\ G[t] = F[t]
  BY WeightType
<1> HIDE DEF F, G
<1>3. SumFunctionOnSet(G, T) = SumFunctionOnSet(F, T)
  BY <1>1, <1>2, SumSame
<1> USE DEF F, G
<1> QED BY <1>3 DEF Load

\* One more thing adds its weight.
LEMMA LoadWith ==
    ASSUME NEW s \in Stores, NEW T \in SUBSET Thing, NEW t \in Thing \ T
    PROVE  Load(s, T \cup {t}) = Load(s, T) + Weight(s, t)
<1> DEFINE F == [u \in Thing |-> Weight(s, u)]
<1>1. IsFiniteSet(T)
  BY Constants, FS_Subset
<1>2. \A u \in T \cup {t} : F[u] \in Int
  BY WeightType
<1>3. F[t] = Weight(s, t)
  OBVIOUS
<1> HIDE DEF F
<1>4. SumFunctionOnSet(F, T \cup {t}) = SumFunctionOnSet(F, T) + F[t]
  BY <1>1, <1>2, SumWith
<1> USE DEF F
<1> QED BY <1>3, <1>4 DEF Load

\* One thing that weighs more or less changes the load by as much.
LEMMA LoadChange ==
    ASSUME NEW s \in Stores, NEW r, NEW T \in SUBSET Thing, NEW t \in T, Weight(r, t) \in Int,
           \A u \in T \ {t} : Weight(r, u) = Weight(s, u)
    PROVE  Load(r, T) = Load(s, T) + (Weight(r, t) - Weight(s, t))
<1> DEFINE F == [u \in Thing |-> Weight(s, u)]
           G == [u \in Thing |-> Weight(r, u)]
<1>1. IsFiniteSet(T)
  BY Constants, FS_Subset
<1>2. /\ \A u \in T : F[u] \in Int /\ G[u] \in Int
      /\ \A u \in T \ {t} : G[u] = F[u]
      /\ F[t] = Weight(s, t) /\ G[t] = Weight(r, t)
  BY WeightType
<1> HIDE DEF F, G
<1>3. SumFunctionOnSet(G, T) = SumFunctionOnSet(F, T) + (G[t] - F[t])
  BY <1>1, <1>2, SumChange
<1> USE DEF F, G
<1> QED BY <1>2, <1>3 DEF Load

-----------------------------------------------------------------------------
(* Crediting the containers up from x.                                     *)

\* UpFrom has containers only.
LEMMA UpFromType ==
    ASSUME NEW l, NEW x
    PROVE  UpFrom(l, x) \in SUBSET Container
BY AroundIsClosed DEF UpFrom

\* Something in y is credited if y is around x, or is the top of it.
LEMMA ChainEnds ==
    ASSUME NEW l, Grounded(l), NEW x, NEW y
    PROVE  (\E c \in UpFrom(l, x) : l[c] = y) <=>
             /\ x \in Container
             /\ IF y \in Container THEN y \in Around(l, x) ELSE y = TopOf(l, x)
<1>1. CASE x \notin Container
  BY <1>1 DEF UpFrom
<1>2. CASE x \in Container /\ y \in Container
  <2> DEFINE S == {d \in Around(l, x) : \E c \in UpFrom(l, x) : l[c] = d}
  <2>1. ASSUME NEW j \in S \cup {x}, l[j] \in Container PROVE l[j] \in S
    <3>1. j \in UpFrom(l, x)
      BY <1>2 DEF UpFrom
    <3>2. l[j] \in Around(l, x)
      BY <1>2, <2>1, AroundIsClosed DEF ClosedFrom
    <3> QED BY <3>1, <3>2
  <2>2. S \in SUBSET Container /\ ClosedFrom(l, S, x)
    BY <2>1, AroundIsClosed DEF ClosedFrom
  <2> HIDE DEF S
  <2>3. Around(l, x) \subseteq S
    BY <2>2, AroundIsLeast
  <2> USE DEF S
  <2>4. ASSUME NEW c \in UpFrom(l, x), l[c] = y PROVE y \in Around(l, x)
    BY <1>2, <2>4, AroundIsClosed DEF UpFrom, ClosedFrom
  <2> QED BY <1>2, <2>3, <2>4
<1>3. CASE x \in Container /\ y \notin Container
  <2>1. PICK a \in {x} \cup Around(l, x) : l[a] \notin Container /\ TopOf(l, x) = l[a]
    BY TopIsThere
  <2>2. ASSUME NEW c \in UpFrom(l, x), l[c] = y PROVE y = TopOf(l, x)
    BY <1>3, <2>1, <2>2, TopIsUnique DEF UpFrom
  <2> QED BY <1>3, <2>1, <2>2 DEF UpFrom
<1> QED BY <1>1, <1>2, <1>3

\* When the containers up from x weigh w more, what holds one of them weighs w more,
\* because it holds no second.
Credits(s, r, l, x, w, T, y) ==
    /\ Grounded(l) /\ w \in Int /\ T \in SUBSET Thing
    /\ \A t \in T : l[t] = y
    /\ \A c \in Container : l[c] = y => c \in T
    /\ \A t \in T : Weight(r, t) = Weight(s, t) + IF t \in UpFrom(l, x) THEN w ELSE 0

\* When every bag from x upward weighs w more, so does what lies in y, if y is on the way.
LEMMA CreditedLoad ==
    ASSUME NEW s \in Stores, NEW r, NEW l, NEW x, NEW w, NEW T, NEW y,
           Credits(s, r, l, x, w, T, y)
    PROVE  Load(r, T) = Load(s, T) + IF \E c \in UpFrom(l, x) : l[c] = y THEN w ELSE 0
<1> USE DEF Credits
<1>1. Load(s, T) \in Int /\ \A t \in T : Weight(s, t) \in Int
  BY LoadType, WeightType
<1>2. CASE \E c \in UpFrom(l, x) : l[c] = y
  <2>1. PICK c \in UpFrom(l, x) : l[c] = y
    BY <1>2
  <2>2. c \in T
    BY <2>1, UpFromType
  <2>3. ASSUME NEW t \in T \ {c} PROVE t \notin UpFrom(l, x)
    <3>1. SUFFICES ASSUME t \in UpFrom(l, x) PROVE FALSE
      OBVIOUS
    <3>2. t \in {x} \cup Around(l, x) /\ c \in {x} \cup Around(l, x)
      BY <2>1, <3>1 DEF UpFrom
    <3> QED BY <2>1, <3>2, ChainIsThin
  <2>4. Weight(r, c) = Weight(s, c) + w /\ \A t \in T \ {c} : Weight(r, t) = Weight(s, t)
    BY <1>1, <2>1, <2>2, <2>3
  <2>5. Weight(r, c) \in Int
    BY <1>1, <2>2, <2>4
  <2>6. Load(r, T) = Load(s, T) + (Weight(r, c) - Weight(s, c))
    BY <2>2, <2>4, <2>5, LoadChange
  <2> QED BY <1>1, <1>2, <2>2, <2>4, <2>6
<1>3. CASE ~ \E c \in UpFrom(l, x) : l[c] = y
  <2>1. \A t \in T : Weight(r, t) = Weight(s, t)
    BY <1>1, <1>3
  <2>2. Load(r, T) = Load(s, T)
    BY <2>1, LoadSame
  <2> QED BY <1>1, <1>3, <2>2
<1> QED BY <1>2, <1>3

-----------------------------------------------------------------------------
(* Two stores of which one is the other with t put in.  Putting reads the  *)
(* lemma forward, taking out reads it backward.                            *)

\* There are finitely many things in b.
LEMMA InnerType ==
    ASSUME NEW l, NEW b
    PROVE  /\ Inner(l, b) \in SUBSET Thing /\ IsFiniteSet(Inner(l, b))
           /\ Cardinality(Inner(l, b)) \in Nat
<1>1. Inner(l, b) \in SUBSET Thing
  BY DEF Inner
<1>2. IsFiniteSet(Inner(l, b))
  BY <1>1, Constants, FS_Subset
<1> QED BY <1>1, <1>2, FS_CardinalityType

\* A walk over the contents of a container meets what lies in it by the parents.
LEMMA ContentsAreInner ==
    ASSUME NEW s, \A x \in Container : s.inside[x] = {t \in Thing : s.parent[t] = x},
           NEW b
    PROVE  Contents(s, b) = IF b \in Container THEN Inner(s.parent, b) ELSE {}
<1>1. CASE b \notin Container
  BY <1>1 DEF Contents
<1>2. CASE b \in Container
  <2> DEFINE l == s.parent
  <2>1. ASSUME NEW c \in Container, c = b \/ b \in Around(l, c) PROVE c \in Nested(s, b)
    <3>1. ASSUME NEW S \in SUBSET (Container \ {c}), b \in S,
                 \A d \in S : s.inside[d] \cap (Container \ S) = {}
          PROVE  FALSE
      <4> DEFINE R == Container \ S
      <4>1. ASSUME NEW j \in R \cup {c}, l[j] \in Container PROVE l[j] \in R
        <5>1. SUFFICES ASSUME l[j] \in S PROVE FALSE
          BY <4>1
        <5>2. j \in s.inside[l[j]]
          BY <4>1, <5>1, Constants
        <5> QED BY <3>1, <4>1, <5>1, <5>2
      <4>2. R \in SUBSET Container /\ ClosedFrom(l, R, c)
        BY <4>1 DEF ClosedFrom
      <4> HIDE DEF R
      <4>3. Around(l, c) \subseteq R
        BY <4>2, AroundIsLeast
      <4> QED BY <2>1, <3>1, <4>3 DEF R
    <3> QED BY <3>1 DEF Nested
  <2>2. ASSUME NEW c \in Nested(s, b) PROVE c \in Container /\ (c = b \/ b \in Around(l, c))
    <3> DEFINE S == {d \in Container : d = b \/ b \in Around(l, d)}
    <3>1. SUFFICES ASSUME c \notin S PROVE FALSE
      BY DEF Nested
    <3>2. S \in SUBSET (Container \ {c}) /\ b \in S
      BY <1>2, <3>1
    <3>3. PICK d \in S : s.inside[d] \cap (Container \ S) # {}
      BY <3>2 DEF Nested
    <3>4. PICK e \in Container \ S : e \in s.inside[d]
      BY <3>3
    <3>5. l[e] = d
      BY <3>3, <3>4
    <3>6. b \in Around(l, e)
      BY <3>3, <3>5, AroundUnfolds
    <3> QED BY <3>4, <3>6
  <2>3. ASSUME NEW t \in Contents(s, b) PROVE t \in Inner(l, b)
    <3>1. PICK c \in Nested(s, b) : t \in s.inside[c]
      BY <1>2, <2>3 DEF Contents
    <3>2. c \in Container /\ (c = b \/ b \in Around(l, c)) /\ t \in Thing /\ l[t] = c
      BY <2>2, <3>1
    <3>3. b \in Around(l, t)
      BY <3>2, AroundUnfolds
    <3> QED BY <3>2, <3>3 DEF Inner
  <2>4. ASSUME NEW t \in Inner(l, b) PROVE t \in Contents(s, b)
    <3>1. t \in Thing /\ b \in Around(l, t)
      BY <2>4 DEF Inner
    <3>2. l[t] \in Container /\ (l[t] = b \/ b \in Around(l, l[t]))
      BY <3>1, AroundUnfolds
    <3>3. l[t] \in Nested(s, b) /\ t \in s.inside[l[t]]
      BY <2>1, <3>1, <3>2
    <3> QED BY <1>2, <3>3 DEF Contents
  <2>5. Contents(s, b) = Inner(l, b)
    BY <2>3, <2>4
  <2> QED BY <1>2, <2>5
<1> QED BY <1>1, <1>2

\* A container weighs at least what anything in it weighs, and counts it.
LEMMA HeavierAbove ==
    ASSUME NEW s \in Stores, Placed(s), Counted(s), NEW t \in Thing, NEW c \in Around(s.parent, t)
    PROVE  Weight(s, t) <= s.weight[c] /\ Amount(s, t) <= s.amount[c]
<1> DEFINE l == s.parent
           S == {d \in Container : Weight(s, t) <= s.weight[d]}
<1>1. ASSUME NEW j \in S \cup {t}, l[j] \in Container PROVE l[j] \in S
  <2>0. j \in Thing
    BY Constants
  <2>1. j \in s.inside[l[j]]
    BY <1>1, <2>0 DEF Placed
  <2>2. s.inside[l[j]] \in SUBSET Thing
    BY <1>1, StoreTypes
  <2>3. Weight(s, j) <= s.weight[l[j]]
    BY <1>1, <2>1, <2>2, LoadType DEF Counted, CountedAt
  <2>4. Weight(s, t) <= Weight(s, j)
    <3>1. CASE j = t
      BY <3>1, WeightType
    <3>2. CASE j \in S
      <4>1. Weight(s, j) = Heft[j] + s.weight[j] /\ Weight(s, t) <= s.weight[j]
        BY <3>2, Weigh
      <4>2. Heft[j] \in Nat /\ s.weight[j] \in Nat /\ Weight(s, t) \in Nat
        BY <3>2, Constants, StoreTypes, WeightType
      <4> QED BY <4>1, <4>2
    <3> QED BY <1>1, <3>1, <3>2
  <2>5. Weight(s, t) \in Nat /\ Weight(s, j) \in Nat /\ s.weight[l[j]] \in Nat
    BY <1>1, <2>0, WeightType, StoreTypes
  <2> QED BY <1>1, <2>3, <2>4, <2>5
<1>2. S \in SUBSET Container /\ ClosedFrom(l, S, t)
  BY <1>1 DEF ClosedFrom
<1>3. c \in S
  <2> HIDE DEF S
  <2> QED BY <1>2, AroundIsLeast
<1>4. c \in Container
  BY AroundIsClosed
<1>5. Amount(s, t) <= s.amount[c]
  <2>1. s.amount[c] = 1 + Cardinality(Inner(l, c))
    BY <1>4 DEF Counted, CountedAt
  <2>2. CASE t \in Container
    <3>1. Amount(s, t) = 1 + Cardinality(Inner(l, t))
      BY <2>2 DEF Counted, CountedAt, Amount
    <3>2. Inner(l, t) \subseteq Inner(l, c)
      BY AroundIsTransitive DEF Inner
    <3>3. Cardinality(Inner(l, t)) <= Cardinality(Inner(l, c))
      BY <3>2, InnerType, FS_Subset
    <3> HIDE DEF l
    <3> QED BY <2>1, <3>1, <3>3, InnerType
  <2>3. CASE t \notin Container
    BY <2>1, <2>3, InnerType DEF Amount
  <2> QED BY <2>2, <2>3
<1> QED BY <1>3, <1>5

\* The containers that are told when t goes from where it is in lo to where it is in hi
Up(lo, hi, t) == UpFrom(lo.parent, hi.parent[t])

\* hi is lo with t put in.
Joined(lo, hi, t) ==
    LET pl == hi.parent[t]
        up == Up(lo, hi, t)
    IN  /\ PutIn(lo.parent, hi.parent, t)
        /\ lo.parent[t] = Nowhere /\ pl \in Place
        /\ \A u \in Thing \ {t} : hi.parent[u] = lo.parent[u]
        /\ hi.units = lo.units
        /\ \A x \in Container \cup Tile :
             hi.inside[x] = lo.inside[x] \cup IF x = pl THEN {t} ELSE {}
        /\ \A p \in Player :
             Inventory(hi, p) = Inventory(lo, p) \cup IF p = pl THEN {t} ELSE {}
        /\ \A b \in Container :
             /\ hi.weight[b] = lo.weight[b] + IF b \in up THEN Weight(lo, t) ELSE 0
             /\ hi.amount[b] = lo.amount[b] + IF b \in up THEN Amount(lo, t) ELSE 0

\* Every thing weighs more by what was put into it.
LEMMA JoinedWeights ==
    ASSUME NEW lo \in Stores, NEW hi \in Stores, NEW t \in Thing, Joined(lo, hi, t), NEW u \in Thing
    PROVE  /\ Weight(hi, u) = Weight(lo, u) +
                IF u \in Up(lo, hi, t) THEN Weight(lo, t) ELSE 0
           /\ u \in Up(lo, hi, t) => u \in Container /\ u # t
<1>1. Up(lo, hi, t) \in SUBSET Container
  BY UpFromType DEF Up
<1>2. u \in Up(lo, hi, t) => u # t
  BY DEF Joined, PutIn, UpFrom, Up
<1>3. Weight(lo, u) \in Nat /\ Weight(lo, t) \in Nat /\ Weight(hi, u) \in Nat
  BY WeightType
<1>4. CASE u \in Container
  <2>1. hi.weight[u] = lo.weight[u] + IF u \in Up(lo, hi, t) THEN Weight(lo, t) ELSE 0
    BY <1>4 DEF Joined
  <2>2. Weight(hi, u) = Heft[u] + hi.weight[u] /\ Weight(lo, u) = Heft[u] + lo.weight[u]
    BY <1>4, Weigh
  <2>3. Heft[u] \in Nat /\ lo.weight[u] \in Nat /\ hi.weight[u] \in Nat
    BY <1>4, StoreTypes, Constants
  <2> QED BY <1>1, <1>2, <1>3, <2>1, <2>2, <2>3
<1>5. CASE u \notin Container
  <2>1. Weight(hi, u) = Weight(lo, u)
    BY <1>5, Weigh DEF Joined
  <2> QED BY <1>1, <1>3, <1>5, <2>1
<1> QED BY <1>4, <1>5

\* With t, what is in t is in every bag from its new place upward.
LEMMA JoinedInner ==
    ASSUME NEW lo \in Stores, NEW hi \in Stores, NEW t \in Thing, Joined(lo, hi, t), NEW b
    PROVE  /\ Inner(hi.parent, b) = Inner(lo.parent, b) \cup
                IF b \in Up(lo, hi, t) THEN {t} \cup Inner(lo.parent, t) ELSE {}
           /\ Cardinality(Inner(hi.parent, b)) = Cardinality(Inner(lo.parent, b)) +
                IF b \in Up(lo, hi, t) THEN 1 + Cardinality(Inner(lo.parent, t)) ELSE 0
           /\ Inner(hi.parent, t) = Inner(lo.parent, t)
           /\ t \notin Inner(lo.parent, t)
           /\ t \notin Container => Inner(lo.parent, t) = {}
<1> DEFINE l == lo.parent
           m == hi.parent
           up == Up(lo, hi, t)
           G == {t} \cup Inner(l, t)
<1>1. PutIn(l, m, t) /\ \A u \in Thing : u = t \/ m[u] = l[u]
  BY DEF Joined
<1>2. ASSUME NEW u \in Thing
      PROVE  /\ u \in G <=> t \in {u} \cup Around(l, u)
             /\ Around(m, u) = IF u \in G THEN Around(l, u) \cup up ELSE Around(l, u)
             /\ u \in G => Around(l, u) \cap up = {}
  <2>1. u \in G <=> t \in {u} \cup Around(l, u)
    BY DEF Inner
  <2>2. Around(m, u) = IF t \in {u} \cup Around(l, u) THEN Around(l, u) \cup up ELSE Around(l, u)
    BY <1>1, AroundPutIn DEF Up
  <2>3. t \in {u} \cup Around(l, u) => Around(l, u) \cap up = {}
    BY <1>1, PutInApart DEF Up
  <2> QED BY <2>1, <2>2, <2>3
<1>3. t \notin up /\ t \notin Inner(l, t) /\ G \in SUBSET Thing
  <2>1. Around(l, t) = {}
    BY <1>1, AroundUnfolds DEF PutIn
  <2>2. t \notin up
    BY <1>1 DEF PutIn, UpFrom, Up
  <2> QED BY <2>1, <2>2 DEF Inner
<1>4. ASSUME NEW c PROVE Inner(m, c) = Inner(l, c) \cup IF c \in up THEN G ELSE {}
  <2> HIDE DEF G, l, m, up
  <2> QED BY <1>2, <1>3 DEF Inner
<1>5. b \in up => Inner(l, b) \cap G = {}
  <2> HIDE DEF G, l, m, up
  <2> QED BY <1>2, <1>3 DEF Inner
<1>6. Cardinality(G) = 1 + Cardinality(Inner(l, t)) /\ IsFiniteSet(G)
  <2>1. IsFiniteSet(Inner(l, t)) /\ Cardinality(Inner(l, t)) \in Nat
    BY InnerType
  <2>2. Cardinality(Inner(l, t) \cup {t}) = Cardinality(Inner(l, t)) + 1
        /\ IsFiniteSet(Inner(l, t) \cup {t})
    BY <1>3, <2>1, FS_AddElement
  <2>3. G = Inner(l, t) \cup {t}
    OBVIOUS
  <2> HIDE DEF G, l
  <2> QED BY <2>1, <2>2, <2>3
<1>7. Cardinality(Inner(m, b)) = Cardinality(Inner(l, b)) +
        IF b \in up THEN 1 + Cardinality(Inner(l, t)) ELSE 0
  <2>1. IsFiniteSet(Inner(l, b)) /\ Cardinality(Inner(l, b)) \in Nat
    BY InnerType
  <2>2. CASE b \notin up
    <3>1. Inner(m, b) = Inner(l, b)
      BY <1>4, <2>2
    <3> HIDE DEF l, m, up
    <3> QED BY <2>1, <2>2, <3>1
  <2>3. CASE b \in up
    <3>1. Inner(m, b) = Inner(l, b) \cup G /\ Inner(l, b) \cap G = {}
      BY <1>4, <1>5, <2>3
    <3>2. Cardinality(Inner(l, b) \cup G) =
            Cardinality(Inner(l, b)) + Cardinality(G) - Cardinality(Inner(l, b) \cap G)
      BY <1>6, <2>1, FS_Union
    <3>3. Cardinality({}) = 0
      BY FS_EmptySet
    <3>4. Cardinality(Inner(l, t)) \in Nat
      BY InnerType
    <3> DEFINE A == Inner(l, b)
               B == Inner(l, t)
    <3>5. Cardinality(A \cap G) = 0
      BY <3>1, <3>3
    <3> HIDE DEF l, m, up, G, A, B
    <3>6. Cardinality(A \cup G) = Cardinality(A) + (1 + Cardinality(B))
      <4>1. Cardinality(A \cup G) = Cardinality(A) + Cardinality(G) - 0
        BY <3>2, <3>5 DEF A
      <4> QED BY <1>6, <2>1, <3>4, <4>1 DEF A, B
    <3>7. Cardinality(Inner(m, b)) = Cardinality(A) + (1 + Cardinality(B))
      BY <3>1, <3>6 DEF A
    <3> QED BY <2>3, <3>7 DEF A, B
  <2> QED BY <2>2, <2>3
<1>8. Inner(m, t) = Inner(l, t)
  BY <1>3, <1>4
<1>9. t \notin Container => Inner(l, t) = {}
  BY AroundIsClosed DEF Inner
<1> QED BY <1>3, <1>4, <1>7, <1>8, <1>9

\* Taking the place of things by their parents, what is loaded
Loaded(lo, hi, T, y) ==
    /\ T \in SUBSET Thing
    /\ \A u \in T : lo.parent[u] = y
    /\ \A c \in Container : lo.parent[c] = y => c \in T

\* The load of what lies in y grows by t when t is put into it or into a bag on the way.
LEMMA JoinedLoad ==
    ASSUME NEW lo \in Stores, NEW hi \in Stores, NEW t \in Thing, Joined(lo, hi, t),
           Grounded(lo.parent), NEW T, NEW y, Loaded(lo, hi, T, y), y # Nowhere
    PROVE  Load(hi, T \cup IF y = hi.parent[t] THEN {t} ELSE {}) = Load(lo, T) +
             IF y = hi.parent[t] \/ (\E c \in Up(lo, hi, t) : lo.parent[c] = y)
             THEN Weight(lo, t) ELSE 0
<1> DEFINE pl == hi.parent[t]
           up == Up(lo, hi, t)
           w == Weight(lo, t)
<1>1. w \in Nat /\ w \in Int /\ Weight(hi, t) = w
  <2>1. w \in Nat /\ Weight(hi, t) \in Nat
    BY WeightType
  <2>2. t \notin up
    BY JoinedWeights
  <2>3. Weight(hi, t) = w + 0
    BY <2>2, JoinedWeights
  <2> QED BY <2>1, <2>3
<1>2. T \in SUBSET Thing /\ t \notin T
  BY DEF Joined, Loaded
<1>3. Load(hi, T) = Load(lo, T) + IF \E c \in up : lo.parent[c] = y THEN w ELSE 0
  <2>1. \A u \in T : Weight(hi, u) = Weight(lo, u) + IF u \in up THEN w ELSE 0
    BY <1>2, JoinedWeights
  <2>2. /\ \A u \in T : lo.parent[u] = y
        /\ \A c \in Container : lo.parent[c] = y => c \in T
    BY DEF Loaded
  <2>3. up = UpFrom(lo.parent, pl)
    BY DEF Up
  <2>4. Credits(lo, hi, lo.parent, pl, w, T, y)
    BY <1>1, <1>2, <2>1, <2>2, <2>3 DEF Credits
  <2> HIDE DEF up, w, pl
  <2> QED BY <2>3, <2>4, CreditedLoad
<1>4. Load(hi, T \cup {t}) = Load(hi, T) + Weight(hi, t)
  BY <1>2, LoadWith
<1>5. y = pl => ~ \E c \in up : lo.parent[c] = y
  <2> SUFFICES ASSUME y = pl, \E c \in up : lo.parent[c] = y PROVE FALSE
    OBVIOUS
  <2>1. pl \in Around(lo.parent, pl)
    <3>1. pl \in Container
      BY UpFromType DEF Up, UpFrom
    <3> QED BY <3>1, ChainEnds DEF Up
  <2> QED BY <2>1, NothingAroundItself
<1>6. Load(lo, T) \in Nat /\ Load(hi, T) \in Nat
  BY <1>2, LoadType
<1>7. Load(hi, T \cup IF y = pl THEN {t} ELSE {}) = Load(lo, T) +
        IF y = pl \/ (\E c \in up : lo.parent[c] = y) THEN w ELSE 0
  <2> HIDE DEF w, up, pl
  <2>1. CASE y = pl
    BY <1>1, <1>3, <1>4, <1>5, <1>6, <2>1
  <2>2. CASE y # pl
    <3>1. T \cup (IF y = pl THEN {t} ELSE {}) = T
      BY <2>2
    <3> QED BY <1>1, <1>3, <1>6, <2>2, <3>1
  <2> QED BY <2>1, <2>2
<1> QED BY <1>7

\* The caches of one store are right just when those of the other are.
LEMMA JoinedCounts ==
    ASSUME NEW lo \in Stores, NEW hi \in Stores, NEW t \in Thing, Joined(lo, hi, t), Placed(lo)
    PROVE  Counted(lo) <=> Counted(hi)
<1> DEFINE l == lo.parent
           pl == hi.parent[t]
           up == Up(lo, hi, t)
<1>1. ASSUME NEW b \in Container
      PROVE  lo.weight[b] = Load(lo, lo.inside[b]) <=> hi.weight[b] = Load(hi, hi.inside[b])
  <2>1. Loaded(lo, hi, lo.inside[b], b)
    BY StoreTypes, Constants DEF Placed, Loaded
  <2>2. b # Nowhere
    BY Constants
  <2>3. Load(hi, lo.inside[b] \cup IF b = pl THEN {t} ELSE {}) = Load(lo, lo.inside[b]) +
          IF b = pl \/ (\E c \in up : l[c] = b) THEN Weight(lo, t) ELSE 0
    BY <2>1, <2>2, JoinedLoad DEF Placed
  <2>4. (\E c \in up : l[c] = b) <=> pl \in Container /\ b \in Around(l, pl)
    BY ChainEnds DEF Placed, Up
  <2>5. b \in up <=> (b = pl \/ \E c \in up : l[c] = b)
    BY <2>4 DEF UpFrom, Up
  <2>6. /\ hi.inside[b] = lo.inside[b] \cup IF b = pl THEN {t} ELSE {}
        /\ hi.weight[b] = lo.weight[b] + IF b \in up THEN Weight(lo, t) ELSE 0
    BY DEF Joined
  <2>7. Weight(lo, t) \in Nat /\ lo.weight[b] \in Nat /\ Load(lo, lo.inside[b]) \in Nat
    BY StoreTypes, WeightType, LoadType
  <2> HIDE DEF up, pl, l
  <2> QED BY <2>3, <2>5, <2>6, <2>7
<1>2. ASSUME NEW b \in Container, Amount(lo, t) = 1 + Cardinality(Inner(l, t))
      PROVE  lo.amount[b] = 1 + Cardinality(Inner(l, b)) <=>
             hi.amount[b] = 1 + Cardinality(Inner(hi.parent, b))
  <2>1. Cardinality(Inner(hi.parent, b)) = Cardinality(Inner(l, b)) +
          IF b \in up THEN 1 + Cardinality(Inner(l, t)) ELSE 0
    BY JoinedInner
  <2>2. hi.amount[b] = lo.amount[b] + IF b \in up THEN Amount(lo, t) ELSE 0
    BY DEF Joined
  <2>3. lo.amount[b] \in Nat /\ Cardinality(Inner(l, b)) \in Nat /\ Cardinality(Inner(l, t)) \in Nat
    BY InnerType, StoreTypes
  <2> HIDE DEF up, pl, l
  <2> QED BY <1>2, <2>1, <2>2, <2>3
<1>3. Counted(lo) \/ Counted(hi) => Amount(lo, t) = 1 + Cardinality(Inner(l, t))
  <2>1. CASE t \in Container
    <3>1. t \notin up
      BY DEF Joined, PutIn, UpFrom, Up
    <3>2. hi.amount[t] = lo.amount[t]
      <4>1. hi.amount[t] = lo.amount[t] + 0
        BY <2>1, <3>1 DEF Joined
      <4>2. lo.amount[t] \in Nat
        BY <2>1, StoreTypes
      <4> QED BY <4>1, <4>2
    <3>3. Inner(hi.parent, t) = Inner(l, t)
      BY JoinedInner
    <3> QED BY <2>1, <3>2, <3>3 DEF Counted, CountedAt, Amount
  <2>2. CASE t \notin Container
    <3>1. Inner(l, t) = {}
      BY <2>2, JoinedInner
    <3> QED BY <2>2, <3>1, FS_EmptySet DEF Amount
  <2> QED BY <2>1, <2>2
<1> QED BY <1>1, <1>2, <1>3 DEF Counted, CountedAt

\* What a player wears weighs more if he is the one who has the place t is put into.
LEMMA JoinedLoadOf ==
    ASSUME NEW lo \in Stores, NEW hi \in Stores, NEW t \in Thing, Joined(lo, hi, t), Placed(lo),
           NEW p \in Player
    PROVE  LoadOf(hi, p) = LoadOf(lo, p) +
             IF p = Holder(lo, hi.parent[t]) THEN Weight(lo, t) ELSE 0
<1> DEFINE l == lo.parent
           pl == hi.parent[t]
           T == Inventory(lo, p)
<1>1. Loaded(lo, hi, T, p) /\ p # Nowhere
  <2>1. T \in SUBSET Thing
    BY InventoryType
  <2>2. \A u \in T : l[u] = p
    BY DEF Placed, Inventory
  <2>3. \A c \in Container : l[c] = p => c \in T
    BY DEF Placed
  <2> QED BY <2>1, <2>2, <2>3, Constants DEF Loaded, Place
<1>2. Load(hi, T \cup IF p = pl THEN {t} ELSE {}) = Load(lo, T) +
        IF p = pl \/ (\E c \in Up(lo, hi, t) : l[c] = p) THEN Weight(lo, t) ELSE 0
  BY <1>1, JoinedLoad DEF Placed
<1>3. (\E c \in Up(lo, hi, t) : l[c] = p) <=> pl \in Container /\ p = TopOf(l, pl)
  <2>1. p \notin Container
    BY Constants
  <2> QED BY <2>1, ChainEnds DEF Placed, Up
<1>4. p = Holder(lo, pl) <=> (p = pl \/ (pl \in Container /\ p = TopOf(l, pl)))
  <2>1. pl \in Place
    BY DEF Joined
  <2>2. pl \in Thing <=> pl \in Container
    BY <2>1, Constants DEF Place
  <2>3. p \notin Thing
    BY Constants
  <2> QED BY <2>2, <2>3, Constants DEF Holder
<1>5. Inventory(hi, p) = T \cup IF p = pl THEN {t} ELSE {}
  BY DEF Joined
<1>6. LoadOf(hi, p) = Load(hi, T \cup IF p = pl THEN {t} ELSE {}) /\ LoadOf(lo, p) = Load(lo, T)
  BY <1>5 DEF LoadOf
<1>7. LoadOf(hi, p) = LoadOf(lo, p) + IF p = Holder(lo, pl) THEN Weight(lo, t) ELSE 0
  <2> HIDE DEF l, pl, T
  <2> QED BY <1>2, <1>3, <1>4, <1>6
<1> QED BY <1>7

-----------------------------------------------------------------------------
(* What the changes of a cylinder make of a store.                         *)

\* Deepened changes nothing but depths.
LEMMA DeepenedFields ==
    ASSUME NEW s \in Stores, NEW b \in Container, NEW t \in Thing, NEW r, r = Deepened(s, b, t)
    PROVE  /\ r \in Stores
           /\ r.parent = s.parent /\ r.inv = s.inv /\ r.inside = s.inside /\ r.units = s.units
           /\ r.weight = s.weight /\ r.amount = s.amount /\ r.carried = s.carried
<1>1. CASE t \notin Container \/ MaxDepth = 0
  BY <1>1 DEF Deepened
<1>2. CASE ~(t \notin Container \/ MaxDepth = 0) /\ s.parent[b] \in Container
  <2>1. r = [s EXCEPT !.depth[t] = s.depth[b] + 1]
    BY <1>2 DEF Deepened
  <2>2. [s.depth EXCEPT ![t] = s.depth[b] + 1] \in [Container -> Nat]
    BY <1>2, StoreTypes
  <2> QED BY <2>1, <2>2 DEF Stores
<1>3. CASE ~(t \notin Container \/ MaxDepth = 0) /\ s.parent[b] \notin Container
  <2>1. r = [s EXCEPT !.depth = [@ EXCEPT ![b] = 1, ![t] = 2]]
    BY <1>3 DEF Deepened
  <2>2. [s.depth EXCEPT ![b] = 1, ![t] = 2] \in [Container -> Nat]
    BY <1>3, StoreTypes
  <2> QED BY <2>1, <2>2 DEF Stores
<1> QED BY <1>1, <1>2, <1>3

\* What Put does to the fields of a store
PutTo(s, r, pl, k, t) ==
    /\ r \in Stores
    /\ r.parent = [s.parent EXCEPT ![t] = pl]
    /\ r.units = s.units /\ r.carried = s.carried
    /\ r.inv = IF pl \in Player THEN [s.inv EXCEPT ![pl][k] = t] ELSE s.inv
    /\ r.inside = IF pl \in Player THEN s.inside ELSE [s.inside EXCEPT ![pl] = @ \cup {t}]
    /\ \A b \in Container :
         /\ r.weight[b] = s.weight[b] + IF b \in UpFrom(s.parent, pl) THEN Weight(s, t) ELSE 0
         /\ r.amount[b] = s.amount[b] + IF b \in UpFrom(s.parent, pl) THEN Amount(s, t) ELSE 0

\* Put, field by field, for a player, a tile and a container
LEMMA PutFields ==
    ASSUME NEW s \in Stores, NEW pl \in Place, NEW k, NEW t \in Thing, pl \in Player => k \in Slot,
           NEW m, m = [s.parent EXCEPT ![t] = pl], UpFrom(m, pl) = UpFrom(s.parent, pl),
           NEW r, r = Put(s, pl, k, t)
    PROVE  PutTo(s, r, pl, k, t)
<1> SUFFICES
           /\ r \in Stores
           /\ r.parent = [s.parent EXCEPT ![t] = pl]
           /\ r.units = s.units /\ r.carried = s.carried
           /\ r.inv = IF pl \in Player THEN [s.inv EXCEPT ![pl][k] = t] ELSE s.inv
           /\ r.inside = IF pl \in Player THEN s.inside ELSE [s.inside EXCEPT ![pl] = @ \cup {t}]
           /\ \A b \in Container :
                /\ r.weight[b] = s.weight[b] + IF b \in UpFrom(s.parent, pl) THEN Weight(s, t) ELSE 0
                /\ r.amount[b] = s.amount[b] + IF b \in UpFrom(s.parent, pl) THEN Amount(s, t) ELSE 0
  BY DEF PutTo
<1> DEFINE placed == [s EXCEPT !.parent[t] = pl]
<1>1. /\ s.parent \in [Thing -> Place \cup {Nowhere}]
      /\ s.inv \in [Player -> [Slot -> Thing \cup {NoThing}]]
      /\ s.inside \in [Container \cup Tile -> SUBSET Thing]
      /\ s.weight \in [Container -> Nat] /\ s.amount \in [Container -> Nat]
  BY StoreTypes
<1>2. /\ placed \in Stores /\ placed.parent = [s.parent EXCEPT ![t] = pl]
      /\ placed.inv = s.inv /\ placed.inside = s.inside /\ placed.units = s.units
      /\ placed.weight = s.weight /\ placed.amount = s.amount /\ placed.carried = s.carried
  BY <1>1 DEF Stores
<1>3. ASSUME pl \notin Container, NEW b \in Container
      PROVE  /\ s.weight[b] = s.weight[b] + IF b \in UpFrom(s.parent, pl) THEN Weight(s, t) ELSE 0
             /\ s.amount[b] = s.amount[b] + IF b \in UpFrom(s.parent, pl) THEN Amount(s, t) ELSE 0
  <2>1. UpFrom(s.parent, pl) = {}
    BY <1>3 DEF UpFrom
  <2>2. s.weight[b] \in Nat /\ s.amount[b] \in Nat
    BY <1>1
  <2> QED BY <2>1, <2>2
<1>4. CASE pl \in Player
  <2>1. r = [placed EXCEPT !.inv[pl][k] = t]
    BY <1>4, Constants DEF Put
  <2>2. [s.inv EXCEPT ![pl][k] = t] \in [Player -> [Slot -> Thing \cup {NoThing}]]
    BY <1>1, <1>4
  <2>3. pl \notin Container
    BY <1>4, Constants
  <2> DEFINE v == [s.inv EXCEPT ![pl][k] = t]
  <2>5. r = [placed EXCEPT !.inv = v]
    <3>1. r = [placed EXCEPT !.inv = [placed.inv EXCEPT ![pl][k] = t]]
      BY <2>1
    <3> HIDE DEF placed
    <3> QED BY <1>2, <3>1
  <2>6. v \in [Player -> [Slot -> Thing \cup {NoThing}]]
    BY <2>2
  <2> HIDE DEF placed, v
  <2>4. /\ r \in Stores /\ r.parent = placed.parent /\ r.inside = placed.inside
        /\ r.inv = v /\ r.units = placed.units
        /\ r.weight = placed.weight /\ r.amount = placed.amount /\ r.carried = placed.carried
    BY <1>2, <2>5, <2>6 DEF Stores
  <2> QED BY <1>2, <1>3, <1>4, <2>3, <2>4 DEF v
<1>5. CASE pl \in Tile
  <2>1. r = [placed EXCEPT !.inside[pl] = @ \cup {t}] /\ pl \notin Player
    BY <1>5, Constants DEF Put
  <2>2. [s.inside EXCEPT ![pl] = @ \cup {t}] \in [Container \cup Tile -> SUBSET Thing]
    BY <1>1, <1>5
  <2>3. pl \notin Container
    BY <1>5, Constants
  <2> DEFINE v == [s.inside EXCEPT ![pl] = @ \cup {t}]
  <2>5. r = [placed EXCEPT !.inside = v]
    <3>1. r = [placed EXCEPT !.inside = [placed.inside EXCEPT ![pl] = @ \cup {t}]]
      BY <2>1
    <3> HIDE DEF placed
    <3> QED BY <1>2, <3>1
  <2>6. v \in [Container \cup Tile -> SUBSET Thing]
    BY <2>2
  <2> HIDE DEF placed, v
  <2>4. /\ r \in Stores /\ r.parent = placed.parent /\ r.inv = placed.inv
        /\ r.inside = v /\ r.units = placed.units
        /\ r.weight = placed.weight /\ r.amount = placed.amount /\ r.carried = placed.carried
    BY <1>2, <2>5, <2>6 DEF Stores
  <2> QED BY <1>2, <1>3, <1>5, <2>1, <2>3, <2>4 DEF v
<1>6. CASE pl \in Container
  <2> DEFINE filled == [placed EXCEPT !.inside[pl] = @ \cup {t}]
             told == Credit(filled, pl, Weight(s, t), Amount(s, t))
  <2>1. r = Deepened(told, pl, t) /\ pl \notin Player
    BY <1>6, Constants DEF Put
  <2>2. [s.inside EXCEPT ![pl] = @ \cup {t}] \in [Container \cup Tile -> SUBSET Thing]
    BY <1>1, <1>6
  <2>3. /\ filled \in Stores /\ filled.parent = [s.parent EXCEPT ![t] = pl]
        /\ filled.inside = [s.inside EXCEPT ![pl] = @ \cup {t}] /\ filled.inv = s.inv
        /\ filled.units = s.units /\ filled.carried = s.carried
        /\ filled.weight = s.weight /\ filled.amount = s.amount
    BY <1>2, <2>2 DEF Stores
  <2>4. UpFrom(filled.parent, pl) = UpFrom(s.parent, pl)
    BY <2>3
  <2>5. Weight(s, t) \in Nat /\ Amount(s, t) \in Nat
    BY <1>1, WeightType DEF Amount
  <2>6. /\ told = [filled EXCEPT !.weight = told.weight, !.amount = told.amount]
        /\ told.weight = [b \in Container |-> s.weight[b] + IF b \in UpFrom(s.parent, pl) THEN Weight(s, t) ELSE 0]
        /\ told.amount = [b \in Container |-> s.amount[b] + IF b \in UpFrom(s.parent, pl) THEN Amount(s, t) ELSE 0]
    BY <2>3, <2>4 DEF Credit, BagsUp, UpFrom, Stores
  <2>7. told.weight \in [Container -> Nat] /\ told.amount \in [Container -> Nat]
    <3>1. ASSUME NEW b \in Container
          PROVE  /\ s.weight[b] + (IF b \in UpFrom(s.parent, pl) THEN Weight(s, t) ELSE 0) \in Nat
                 /\ s.amount[b] + (IF b \in UpFrom(s.parent, pl) THEN Amount(s, t) ELSE 0) \in Nat
      <4>1. s.weight[b] \in Nat /\ s.amount[b] \in Nat
        BY <1>1
      <4> QED BY <2>5, <4>1
    <3> HIDE DEF told
    <3> QED BY <2>6, <3>1
  <2> HIDE DEF told, filled
  <2>8. /\ told \in Stores /\ told.parent = filled.parent /\ told.inv = filled.inv
        /\ told.inside = filled.inside /\ told.units = filled.units /\ told.carried = filled.carried
    BY <2>3, <2>6, <2>7 DEF Stores
  <2>9. /\ r \in Stores
        /\ r.parent = told.parent /\ r.inv = told.inv /\ r.inside = told.inside /\ r.units = told.units
        /\ r.weight = told.weight /\ r.amount = told.amount /\ r.carried = told.carried
    BY <1>6, <2>1, <2>8, DeepenedFields
  <2> QED BY <2>1, <2>3, <2>6, <2>8, <2>9
<1> QED BY <1>4, <1>5, <1>6 DEF Place

\* What it is to be worn
LEMMA InventoryOf ==
    ASSUME NEW s, NEW p, NEW t
    PROVE  t \in Inventory(s, p) <=> t # NoThing /\ \E k \in Slot : s.inv[p][k] = t
BY DEF Inventory

\* t is where it is said to be: in a slot, if a player has it.
InPlace(s, t) == s.parent[t] \in Place /\ (s.parent[t] \in Player => t \in Inventory(s, s.parent[t]))

\* Putting what is loose into a free place
PutJoined(s, r, t, pl, k) ==
    /\ r \in Stores /\ Joined(s, r, t) /\ Placed(r) /\ Counted(r)
    /\ r.parent = [s.parent EXCEPT ![t] = pl]
    /\ r.units = s.units /\ r.carried = s.carried
    /\ r.inv = IF pl \in Player THEN [s.inv EXCEPT ![pl][k] = t] ELSE s.inv
    /\ r.inside = IF pl \in Player THEN s.inside ELSE [s.inside EXCEPT ![pl] = @ \cup {t}]

\* Put joins the thing to its place, and leaves no cached number wrong.
LEMMA PutJoins ==
    ASSUME NEW s \in Stores, Placed(s), Counted(s), NEW t \in Thing, s.parent[t] = Nowhere,
           NEW pl \in Place, NEW k, pl \in Player => k \in Slot /\ s.inv[pl][k] = NoThing,
           t \notin UpFrom(s.parent, pl), NEW r, r = Put(s, pl, k, t)
    PROVE  PutJoined(s, r, t, pl, k)
<1> DEFINE m == [s.parent EXCEPT ![t] = pl]
<1>1. /\ s.parent \in [Thing -> Place \cup {Nowhere}]
      /\ s.inv \in [Player -> [Slot -> Thing \cup {NoThing}]]
      /\ s.inside \in [Container \cup Tile -> SUBSET Thing]
  BY StoreTypes
<1>2. m[t] = pl /\ \A u \in Thing \ {t} : m[u] = s.parent[u]
  BY <1>1
<1>3. PutIn(s.parent, m, t)
  <2> HIDE DEF m
  <2> QED BY <1>2, Constants DEF PutIn, UpFrom
<1>4. /\ r \in Stores /\ r.parent = m
      /\ r.units = s.units /\ r.carried = s.carried
      /\ r.inv = IF pl \in Player THEN [s.inv EXCEPT ![pl][k] = t] ELSE s.inv
      /\ r.inside = IF pl \in Player THEN s.inside ELSE [s.inside EXCEPT ![pl] = @ \cup {t}]
      /\ \A b \in Container :
           /\ r.weight[b] = s.weight[b] + IF b \in UpFrom(s.parent, pl) THEN Weight(s, t) ELSE 0
           /\ r.amount[b] = s.amount[b] + IF b \in UpFrom(s.parent, pl) THEN Amount(s, t) ELSE 0
  <2>1. m = [s.parent EXCEPT ![t] = pl] /\ (pl \in Player => k \in Slot)
    OBVIOUS
  <2> HIDE DEF m
  <2>2. UpFrom(m, pl) = UpFrom(s.parent, pl)
    BY <1>2, <1>3, AroundThePlace DEF UpFrom
  <2>3. PutTo(s, r, pl, k, t)
    BY <2>1, <2>2, PutFields
  <2> QED BY <2>1, <2>3 DEF PutTo
<1> HIDE DEF m
<1>5. ASSUME NEW x \in Container \cup Tile
      PROVE  r.inside[x] = s.inside[x] \cup IF x = pl THEN {t} ELSE {}
  <2>1. x \notin Player
    BY Constants
  <2> QED BY <1>1, <1>4, <1>5, <2>1 DEF Place
<1>6. ASSUME NEW p \in Player, NEW j \in Slot
      PROVE  r.inv[p][j] = IF p = pl /\ j = k THEN t ELSE s.inv[p][j]
  BY <1>1, <1>4, <1>6
<1>7. ASSUME NEW p \in Player
      PROVE  Inventory(r, p) = Inventory(s, p) \cup IF p = pl THEN {t} ELSE {}
  <2>1. CASE p # pl
    BY <1>6, <1>7, <2>1 DEF Inventory
  <2>2. CASE p = pl
    <3>1. k \in Slot /\ s.inv[p][k] = NoThing /\ t # NoThing
      BY <1>7, <2>2, Constants
    <3>2. ASSUME NEW u PROVE u \in Inventory(r, p) <=> u \in Inventory(s, p) \/ u = t
      BY <1>6, <1>7, <2>2, <3>1, InventoryOf
    <3> QED BY <2>2, <3>2
  <2> QED BY <2>1, <2>2
<1>8. Joined(s, r, t)
  BY <1>2, <1>3, <1>4, <1>5, <1>7 DEF Joined, Up
<1>9. Placed(r)
  <2>1. Grounded(r.parent)
    BY <1>3, <1>4, GroundedPutIn DEF Placed
  <2>2. ASSUME NEW x \in Container \cup Tile
        PROVE  r.inside[x] = {u \in Thing : r.parent[u] = x}
    <3>1. s.inside[x] = {u \in Thing : s.parent[u] = x}
      BY <2>2 DEF Placed
    <3>2. x # Nowhere
      BY <2>2, Constants DEF Place
    <3> QED BY <1>2, <1>4, <1>5, <2>2, <3>1, <3>2
  <2>3. ASSUME NEW p \in Player, NEW j \in Slot, r.inv[p][j] # NoThing
        PROVE  /\ r.parent[r.inv[p][j]] = p
               /\ \A i \in Slot : r.inv[p][i] = r.inv[p][j] => i = j
    <3>1. /\ \A i \in Slot : s.inv[p][i] # t
      <4>1. p # Nowhere /\ t # NoThing
        BY Constants DEF Place
      <4> QED BY <4>1 DEF Placed
    <3>2. CASE p = pl /\ j = k
      BY <1>2, <1>4, <1>6, <2>3, <3>1, <3>2
    <3>3. CASE ~(p = pl /\ j = k)
      <4>1. r.inv[p][j] = s.inv[p][j]
        BY <1>6, <2>3, <3>3
      <4>2. s.inv[p][j] \in Thing
        BY <1>1, <2>3, <4>1
      <4>3. s.parent[s.inv[p][j]] = p /\ \A i \in Slot : s.inv[p][i] = s.inv[p][j] => i = j
        BY <2>3, <4>1 DEF Placed
      <4> QED BY <1>2, <1>4, <1>6, <2>3, <3>1, <4>1, <4>2, <4>3
    <3> QED BY <3>2, <3>3
  <2>4. ASSUME NEW p \in Player, NEW c \in Container, r.parent[c] = p PROVE c \in Inventory(r, p)
    <3>1. CASE c = t
      BY <1>2, <1>4, <1>7, <2>4, <3>1
    <3>2. CASE c # t
      <4>1. s.parent[c] = p
        BY <1>2, <1>4, <2>4, <3>2, Constants
      <4> QED BY <1>7, <4>1 DEF Placed
    <3> QED BY <3>1, <3>2
  <2> QED BY <2>1, <2>2, <2>3, <2>4 DEF Placed
<1>10. Counted(r)
  BY <1>4, <1>8, JoinedCounts
<1> QED BY <1>4, <1>8, <1>9, <1>10 DEF m, PutJoined

\* The containers of U have counted t.
Told(s, t, U) == \A b \in U : Weight(s, t) <= s.weight[b] /\ Amount(s, t) <= s.amount[b]

\* TakeWhole, field by field; no cached number falls below nothing.
LEMMA TakeWholeFields ==
    ASSUME NEW s \in Stores, NEW t \in Thing, NEW pl \in Place, pl = s.parent[t],
           NEW l, l = [s.parent EXCEPT ![t] = Nowhere], Told(s, t, UpFrom(l, pl)),
           NEW r, r = TakeWhole(s, t)
    PROVE  /\ r \in Stores /\ r.parent = l
           /\ r.units = s.units /\ r.carried = s.carried
           /\ r.inv = IF pl \in Player
                      THEN [s.inv EXCEPT ![pl] = [k \in Slot |-> IF @[k] = t THEN NoThing ELSE @[k]]]
                      ELSE s.inv
           /\ r.inside = IF pl \in Player THEN s.inside ELSE [s.inside EXCEPT ![pl] = @ \ {t}]
           /\ \A b \in Container :
                /\ s.weight[b] = r.weight[b] + IF b \in UpFrom(l, pl) THEN Weight(s, t) ELSE 0
                /\ s.amount[b] = r.amount[b] + IF b \in UpFrom(l, pl) THEN Amount(s, t) ELSE 0
<1> DEFINE gone == [s EXCEPT !.parent[t] = Nowhere]
           W == Weight(s, t)
           A == Amount(s, t)
<1>1. /\ s.parent \in [Thing -> Place \cup {Nowhere}]
      /\ s.inv \in [Player -> [Slot -> Thing \cup {NoThing}]]
      /\ s.inside \in [Container \cup Tile -> SUBSET Thing]
      /\ s.weight \in [Container -> Nat] /\ s.amount \in [Container -> Nat]
  BY StoreTypes
<1>2. /\ gone \in Stores /\ gone.parent = l
      /\ gone.inv = s.inv /\ gone.inside = s.inside /\ gone.units = s.units
      /\ gone.weight = s.weight /\ gone.amount = s.amount /\ gone.carried = s.carried
  BY <1>1 DEF Stores
<1>3. W \in Nat /\ A \in Nat
  BY <1>1, WeightType DEF Amount
<1>4. CASE pl \in Player
  <2>1. r = [gone EXCEPT !.inv[pl] = [k \in Slot |-> IF @[k] = t THEN NoThing ELSE @[k]]]
    BY <1>4 DEF TakeWhole
  <2>2. [s.inv EXCEPT ![pl] = [k \in Slot |-> IF @[k] = t THEN NoThing ELSE @[k]]]
          \in [Player -> [Slot -> Thing \cup {NoThing}]]
    BY <1>1, <1>4
  <2>3. UpFrom(l, pl) = {}
    BY <1>4, Constants DEF UpFrom
  <2> DEFINE v == [s.inv EXCEPT ![pl] = [k \in Slot |-> IF @[k] = t THEN NoThing ELSE @[k]]]
  <2>6. r = [gone EXCEPT !.inv = v]
    BY <1>2, <2>1
  <2> HIDE DEF gone, v
  <2>7. /\ r \in Stores /\ r.parent = gone.parent /\ r.inside = gone.inside
        /\ r.inv = v /\ r.units = gone.units
        /\ r.weight = gone.weight /\ r.amount = gone.amount /\ r.carried = gone.carried
    BY <1>2, <2>6, <2>2 DEF Stores, v
  <2>4. /\ r \in Stores /\ r.parent = gone.parent /\ r.inside = gone.inside
        /\ r.inv = [s.inv EXCEPT ![pl] = [k \in Slot |-> IF @[k] = t THEN NoThing ELSE @[k]]]
        /\ r.units = gone.units
        /\ r.weight = gone.weight /\ r.amount = gone.amount /\ r.carried = gone.carried
    BY <2>7 DEF v
  <2>5. ASSUME NEW b \in Container
        PROVE  /\ s.weight[b] = s.weight[b] + IF b \in UpFrom(l, pl) THEN W ELSE 0
               /\ s.amount[b] = s.amount[b] + IF b \in UpFrom(l, pl) THEN A ELSE 0
    <3>1. s.weight[b] \in Nat /\ s.amount[b] \in Nat
      BY <1>1
    <3> QED BY <2>3, <3>1
  <2> QED BY <1>2, <1>4, <2>4, <2>5
<1>5. CASE pl \notin Player
  <2> DEFINE told == Credit(gone, pl, -W, -A)
  <2>1. r = [told EXCEPT !.inside[pl] = @ \ {t}]
    BY <1>5 DEF TakeWhole
  <2>2. [s.inside EXCEPT ![pl] = @ \ {t}] \in [Container \cup Tile -> SUBSET Thing]
    BY <1>1, <1>5 DEF Place
  <2>3. /\ told = [gone EXCEPT !.weight = told.weight, !.amount = told.amount]
        /\ told.weight = [b \in Container |-> s.weight[b] + IF b \in UpFrom(l, pl) THEN -W ELSE 0]
        /\ told.amount = [b \in Container |-> s.amount[b] + IF b \in UpFrom(l, pl) THEN -A ELSE 0]
    <3> HIDE DEF W, A
    <3> QED BY <1>2 DEF Credit, BagsUp, UpFrom, Stores
  <2>4. ASSUME NEW b \in Container
        PROVE  /\ told.weight[b] \in Nat /\ told.amount[b] \in Nat
               /\ s.weight[b] = told.weight[b] + IF b \in UpFrom(l, pl) THEN W ELSE 0
               /\ s.amount[b] = told.amount[b] + IF b \in UpFrom(l, pl) THEN A ELSE 0
    <3>1. s.weight[b] \in Nat /\ s.amount[b] \in Nat
      BY <1>1
    <3>2. b \in UpFrom(l, pl) => W <= s.weight[b] /\ A <= s.amount[b]
      BY DEF Told
    <3>3. /\ told.weight[b] = s.weight[b] + IF b \in UpFrom(l, pl) THEN -W ELSE 0
          /\ told.amount[b] = s.amount[b] + IF b \in UpFrom(l, pl) THEN -A ELSE 0
      <4> HIDE DEF told
      <4> QED BY <2>3
    <3> HIDE DEF told, W, A
    <3> QED BY <1>3, <3>1, <3>2, <3>3
  <2>5. told.weight \in [Container -> Nat] /\ told.amount \in [Container -> Nat]
    <3> HIDE DEF told
    <3> QED BY <2>3, <2>4
  <2> HIDE DEF told, gone
  <2>6. /\ told \in Stores /\ told.parent = gone.parent /\ told.inv = gone.inv
        /\ told.inside = gone.inside /\ told.units = gone.units /\ told.carried = gone.carried
    BY <1>2, <2>3, <2>5 DEF Stores
  <2> DEFINE v == [s.inside EXCEPT ![pl] = @ \ {t}]
  <2>8. r = [told EXCEPT !.inside = v]
    BY <1>2, <2>1, <2>6
  <2> HIDE DEF v
  <2>9. /\ r \in Stores /\ r.parent = told.parent /\ r.inv = told.inv
        /\ r.inside = v /\ r.units = told.units
        /\ r.weight = told.weight /\ r.amount = told.amount /\ r.carried = told.carried
    BY <2>2, <2>6, <2>8 DEF Stores, v
  <2>7. /\ r \in Stores /\ r.parent = told.parent /\ r.inv = told.inv
        /\ r.inside = [s.inside EXCEPT ![pl] = @ \ {t}] /\ r.units = told.units
        /\ r.weight = told.weight /\ r.amount = told.amount /\ r.carried = told.carried
    BY <2>9 DEF v
  <2> QED BY <1>2, <1>5, <2>4, <2>6, <2>7
<1> QED BY <1>4, <1>5

\* Taking out what is in its place
LEMMA TakeJoins ==
    ASSUME NEW s \in Stores, Placed(s), Counted(s), NEW t \in Thing, InPlace(s, t),
           NEW r, r = TakeWhole(s, t)
    PROVE  /\ r \in Stores /\ Joined(r, s, t) /\ Placed(r) /\ Counted(r)
           /\ r.parent = [s.parent EXCEPT ![t] = Nowhere]
           /\ r.units = s.units /\ r.carried = s.carried
           /\ \A p \in Player, k \in Slot :
                r.inv[p][k] = IF s.inv[p][k] = t THEN NoThing ELSE s.inv[p][k]
           /\ \A x \in Container \cup Tile : r.inside[x] = s.inside[x] \ {t}
           /\ Weight(r, t) = Weight(s, t) /\ Amount(r, t) = Amount(s, t)
<1> DEFINE pl == s.parent[t]
           l == [s.parent EXCEPT ![t] = Nowhere]
<1>1. /\ s.parent \in [Thing -> Place \cup {Nowhere}]
      /\ s.inv \in [Player -> [Slot -> Thing \cup {NoThing}]]
      /\ s.inside \in [Container \cup Tile -> SUBSET Thing]
      /\ s.weight \in [Container -> Nat] /\ s.amount \in [Container -> Nat]
      /\ pl \in Place
  BY StoreTypes DEF InPlace
<1>2. l[t] = Nowhere /\ \A u \in Thing \ {t} : l[u] = s.parent[u]
  BY <1>1
<1> HIDE DEF l
<1>3. Grounded(l) /\ PutIn(l, s.parent, t)
  BY <1>2, Constants, GroundedTakenOut DEF Placed
<1>4. UpFrom(l, pl) = Around(s.parent, t)
  <2>1. pl \in Container => Around(s.parent, pl) = Around(l, pl)
    BY <1>3, AroundThePlace
  <2> QED BY <2>1, AroundUnfolds DEF UpFrom
<1>5. /\ r \in Stores /\ r.parent = l
      /\ r.units = s.units /\ r.carried = s.carried
      /\ r.inv = IF pl \in Player
                 THEN [s.inv EXCEPT ![pl] = [k \in Slot |-> IF @[k] = t THEN NoThing ELSE @[k]]]
                 ELSE s.inv
      /\ r.inside = IF pl \in Player THEN s.inside ELSE [s.inside EXCEPT ![pl] = @ \ {t}]
      /\ \A b \in Container :
           /\ s.weight[b] = r.weight[b] + IF b \in UpFrom(l, pl) THEN Weight(s, t) ELSE 0
           /\ s.amount[b] = r.amount[b] + IF b \in UpFrom(l, pl) THEN Amount(s, t) ELSE 0
  <2>1. Told(s, t, UpFrom(l, pl))
    BY <1>4, HeavierAbove DEF Told
  <2>2. l = [s.parent EXCEPT ![t] = Nowhere] /\ pl = s.parent[t]
    BY DEF l
  <2>3. pl \in Place
    BY <1>1
  <2> HIDE DEF pl
  <2> QED BY <2>1, <2>2, <2>3, TakeWholeFields
<1>6. ASSUME NEW x \in Container \cup Tile
      PROVE  /\ r.inside[x] = s.inside[x] \ {t}
             /\ t \in s.inside[x] <=> x = pl
  <2>1. x \notin Player
    BY Constants
  <2>2. s.inside[x] = {u \in Thing : s.parent[u] = x}
    BY DEF Placed
  <2> QED BY <1>1, <1>5, <2>1, <2>2 DEF Place
<1>7. ASSUME NEW p \in Player, NEW k \in Slot
      PROVE  /\ r.inv[p][k] = IF s.inv[p][k] = t THEN NoThing ELSE s.inv[p][k]
             /\ s.inv[p][k] = t => p = pl
  <2>1. s.inv[p][k] = t => p = pl
    BY Constants DEF Placed
  <2> QED BY <1>1, <1>5, <2>1
<1>8. ASSUME NEW p \in Player
      PROVE  /\ Inventory(s, p) = Inventory(r, p) \cup IF p = pl THEN {t} ELSE {}
             /\ Inventory(r, p) = Inventory(s, p) \ {t}
  <2>1. t # NoThing /\ (p = pl => \E k \in Slot : s.inv[p][k] = t)
    BY Constants, InventoryOf DEF InPlace
  <2>2. ASSUME NEW u PROVE u \in Inventory(r, p) <=> u \in Inventory(s, p) /\ u # t
    BY <1>7, <2>1, InventoryOf
  <2>3. t \in Inventory(s, p) <=> p = pl
    BY <1>7, <2>1, InventoryOf
  <2> QED BY <2>2, <2>3
<1>9. Weight(r, t) = Weight(s, t) /\ Amount(r, t) = Amount(s, t)
  <2>1. CASE t \in Container
    <3>1. t \notin UpFrom(l, pl)
      BY <1>4, NothingAroundItself DEF Placed
    <3>2. r.weight[t] \in Nat /\ r.amount[t] \in Nat
      BY <1>5, <2>1, StoreTypes
    <3>3. s.weight[t] = r.weight[t] + 0 /\ s.amount[t] = r.amount[t] + 0
      BY <1>5, <2>1, <3>1
    <3>4. s.weight[t] = r.weight[t] /\ s.amount[t] = r.amount[t]
      BY <3>2, <3>3
    <3> QED BY <2>1, <3>4, Weigh DEF Amount
  <2>2. CASE t \notin Container
    BY <1>5, <2>2, Weigh DEF Amount
  <2> QED BY <2>1, <2>2
<1>10. Joined(r, s, t)
  <2>1. r.parent[t] = Nowhere /\ pl \in Place /\ \A u \in Thing \ {t} : s.parent[u] = r.parent[u]
    BY <1>1, <1>2, <1>5
  <2>2. \A x \in Container \cup Tile : s.inside[x] = r.inside[x] \cup IF x = pl THEN {t} ELSE {}
    BY <1>6
  <2> QED BY <1>3, <1>5, <1>8, <1>9, <2>1, <2>2 DEF Joined, Up
<1>11. Placed(r)
  <2>1. Grounded(r.parent)
    BY <1>3, <1>5
  <2>2. ASSUME NEW x \in Container \cup Tile
        PROVE  r.inside[x] = {u \in Thing : r.parent[u] = x}
    <3>1. s.inside[x] = {u \in Thing : s.parent[u] = x}
      BY DEF Placed
    <3>2. x # Nowhere
      BY Constants DEF Place
    <3> QED BY <1>2, <1>5, <1>6, <3>1, <3>2
  <2>3. ASSUME NEW p \in Player, NEW j \in Slot, r.inv[p][j] # NoThing
        PROVE  /\ r.parent[r.inv[p][j]] = p
               /\ \A i \in Slot : r.inv[p][i] = r.inv[p][j] => i = j
    <3>1. r.inv[p][j] = s.inv[p][j] /\ s.inv[p][j] # t
      BY <1>7, <2>3
    <3>2. s.inv[p][j] \in Thing
      BY <1>1, <2>3, <3>1
    <3>3. s.parent[s.inv[p][j]] = p /\ \A i \in Slot : s.inv[p][i] = s.inv[p][j] => i = j
      BY <2>3, <3>1 DEF Placed
    <3>4. s.inv[p][j] # t /\ r.parent[s.inv[p][j]] = s.parent[s.inv[p][j]]
      BY <1>2, <1>5, <3>1, <3>2
    <3>5. \A i \in Slot : r.inv[p][i] = r.inv[p][j] => s.inv[p][i] = s.inv[p][j]
      BY <1>7, <2>3, <3>1
    <3> QED BY <3>1, <3>3, <3>4, <3>5
  <2>4. ASSUME NEW p \in Player, NEW c \in Container, r.parent[c] = p PROVE c \in Inventory(r, p)
    <3>1. c # t /\ s.parent[c] = p
      BY <1>2, <1>5, <2>4, Constants DEF Place
    <3> QED BY <1>8, <3>1 DEF Placed
  <2> QED BY <2>1, <2>2, <2>3, <2>4 DEF Placed
<1>12. Counted(r)
  BY <1>5, <1>10, <1>11, JoinedCounts
<1> QED BY <1>5, <1>6, <1>7, <1>9, <1>10, <1>11, <1>12 DEF l

-----------------------------------------------------------------------------
(* Changing the count of a stack where it lies.                            *)

\* What t lies in is what something in the chain from t up lies in.
LEMMA ChainFrom ==
    ASSUME NEW l, Grounded(l), NEW t, NEW y
    PROVE  (\E c \in {t} \cup Around(l, t) : l[c] = y) <=>
             IF y \in Container THEN y \in Around(l, t) ELSE y = TopOf(l, t)
<1>1. CASE l[t] \notin Container
  <2>1. Around(l, t) = {} /\ TopOf(l, t) = l[t]
    BY <1>1, AroundUnfolds, TopUnfolds
  <2> QED BY <1>1, <2>1
<1>2. CASE l[t] \in Container
  <2>1. Around(l, t) = {l[t]} \cup Around(l, l[t]) /\ TopOf(l, t) = TopOf(l, l[t])
    BY <1>2, AroundUnfolds, TopUnfolds
  <2>2. UpFrom(l, l[t]) = Around(l, t)
    BY <1>2, <2>1 DEF UpFrom
  <2>3. (\E c \in Around(l, t) : l[c] = y) <=>
          IF y \in Container THEN y \in Around(l, l[t]) ELSE y = TopOf(l, l[t])
    <3> DEFINE x == l[t]
    <3>1. (\E c \in UpFrom(l, x) : l[c] = y) <=>
            x \in Container /\ IF y \in Container THEN y \in Around(l, x) ELSE y = TopOf(l, x)
      <4> HIDE DEF x
      <4> QED BY ChainEnds
    <3> QED BY <1>2, <2>2, <3>1
  <2> QED BY <1>2, <2>1, <2>3
<1> QED BY <1>1, <1>2

\* When what is around t, and t, weigh w more, so does the one of them that lies in y.
Chained(s, r, l, t, w, T, y) ==
    /\ Grounded(l) /\ w \in Int /\ T \in SUBSET Thing
    /\ \A u \in T : l[u] = y
    /\ \A c \in {t} \cup Around(l, t) : l[c] = y => c \in T
    /\ \A u \in T : Weight(r, u) = Weight(s, u) + IF u \in {t} \cup Around(l, t) THEN w ELSE 0

\* When t and every bag around it weigh w more, so does what lies in y, if that has t.
LEMMA ChainedLoad ==
    ASSUME NEW s \in Stores, NEW r, NEW l, NEW t, NEW w, NEW T, NEW y,
           Chained(s, r, l, t, w, T, y)
    PROVE  Load(r, T) = Load(s, T) +
             IF IF y \in Container THEN y \in Around(l, t) ELSE y = TopOf(l, t) THEN w ELSE 0
<1> USE DEF Chained
<1>1. Load(s, T) \in Int /\ \A u \in T : Weight(s, u) \in Int
  BY LoadType, WeightType
<1>2. CASE \E c \in {t} \cup Around(l, t) : l[c] = y
  <2>1. PICK c \in {t} \cup Around(l, t) : l[c] = y
    BY <1>2
  <2>2. c \in T
    BY <2>1
  <2>3. ASSUME NEW u \in T \ {c} PROVE u \notin {t} \cup Around(l, t)
    BY <2>1, <2>3, ChainIsThin
  <2>4. Weight(r, c) = Weight(s, c) + w /\ \A u \in T \ {c} : Weight(r, u) = Weight(s, u)
    BY <1>1, <2>1, <2>2, <2>3
  <2>5. Weight(r, c) \in Int
    BY <1>1, <2>2, <2>4
  <2>6. Load(r, T) = Load(s, T) + (Weight(r, c) - Weight(s, c))
    BY <2>2, <2>4, <2>5, LoadChange
  <2>7. IF y \in Container THEN y \in Around(l, t) ELSE y = TopOf(l, t)
    BY <2>1, ChainFrom
  <2> QED BY <1>1, <2>2, <2>4, <2>6, <2>7
<1>3. CASE ~ \E c \in {t} \cup Around(l, t) : l[c] = y
  <2>1. \A u \in T : Weight(r, u) = Weight(s, u)
    BY <1>1, <1>3
  <2>2. Load(r, T) = Load(s, T)
    BY <2>1, LoadSame
  <2>3. ~ IF y \in Container THEN y \in Around(l, t) ELSE y = TopOf(l, t)
    BY <1>3, ChainFrom
  <2> QED BY <1>1, <2>2, <2>3
<1> QED BY <1>2, <1>3

\* r is s with stack t, where it lies, weighing w more.
Recounted(s, r, t, v, w) ==
    /\ r.parent = s.parent /\ r.inv = s.inv /\ r.inside = s.inside /\ r.carried = s.carried
    /\ r.units = [s.units EXCEPT ![t] = v] /\ r.amount = s.amount
    /\ \A u \in Thing : Weight(r, u) = Weight(s, u) + IF u \in {t} \cup Around(s.parent, t) THEN w ELSE 0
    /\ \A p \in Player : LoadOf(r, p) = LoadOf(s, p) + IF p = Holder(s, t) THEN w ELSE 0

\* The stack t gets the count v, and the bags from pl upward are told.
Recounting(s, t, v, pl, w) == Credit([s EXCEPT !.units[t] = v], pl, w, 0)

\* Recounting, field by field
LEMMA RecountFields ==
    ASSUME NEW s \in Stores, Placed(s), Counted(s), NEW t \in Stack, NEW pl \in Place,
           pl = s.parent[t], NEW v \in 0 .. MaxStack, NEW w \in Int,
           w = Heft[t] * v - Weight(s, t),
           NEW r, r = Recounting(s, t, v, pl, w)
    PROVE  /\ r \in Stores
           /\ r.parent = s.parent /\ r.inv = s.inv /\ r.inside = s.inside
           /\ r.carried = s.carried /\ r.amount = s.amount
           /\ r.units = [s.units EXCEPT ![t] = v]
           /\ \A b \in Container : r.weight[b] = s.weight[b] +
                                     IF b \in Around(s.parent, t) THEN w ELSE 0
<1> DEFINE new == [s EXCEPT !.units[t] = v]
<1>1. /\ s.parent \in [Thing -> Place \cup {Nowhere}] /\ s.units \in [Stack -> 0 .. MaxStack]
      /\ s.weight \in [Container -> Nat] /\ s.amount \in [Container -> Nat]
  BY StoreTypes
<1>2. [s.units EXCEPT ![t] = v] \in [Stack -> 0 .. MaxStack]
  BY <1>1
<1>3. /\ new \in Stores /\ new.parent = s.parent /\ new.inv = s.inv /\ new.inside = s.inside
      /\ new.carried = s.carried /\ new.amount = s.amount /\ new.weight = s.weight
      /\ new.units = [s.units EXCEPT ![t] = v]
  BY <1>1, <1>2 DEF Stores
<1>4. UpFrom(s.parent, pl) = Around(s.parent, t)
  BY AroundUnfolds DEF UpFrom
<1> DEFINE wt == [b \in Container |-> s.weight[b] + IF b \in Around(s.parent, t) THEN w ELSE 0]
           am == [b \in Container |-> s.amount[b] + IF b \in Around(s.parent, t) THEN 0 ELSE 0]
<1>5. r = [new EXCEPT !.weight = wt, !.amount = am]
  <2>1. r = Credit(new, pl, w, 0)
    BY DEF Recounting
  <2>2. BagsUp(new, pl) = Around(s.parent, t)
    BY <1>3, <1>4 DEF BagsUp, UpFrom
  <2> HIDE DEF new
  <2>3. r = [new EXCEPT !.weight = [b \in Container |-> @[b] + IF b \in Around(s.parent, t) THEN w ELSE 0],
                        !.amount = [b \in Container |-> @[b] + IF b \in Around(s.parent, t) THEN 0 ELSE 0]]
    BY <2>1, <2>2 DEF Credit
  <2> QED BY <1>3, <2>3
<1>6. am = s.amount
  <2>1. \A b \in Container : am[b] = s.amount[b]
    BY <1>1
  <2> QED BY <1>1, <2>1
<1>7. ASSUME NEW b \in Container PROVE wt[b] \in Nat
  <2>1. s.weight[b] \in Nat
    BY <1>1
  <2>2. Heft[t] * v \in Nat
    BY Constants, Product
  <2>3. Weight(s, t) \in Nat /\ (b \in Around(s.parent, t) => Weight(s, t) <= s.weight[b])
    BY WeightType, HeavierAbove, Constants
  <2>4. wt[b] = s.weight[b] + IF b \in Around(s.parent, t) THEN w ELSE 0
    OBVIOUS
  <2> HIDE DEF wt
  <2> QED BY <2>1, <2>2, <2>3, <2>4
<1>8. wt \in [Container -> Nat] /\ am \in [Container -> Nat]
  BY <1>1, <1>6, <1>7
<1>9. \A b \in Container : wt[b] = s.weight[b] + IF b \in Around(s.parent, t) THEN w ELSE 0
  OBVIOUS
<1> HIDE DEF new, wt, am
<1>10. /\ r \in Stores /\ r.parent = new.parent /\ r.inv = new.inv /\ r.inside = new.inside
       /\ r.carried = new.carried /\ r.units = new.units /\ r.weight = wt /\ r.amount = am
  BY <1>3, <1>5, <1>8 DEF Stores
<1>11. \A b \in Container : r.weight[b] = s.weight[b] + IF b \in Around(s.parent, t) THEN w ELSE 0
  BY <1>9, <1>10
<1>12. r.parent = s.parent /\ r.inv = s.inv /\ r.inside = s.inside
  BY <1>3, <1>10
<1>13. r.carried = s.carried /\ r.amount = s.amount /\ r.units = [s.units EXCEPT ![t] = v]
  BY <1>3, <1>6, <1>10
<1> QED BY <1>10, <1>11, <1>12, <1>13

\* A stack in place may be recounted.
LEMMA Recount ==
    ASSUME NEW s \in Stores, Placed(s), Counted(s), NEW t \in Stack, InPlace(s, t),
           NEW v \in 0 .. MaxStack, NEW w \in Int,
           w = Heft[t] * v - Weight(s, t),
           NEW r, r = Recounting(s, t, v, s.parent[t], w)
    PROVE  r \in Stores /\ Placed(r) /\ Counted(r) /\ Recounted(s, r, t, v, w)
<1> DEFINE l == s.parent
<1>1. /\ r \in Stores
      /\ r.parent = l /\ r.inv = s.inv /\ r.inside = s.inside
      /\ r.carried = s.carried /\ r.amount = s.amount
      /\ r.units = [s.units EXCEPT ![t] = v]
      /\ \A b \in Container : r.weight[b] = s.weight[b] + IF b \in Around(l, t) THEN w ELSE 0
  <2> DEFINE pl == s.parent[t]
  <2>1. pl \in Place /\ r = Recounting(s, t, v, pl, w) /\ pl = s.parent[t]
    BY DEF InPlace
  <2> HIDE DEF pl
  <2> QED BY <2>1, RecountFields
<1>2. ASSUME NEW u \in Thing
      PROVE  Weight(r, u) = Weight(s, u) + IF u \in {t} \cup Around(l, t) THEN w ELSE 0
  <2>1. Weight(s, u) \in Nat
    BY WeightType
  <2>2. CASE u \in Container
    <3>1. u # t /\ Heft[u] \in Nat /\ s.weight[u] \in Nat
      BY <2>2, Constants, StoreTypes
    <3>2. Weight(r, u) = Heft[u] + r.weight[u] /\ Weight(s, u) = Heft[u] + s.weight[u]
      BY <2>2, Weigh
    <3>3. r.weight[u] = s.weight[u] + IF u \in Around(l, t) THEN w ELSE 0
      BY <1>1, <2>2
    <3> HIDE DEF l
    <3> QED BY <3>1, <3>2, <3>3
  <2>3. CASE u = t
    <3>1. r.units[t] = v
      BY <1>1, StoreTypes
    <3>2. Weight(r, t) = Heft[t] * v
      BY <3>1, Weigh
    <3>3. Heft[t] * v \in Nat
      BY Constants, Product
    <3> QED BY <2>1, <2>3, <3>2, <3>3
  <2>4. CASE u \notin Container /\ u # t
    <3>1. u \notin Around(l, t)
      BY <2>4, AroundIsClosed
    <3>2. Weight(r, u) = Weight(s, u)
      <4>1. u \in Stack => r.units[u] = s.units[u]
        BY <1>1, <2>4, StoreTypes
      <4>2. CASE u \in Stack
        BY <4>1, <4>2, Weigh
      <4>3. CASE u \notin Stack
        <5>1. u \in Thing \ (Container \cup Stack)
          BY <2>4, <4>3
        <5> QED BY <5>1, Weigh
      <4> QED BY <4>2, <4>3
    <3> QED BY <2>1, <2>4, <3>1, <3>2
  <2> QED BY <2>2, <2>3, <2>4
<1>3. Placed(r)
  <2>1. \A p \in Player : Inventory(r, p) = Inventory(s, p)
    BY <1>1 DEF Inventory
  <2>2. Grounded(r.parent) /\ \A x \in Container \cup Tile : r.inside[x] = {u \in Thing : r.parent[u] = x}
    BY <1>1 DEF Placed
  <2>3. \A p \in Player, k \in Slot : r.inv[p][k] # NoThing =>
          /\ r.parent[r.inv[p][k]] = p
          /\ \A j \in Slot : r.inv[p][j] = r.inv[p][k] => j = k
    BY <1>1 DEF Placed
  <2>4. \A p \in Player, c \in Container : r.parent[c] = p => c \in Inventory(r, p)
    BY <1>1, <2>1 DEF Placed
  <2> QED BY <2>2, <2>3, <2>4 DEF Placed
<1>4. ASSUME NEW b \in Container PROVE CountedAt(r, b)
  <2>1. s.inside[b] \in SUBSET Thing /\ s.inside[b] = {u \in Thing : l[u] = b}
    BY StoreTypes DEF Placed
  <2>2. {t} \cup Around(l, t) \subseteq Thing
    BY Constants, AroundIsClosed
  <2>3. Grounded(l)
    BY DEF Placed
  <2>4. Chained(s, r, l, t, w, s.inside[b], b)
    <3> HIDE DEF l
    <3> QED BY <1>2, <2>1, <2>2, <2>3 DEF Chained
  <2>5. Load(r, s.inside[b]) = Load(s, s.inside[b]) + IF b \in Around(l, t) THEN w ELSE 0
    <3> HIDE DEF l
    <3> QED BY <2>4, ChainedLoad
  <2>6. s.weight[b] = Load(s, s.inside[b]) /\ s.amount[b] = 1 + Cardinality(Inner(l, b))
    BY DEF Counted, CountedAt
  <2> HIDE DEF l
  <2> QED BY <1>1, <2>5, <2>6 DEF CountedAt
<1>5. ASSUME NEW p \in Player
      PROVE  LoadOf(r, p) = LoadOf(s, p) + IF p = Holder(s, t) THEN w ELSE 0
  <2>1. Inventory(s, p) \in SUBSET Thing /\ Inventory(r, p) = Inventory(s, p)
    BY <1>1, InventoryType DEF Inventory
  <2>2. \A u \in Inventory(s, p) : l[u] = p
    BY DEF Inventory, Placed
  <2>3. \A c \in {t} \cup Around(l, t) : l[c] = p => c \in Inventory(s, p)
    BY AroundIsClosed DEF Placed, InPlace
  <2>4. Grounded(l)
    BY DEF Placed
  <2>5. Chained(s, r, l, t, w, Inventory(s, p), p)
    <3> HIDE DEF l
    <3> QED BY <1>2, <2>1, <2>2, <2>3, <2>4 DEF Chained
  <2>6. p \notin Container /\ Holder(s, t) = TopOf(l, t)
    BY Constants DEF Holder
  <2>7. Load(r, Inventory(s, p)) = Load(s, Inventory(s, p)) + IF p = TopOf(l, t) THEN w ELSE 0
    <3> HIDE DEF l
    <3> QED BY <2>5, <2>6, ChainedLoad
  <2> HIDE DEF l
  <2> QED BY <2>1, <2>6, <2>7 DEF LoadOf
<1>6. Recounted(s, r, t, v, w)
  BY <1>1, <1>2, <1>5 DEF Recounted
<1>7. Counted(r)
  BY <1>4 DEF Counted
<1> QED BY <1>1, <1>3, <1>6, <1>7

\* A difference in count is a difference in weight.
LEMMA Products ==
    ASSUME NEW a \in Nat, NEW b \in Nat, NEW c \in Nat
    PROVE  a * (b + c) = a * b + a * c /\ a * b = b * a
OBVIOUS

\* Grow recounts the stack that grows.
LEMMA GrowCounts ==
    ASSUME NEW s \in Stores, Placed(s), Counted(s), NEW t \in Stack, InPlace(s, t),
           NEW m \in Nat, s.units[t] + m <= MaxStack,
           NEW r, r = Grow(s, t, m)
    PROVE  r \in Stores /\ Placed(r) /\ Counted(r) /\ Recounted(s, r, t, s.units[t] + m, Heft[t] * m)
<1> DEFINE v == s.units[t] + m
           w == Heft[t] * m
           h == Heft[t]
           u == s.units[t]
<1>1. u \in Nat /\ h \in Nat /\ v \in 0 .. MaxStack /\ w \in Nat
  BY StoreTypes, Constants, Product
<1>2. r = Recounting(s, t, v, s.parent[t], m * h)
  <2>1. [s EXCEPT !.units[t] = @ + m] = [s EXCEPT !.units[t] = v]
    BY StoreTypes DEF Stores
  <2> QED BY <2>1 DEF Grow, Recounting
<1>3. m * h = w
  BY <1>1, Products
<1>4. Weight(s, t) = h * u
  BY Weigh
<1>5. w = h * v - Weight(s, t)
  <2> HIDE DEF h, u, w
  <2>1. h * (u + m) = h * u + h * m /\ h * u \in Nat /\ h * m \in Nat
    BY <1>1, Products, Product
  <2>2. w = h * m /\ v = u + m
    BY DEF w, h, u
  <2> HIDE DEF v
  <2> QED BY <1>4, <2>1, <2>2
<1> HIDE DEF v, w
<1>6. r \in Stores /\ Placed(r) /\ Counted(r) /\ Recounted(s, r, t, v, w)
  BY <1>1, <1>2, <1>3, <1>5, Recount
<1> QED BY <1>6 DEF v, w

\* TakePart recounts the stack it takes from.
LEMMA TakePartCounts ==
    ASSUME NEW s \in Stores, Placed(s), Counted(s), NEW t \in Stack, InPlace(s, t),
           NEW m \in Nat, m <= s.units[t],
           NEW r, r = TakePart(s, t, m)
    PROVE  r \in Stores /\ Placed(r) /\ Counted(r) /\ Recounted(s, r, t, s.units[t] - m, -(Heft[t] * m))
<1> DEFINE v == s.units[t] - m
           w == Heft[t] * m
           h == Heft[t]
           u == s.units[t]
<1>1. u \in Nat /\ h \in Nat /\ v \in 0 .. MaxStack /\ v \in Nat /\ w \in Nat /\ -w \in Int
  BY StoreTypes, Constants, Product
<1>2. r = Recounting(s, t, v, s.parent[t], -(m * h))
  <2>1. [s EXCEPT !.units[t] = @ - m] = [s EXCEPT !.units[t] = v]
    BY StoreTypes DEF Stores
  <2> QED BY <2>1 DEF TakePart, Recounting
<1>3. m * h = w
  BY <1>1, Products
<1>4. Weight(s, t) = h * u
  BY Weigh
<1>5. -w = h * v - Weight(s, t)
  <2> HIDE DEF h, u, w
  <2>1. h * (v + m) = h * v + h * m /\ h * v \in Nat /\ h * m \in Nat
    <3> HIDE DEF v
    <3> QED BY <1>1, Products, Product
  <2>2. w = h * m
    BY DEF w, h
  <2>3. u = v + m
    BY <1>1 DEF u
  <2> HIDE DEF v
  <2> QED BY <1>4, <2>1, <2>2, <2>3
<1> HIDE DEF v, w
<1>6. r \in Stores /\ Placed(r) /\ Counted(r) /\ Recounted(s, r, t, v, -w)
  <2>1. r = Recounting(s, t, v, s.parent[t], -w)
    BY <1>2, <1>3
  <2> QED BY <1>1, <1>5, <2>1, Recount
<1> QED BY <1>6 DEF v, w

\* The count of an object that is nowhere matters to nobody else.
Numbered(s, f, v) == [s EXCEPT !.units[f] = v]

\* Numbered, field by field
LEMMA NumberedFields ==
    ASSUME NEW s \in Stores, NEW f \in Stack, NEW v \in 0 .. MaxStack, NEW r, r = Numbered(s, f, v)
    PROVE  /\ r \in Stores
           /\ r.parent = s.parent /\ r.inv = s.inv /\ r.inside = s.inside /\ r.carried = s.carried
           /\ r.weight = s.weight /\ r.amount = s.amount /\ r.units = [s.units EXCEPT ![f] = v]
<1>1. [s.units EXCEPT ![f] = v] \in [Stack -> 0 .. MaxStack]
  BY StoreTypes
<1> DEFINE g == [s.units EXCEPT ![f] = v]
<1>2. r = [s EXCEPT !.units = g]
  BY DEF Numbered
<1> HIDE DEF g
<1>3. /\ r \in Stores
      /\ r.parent = s.parent /\ r.inv = s.inv /\ r.inside = s.inside /\ r.carried = s.carried
      /\ r.weight = s.weight /\ r.amount = s.amount /\ r.units = g
  BY <1>1, <1>2 DEF Stores, g
<1> QED BY <1>3 DEF g

\* A stack that is nowhere may get any count: nothing weighs more by it.
LEMMA NumberedCounts ==
    ASSUME NEW s \in Stores, Placed(s), Counted(s), NEW f \in Stack, s.parent[f] = Nowhere,
           NEW v \in 0 .. MaxStack, NEW r, r = Numbered(s, f, v)
    PROVE  /\ r \in Stores /\ Placed(r) /\ Counted(r)
           /\ r.parent = s.parent /\ r.inv = s.inv /\ r.inside = s.inside
           /\ r.carried = s.carried /\ r.amount = s.amount /\ r.units = [s.units EXCEPT ![f] = v]
           /\ \A u \in Thing \ {f} : Weight(r, u) = Weight(s, u)
           /\ Weight(r, f) = Heft[f] * v
           /\ \A p \in Player : LoadOf(r, p) = LoadOf(s, p)
<1>1. /\ r \in Stores
      /\ r.parent = s.parent /\ r.inv = s.inv /\ r.inside = s.inside /\ r.carried = s.carried
      /\ r.weight = s.weight /\ r.amount = s.amount /\ r.units = [s.units EXCEPT ![f] = v]
  BY NumberedFields
<1>2. r.units[f] = v /\ \A u \in Stack \ {f} : r.units[u] = s.units[u]
  BY <1>1, StoreTypes
<1>3. (\A u \in Thing \ {f} : Weight(r, u) = Weight(s, u)) /\ Weight(r, f) = Heft[f] * v
  <2>1. Weight(r, f) = Heft[f] * v
    BY <1>2, Weigh
  <2>2. ASSUME NEW u \in Thing \ {f} PROVE Weight(r, u) = Weight(s, u)
    <3>1. CASE u \in Container
      BY <1>1, <3>1, Weigh
    <3>2. CASE u \in Stack
      BY <1>2, <2>2, <3>2, Weigh
    <3>3. CASE u \notin Container \cup Stack
      BY <3>3, Weigh
    <3> QED BY <3>1, <3>2, <3>3
  <2> QED BY <2>1, <2>2
<1>4. ASSUME NEW T \in SUBSET Thing, f \notin T PROVE Load(r, T) = Load(s, T)
  <2>1. \A t \in T : Weight(r, t) = Weight(s, t)
    BY <1>3, <1>4
  <2> QED BY <2>1, LoadSame
<1>5. Placed(r)
  BY <1>1 DEF Placed, Inventory
<1>6. Counted(r)
  <2>1. ASSUME NEW b \in Container PROVE f \notin s.inside[b] /\ s.inside[b] \in SUBSET Thing
    BY Constants, StoreTypes DEF Placed
  <2>2. ASSUME NEW b \in Container PROVE Load(r, s.inside[b]) = Load(s, s.inside[b])
    BY <1>4, <2>1
  <2> QED BY <1>1, <2>2 DEF Counted, CountedAt
<1>7. ASSUME NEW p \in Player PROVE LoadOf(r, p) = LoadOf(s, p)
  <2>1. Inventory(r, p) = Inventory(s, p) /\ Inventory(s, p) \in SUBSET Thing
    BY <1>1, InventoryType DEF Inventory
  <2>2. f \notin Inventory(s, p)
    BY Constants DEF Inventory, Placed, Place
  <2> QED BY <1>4, <2>1, <2>2 DEF LoadOf
<1> QED BY <1>1, <1>3, <1>5, <1>6, <1>7

\* Weighing changes nothing but what is remembered.
WeighedAs(s, r, X) ==
    /\ r \in Stores /\ Placed(r) /\ Counted(r)
    /\ r.parent = s.parent /\ r.inv = s.inv /\ r.inside = s.inside
    /\ r.units = s.units /\ r.amount = s.amount
    /\ \A u \in Thing : Weight(r, u) = Weight(s, u)
    /\ \A p \in Player : /\ LoadOf(r, p) = LoadOf(s, p)
                         /\ r.carried[p] = IF p \in X THEN LoadOf(s, p) ELSE s.carried[p]

\* updateInventoryWeight of the players in X changes what they carry, no more.
LEMMA WeighedCounts ==
    ASSUME NEW s \in Stores, Placed(s), Counted(s), NEW X, NEW r, r = Weighed(s, X)
    PROVE  WeighedAs(s, r, X)
<1> DEFINE g == [p \in Player |-> IF p \in X THEN LoadOf(s, p) ELSE s.carried[p]]
<1>1. g \in [Player -> Nat]
  BY InventoryType, StoreTypes
<1>2. r = [s EXCEPT !.carried = g]
  BY DEF Weighed, LoadOf
<1>3. \A p \in Player : g[p] = IF p \in X THEN LoadOf(s, p) ELSE s.carried[p]
  OBVIOUS
<1> HIDE DEF g
<1>4. /\ r \in Stores
      /\ r.parent = s.parent /\ r.inv = s.inv /\ r.inside = s.inside /\ r.carried = g
      /\ r.weight = s.weight /\ r.amount = s.amount /\ r.units = s.units
  BY <1>1, <1>2 DEF Stores
<1>5. \A u \in Thing : Weight(r, u) = Weight(s, u)
  BY <1>4 DEF Weight
<1>6. ASSUME NEW T \in SUBSET Thing PROVE Load(r, T) = Load(s, T)
  BY <1>5, LoadSame
<1>7. Placed(r)
  BY <1>4 DEF Placed, Inventory
<1>8. Counted(r)
  <2>1. ASSUME NEW b \in Container PROVE Load(r, s.inside[b]) = Load(s, s.inside[b])
    BY <1>6, StoreTypes
  <2> QED BY <1>4, <2>1 DEF Counted, CountedAt
<1>9. ASSUME NEW p \in Player PROVE LoadOf(r, p) = LoadOf(s, p)
  <2>1. Inventory(r, p) = Inventory(s, p) /\ Inventory(s, p) \in SUBSET Thing
    BY <1>4, InventoryType DEF Inventory
  <2> QED BY <1>6, <2>1 DEF LoadOf
<1> QED BY <1>3, <1>4, <1>5, <1>7, <1>8, <1>9 DEF WeighedAs

-----------------------------------------------------------------------------
(* The steps of a move: what is taken out, what grows, what is put in.     *)

\* What m of t weigh
Moving(s, t, m) == IF t \in Stack THEN Heft[t] * m ELSE Weight(s, t)

\* What is moved weighs a natural number.
LEMMA MovingType ==
    ASSUME NEW s \in Stores, NEW t \in Thing, NEW m \in Nat
    PROVE  Moving(s, t, m) \in Nat
BY WeightType, Product, Constants DEF Moving

\* A thing is held by who has its place.
LEMMA HolderOfPlace ==
    ASSUME NEW s, Grounded(s.parent), NEW t \in Thing, s.parent[t] \in Place
    PROVE  Holder(s, t) = Holder(s, s.parent[t])
<1>1. s.parent[t] \in Thing <=> s.parent[t] \in Container
  BY Constants DEF Place
<1>2. TopOf(s.parent, t) = IF s.parent[t] \in Container THEN TopOf(s.parent, s.parent[t]) ELSE s.parent[t]
  BY TopUnfolds
<1> QED BY <1>1, <1>2 DEF Holder

\* What is put somewhere is with whom the place is with.
LEMMA JoinedHolder ==
    ASSUME NEW lo, NEW hi, NEW t \in Thing, Joined(lo, hi, t), Grounded(hi.parent)
    PROVE  /\ Holder(hi, t) = Holder(hi, hi.parent[t])
           /\ Holder(hi, hi.parent[t]) = Holder(lo, hi.parent[t])
<1> DEFINE l == lo.parent
           m == hi.parent
           pl == hi.parent[t]
<1>1. pl \in Place /\ PutIn(l, m, t) /\ m[t] = pl
  BY DEF Joined
<1>2. Holder(hi, t) = Holder(hi, pl)
  BY <1>1, HolderOfPlace
<1>3. pl \in Container => TopOf(m, pl) = TopOf(l, pl)
  <2> HIDE DEF l, m, pl
  <2> QED BY <1>1, AroundThePlace
<1>4. pl \in Thing <=> pl \in Container
  BY <1>1, Constants DEF Place
<1>5. Holder(hi, pl) = Holder(lo, pl)
  <2>1. \A x : Holder(hi, x) = (IF x \in Thing THEN TopOf(m, x) ELSE x) /\ Holder(lo, x) = IF x \in Thing THEN TopOf(l, x) ELSE x
    BY DEF Holder
  <2> HIDE DEF l, m, pl
  <2> QED BY <1>3, <1>4, <2>1
<1> QED BY <1>2, <1>5

\* r is s without m of t, which is in hand if that is all of it.
Taken(s, r, t, m) ==
    LET whole == Whole(s, t, m) IN
    /\ Sound(r, IF whole THEN {t} ELSE {})
    /\ r.carried = s.carried
    /\ r.parent = IF whole THEN [s.parent EXCEPT ![t] = Nowhere] ELSE s.parent
    /\ r.units = IF whole THEN s.units ELSE [s.units EXCEPT ![t] = s.units[t] - m]
    /\ \A p \in Player, k \in Slot :
         r.inv[p][k] = IF whole /\ s.inv[p][k] = t THEN NoThing ELSE s.inv[p][k]
    /\ \A x \in Container \cup Tile :
         r.inside[x] = IF whole THEN s.inside[x] \ {t} ELSE s.inside[x]
    /\ \A b \in Container : r.amount[b] <= s.amount[b]
    /\ whole => Weight(r, t) = Moving(s, t, m) /\ Amount(r, t) = Amount(s, t)
    /\ \A p \in Player :
         LoadOf(r, p) = LoadOf(s, p) - IF p = Holder(s, t) THEN Moving(s, t, m) ELSE 0

\* Taking out m of t, which is in its place
LEMMA TakeStep ==
    ASSUME NEW s, Sound(s, {}), NEW t \in Thing, InPlace(s, t), NEW m \in Nat,
           t \in Stack => m <= s.units[t],
           NEW r, r = Take(s, t, m)
    PROVE  Taken(s, r, t, m)
<1>0. s \in Stores /\ Placed(s) /\ Counted(s) /\ InUse(s, {})
  BY DEF Sound
<1>1. /\ s.parent \in [Thing -> Place \cup {Nowhere}] /\ s.units \in [Stack -> 0 .. MaxStack]
      /\ s.amount \in [Container -> Nat]
  BY <1>0, StoreTypes
<1>2. CASE Whole(s, t, m)
  <2>1. r = TakeWhole(s, t)
    BY <1>2 DEF Take
  <2>2. /\ r \in Stores /\ Joined(r, s, t) /\ Placed(r) /\ Counted(r)
        /\ r.parent = [s.parent EXCEPT ![t] = Nowhere]
        /\ r.units = s.units /\ r.carried = s.carried
        /\ \A p \in Player, k \in Slot :
             r.inv[p][k] = IF s.inv[p][k] = t THEN NoThing ELSE s.inv[p][k]
        /\ \A x \in Container \cup Tile : r.inside[x] = s.inside[x] \ {t}
        /\ Weight(r, t) = Weight(s, t) /\ Amount(r, t) = Amount(s, t)
    BY <1>0, <2>1, TakeJoins
  <2>3. Weight(r, t) = Moving(s, t, m) /\ Moving(s, t, m) \in Nat
    <3>1. t \in Stack => Weight(s, t) = Heft[t] * m
      BY <1>2, Weigh DEF Whole
    <3> QED BY <1>0, <2>2, <3>1, WeightType DEF Moving
  <2>4. ASSUME NEW p \in Player
        PROVE  LoadOf(r, p) = LoadOf(s, p) - IF p = Holder(s, t) THEN Moving(s, t, m) ELSE 0
    <3>1. LoadOf(s, p) = LoadOf(r, p) + IF p = Holder(r, s.parent[t]) THEN Weight(r, t) ELSE 0
      BY <1>0, <2>2, JoinedLoadOf
    <3>2. Holder(r, s.parent[t]) = Holder(s, t)
      BY <1>0, <2>2, JoinedHolder DEF Placed
    <3>3. LoadOf(s, p) \in Nat /\ LoadOf(r, p) \in Nat
      BY <1>0, <2>2, InventoryType
    <3> QED BY <2>3, <3>1, <3>2, <3>3
  <2>5. ASSUME NEW b \in Container PROVE r.amount[b] <= s.amount[b]
    <3>1. s.amount[b] = r.amount[b] + IF b \in Up(r, s, t) THEN Amount(r, t) ELSE 0
      BY <2>2 DEF Joined
    <3>2. r.amount[b] \in Nat /\ Amount(r, t) \in Nat
      BY <2>2, StoreTypes DEF Amount
    <3> QED BY <3>1, <3>2
  <2>6. InUse(r, {t})
    <3>1. r.parent[t] = Nowhere /\ \A u \in Thing \ {t} : r.parent[u] = s.parent[u]
      BY <1>1, <2>2
    <3>2. \A u \in Stack \ {t} : r.units[u] > 0 <=> r.parent[u] # Nowhere
      BY <1>0, <2>2, <3>1, Constants DEF InUse
    <3>3. \A c \in Container \ {t} : r.parent[c] = Nowhere => r.inside[c] = {}
      BY <1>0, <2>2, <3>1, Constants DEF InUse
    <3> QED BY <3>1, <3>2, <3>3 DEF InUse
  <2> QED BY <1>2, <2>2, <2>3, <2>4, <2>5, <2>6 DEF Taken, Sound
<1>3. CASE ~Whole(s, t, m)
  <2>1. t \in Stack /\ m # s.units[t] /\ r = TakePart(s, t, m)
    BY <1>3 DEF Whole, Take
  <2> DEFINE v == s.units[t] - m
             w == Heft[t] * m
  <2>2. r \in Stores /\ Placed(r) /\ Counted(r) /\ Recounted(s, r, t, v, -w)
    BY <1>0, <2>1, TakePartCounts
  <2>3. w \in Nat /\ Moving(s, t, m) = w
    BY <2>1, Product, Constants DEF Moving
  <2>4. /\ r.parent = s.parent /\ r.inv = s.inv /\ r.inside = s.inside /\ r.carried = s.carried
        /\ r.amount = s.amount /\ r.units = [s.units EXCEPT ![t] = v]
    BY <2>2 DEF Recounted
  <2>5. ASSUME NEW p \in Player
        PROVE  LoadOf(r, p) = LoadOf(s, p) - IF p = Holder(s, t) THEN Moving(s, t, m) ELSE 0
    <3>1. LoadOf(r, p) = LoadOf(s, p) + IF p = Holder(s, t) THEN -w ELSE 0
      BY <2>2 DEF Recounted
    <3>2. LoadOf(s, p) \in Nat
      BY <1>0, InventoryType
    <3> HIDE DEF w
    <3> QED BY <2>3, <3>1, <3>2
  <2>6. InUse(r, {})
    <3>1. r.units[t] > 0 /\ s.units[t] > 0
      BY <1>1, <2>1, <2>4
    <3>2. \A u \in Stack \ {t} : r.units[u] = s.units[u]
      BY <1>1, <2>4
    <3> QED BY <1>0, <2>4, <3>1, <3>2 DEF InUse
  <2>7. \A b \in Container : r.amount[b] <= s.amount[b]
    BY <1>1, <2>4
  <2> QED BY <1>3, <2>2, <2>4, <2>5, <2>6, <2>7 DEF Taken, Sound
<1> QED BY <1>2, <1>3

\* r is s with t put into pl, in a slot k of a player.
PutInto(s, r, t, pl, k) ==
    /\ Sound(r, {})
    /\ r.carried = s.carried /\ r.units = s.units
    /\ r.parent = [s.parent EXCEPT ![t] = pl]
    /\ \A p \in Player, j \in Slot : r.inv[p][j] = IF p = pl /\ j = k THEN t ELSE s.inv[p][j]
    /\ \A x \in Container \cup Tile : r.inside[x] = s.inside[x] \cup IF x = pl THEN {t} ELSE {}
    /\ \A b \in Container :
         r.amount[b] = s.amount[b] + IF b \in UpFrom(s.parent, pl) THEN Amount(s, t) ELSE 0
    /\ \A p \in Player : LoadOf(r, p) = LoadOf(s, p) + IF p = Holder(s, pl) THEN Weight(s, t) ELSE 0

\* Putting the thing in hand into a place with room for it
LEMMA PutStep ==
    ASSUME NEW s, NEW t \in Thing, Sound(s, {t}), t \in Stack => s.units[t] > 0,
           NEW pl \in Place, NEW k, pl \in Player => k \in Slot /\ s.inv[pl][k] = NoThing,
           pl \in Container => s.parent[pl] # Nowhere,
           t \notin UpFrom(s.parent, pl), NEW r, r = Put(s, pl, k, t)
    PROVE  PutInto(s, r, t, pl, k)
<1>0. s \in Stores /\ Placed(s) /\ Counted(s) /\ InUse(s, {t})
  BY DEF Sound
<1>1. /\ s.parent \in [Thing -> Place \cup {Nowhere}]
      /\ s.inv \in [Player -> [Slot -> Thing \cup {NoThing}]]
      /\ s.inside \in [Container \cup Tile -> SUBSET Thing]
      /\ s.parent[t] = Nowhere
  BY <1>0, StoreTypes DEF InUse
<1>2. /\ r \in Stores /\ Joined(s, r, t) /\ Placed(r) /\ Counted(r)
      /\ r.parent = [s.parent EXCEPT ![t] = pl]
      /\ r.units = s.units /\ r.carried = s.carried
      /\ r.inv = IF pl \in Player THEN [s.inv EXCEPT ![pl][k] = t] ELSE s.inv
      /\ r.inside = IF pl \in Player THEN s.inside ELSE [s.inside EXCEPT ![pl] = @ \cup {t}]
  <2>1. s \in Stores /\ Placed(s) /\ Counted(s) /\ s.parent[t] = Nowhere
    BY <1>0, <1>1
  <2>2. PutJoined(s, r, t, pl, k)
    BY <2>1, PutJoins
  <2> QED BY <2>2 DEF PutJoined
<1>3. r.parent[t] = pl /\ \A u \in Thing \ {t} : r.parent[u] = s.parent[u]
  BY <1>1, <1>2
<1>4. \A p \in Player, j \in Slot : r.inv[p][j] = IF p = pl /\ j = k THEN t ELSE s.inv[p][j]
  BY <1>1, <1>2
<1>5. /\ \A x \in Container \cup Tile : r.inside[x] = s.inside[x] \cup IF x = pl THEN {t} ELSE {}
      /\ \A b \in Container :
           r.amount[b] = s.amount[b] + IF b \in UpFrom(s.parent, pl) THEN Amount(s, t) ELSE 0
  BY <1>2, <1>3 DEF Joined, Up
<1>6. \A p \in Player : LoadOf(r, p) = LoadOf(s, p) + IF p = Holder(s, pl) THEN Weight(s, t) ELSE 0
  <2>1. \A p \in Player : LoadOf(r, p) = LoadOf(s, p) +
                               IF p = Holder(s, r.parent[t]) THEN Weight(s, t) ELSE 0
    BY <1>0, <1>2, JoinedLoadOf
  <2> QED BY <1>3, <2>1
<1>7. InUse(r, {})
  <2>1. pl # Nowhere
    BY Constants
  <2>2. \A u \in Stack : r.units[u] > 0 <=> r.parent[u] # Nowhere
    BY <1>0, <1>2, <1>3, <2>1, Constants DEF InUse
  <2>3. ASSUME NEW c \in Container, r.parent[c] = Nowhere PROVE r.inside[c] = {}
    <3>1. c # t /\ s.parent[c] = Nowhere
      BY <1>3, <2>1, <2>3, Constants
    <3>2. s.inside[c] = {}
      BY <1>0, <3>1 DEF InUse
    <3>3. r.inside[c] = {u \in Thing : r.parent[u] = c} /\ s.inside[c] = {u \in Thing : s.parent[u] = c}
      BY <1>0, <1>2 DEF Placed
    <3>4. c # pl
      BY <3>1
    <3> QED BY <1>5, <3>2, <3>4
  <2> QED BY <2>2, <2>3 DEF InUse
<1> QED BY <1>2, <1>4, <1>5, <1>6, <1>7 DEF PutInto, Sound

\* The pieces of all stacks
Pieces(s) == SumFunctionOnSet(s.units, Stack)

\* The pieces change with the count of a stack.
LEMMA PiecesChange ==
    ASSUME NEW s \in Stores, NEW r \in Stores, NEW x \in Stack, NEW v \in 0 .. MaxStack,
           r.units = [s.units EXCEPT ![x] = v]
    PROVE  Pieces(r) = Pieces(s) + (v - s.units[x])
<1>1. s.units \in [Stack -> 0 .. MaxStack] /\ r.units \in [Stack -> 0 .. MaxStack]
  BY StoreTypes
<1>2. r.units[x] = v /\ \A y \in Stack \ {x} : r.units[y] = s.units[y]
  BY <1>1
<1>3. \A y \in Stack : s.units[y] \in Int /\ r.units[y] \in Int
  BY <1>1
<1> DEFINE f == s.units
           g == r.units
<1>4. (\A y \in Stack : f[y] \in Int /\ g[y] \in Int) /\ \A y \in Stack \ {x} : g[y] = f[y]
  BY <1>2, <1>3
<1> HIDE DEF f, g
<1>5. SumFunctionOnSet(g, Stack) = SumFunctionOnSet(f, Stack) + (g[x] - f[x])
  BY <1>4, Constants, SumChange
<1> QED BY <1>2, <1>5 DEF Pieces, f, g

\* There is a natural number of pieces.
LEMMA PiecesType ==
    ASSUME NEW s \in Stores
    PROVE  Pieces(s) \in Nat
<1>1. \A y \in Stack : s.units[y] \in Nat
  BY StoreTypes
<1> DEFINE f == s.units
<1> HIDE DEF f
<1>2. SumFunctionOnSet(f, Stack) \in Nat
  BY <1>1, Constants, SumNat DEF f
<1> QED BY <1>2 DEF Pieces, f

\* b is a with stack x grown by j.
GrownBy(a, b, x, j, H) ==
    /\ Sound(b, H)
    /\ b.parent = a.parent /\ b.inv = a.inv /\ b.inside = a.inside /\ b.carried = a.carried
    /\ b.amount = a.amount /\ b.units = [a.units EXCEPT ![x] = a.units[x] + j]
    /\ Pieces(b) = Pieces(a) + j
    /\ \A p \in Player : LoadOf(b, p) = LoadOf(a, p) + IF p = Holder(a, x) THEN Heft[x] * j ELSE 0

\* Growing a stack in place
LEMMA GrowStep ==
    ASSUME NEW a, NEW H, Sound(a, H), NEW x \in Stack \ H, InPlace(a, x),
           NEW j \in Nat, a.units[x] + j <= MaxStack, NEW b, b = Grow(a, x, j)
    PROVE  GrownBy(a, b, x, j, H)
<1> DEFINE v == a.units[x] + j
<1>0. a \in Stores /\ Placed(a) /\ Counted(a) /\ InUse(a, H)
  BY DEF Sound
<1>1. a.units \in [Stack -> 0 .. MaxStack] /\ a.units[x] \in Nat /\ v \in 0 .. MaxStack
  BY <1>0, StoreTypes
<1>2. b \in Stores /\ Placed(b) /\ Counted(b) /\ Recounted(a, b, x, v, Heft[x] * j)
  BY <1>0, GrowCounts
<1>3. /\ b.parent = a.parent /\ b.inv = a.inv /\ b.inside = a.inside /\ b.carried = a.carried
      /\ b.amount = a.amount /\ b.units = [a.units EXCEPT ![x] = v]
      /\ \A p \in Player : LoadOf(b, p) = LoadOf(a, p) + IF p = Holder(a, x) THEN Heft[x] * j ELSE 0
  BY <1>2 DEF Recounted
<1>4. InUse(b, H)
  <2>1. a.parent[x] # Nowhere
    BY Constants DEF InPlace
  <2>2. a.units[x] > 0
    BY <1>0, <2>1 DEF InUse
  <2>3. b.units[x] > 0 /\ \A u \in Stack \ {x} : b.units[u] = a.units[u]
    BY <1>1, <1>3, <2>2
  <2> QED BY <1>0, <1>3, <2>1, <2>3 DEF InUse
<1>5. Pieces(b) = Pieces(a) + j
  <2>1. Pieces(b) = Pieces(a) + (v - a.units[x])
    BY <1>0, <1>1, <1>2, <1>3, PiecesChange
  <2> QED BY <1>1, <2>1, <1>0, PiecesType
<1> QED BY <1>2, <1>3, <1>4, <1>5 DEF GrownBy, Sound

\* b is a with the loose stack f counting v.
NumberedAs(a, b, f, v, H) ==
    /\ Sound(b, H)
    /\ b.parent = a.parent /\ b.inv = a.inv /\ b.inside = a.inside /\ b.carried = a.carried
    /\ b.amount = a.amount /\ b.units = [a.units EXCEPT ![f] = v]
    /\ Pieces(b) = Pieces(a) + (v - a.units[f])
    /\ Weight(b, f) = Heft[f] * v
    /\ \A p \in Player : LoadOf(b, p) = LoadOf(a, p)

\* Counting a stack that is nowhere: it is in hand then, unless it has no pieces.
LEMMA NumberStep ==
    ASSUME NEW a, NEW H, Sound(a, H), NEW f \in Stack, a.parent[f] = Nowhere,
           NEW v \in 0 .. MaxStack, NEW b, b = Numbered(a, f, v)
    PROVE  NumberedAs(a, b, f, v, IF v = 0 THEN H \ {f} ELSE H \cup {f})
<1>0. a \in Stores /\ Placed(a) /\ Counted(a) /\ InUse(a, H)
  BY DEF Sound
<1>1. /\ b \in Stores /\ Placed(b) /\ Counted(b)
      /\ b.parent = a.parent /\ b.inv = a.inv /\ b.inside = a.inside
      /\ b.carried = a.carried /\ b.amount = a.amount /\ b.units = [a.units EXCEPT ![f] = v]
      /\ Weight(b, f) = Heft[f] * v
      /\ \A p \in Player : LoadOf(b, p) = LoadOf(a, p)
  BY <1>0, NumberedCounts
<1>2. Pieces(b) = Pieces(a) + (v - a.units[f])
  BY <1>0, <1>1, PiecesChange
<1>3. b.units[f] = v /\ \A u \in Stack \ {f} : b.units[u] = a.units[u]
  BY <1>0, <1>1, StoreTypes
<1>4. f \notin Container
  BY Constants
<1>5. InUse(b, IF v = 0 THEN H \ {f} ELSE H \cup {f})
  BY <1>0, <1>1, <1>3, <1>4 DEF InUse
<1> QED BY <1>1, <1>2, <1>5 DEF NumberedAs, Sound

\* Where a place is does not change by taking out what it does not lie in.
LEMMA PlaceStays ==
    ASSUME NEW s \in Stores, NEW t \in Thing, NEW a, a.parent = [s.parent EXCEPT ![t] = Nowhere],
           NEW pl \in Place, t \notin UpFrom(s.parent, pl)
    PROVE  Holder(a, pl) = Holder(s, pl) /\ UpFrom(a.parent, pl) = UpFrom(s.parent, pl)
<1> DEFINE l == s.parent
           m == a.parent
<1>1. \A u \in Thing \ {t} : m[u] = l[u]
  BY StoreTypes
<1>2. pl \in Thing <=> pl \in Container
  BY Constants DEF Place
<1>3. CASE pl \in Container
  <2>1. \A j \in {pl} \cup Around(l, pl) : m[j] = l[j]
    <3>1. {pl} \cup Around(l, pl) \subseteq Thing \ {t}
      BY <1>3, AroundIsClosed, Constants DEF UpFrom
    <3> QED BY <1>1, <3>1
  <2>2. Around(m, pl) = Around(l, pl) /\ TopOf(m, pl) = TopOf(l, pl)
    <3> HIDE DEF l, m
    <3> QED BY <2>1, AroundAgrees
  <2> QED BY <1>2, <1>3, <2>2 DEF Holder, UpFrom
<1>4. CASE pl \notin Container
  BY <1>2, <1>4 DEF Holder, UpFrom
<1> QED BY <1>3, <1>4

-----------------------------------------------------------------------------
(* internalMoveItem once the destination is found.                         *)

\* A place with what is found there, which is not t and does not lie in t
Target(s, d, t) ==
    /\ d.place \in Place /\ d.item \in Thing \cup {NoThing} /\ d.item # t
    /\ d.place \in Player => d.slot \in Slot /\ d.item = s.inv[d.place][d.slot]
    /\ d.place \notin Player /\ d.item # NoThing => s.parent[d.item] = d.place
    /\ d.place \in Container => s.parent[d.place] # Nowhere
    /\ t \notin UpFrom(s.parent, d.place)

\* m of t may go to d, with f as the object of what does not join the stack there.
Movable(s, d, t, m, f) ==
    /\ InPlace(s, t) /\ Target(s, d, t)
    /\ m \in Nat \ {0} /\ (t \in Stack => m <= s.units[t])
    /\ IF Whole(s, t, m) THEN f = t ELSE f \in Fresh(s)
    /\ d.place \in Player /\ d.item # NoThing =>
         {t, d.item} \subseteq Stack /\ s.units[d.item] + m <= MaxStack

\* How many of the m pieces of t join the stack at the destination
Joining(s, d, t, m) ==
    IF {t, d.item} \subseteq Stack THEN Min({MaxStack - s.units[d.item], m}) ELSE 0

\* Whether an object, f, is put into the place
Puts(s, d, t, m) == t \notin Stack \/ Joining(s, d, t, m) < m

\* Min of a pair
LEMMA MinOfTwo ==
    ASSUME NEW a \in Int, NEW b \in Int
    PROVE  Min({a, b}) = IF a <= b THEN a ELSE b
<1>1. \A x \in {a, b} : x \in Int
  OBVIOUS
<1>2. PICK c \in {a, b} : \A y \in {a, b} : c <= y
  OBVIOUS
<1>3. /\ Min({a, b}) \in {a, b} /\ \A y \in {a, b} : Min({a, b}) <= y
  BY <1>2 DEF Min
<1> QED BY <1>1, <1>3

\* Max of a pair
LEMMA MaxOfTwo ==
    ASSUME NEW a \in Int, NEW b \in Int
    PROVE  Max({a, b}) = IF a >= b THEN a ELSE b
<1>1. \A x \in {a, b} : x \in Int
  OBVIOUS
<1>2. PICK c \in {a, b} : \A y \in {a, b} : c >= y
  OBVIOUS
<1>3. /\ Max({a, b}) \in {a, b} /\ \A y \in {a, b} : Max({a, b}) >= y
  BY <1>2 DEF Max
<1> QED BY <1>1, <1>3

\* What joins fits on the stack: all of it, or as much as fills it.
LEMMA JoiningType ==
    ASSUME NEW s \in Stores, NEW d, NEW t, NEW m \in Nat
    PROVE  /\ Joining(s, d, t, m) \in Nat /\ Joining(s, d, t, m) <= m
           /\ Joining(s, d, t, m) > 0 => t \in Stack /\ d.item \in Stack
           /\ d.item \in Stack => s.units[d.item] + Joining(s, d, t, m) <= MaxStack
           /\ t \in Stack /\ d.item \in Stack =>
                Joining(s, d, t, m) = m \/ Joining(s, d, t, m) = MaxStack - s.units[d.item]
<1>1. CASE t \in Stack /\ d.item \in Stack
  <2> DEFINE u == s.units[d.item]
  <2>1. u \in Nat /\ u <= MaxStack /\ MaxStack \in Nat
    BY <1>1, StoreTypes, Constants
  <2>2. Joining(s, d, t, m) = IF MaxStack - u <= m THEN MaxStack - u ELSE m
    <3>1. Joining(s, d, t, m) = Min({MaxStack - u, m})
      BY <1>1 DEF Joining
    <3>2. MaxStack - u \in Int
      BY <2>1
    <3> HIDE DEF u
    <3> QED BY <3>1, <3>2, MinOfTwo
  <2> HIDE DEF u
  <2>3. /\ Joining(s, d, t, m) \in Nat /\ Joining(s, d, t, m) <= m
        /\ u + Joining(s, d, t, m) <= MaxStack
        /\ Joining(s, d, t, m) = m \/ Joining(s, d, t, m) = MaxStack - u
    BY <2>1, <2>2
  <2> QED BY <1>1, <2>3 DEF u
<1>2. CASE ~(t \in Stack /\ d.item \in Stack)
  <2>1. Joining(s, d, t, m) = 0
    BY <1>2 DEF Joining
  <2>2. d.item \in Stack => s.units[d.item] \in Nat /\ s.units[d.item] <= MaxStack
    BY StoreTypes, Constants
  <2> QED BY <1>2, <2>1, <2>2
<1> QED BY <1>1, <1>2

\* What a move of m of t to d makes of s: f is put there, unless all of it joins.
ShiftedTo(s, r, d, t, m, f, put) ==
    LET whole == Whole(s, t, m) IN
    /\ Sound(r, {})
    /\ \A p \in Player : LoadOf(r, p) = LoadOf(s, p)
         - (IF p = Holder(s, t) THEN Moving(s, t, m) ELSE 0)
         + (IF p = Holder(s, d.place) THEN Moving(s, t, m) ELSE 0)
    /\ \A p \in Player, k \in Slot : r.inv[p][k] =
         IF put /\ p = d.place /\ k = d.slot THEN f
         ELSE IF whole /\ s.inv[p][k] = t THEN NoThing ELSE s.inv[p][k]
    /\ \A x \in Container \cup Tile : r.inside[x] =
         (IF whole THEN s.inside[x] \ {t} ELSE s.inside[x]) \cup IF put /\ x = d.place THEN {f} ELSE {}
    /\ \A b \in Container :
         r.amount[b] <= s.amount[b] + IF put /\ b \in UpFrom(s.parent, d.place) THEN Amount(s, t) ELSE 0
    /\ Pieces(r) = Pieces(s)
    /\ \A u \in Thing : r.parent[u] =
         IF put /\ u = f THEN d.place ELSE IF whole /\ u = t THEN Nowhere ELSE s.parent[u]

\* The two who may hold other things now are weighed.
Shifted(s, r, d, t, m, f, put) ==
    /\ ShiftedTo(s, r, d, t, m, f, put)
    /\ \A p \in Player : r.carried[p] =
         IF p = Holder(s, t) \/ p = Holder(s, d.place) THEN LoadOf(r, p) ELSE s.carried[p]

\* What was taken from s, and grown, when f is to be put next
Ready(s, a, d, t, m, f, j) ==
    LET whole == Whole(s, t, m) IN
    /\ Sound(a, IF whole THEN {t} ELSE {})
    /\ a.carried = s.carried
    /\ \A u \in Thing : a.parent[u] = IF whole /\ u = t THEN Nowhere ELSE s.parent[u]
    /\ \A p \in Player, k \in Slot :
         a.inv[p][k] = IF whole /\ s.inv[p][k] = t THEN NoThing ELSE s.inv[p][k]
    /\ \A x \in Container \cup Tile :
         a.inside[x] = IF whole THEN s.inside[x] \ {t} ELSE s.inside[x]
    /\ \A b \in Container : a.amount[b] <= s.amount[b]
    /\ t \in Stack => /\ f \in Stack /\ a.parent[f] = Nowhere
                      /\ a.units[f] = IF whole THEN m ELSE 0
    /\ t \notin Stack => Weight(a, t) = Moving(s, t, m) /\ Amount(a, t) = Amount(s, t)
    /\ Pieces(a) = Pieces(s) + j - IF whole THEN 0 ELSE m
    /\ \A p \in Player : LoadOf(a, p) = LoadOf(s, p)
         - (IF p = Holder(s, t) THEN Moving(s, t, m) ELSE 0)
         + (IF p = Holder(s, d.place) THEN Heft[t] * j ELSE 0)
    /\ Holder(a, d.place) = Holder(s, d.place)
    /\ UpFrom(a.parent, d.place) = UpFrom(s.parent, d.place)

\* Taking out, and growing the stack at the destination, comes to Ready.
LEMMA ShiftReady ==
    ASSUME NEW s, Sound(s, {}), NEW d, NEW t \in Thing, NEW m, NEW f, Movable(s, d, t, m, f),
           NEW j, j = Joining(s, d, t, m), NEW taken, taken = Take(s, t, m),
           NEW a, a = IF j > 0 THEN Grow(taken, d.item, j) ELSE taken
    PROVE  Ready(s, a, d, t, m, f, j)
<1> DEFINE H == IF Whole(s, t, m) THEN {t} ELSE {}
<1>0. s \in Stores /\ Placed(s) /\ Counted(s) /\ InUse(s, {})
  BY DEF Sound
<1>1. /\ InPlace(s, t) /\ Target(s, d, t) /\ m \in Nat /\ m > 0 /\ (t \in Stack => m <= s.units[t])
      /\ IF Whole(s, t, m) THEN f = t ELSE f \in Fresh(s)
  BY DEF Movable
<1>2. Taken(s, taken, t, m)
  BY <1>1, TakeStep
<1>3. /\ Sound(taken, H) /\ taken.carried = s.carried
      /\ taken.parent = IF Whole(s, t, m) THEN [s.parent EXCEPT ![t] = Nowhere] ELSE s.parent
      /\ taken.units = IF Whole(s, t, m) THEN s.units ELSE [s.units EXCEPT ![t] = s.units[t] - m]
      /\ \A p \in Player :
           LoadOf(taken, p) = LoadOf(s, p) - IF p = Holder(s, t) THEN Moving(s, t, m) ELSE 0
  BY <1>2 DEF Taken
<1>4. /\ s.parent \in [Thing -> Place \cup {Nowhere}] /\ s.units \in [Stack -> 0 .. MaxStack]
      /\ taken \in Stores /\ taken.units \in [Stack -> 0 .. MaxStack]
      /\ Moving(s, t, m) \in Nat
  BY <1>0, <1>1, <1>3, StoreTypes, MovingType DEF Sound
<1>5. /\ j \in Nat /\ j <= m /\ (j > 0 => t \in Stack /\ d.item \in Stack)
      /\ d.item \in Stack => s.units[d.item] + j <= MaxStack
  BY <1>0, <1>1, JoiningType
<1>6. Holder(taken, d.place) = Holder(s, d.place) /\ UpFrom(taken.parent, d.place) = UpFrom(s.parent, d.place)
  <2>1. d.place \in Place /\ t \notin UpFrom(s.parent, d.place)
    BY <1>1 DEF Target
  <2>2. CASE Whole(s, t, m)
    <3>1. taken.parent = [s.parent EXCEPT ![t] = Nowhere]
      BY <1>3, <2>2
    <3> DEFINE pl == d.place
    <3> HIDE DEF pl
    <3>2. Holder(taken, pl) = Holder(s, pl) /\ UpFrom(taken.parent, pl) = UpFrom(s.parent, pl)
      BY <1>0, <2>1, <3>1, PlaceStays DEF pl
    <3> QED BY <3>2 DEF pl
  <2>3. CASE ~Whole(s, t, m)
    BY <1>3, <2>3 DEF Holder
  <2> QED BY <2>2, <2>3
<1>7. t \in Stack => /\ f \in Stack /\ taken.parent[f] = Nowhere /\ f # d.item
                     /\ taken.units[f] = IF Whole(s, t, m) THEN m ELSE 0
  <2> SUFFICES ASSUME t \in Stack PROVE /\ f \in Stack /\ taken.parent[f] = Nowhere /\ f # d.item
                                        /\ taken.units[f] = IF Whole(s, t, m) THEN m ELSE 0
    OBVIOUS
  <2>1. CASE Whole(s, t, m)
    BY <1>1, <1>3, <1>4, <2>1 DEF Whole, Target
  <2>2. CASE ~Whole(s, t, m)
    <3>1. f \in Stack /\ s.units[f] = 0
      BY <1>1, <2>2 DEF Fresh
    <3>2. s.parent[f] = Nowhere /\ f # t
      BY <1>0, <1>1, <3>1 DEF InUse
    <3>3. f # d.item
      <4>1. SUFFICES ASSUME f = d.item PROVE FALSE
        OBVIOUS
      <4>2. d.place \notin Player => s.parent[f] = d.place
        BY <1>1, <3>1, <4>1, Constants DEF Target
      <4>3. d.place \in Player => s.parent[f] = d.place
        BY <1>0, <1>1, <3>1, <4>1, Constants DEF Target, Placed
      <4> QED BY <1>1, <3>2, <4>2, <4>3, Constants DEF Target
    <3> QED BY <1>3, <1>4, <2>2, <3>1, <3>2, <3>3
  <2> QED BY <2>1, <2>2
<1>8. Pieces(taken) = Pieces(s) - IF Whole(s, t, m) THEN 0 ELSE m
  <2>1. CASE Whole(s, t, m)
    BY <1>0, <1>3, <2>1, PiecesType DEF Pieces
  <2>2. CASE ~Whole(s, t, m)
    <3>1. t \in Stack /\ s.units[t] - m \in 0 .. MaxStack /\ s.units[t] \in Nat
      BY <1>1, <1>4, <2>2, Constants DEF Whole
    <3>2. Pieces(taken) = Pieces(s) + ((s.units[t] - m) - s.units[t])
      BY <1>0, <1>3, <1>4, <2>2, <3>1, PiecesChange
    <3> QED BY <1>0, <1>1, <2>2, <3>1, <3>2, PiecesType
  <2> QED BY <2>1, <2>2
<1>9. \A p \in Player : LoadOf(s, p) \in Nat /\ LoadOf(taken, p) \in Nat
  BY <1>0, <1>4, InventoryType
<1>10. /\ Sound(a, H) /\ a.parent = taken.parent /\ a.inv = taken.inv /\ a.inside = taken.inside
       /\ a.carried = taken.carried /\ a.amount = taken.amount
       /\ (t \in Stack => a.units[f] = taken.units[f]) /\ (t \notin Stack => a = taken)
       /\ Pieces(a) = Pieces(taken) + j
       /\ \A p \in Player : LoadOf(a, p) = LoadOf(taken, p) +
            IF p = Holder(s, d.place) THEN Heft[t] * j ELSE 0
  <2>1. CASE j = 0
    <3>1. a = taken /\ Heft[t] * j = 0
      BY <2>1, Constants
    <3>2. Pieces(a) = Pieces(taken) + j
      BY <1>4, <2>1, <3>1, PiecesType
    <3>3. \A p \in Player : LoadOf(a, p) = LoadOf(taken, p) +
            IF p = Holder(s, d.place) THEN Heft[t] * j ELSE 0
      BY <1>9, <3>1
    <3> QED BY <1>3, <3>1, <3>2, <3>3
  <2>2. CASE j > 0
    <3> DEFINE x == d.item
    <3>1. x \in Stack /\ x # t /\ a = Grow(taken, x, j)
      BY <1>1, <1>5, <2>2 DEF Target
    <3>2. s.parent[x] = d.place /\ taken.parent[x] = d.place /\ d.place \in Place
      <4>1. d.place \notin Player => s.parent[x] = d.place
        BY <1>1, <3>1, Constants DEF Target
      <4>2. d.place \in Player => s.parent[x] = d.place
        BY <1>0, <1>1, <3>1, Constants DEF Target, Placed
      <4> QED BY <1>1, <1>3, <1>4, <3>1, <4>1, <4>2 DEF Target
    <3>3. InPlace(taken, x)
      <4>1. ASSUME d.place \in Player PROVE x \in Inventory(taken, d.place)
        <5>1. d.slot \in Slot /\ s.inv[d.place][d.slot] = x
          BY <1>1, <4>1 DEF Target
        <5>2. taken.inv[d.place][d.slot] = x
          BY <1>2, <3>1, <4>1, <5>1 DEF Taken
        <5>3. x # NoThing
          BY <3>1, Constants
        <5> QED BY <5>1, <5>2, <5>3, InventoryOf
      <4> QED BY <3>2, <4>1 DEF InPlace
    <3>4. taken.units[x] + j <= MaxStack
      <4>1. taken.units[x] = s.units[x]
        BY <1>3, <1>4, <3>1
      <4> QED BY <1>5, <3>1, <4>1
    <3>5. x \in Stack \ H
      BY <3>1
    <3> HIDE DEF x, H
    <3>6. GrownBy(taken, a, x, j, H)
      BY <1>3, <1>5, <3>1, <3>3, <3>4, <3>5, GrowStep
    <3>7. Holder(taken, x) = Holder(s, d.place)
      <4>1. Grounded(taken.parent)
        BY <1>3 DEF Sound, Placed
      <4>2. Holder(taken, x) = Holder(taken, taken.parent[x])
        BY <3>1, <3>2, <4>1, HolderOfPlace, Constants
      <4> QED BY <1>6, <3>2, <4>2
    <3>8. Heft[x] = Heft[t]
      BY <1>5, <2>2, <3>1, StorageConstants
    <3>9. t \in Stack => a.units[f] = taken.units[f]
      <4>1. a.units = [taken.units EXCEPT ![x] = taken.units[x] + j]
        BY <3>6 DEF GrownBy
      <4>2. t \in Stack => f # x /\ f \in Stack
        BY <1>7 DEF x
      <4> QED BY <1>4, <4>1, <4>2
    <3>10. /\ Sound(a, H) /\ a.parent = taken.parent /\ a.inv = taken.inv /\ a.inside = taken.inside
           /\ a.carried = taken.carried /\ a.amount = taken.amount
           /\ Pieces(a) = Pieces(taken) + j
      BY <3>6 DEF GrownBy
    <3>11. \A p \in Player : LoadOf(a, p) = LoadOf(taken, p) +
             IF p = Holder(s, d.place) THEN Heft[t] * j ELSE 0
      BY <3>6, <3>7, <3>8 DEF GrownBy
    <3>12. t \in Stack
      BY <1>5, <2>2
    <3> QED BY <3>9, <3>10, <3>11, <3>12
  <2> QED BY <1>5, <2>1, <2>2
<1>11. ASSUME NEW p \in Player
       PROVE  LoadOf(a, p) = LoadOf(s, p)
                - (IF p = Holder(s, t) THEN Moving(s, t, m) ELSE 0)
                + (IF p = Holder(s, d.place) THEN Heft[t] * j ELSE 0)
  BY <1>3, <1>9, <1>10
<1>12. Pieces(a) = Pieces(s) + j - IF Whole(s, t, m) THEN 0 ELSE m
  <2>1. Pieces(s) \in Nat
    BY <1>0, PiecesType
  <2> QED BY <1>1, <1>5, <1>8, <1>10, <2>1
<1>13. \A u \in Thing : a.parent[u] = IF Whole(s, t, m) /\ u = t THEN Nowhere ELSE s.parent[u]
  BY <1>3, <1>4, <1>10
<1>14. t \notin Stack => Weight(a, t) = Moving(s, t, m) /\ Amount(a, t) = Amount(s, t)
  BY <1>2, <1>10 DEF Taken, Whole
<1>15. Holder(a, d.place) = Holder(s, d.place) /\ UpFrom(a.parent, d.place) = UpFrom(s.parent, d.place)
  BY <1>6, <1>10 DEF Holder
<1>16. /\ \A p \in Player, k \in Slot :
            a.inv[p][k] = IF Whole(s, t, m) /\ s.inv[p][k] = t THEN NoThing ELSE s.inv[p][k]
       /\ \A x \in Container \cup Tile :
            a.inside[x] = IF Whole(s, t, m) THEN s.inside[x] \ {t} ELSE s.inside[x]
       /\ \A b \in Container : a.amount[b] <= s.amount[b]
  BY <1>2, <1>10 DEF Taken
<1> QED BY <1>3, <1>7, <1>10, <1>11, <1>12, <1>13, <1>14, <1>15, <1>16 DEF Ready

\* f is in hand, with what did not join.
InHand(s, b, d, t, m, f, j) ==
    LET whole == Whole(s, t, m) IN
    /\ Sound(b, {f})
    /\ b.carried = s.carried
    /\ \A u \in Thing : b.parent[u] = IF whole /\ u = t THEN Nowhere ELSE s.parent[u]
    /\ \A p \in Player, k \in Slot :
         b.inv[p][k] = IF whole /\ s.inv[p][k] = t THEN NoThing ELSE s.inv[p][k]
    /\ \A x \in Container \cup Tile :
         b.inside[x] = IF whole THEN s.inside[x] \ {t} ELSE s.inside[x]
    /\ \A c \in Container : b.amount[c] <= s.amount[c]
    /\ f \in Stack => b.units[f] > 0
    /\ Amount(b, f) = Amount(s, t) /\ Weight(b, f) = Moving(s, t, m) - Heft[t] * j
    /\ Pieces(b) = Pieces(s)
    /\ \A p \in Player : LoadOf(b, p) = LoadOf(s, p)
         - (IF p = Holder(s, t) THEN Moving(s, t, m) ELSE 0)
         + (IF p = Holder(s, d.place) THEN Heft[t] * j ELSE 0)
    /\ Holder(b, d.place) = Holder(s, d.place)
    /\ UpFrom(b.parent, d.place) = UpFrom(s.parent, d.place)

\* What does not join is in hand, with its count.
LEMMA ShiftInHand ==
    ASSUME NEW s, Sound(s, {}), NEW d, NEW t \in Thing, NEW m, NEW f, Movable(s, d, t, m, f),
           NEW j, j = Joining(s, d, t, m), NEW a, Ready(s, a, d, t, m, f, j), Puts(s, d, t, m),
           NEW b, b = IF t \notin Stack THEN a ELSE Numbered(a, f, m - j)
    PROVE  InHand(s, b, d, t, m, f, j)
<1>0. s \in Stores /\ m \in Nat /\ j \in Nat /\ j <= m /\ (t \in Stack => m <= MaxStack)
  <2>1. s \in Stores /\ m \in Nat /\ (t \in Stack => m <= s.units[t])
    BY DEF Sound, Movable
  <2>2. t \in Stack => s.units[t] <= MaxStack /\ s.units[t] \in Nat
    BY <2>1, StoreTypes, Constants
  <2> QED BY <2>1, <2>2, JoiningType, Constants
<1>1. /\ Sound(a, IF Whole(s, t, m) THEN {t} ELSE {})
      /\ a.carried = s.carried
      /\ \A u \in Thing : a.parent[u] = IF Whole(s, t, m) /\ u = t THEN Nowhere ELSE s.parent[u]
      /\ \A p \in Player, k \in Slot :
           a.inv[p][k] = IF Whole(s, t, m) /\ s.inv[p][k] = t THEN NoThing ELSE s.inv[p][k]
      /\ \A x \in Container \cup Tile :
           a.inside[x] = IF Whole(s, t, m) THEN s.inside[x] \ {t} ELSE s.inside[x]
      /\ \A c \in Container : a.amount[c] <= s.amount[c]
      /\ Holder(a, d.place) = Holder(s, d.place)
      /\ UpFrom(a.parent, d.place) = UpFrom(s.parent, d.place)
  BY DEF Ready
<1>2. /\ \A p \in Player : LoadOf(a, p) = LoadOf(s, p)
           - (IF p = Holder(s, t) THEN Moving(s, t, m) ELSE 0)
           + (IF p = Holder(s, d.place) THEN Heft[t] * j ELSE 0)
      /\ Pieces(a) = Pieces(s) + j - IF Whole(s, t, m) THEN 0 ELSE m
  BY DEF Ready
<1>3. CASE t \notin Stack
  <2>1. b = a /\ Whole(s, t, m) /\ f = t /\ j = 0 /\ Heft[t] * j = 0
    BY <1>3, Constants DEF Whole, Movable, Joining
  <2>2. Weight(a, t) = Moving(s, t, m) /\ Amount(a, t) = Amount(s, t)
    BY <1>3 DEF Ready
  <2>3. Moving(s, t, m) \in Nat /\ Pieces(s) \in Nat
    BY <1>3, PiecesType, WeightType DEF Moving, Sound
  <2>4. Weight(b, f) = Moving(s, t, m) - Heft[t] * j /\ Pieces(b) = Pieces(s)
    BY <1>2, <2>1, <2>2, <2>3
  <2>5. Sound(b, {f})
    BY <1>1, <2>1
  <2> QED BY <1>1, <1>2, <1>3, <2>1, <2>2, <2>4, <2>5 DEF InHand
<1>4. CASE t \in Stack
  <2> DEFINE rest == m - j
             H == IF Whole(s, t, m) THEN {t} ELSE {}
  <2>1. rest \in 0 .. MaxStack /\ rest > 0 /\ b = Numbered(a, f, rest)
    <3>1. j < m
      BY <1>4 DEF Puts
    <3> QED BY <1>0, <1>4, <3>1, Constants
  <2>2. f \in Stack /\ a.parent[f] = Nowhere /\ a.units[f] = IF Whole(s, t, m) THEN m ELSE 0
    BY <1>4 DEF Ready
  <2>3. NumberedAs(a, b, f, rest, H \cup {f})
    <3> HIDE DEF rest, H
    <3>0. Sound(a, H)
      BY <1>1 DEF H
    <3>1. NumberedAs(a, b, f, rest, IF rest = 0 THEN H \ {f} ELSE H \cup {f})
      BY <2>1, <2>2, <3>0, NumberStep
    <3>2. (IF rest = 0 THEN H \ {f} ELSE H \cup {f}) = H \cup {f}
      BY <2>1
    <3> QED BY <3>1, <3>2
  <2>4. H \cup {f} = {f}
    BY DEF Movable
  <2>5. /\ Sound(b, {f})
        /\ b.parent = a.parent /\ b.inv = a.inv /\ b.inside = a.inside /\ b.carried = a.carried
        /\ b.amount = a.amount /\ b.units = [a.units EXCEPT ![f] = rest]
        /\ Pieces(b) = Pieces(a) + (rest - a.units[f])
        /\ Weight(b, f) = Heft[f] * rest
        /\ \A p \in Player : LoadOf(b, p) = LoadOf(a, p)
    BY <2>3, <2>4 DEF NumberedAs
  <2>6. b.units[f] > 0
    <3>1. a.units \in [Stack -> 0 .. MaxStack]
      BY <1>1, StoreTypes DEF Sound
    <3> QED BY <2>1, <2>2, <2>5, <3>1
  <2>7. Amount(b, f) = Amount(s, t)
    BY <1>4, <2>2, Constants DEF Amount
  <2>8. Weight(b, f) = Moving(s, t, m) - Heft[t] * j
    <3>1. Heft[f] = Heft[t] /\ Heft[t] \in Nat
      BY <1>4, <2>2, StorageConstants, Constants
    <3>2. rest \in Nat /\ m = rest + j /\ Moving(s, t, m) = Heft[t] * m
      BY <1>0, <1>4, <2>1 DEF Moving
    <3>3. Weight(b, f) = Heft[f] * rest
      BY <2>5
    <3> HIDE DEF rest
    <3> DEFINE h == Heft[t]
    <3>4. h * (rest + j) = h * rest + h * j /\ h * rest \in Nat /\ h * j \in Nat
      <4> HIDE DEF h
      <4>1. h \in Nat
        BY <3>1 DEF h
      <4> QED BY <1>0, <1>4, <3>2, <4>1, Products, Product
    <3>5. Weight(b, f) = h * rest /\ Moving(s, t, m) = h * (rest + j)
      BY <3>1, <3>2, <3>3
    <3>6. Weight(b, f) = Moving(s, t, m) - h * j
      <4> HIDE DEF h
      <4> QED BY <3>4, <3>5
    <3> QED BY <3>6
  <2>9. Pieces(b) = Pieces(s)
    <3>1. Pieces(s) \in Nat
      BY <1>0, <1>4, PiecesType
    <3>2. Pieces(b) = Pieces(a) + (rest - a.units[f])
      BY <2>5
    <3> QED BY <1>0, <1>2, <1>4, <2>2, <3>1, <3>2
  <2>10. Holder(b, d.place) = Holder(s, d.place) /\ UpFrom(b.parent, d.place) = UpFrom(s.parent, d.place)
    BY <1>1, <2>5 DEF Holder
  <2> HIDE DEF rest, H
  <2> QED BY <1>1, <1>2, <2>5, <2>6, <2>7, <2>8, <2>9, <2>10 DEF InHand
<1> QED BY <1>3, <1>4

\* Something is put in the place ...
LEMMA ShiftPuts ==
    ASSUME NEW s, Sound(s, {}), NEW d, NEW t \in Thing, NEW m, NEW f, Movable(s, d, t, m, f),
           NEW j, j = Joining(s, d, t, m), Puts(s, d, t, m),
           NEW b, InHand(s, b, d, t, m, f, j), NEW r, r = Put(b, d.place, d.slot, f)
    PROVE  ShiftedTo(s, r, d, t, m, f, Puts(s, d, t, m)) /\ r.carried = s.carried
<1>0. s \in Stores /\ Placed(s)
  BY DEF Sound
<1>1. /\ Sound(b, {f}) /\ b.carried = s.carried
      /\ \A u \in Thing : b.parent[u] = IF Whole(s, t, m) /\ u = t THEN Nowhere ELSE s.parent[u]
      /\ \A p \in Player, k \in Slot :
           b.inv[p][k] = IF Whole(s, t, m) /\ s.inv[p][k] = t THEN NoThing ELSE s.inv[p][k]
      /\ \A x \in Container \cup Tile :
           b.inside[x] = IF Whole(s, t, m) THEN s.inside[x] \ {t} ELSE s.inside[x]
      /\ \A c \in Container : b.amount[c] <= s.amount[c]
      /\ (f \in Stack => b.units[f] > 0) /\ Amount(b, f) = Amount(s, t)
      /\ Pieces(b) = Pieces(s)
      /\ Holder(b, d.place) = Holder(s, d.place)
      /\ UpFrom(b.parent, d.place) = UpFrom(s.parent, d.place)
  BY DEF InHand
<1>2. /\ Target(s, d, t) /\ m \in Nat /\ (Whole(s, t, m) => f = t)
      /\ (~Whole(s, t, m) => f \in Stack /\ f # t) /\ f \in Thing
      /\ (d.place \in Player /\ d.item # NoThing =>
           {t, d.item} \subseteq Stack /\ s.units[d.item] + m <= MaxStack)
  <2>1. ~Whole(s, t, m) => f \in Stack /\ s.units[f] = 0
    BY DEF Movable, Fresh
  <2>2. ~Whole(s, t, m) => t \in Stack /\ s.units[t] > 0
    <3>1. s.parent[t] # Nowhere
      BY Constants DEF Movable, InPlace
    <3> QED BY <3>1 DEF Whole, Sound, InUse
  <2> QED BY <2>1, <2>2, Constants DEF Movable
<1> DEFINE pl == d.place
           k == d.slot
<1>3. pl \in Player => k \in Slot /\ b.inv[pl][k] = NoThing
  <2>1. SUFFICES ASSUME pl \in Player PROVE k \in Slot /\ b.inv[pl][k] = NoThing
    OBVIOUS
  <2>2. k \in Slot /\ d.item = s.inv[pl][k]
    BY <1>2, <2>1 DEF Target
  <2>3. d.item = NoThing
    <3>1. SUFFICES ASSUME d.item # NoThing PROVE FALSE
      OBVIOUS
    <3>2. t \in Stack /\ d.item \in Stack /\ s.units[d.item] + m <= MaxStack
      BY <1>2, <2>1, <3>1
    <3>3. j <= m /\ j \in Nat /\ (j = m \/ j = MaxStack - s.units[d.item]) /\ j < m
      BY <1>0, <1>2, <3>2, JoiningType DEF Puts
    <3>4. s.units[d.item] \in Nat /\ MaxStack \in Nat
      BY <1>0, <3>2, StoreTypes, Constants
    <3> QED BY <1>2, <3>2, <3>3, <3>4
  <2> QED BY <1>1, <2>1, <2>2, <2>3
<1>4. f \notin UpFrom(b.parent, pl)
  <2>1. t \notin UpFrom(s.parent, pl)
    BY <1>2 DEF Target
  <2>2. UpFrom(s.parent, pl) \subseteq Container
    BY UpFromType
  <2> QED BY <1>1, <1>2, <2>1, <2>2, Constants
<1>5. pl \in Container => b.parent[pl] # Nowhere
  <2>1. pl \in Container => pl # t /\ s.parent[pl] # Nowhere
    BY <1>2 DEF Target, UpFrom
  <2> QED BY <1>1, <2>1, Constants
<1>6. pl \in Place
  BY <1>2 DEF Target
<1>7. PutInto(b, r, f, pl, k)
  <2>1. r = Put(b, pl, k, f)
    OBVIOUS
  <2> HIDE DEF pl, k
  <2> QED BY <1>1, <1>2, <1>3, <1>4, <1>5, <1>6, <2>1, PutStep
<1>8. /\ Sound(r, {}) /\ r.carried = b.carried /\ r.units = b.units
      /\ r.parent = [b.parent EXCEPT ![f] = pl]
      /\ \A p \in Player, i \in Slot : r.inv[p][i] = IF p = pl /\ i = k THEN f ELSE b.inv[p][i]
      /\ \A x \in Container \cup Tile : r.inside[x] = b.inside[x] \cup IF x = pl THEN {f} ELSE {}
      /\ \A c \in Container :
           r.amount[c] = b.amount[c] + IF c \in UpFrom(b.parent, pl) THEN Amount(b, f) ELSE 0
      /\ \A p \in Player : LoadOf(r, p) = LoadOf(b, p) + IF p = Holder(b, pl) THEN Weight(b, f) ELSE 0
  BY <1>7 DEF PutInto
<1>9. \A u \in Thing : r.parent[u] =
        IF u = f THEN pl ELSE IF Whole(s, t, m) /\ u = t THEN Nowhere ELSE s.parent[u]
  <2>1. b.parent \in [Thing -> Place \cup {Nowhere}]
    BY <1>1, StoreTypes DEF Sound
  <2> QED BY <1>1, <1>8, <2>1
<1>10. ASSUME NEW p \in Player
       PROVE  LoadOf(r, p) = LoadOf(s, p)
                - (IF p = Holder(s, t) THEN Moving(s, t, m) ELSE 0)
                + (IF p = Holder(s, pl) THEN Moving(s, t, m) ELSE 0)
  <2>1. LoadOf(b, p) = LoadOf(s, p)
           - (IF p = Holder(s, t) THEN Moving(s, t, m) ELSE 0)
           + (IF p = Holder(s, pl) THEN Heft[t] * j ELSE 0)
    BY DEF InHand
  <2>2. LoadOf(r, p) = LoadOf(b, p) + IF p = Holder(s, pl) THEN Moving(s, t, m) - Heft[t] * j ELSE 0
    BY <1>1, <1>8 DEF InHand
  <2>3. Moving(s, t, m) \in Nat /\ Heft[t] * j \in Nat /\ LoadOf(s, p) \in Nat
    BY <1>0, <1>2, MovingType, InventoryType, Constants, JoiningType, Product
  <2> HIDE DEF pl
  <2> QED BY <2>1, <2>2, <2>3
<1>11. ASSUME NEW c \in Container
       PROVE  r.amount[c] <= s.amount[c] + IF c \in UpFrom(s.parent, pl) THEN Amount(s, t) ELSE 0
  <2>1. r.amount[c] = b.amount[c] + IF c \in UpFrom(s.parent, pl) THEN Amount(s, t) ELSE 0
    BY <1>1, <1>8
  <2>2. b.amount[c] \in Nat /\ s.amount[c] \in Nat /\ Amount(s, t) \in Nat /\ b.amount[c] <= s.amount[c]
    BY <1>0, <1>1, StoreTypes DEF Sound, Amount
  <2> QED BY <2>1, <2>2
<1>12. \A p \in Player, i \in Slot : r.inv[p][i] =
         IF p = pl /\ i = k THEN f ELSE IF Whole(s, t, m) /\ s.inv[p][i] = t THEN NoThing ELSE s.inv[p][i]
  BY <1>1, <1>8
<1>13. \A x \in Container \cup Tile : r.inside[x] =
         (IF Whole(s, t, m) THEN s.inside[x] \ {t} ELSE s.inside[x]) \cup IF x = pl THEN {f} ELSE {}
  BY <1>1, <1>8
<1>14. Pieces(r) = Pieces(s) /\ r.carried = s.carried
  BY <1>1, <1>8 DEF Pieces
<1> QED BY <1>8, <1>9, <1>10, <1>11, <1>12, <1>13, <1>14 DEF ShiftedTo

\* ... or all of it joined.
LEMMA ShiftJoins ==
    ASSUME NEW s, Sound(s, {}), NEW d, NEW t \in Thing, NEW m, NEW f, Movable(s, d, t, m, f),
           NEW j, j = Joining(s, d, t, m), ~Puts(s, d, t, m),
           NEW a, Ready(s, a, d, t, m, f, j),
           NEW r, r = IF Whole(s, t, m) THEN Numbered(a, t, 0) ELSE a
    PROVE  ShiftedTo(s, r, d, t, m, f, Puts(s, d, t, m)) /\ r.carried = s.carried
<1>0. s \in Stores /\ m \in Nat /\ t \in Stack /\ j = m /\ Moving(s, t, m) = Heft[t] * j
  <2>1. s \in Stores /\ m \in Nat /\ t \in Stack
    BY DEF Sound, Movable, Puts
  <2>2. j \in Nat /\ j <= m /\ ~(j < m)
    BY <2>1, JoiningType DEF Puts
  <2>3. j = m
    BY <2>1, <2>2
  <2> QED BY <2>1, <2>3 DEF Moving
<1>1. /\ Sound(a, IF Whole(s, t, m) THEN {t} ELSE {}) /\ a.carried = s.carried
      /\ \A u \in Thing : a.parent[u] = IF Whole(s, t, m) /\ u = t THEN Nowhere ELSE s.parent[u]
      /\ \A p \in Player, k \in Slot :
           a.inv[p][k] = IF Whole(s, t, m) /\ s.inv[p][k] = t THEN NoThing ELSE s.inv[p][k]
      /\ \A x \in Container \cup Tile :
           a.inside[x] = IF Whole(s, t, m) THEN s.inside[x] \ {t} ELSE s.inside[x]
      /\ \A c \in Container : a.amount[c] <= s.amount[c]
      /\ Whole(s, t, m) => a.units[t] = m
      /\ Pieces(a) = Pieces(s) + j - IF Whole(s, t, m) THEN 0 ELSE m
      /\ \A p \in Player : LoadOf(a, p) = LoadOf(s, p)
           - (IF p = Holder(s, t) THEN Moving(s, t, m) ELSE 0)
           + (IF p = Holder(s, d.place) THEN Moving(s, t, m) ELSE 0)
  BY <1>0 DEF Ready, Movable
<1>2. /\ Sound(r, {}) /\ r.parent = a.parent /\ r.inv = a.inv /\ r.inside = a.inside
      /\ r.carried = a.carried /\ r.amount = a.amount /\ Pieces(r) = Pieces(s)
      /\ \A p \in Player : LoadOf(r, p) = LoadOf(a, p)
  <2>1. Pieces(s) \in Nat /\ Pieces(a) \in Nat
    BY <1>0, <1>1, PiecesType DEF Sound
  <2>2. CASE Whole(s, t, m)
    <3>1. a.parent[t] = Nowhere /\ 0 \in 0 .. MaxStack
      BY <1>1, <2>2, Constants
    <3>2. NumberedAs(a, r, t, 0, IF 0 = 0 THEN {t} \ {t} ELSE {t} \cup {t})
      <4>1. Sound(a, {t}) /\ r = Numbered(a, t, 0)
        BY <1>1, <2>2
      <4> QED BY <1>0, <3>1, <4>1, NumberStep
    <3>3. NumberedAs(a, r, t, 0, {})
      <4>1. (IF 0 = 0 THEN {t} \ {t} ELSE {t} \cup {t}) = {}
        OBVIOUS
      <4> QED BY <3>2, <4>1
    <3>4. Pieces(r) = Pieces(a) + (0 - a.units[t])
      BY <3>3 DEF NumberedAs
    <3>5. Pieces(r) = Pieces(s)
      BY <1>0, <1>1, <2>1, <2>2, <3>4
    <3> QED BY <3>3, <3>5 DEF NumberedAs
  <2>3. CASE ~Whole(s, t, m)
    BY <1>0, <1>1, <2>1, <2>3
  <2> QED BY <2>2, <2>3
<1>3. ASSUME NEW b \in Container
      PROVE  r.amount[b] <= s.amount[b] + IF FALSE /\ b \in UpFrom(s.parent, d.place) THEN Amount(s, t) ELSE 0
  <2>1. s.amount[b] \in Nat /\ a.amount[b] <= s.amount[b] /\ r.amount[b] = a.amount[b]
    BY <1>0, <1>1, <1>2, StoreTypes
  <2> QED BY <2>1
<1>4. \A p \in Player : LoadOf(r, p) = LoadOf(s, p)
           - (IF p = Holder(s, t) THEN Moving(s, t, m) ELSE 0)
           + (IF p = Holder(s, d.place) THEN Moving(s, t, m) ELSE 0)
  BY <1>1, <1>2
<1>5. /\ \A u \in Thing : r.parent[u] = IF Whole(s, t, m) /\ u = t THEN Nowhere ELSE s.parent[u]
      /\ \A p \in Player, k \in Slot :
           r.inv[p][k] = IF Whole(s, t, m) /\ s.inv[p][k] = t THEN NoThing ELSE s.inv[p][k]
      /\ \A x \in Container \cup Tile :
           r.inside[x] = (IF Whole(s, t, m) THEN s.inside[x] \ {t} ELSE s.inside[x]) \cup {}
  BY <1>1, <1>2
<1> QED BY <1>1, <1>2, <1>3, <1>4, <1>5 DEF ShiftedTo

\* All of Shift, with the players' weights updated at the end
LEMMA ShiftStep ==
    ASSUME NEW s, Sound(s, {}), NEW d, NEW t \in Thing, NEW m, NEW f, Movable(s, d, t, m, f),
           NEW r, r = Shift(s, d, t, m, f)
    PROVE  Shifted(s, r, d, t, m, f, Puts(s, d, t, m))
<1> DEFINE j == Joining(s, d, t, m)
           taken == Take(s, t, m)
           a == IF j > 0 THEN Grow(taken, d.item, j) ELSE taken
           rest == m - j
           put == IF t \notin Stack THEN Put(a, d.place, d.slot, t)
                  ELSE IF rest > 0 THEN Put([a EXCEPT !.units[f] = rest], d.place, d.slot, f)
                  ELSE IF Whole(s, t, m) THEN [a EXCEPT !.units[t] = 0] ELSE a
           X == {Holder(s, t), Holder(s, d.place)}
<1>0. s \in Stores /\ m \in Nat /\ j \in Nat /\ j <= m /\ (t \notin Stack => f = t)
  <2>1. s \in Stores /\ m \in Nat /\ (t \notin Stack => f = t)
    BY DEF Sound, Movable, Whole
  <2> QED BY <2>1, JoiningType
<1>1. r = Weighed(put, X)
  BY DEF Shift, Joining
<1>2. Ready(s, a, d, t, m, f, j)
  BY ShiftReady
<1>3. ShiftedTo(s, put, d, t, m, f, Puts(s, d, t, m)) /\ put.carried = s.carried
  <2>1. CASE Puts(s, d, t, m)
    <3> DEFINE b == IF t \notin Stack THEN a ELSE Numbered(a, f, m - j)
    <3>1. t \in Stack => rest > 0
      <4>1. t \in Stack => j < m
        BY <2>1 DEF Puts
      <4> HIDE DEF j
      <4> QED BY <1>0, <4>1
    <3>2. put = Put(b, d.place, d.slot, f)
      <4> HIDE DEF j, a
      <4> QED BY <1>0, <3>1 DEF Numbered
    <3>3. InHand(s, b, d, t, m, f, j)
      <4>1. b = IF t \notin Stack THEN a ELSE Numbered(a, f, m - j)
        OBVIOUS
      <4>2. j = Joining(s, d, t, m)
        OBVIOUS
      <4> HIDE DEF a, b, j
      <4> QED BY <1>2, <2>1, <4>1, <4>2, ShiftInHand
    <3>4. j = Joining(s, d, t, m)
      OBVIOUS
    <3> HIDE DEF b, a, put, j
    <3>5. put.carried = s.carried
      BY <2>1, <3>2, <3>3, <3>4, ShiftPuts
    <3>6. ShiftedTo(s, put, d, t, m, f, Puts(s, d, t, m))
      BY <2>1, <3>2, <3>3, <3>4, ShiftPuts, Zenon
    <3> QED BY <3>5, <3>6
  <2>2. CASE ~Puts(s, d, t, m)
    <3>1. t \in Stack /\ ~(rest > 0)
      <4>1. t \in Stack /\ ~(j < m)
        BY <2>2 DEF Puts
      <4> HIDE DEF j
      <4> QED BY <1>0, <4>1
    <3>2. put = IF Whole(s, t, m) THEN Numbered(a, t, 0) ELSE a
      <4> HIDE DEF j, a
      <4> QED BY <3>1 DEF Numbered
    <3>4. j = Joining(s, d, t, m)
      OBVIOUS
    <3> HIDE DEF a, put, j
    <3> QED BY <1>2, <2>2, <3>2, <3>4, ShiftJoins
  <2> QED BY <2>1, <2>2
<1> HIDE DEF put
<1>4. /\ r \in Stores /\ Placed(r) /\ Counted(r)
      /\ r.parent = put.parent /\ r.inv = put.inv /\ r.inside = put.inside
      /\ r.units = put.units /\ r.amount = put.amount
      /\ \A p \in Player : /\ LoadOf(r, p) = LoadOf(put, p)
                           /\ r.carried[p] = IF p \in X THEN LoadOf(put, p) ELSE put.carried[p]
  <2>1. put \in Stores /\ Placed(put) /\ Counted(put)
    BY <1>3 DEF ShiftedTo, Sound
  <2> HIDE DEF X
  <2>2. WeighedAs(put, r, X)
    BY <1>1, <2>1, WeighedCounts
  <2> QED BY <2>2 DEF WeighedAs
<1>5. Sound(r, {})
  BY <1>3, <1>4 DEF ShiftedTo, Sound, InUse
<1>6. Pieces(r) = Pieces(put)
  BY <1>4 DEF Pieces
<1>7. ShiftedTo(s, r, d, t, m, f, Puts(s, d, t, m))
  <2> HIDE DEF X, j
  <2> QED BY <1>3, <1>4, <1>5, <1>6 DEF ShiftedTo
<1>8. \A p \in Player : r.carried[p] =
         IF p = Holder(s, t) \/ p = Holder(s, d.place) THEN LoadOf(r, p) ELSE s.carried[p]
  BY <1>3, <1>4
<1> QED BY <1>7, <1>8 DEF Shifted

-----------------------------------------------------------------------------
(* The invariant of a store, and what a move keeps of it.                  *)

\* A thing a player should have that is in none of his slots
Forgot(s, p) == {t \in Thing : s.parent[t] = p} \ Inventory(s, p)

\* What is remembered of a player's load is right, or too much.
Carried(s) ==
    \A p \in Player : /\ LoadOf(s, p) <= s.carried[p]
                      /\ Forgot(s, p) = {} => s.carried[p] = LoadOf(s, p)

\* The limits, of the cached numbers
Limits(s) ==
    /\ \A b \in Container : Cardinality(s.inside[b]) <= Room[b]
    /\ MaxAmount > 0 => \A b \in Container : s.amount[b] <= MaxAmount + 1
    /\ \A p \in Player : s.carried[p] < Strength[p] \/ s.carried[p] = 0
    /\ \A p \in Player, k \in Hand : s.inv[p][k] \in TwoHanded => s.inv[p][Other(k)] = NoThing

\* What holds between two handlers, when nothing is in hand
Good(s) == Sound(s, {}) /\ Carried(s) /\ Limits(s)

\* A move of t makes nothing and loses nothing, and moves no container but t.
Kept(s, r, t) ==
    /\ Pieces(r) = Pieces(s)
    /\ \A x \in Container \cup Gear : r.parent[x] = Nowhere <=> s.parent[x] = Nowhere
    /\ \A c \in Container \ {t} : r.parent[c] = s.parent[c]

\* There are two hands.
LEMMA Hands ==
    /\ \A k \in Hand : Other(k) \in Hand /\ Other(k) # k /\ Other(Other(k)) = k
    /\ \A k, h \in Hand : h = k \/ h = Other(k)
    /\ Hand \subseteq Slot
<1>1. ASSUME NEW k \in Hand PROVE Other(k) \in Hand /\ Other(k) # k
  <2>1. \E h \in Hand : h # k
    BY DEF Hand
  <2> QED BY <2>1 DEF Other
<1>2. \A k, h, g \in Hand : g = h \/ g = k \/ h = k
  BY DEF Hand
<1> QED BY <1>1, <1>2 DEF Slot

\* More pieces weigh more.
LEMMA MoreWeighs ==
    ASSUME NEW a \in Nat, NEW m \in Nat, NEW n \in Nat, m <= n
    PROVE  a * m <= a * n
<1>1. PICK k \in Nat : n = m + k
  <2>1. n - m \in Nat /\ n = m + (n - m)
    OBVIOUS
  <2> QED BY <2>1
<1>2. a * (m + k) = a * m + a * k /\ a * k \in Nat /\ a * m \in Nat
  BY Products, Product
<1> QED BY <1>1, <1>2

\* Whoever has the place of the destination has been asked about his strength.
LEMMA VerdictAsks ==
    ASSUME NEW s, NEW d, d.place \in Place, NEW t \in Thing, NEW n, Verdict(s, d, t, n) = "ok"
    PROVE  /\ Holder(s, d.place) \in Player => HasCapacity(s, Holder(s, d.place), t, n)
           /\ d.place \in Container /\ MaxAmount > 0 =>
                \A c \in UpFrom(s.parent, d.place) : s.amount[c] + Amount(s, t) <= MaxAmount + 1
           /\ d.place \in Container /\ d.item = NoThing => Cardinality(s.inside[d.place]) < Room[d.place]
           /\ d.place \in Container => t \notin UpFrom(s.parent, d.place)
           /\ d.place \in Player /\ d.slot \in Hand => HandVerdict(s, d.place, d.slot, t) = "ok"
           /\ d.place \in Player => s.inv[d.place][d.slot] = NoThing \/ {s.inv[d.place][d.slot], t} \subseteq Stack
<1> DEFINE pl == d.place
<1>1. CASE pl \in Player
  <2>1. PlayerVerdict(s, pl, d.slot, t, n) = "ok"
    <3>1. Verdict(s, d, t, n) = PlayerVerdict(s, pl, d.slot, t, n)
      BY <1>1, Constants, Zenon DEF Verdict
    <3> QED BY <3>1
  <2>2. pl \notin Container /\ pl \notin Thing
    BY <1>1, Constants
  <2>3. Holder(s, pl) = pl
    BY <2>2 DEF Holder
  <2> QED BY <1>1, <2>1, <2>2, <2>3 DEF PlayerVerdict
<1>2. CASE pl \in Container
  <2>1. BagVerdict(s, pl, d.item, t, n) = "ok" /\ pl \notin Player
    BY <1>2, Constants DEF Verdict
  <2>2. BagsUp(s, pl) = UpFrom(s.parent, pl)
    BY DEF BagsUp, UpFrom
  <2> QED BY <1>2, <2>1, <2>2 DEF BagVerdict
<1>3. CASE pl \in Tile
  <2>1. pl \notin Player /\ pl \notin Container /\ pl \notin Thing
    BY <1>3, Constants
  <2>2. Holder(s, pl) = pl
    BY <2>1 DEF Holder
  <2> QED BY <2>1, <2>2
<1> QED BY <1>1, <1>2, <1>3 DEF Place

\* What moved may still not be more than a player can carry.
LEMMA StrengthKept ==
    ASSUME NEW s, Good(s), NEW r, NEW d, NEW t \in Thing, NEW m \in Nat, NEW f, NEW put,
           Shifted(s, r, d, t, m, f, put), NEW n \in Nat, t \in Stack => m <= n,
           Holder(s, d.place) \in Player => HasCapacity(s, Holder(s, d.place), t, n),
           NEW p \in Player
    PROVE  r.carried[p] < Strength[p] \/ r.carried[p] = 0
<1> DEFINE M == Moving(s, t, m)
           from == Holder(s, t)
           to == Holder(s, d.place)
           N == IF t \in Stack THEN Heft[t] * n ELSE Weight(s, t)
           L == LoadOf(s, p)
           c == s.carried[p]
<1>1. s \in Stores /\ r \in Stores
  BY DEF Good, Sound, Shifted, ShiftedTo
<1>2. M \in Nat /\ L \in Nat /\ c \in Nat /\ LoadOf(r, p) \in Nat /\ Strength[p] \in Nat
  BY <1>1, MovingType, InventoryType, StoreTypes, StorageConstants
<1>3. L <= c /\ (c < Strength[p] \/ c = 0)
  BY DEF Good, Carried, Limits
<1>4. M <= N /\ N \in Nat
  <2>1. CASE t \in Stack
    <3>1. Heft[t] \in Nat /\ m <= n
      BY <2>1, Constants
    <3>2. Heft[t] * m <= Heft[t] * n /\ Heft[t] * n \in Nat
      BY <3>1, MoreWeighs, Product
    <3> QED BY <2>1, <3>2 DEF Moving
  <2>2. CASE t \notin Stack
    BY <1>2, <2>2 DEF Moving
  <2> QED BY <2>1, <2>2
<1>5. /\ r.carried[p] = IF p = from \/ p = to THEN LoadOf(r, p) ELSE c
      /\ LoadOf(r, p) = L - (IF p = from THEN M ELSE 0) + (IF p = to THEN M ELSE 0)
  BY DEF Shifted, ShiftedTo
<1>6. p = to => from = p \/ N < Strength[p] - c
  BY DEF HasCapacity
<1> HIDE DEF M, N, L, c, from, to
<1> QED BY <1>2, <1>3, <1>4, <1>5, <1>6

\* A shift that the queries allowed keeps to every limit.
LEMMA ShiftGood ==
    ASSUME NEW s, Good(s), NEW d, NEW t \in Thing, NEW m, NEW f, Movable(s, d, t, m, f),
           NEW n \in Nat, t \in Stack => m <= n, Verdict(s, d, t, n) = "ok",
           Puts(s, d, t, m) /\ d.place \in Container => Cardinality(s.inside[d.place]) < Room[d.place],
           NEW r, Shifted(s, r, d, t, m, f, Puts(s, d, t, m))
    PROVE  Good(r) /\ Kept(s, r, t)
<1> DEFINE pl == d.place
           put == Puts(s, d, t, m)
           whole == Whole(s, t, m)
<1>1. s \in Stores /\ Placed(s) /\ InUse(s, {}) /\ r \in Stores /\ Sound(r, {}) /\ m \in Nat
  BY DEF Good, Sound, Shifted, ShiftedTo, Movable
<1>2. /\ pl \in Place /\ InPlace(s, t) /\ t \notin UpFrom(s.parent, pl)
      /\ (whole => f = t) /\ (~whole => t \in Stack /\ f \in Stack /\ f # t /\ s.parent[f] = Nowhere)
      /\ f \in Thing /\ (t \notin Stack => put /\ whole) /\ s.parent[t] # Nowhere
  <2>1. pl \in Place /\ InPlace(s, t) /\ t \notin UpFrom(s.parent, pl) /\ s.parent[t] # Nowhere
    BY Constants DEF Movable, Target, InPlace
  <2>2. ~whole => t \in Stack /\ f \in Stack /\ s.units[f] = 0
    BY DEF Whole, Movable, Fresh
  <2>3. ~whole => s.parent[f] = Nowhere
    BY <1>1, <2>2 DEF InUse
  <2> QED BY <2>1, <2>2, <2>3, Constants DEF Whole, Movable, Puts
<1>3. /\ \A p \in Player, k \in Slot : r.inv[p][k] =
           IF put /\ p = pl /\ k = d.slot THEN f
           ELSE IF whole /\ s.inv[p][k] = t THEN NoThing ELSE s.inv[p][k]
      /\ \A x \in Container \cup Tile : r.inside[x] =
           (IF whole THEN s.inside[x] \ {t} ELSE s.inside[x]) \cup IF put /\ x = pl THEN {f} ELSE {}
      /\ \A b \in Container :
           r.amount[b] <= s.amount[b] + IF put /\ b \in UpFrom(s.parent, pl) THEN Amount(s, t) ELSE 0
      /\ Pieces(r) = Pieces(s)
      /\ \A u \in Thing : r.parent[u] =
           IF put /\ u = f THEN pl ELSE IF whole /\ u = t THEN Nowhere ELSE s.parent[u]
      /\ \A p \in Player : LoadOf(r, p) = LoadOf(s, p)
           - (IF p = Holder(s, t) THEN Moving(s, t, m) ELSE 0)
           + (IF p = Holder(s, pl) THEN Moving(s, t, m) ELSE 0)
      /\ \A p \in Player : r.carried[p] =
           IF p = Holder(s, t) \/ p = Holder(s, pl) THEN LoadOf(r, p) ELSE s.carried[p]
  BY DEF Shifted, ShiftedTo
<1>4. /\ Holder(s, pl) \in Player => HasCapacity(s, Holder(s, pl), t, n)
      /\ pl \in Container /\ MaxAmount > 0 =>
           \A c \in UpFrom(s.parent, pl) : s.amount[c] + Amount(s, t) <= MaxAmount + 1
      /\ pl \in Player /\ d.slot \in Hand => HandVerdict(s, pl, d.slot, t) = "ok"
  BY <1>2, VerdictAsks
<1> HIDE DEF whole, put
<1>5. Carried(r)
  <2>1. ASSUME NEW p \in Player PROVE Forgot(s, p) \subseteq Forgot(r, p)
    <3>1. SUFFICES ASSUME NEW x \in Forgot(s, p) PROVE x \in Forgot(r, p)
      OBVIOUS
    <3>2. x \in Thing /\ s.parent[x] = p /\ x \notin Inventory(s, p)
      BY DEF Forgot
    <3>3. x # t
      BY <1>2, <3>2 DEF InPlace
    <3>4. x # f
      BY <1>2, <3>2, <3>3, Constants DEF Place
    <3>5. r.parent[x] = p
      BY <1>3, <3>2, <3>3, <3>4
    <3>6. x \notin Inventory(r, p)
      <4>1. x # NoThing /\ \A k \in Slot : s.inv[p][k] # x
        BY <3>2, InventoryOf, Constants
      <4>2. \A k \in Slot : r.inv[p][k] # x
        BY <1>3, <3>4, <4>1
      <4> QED BY <4>2, InventoryOf
    <3> QED BY <3>2, <3>5, <3>6 DEF Forgot
  <2>2. ASSUME NEW p \in Player
        PROVE  /\ LoadOf(r, p) <= r.carried[p]
               /\ Forgot(r, p) = {} => r.carried[p] = LoadOf(r, p)
    <3>1. LoadOf(r, p) \in Nat /\ LoadOf(s, p) \in Nat
      BY <1>1, InventoryType
    <3>2. CASE p = Holder(s, t) \/ p = Holder(s, pl)
      <4>1. r.carried[p] = LoadOf(r, p)
        BY <1>3, <3>2
      <4> QED BY <3>1, <4>1
    <3>3. CASE ~(p = Holder(s, t) \/ p = Holder(s, pl))
      <4>1. r.carried[p] = s.carried[p] /\ LoadOf(r, p) = LoadOf(s, p) - 0 + 0
        BY <1>3, <3>3
      <4>2. LoadOf(r, p) = LoadOf(s, p)
        BY <3>1, <4>1
      <4>3. LoadOf(s, p) <= s.carried[p] /\ (Forgot(s, p) = {} => s.carried[p] = LoadOf(s, p))
        BY DEF Good, Carried
      <4> QED BY <2>1, <4>1, <4>2, <4>3
    <3> QED BY <3>2, <3>3
  <2> QED BY <2>2 DEF Carried
<1>6. ASSUME NEW b \in Container PROVE Cardinality(r.inside[b]) <= Room[b]
  <2>1. /\ Cardinality(s.inside[b]) <= Room[b] /\ Room[b] \in Nat
        /\ s.inside[b] \in SUBSET Thing /\ r.inside[b] \in SUBSET Thing
    BY <1>1, StoreTypes, StorageConstants DEF Good, Limits
  <2>2. IsFiniteSet(s.inside[b]) /\ Cardinality(s.inside[b]) \in Nat
    BY <2>1, Constants, FS_Subset, FS_CardinalityType
  <2>3. CASE put /\ b = pl
    <3>1. r.inside[b] \subseteq s.inside[b] \cup {f}
      BY <1>3, <2>3
    <3> DEFINE I == s.inside[b]
    <3> HIDE DEF I
    <3>a. I \cup {f} = I \/ f \notin I
      OBVIOUS
    <3>b. IsFiniteSet(I) /\ Cardinality(I) \in Nat
      BY <2>2 DEF I
    <3>c. /\ IsFiniteSet(I \cup {f}) /\ Cardinality(I \cup {f}) \in Nat
          /\ Cardinality(I \cup {f}) <= Cardinality(I) + 1
      <4>1. IsFiniteSet(I \cup {f}) /\ Cardinality(I \cup {f}) \in Nat
        <5>1. IsFiniteSet(I \cup {f})
          BY <3>b, FS_AddElement
        <5> QED BY <5>1, FS_CardinalityType
      <4>2. CASE I \cup {f} = I
        <5>1. Cardinality(I \cup {f}) = Cardinality(I)
          BY <4>2, Zenon
        <5> QED BY <3>b, <4>1, <5>1
      <4>3. CASE f \notin I
        <5>1. Cardinality(I \cup {f}) = Cardinality(I) + 1
          BY <3>b, <4>3, FS_AddElement
        <5> QED BY <3>b, <4>1, <5>1
      <4> QED BY <3>a, <4>1, <4>2, <4>3
    <3>2. /\ IsFiniteSet(s.inside[b] \cup {f})
          /\ Cardinality(s.inside[b] \cup {f}) <= Cardinality(s.inside[b]) + 1
          /\ Cardinality(s.inside[b] \cup {f}) \in Nat
      BY <3>c DEF I
    <3>3. Cardinality(r.inside[b]) <= Cardinality(s.inside[b] \cup {f}) /\ Cardinality(r.inside[b]) \in Nat
      BY <3>1, <3>2, FS_Subset, FS_CardinalityType
    <3>4. Cardinality(s.inside[b]) < Room[b]
      BY <2>3 DEF put
    <3> QED BY <2>1, <2>2, <3>2, <3>3, <3>4
  <2>4. CASE ~(put /\ b = pl)
    <3>1. r.inside[b] \subseteq s.inside[b]
      BY <1>3, <2>4
    <3>2. Cardinality(r.inside[b]) <= Cardinality(s.inside[b]) /\ Cardinality(r.inside[b]) \in Nat
      BY <2>2, <3>1, FS_Subset, FS_CardinalityType
    <3> QED BY <2>1, <2>2, <3>2
  <2> QED BY <2>3, <2>4
<1>7. ASSUME MaxAmount > 0, NEW b \in Container PROVE r.amount[b] <= MaxAmount + 1
  <2>1. /\ s.amount[b] \in Nat /\ r.amount[b] \in Nat /\ MaxAmount \in Nat /\ s.amount[b] <= MaxAmount + 1
        /\ r.amount[b] <= s.amount[b] + IF put /\ b \in UpFrom(s.parent, pl) THEN Amount(s, t) ELSE 0
    BY <1>1, <1>3, <1>7, StoreTypes, StorageConstants DEF Good, Limits
  <2>2. b \in UpFrom(s.parent, pl) => s.amount[b] + Amount(s, t) <= MaxAmount + 1
    BY <1>4, <1>7 DEF UpFrom
  <2>3. Amount(s, t) \in Nat
    BY <1>1, StoreTypes DEF Amount
  <2> QED BY <2>1, <2>2, <2>3
<1>8. ASSUME NEW p \in Player PROVE r.carried[p] < Strength[p] \/ r.carried[p] = 0
  BY <1>1, <1>4, <1>8, StrengthKept
<1>9. ASSUME NEW p \in Player, NEW k \in Hand, r.inv[p][k] \in TwoHanded
      PROVE  r.inv[p][Other(k)] = NoThing
  <2>1. k \in Slot /\ Other(k) \in Slot /\ Other(k) \in Hand /\ Other(k) # k /\ Other(Other(k)) = k
    BY Hands
  <2>2. r.inv[p][k] # NoThing /\ r.inv[p][k] \notin Stack
    BY <1>9, StorageConstants DEF Thing
  <2>3. ASSUME s.inv[p][k] \in TwoHanded PROVE s.inv[p][Other(k)] = NoThing
    BY <2>3 DEF Good, Limits
  <2>4. CASE put /\ p = pl /\ k = d.slot
    <3>1. f = t /\ t \in TwoHanded /\ whole
      BY <1>2, <1>3, <1>9, <2>1, <2>2, <2>4
    <3>2. s.inv[p][Other(k)] = NoThing \/ s.inv[p][Other(k)] = t
      BY <1>4, <2>4, <3>1 DEF HandVerdict
    <3> QED BY <1>3, <2>1, <2>4, <3>1, <3>2
  <2>5. CASE put /\ p = pl /\ Other(k) = d.slot
    <3>1. r.inv[p][k] = s.inv[p][k] /\ s.inv[p][k] # NoThing /\ ~(whole /\ s.inv[p][k] = t)
      BY <1>3, <2>1, <2>2, <2>5
    <3>2. HandVerdict(s, p, Other(k), t) = "ok" /\ s.inv[p][k] \in TwoHanded
      BY <1>4, <1>9, <2>1, <2>5, <3>1
    <3>3. s.inv[p][k] = t
      BY <2>1, <3>1, <3>2 DEF HandVerdict
    <3>4. whole
      BY <1>2, <2>2, <3>1, <3>3
    <3> QED BY <3>1, <3>3, <3>4
  <2>6. CASE ~(put /\ p = pl /\ (k = d.slot \/ Other(k) = d.slot))
    BY <1>3, <1>9, <2>1, <2>2, <2>3, <2>6
  <2> QED BY <2>4, <2>5, <2>6
<1>10. Kept(s, r, t)
  <2>1. ASSUME NEW x \in Container \cup Gear PROVE r.parent[x] = Nowhere <=> s.parent[x] = Nowhere
    <3>1. x \in Thing /\ x \notin Stack /\ pl # Nowhere
      BY <1>2, Constants
    <3> QED BY <1>2, <1>3, <3>1
  <2>2. ASSUME NEW c \in Container \ {t} PROVE r.parent[c] = s.parent[c]
    BY <1>2, <1>3, Constants
  <2> QED BY <1>3, <2>1, <2>2 DEF Kept
<1> QED BY <1>1, <1>5, <1>6, <1>7, <1>8, <1>9, <1>10 DEF Good, Limits

-----------------------------------------------------------------------------
(* internalMoveItem and what it is made of.                                *)

\* What of t may go to d at most, by __queryMaxCount
Fitting(s, d, t) == IF d.item \in Stack /\ t \in Stack THEN MaxStack - s.units[d.item] ELSE 0

\* The part of a player's or a container's answer that the move relies on
LEMMA MaxCountSays ==
    ASSUME NEW s \in Stores, NEW d, d.place \in Place, NEW t \in Thing, NEW n \in Nat,
           NEW max, max = MaxCount(s, d, t, n)
    PROVE  /\ max \in Nat
           /\ d.place \in Player /\ d.item # NoThing => max = Fitting(s, d, t)
           /\ d.place \in Container => \/ Cardinality(s.inside[d.place]) < Room[d.place]
                                       \/ max = Fitting(s, d, t)
<1> DEFINE pl == d.place
           left == Fitting(s, d, t)
<1>1. left \in Nat /\ MaxStack \in Nat
  <2>1. d.item \in Stack => s.units[d.item] \in 0 .. MaxStack
    BY StoreTypes
  <2> QED BY <2>1, Constants DEF Fitting
<1>2. CASE pl \in Player
  <2>1. max = IF d.item # NoThing THEN left ELSE IF t \in Stack THEN MaxStack ELSE 1
    BY <1>2, Constants, Zenon DEF MaxCount, Fitting
  <2> QED BY <1>1, <1>2, <2>1, Constants
<1>3. CASE pl \in Container
  <2> DEFINE c == Cardinality(s.inside[pl])
             free == Max({0, Room[pl] - c})
  <2>1. max = IF t \in Stack THEN free * MaxStack + left ELSE free
    BY <1>3, Constants DEF MaxCount, Fitting
  <2>2. c \in Nat /\ Room[pl] \in Nat
    <3>1. s.inside[pl] \in SUBSET Thing
      BY <1>3, StoreTypes
    <3>2. IsFiniteSet(s.inside[pl])
      BY <3>1, Constants, FS_Subset
    <3> QED BY <1>3, <3>2, FS_CardinalityType, StorageConstants
  <2> HIDE DEF c
  <2>3. free = IF 0 >= Room[pl] - c THEN 0 ELSE Room[pl] - c
    <3>1. Room[pl] - c \in Int
      BY <2>2
    <3> QED BY <3>1, MaxOfTwo
  <2>4. free \in Nat /\ (free = 0 \/ c < Room[pl])
    BY <2>2, <2>3
  <2> HIDE DEF free
  <2>5. free * MaxStack \in Nat /\ (free = 0 => free * MaxStack = 0)
    BY <1>1, <2>4, Product
  <2>6. free = 0 => max = left
    <3>1. t \notin Stack => left = 0
      BY DEF Fitting
    <3> HIDE DEF left
    <3> QED BY <1>1, <2>1, <2>5, <3>1
  <2>7. max \in Nat
    BY <1>1, <2>1, <2>4, <2>5
  <2>8. pl \notin Player
    BY <1>3, Constants
  <2> QED BY <2>4, <2>6, <2>7, <2>8 DEF c
<1>4. CASE pl \in Tile
  <2>1. max = Max({1, n}) /\ pl \notin Player /\ pl \notin Container
    BY <1>4, Constants, Zenon DEF MaxCount
  <2>2. max = IF 1 >= n THEN 1 ELSE n
    BY <2>1, MaxOfTwo
  <2> QED BY <2>1, <2>2
<1> QED BY <1>2, <1>3, <1>4 DEF Place

\* Good stores lead to good ones as long as only t is moved.
LEMMA KeptSame ==
    ASSUME NEW s, NEW t
    PROVE  Kept(s, s, t)
BY DEF Kept

\* An exchange and a move keep what each of them keeps.
LEMMA KeptOn ==
    ASSUME NEW s, NEW e, NEW r, NEW u, NEW t, Kept(s, e, u), Kept(e, r, t), u \notin Container
    PROVE  Kept(s, r, t)
BY DEF Kept

\* The second half of internalMoveItem
LEMMA ShiftsGood ==
    ASSUME NEW s, Good(s), NEW d, NEW t \in Thing, InPlace(s, t), Target(s, d, t),
           NEW n \in Nat, Verdict(s, d, t, n) = "ok", NEW r \in Shifts(s, d, t, n)
    PROVE  /\ Good(r) /\ Kept(s, r, t)
           /\ d.place \notin Player =>
                \A p \in Player, k \in Slot : r.inv[p][k] \in {s.inv[p][k], NoThing}
<1> DEFINE max == MaxCount(s, d, t, n)
           m == IF t \in Stack THEN Min({n, max}) ELSE 1
<1>0. s \in Stores /\ Sound(s, {}) /\ d.place \in Place
  BY DEF Good, Sound, Target
<1>1. /\ max \in Nat
      /\ d.place \in Player /\ d.item # NoThing => max = Fitting(s, d, t)
      /\ d.place \in Container => \/ Cardinality(s.inside[d.place]) < Room[d.place]
                                  \/ max = Fitting(s, d, t)
  BY <1>0, MaxCountSays
<1>2. CASE max = 0 \/ n = 0 \/ (t \in Stack /\ m > s.units[t])
  <2>1. r = s
    BY <1>2 DEF Shifts
  <2> QED BY <2>1, KeptSame
<1>3. CASE ~(max = 0 \/ n = 0 \/ (t \in Stack /\ m > s.units[t]))
  <2>1. PICK f \in IF Whole(s, t, m) THEN {t} ELSE Fresh(s) : r = Shift(s, d, t, m, f)
    BY <1>3 DEF Shifts
  <2> HIDE DEF max
  <2>2. m \in Nat \ {0} /\ (t \in Stack => m <= n /\ m <= max /\ m <= s.units[t])
    <3>1. t \in Stack => m = IF n <= max THEN n ELSE max
      BY <1>1, MinOfTwo
    <3>2. t \in Stack => s.units[t] \in Nat
      BY <1>0, StoreTypes, Constants
    <3> QED BY <1>1, <1>3, <3>1, <3>2
  <2> HIDE DEF m
  <2>3. max # 0 /\ max = Fitting(s, d, t) => {t, d.item} \subseteq Stack /\ s.units[d.item] + m <= MaxStack
    <3>1. SUFFICES ASSUME max # 0, max = Fitting(s, d, t)
                   PROVE  {t, d.item} \subseteq Stack /\ s.units[d.item] + m <= MaxStack
      OBVIOUS
    <3>2. d.item \in Stack /\ t \in Stack /\ max = MaxStack - s.units[d.item]
      BY <3>1 DEF Fitting
    <3>3. s.units[d.item] \in Nat /\ MaxStack \in Nat
      BY <1>0, <3>2, StoreTypes, Constants
    <3> QED BY <1>1, <2>2, <3>2, <3>3
  <2>4. Movable(s, d, t, m, f)
    BY <1>1, <1>3, <2>1, <2>2, <2>3 DEF Movable
  <2>5. Puts(s, d, t, m) /\ d.place \in Container => Cardinality(s.inside[d.place]) < Room[d.place]
    <3>1. SUFFICES ASSUME d.place \in Container, max = Fitting(s, d, t) PROVE ~Puts(s, d, t, m)
      BY <1>1
    <3>2. t \in Stack /\ d.item \in Stack /\ s.units[d.item] + m <= MaxStack
      BY <1>3, <2>3, <3>1
    <3>3. s.units[d.item] \in Nat /\ MaxStack \in Nat
      BY <1>0, <3>2, StoreTypes, Constants
    <3>4. Joining(s, d, t, m) = m \/ Joining(s, d, t, m) = MaxStack - s.units[d.item]
      BY <1>0, <2>2, <3>2, JoiningType
    <3>5. ~(Joining(s, d, t, m) < m)
      BY <2>2, <3>2, <3>3, <3>4
    <3> QED BY <3>2, <3>5 DEF Puts
  <2>6. Shifted(s, r, d, t, m, f, Puts(s, d, t, m))
    BY <1>0, <2>1, <2>4, ShiftStep
  <2>7. d.place \notin Player =>
          \A p \in Player, k \in Slot : r.inv[p][k] \in {s.inv[p][k], NoThing}
    BY <2>6 DEF Shifted, ShiftedTo
  <2> QED BY <2>2, <2>4, <2>5, <2>6, <2>7, ShiftGood
<1> QED BY <1>2, <1>3

-----------------------------------------------------------------------------
(* Where __queryDestination leads.                                         *)

\* A destination a query may name: what is worn in the slot is no container, which
\* would have been asked instead, and a container is somewhere.
Spot(s, d) ==
    /\ d = To(d.place, d.slot, d.item)
    /\ d.place \in Place /\ d.item \in Thing \cup {NoThing}
    /\ d.place \in Player =>
         \/ d.slot \in Slot /\ d.item = s.inv[d.place][d.slot] /\ d.item \notin Container
         \/ d.slot = NoSlot /\ d.item = NoThing
    /\ d.place \notin Player /\ d.item # NoThing => s.parent[d.item] = d.place
    /\ d.place \in Container => s.parent[d.place] # Nowhere

\* A spot that takes t, which is not found there already, is a target.
LEMMA SpotIsTarget ==
    ASSUME NEW s, NEW d, Spot(s, d), NEW t \in Thing, d.item # t, NEW n,
           d.place \in Player => d.slot \in Slot,
           d.place \in Container => Verdict(s, d, t, n) = "ok"
    PROVE  Target(s, d, t)
<1>1. t \notin UpFrom(s.parent, d.place)
  <2>1. CASE d.place \in Container
    BY <2>1, VerdictAsks DEF Spot
  <2>2. CASE d.place \notin Container
    BY <2>2 DEF UpFrom
  <2> QED BY <2>1, <2>2
<1> QED BY <1>1, Constants DEF Spot, Target

\* A player without a slot refuses.
LEMMA SlotAsked ==
    ASSUME NEW s, NEW d, d.place \in Player, Spot(s, d), NEW t, NEW n, Verdict(s, d, t, n) # "no"
    PROVE  d.slot \in Slot
<1>1. Verdict(s, d, t, n) = PlayerVerdict(s, d.place, d.slot, t, n)
  BY Constants, Zenon DEF Verdict
<1>2. d.slot # NoSlot
  BY <1>1 DEF PlayerVerdict
<1> QED BY <1>2 DEF Spot

\* Where Container::__queryDestination leads
LEMMA BagSpots ==
    ASSUME NEW s \in Stores, Placed(s), NEW b \in Container, s.parent[b] # Nowhere,
           NEW x \in s.inside[b] \cup {NoThing}, NEW t, NEW d \in BagDest(s, b, x, t)
    PROVE  Spot(s, d) /\ d.place \in Container
<1>1. ASSUME NEW c \in Container, s.parent[c] # Nowhere, NEW y \in s.inside[c] \cup {NoThing},
             NEW k, d = To(c, k, y)
      PROVE  Spot(s, d) /\ d.place \in Container
  <2>1. d.place = c /\ d.item = y /\ d = To(d.place, d.slot, d.item)
    BY <1>1 DEF To
  <2>2. y # NoThing => y \in Thing /\ s.parent[y] = c
    BY <1>1, StoreTypes DEF Placed
  <2> QED BY <1>1, <2>1, <2>2, Constants DEF Spot, Place
<1>2. x \in Container => s.parent[x] = b
  BY Constants DEF Placed
<1>3. \/ \E y \in s.inside[b] : d = To(b, NoSlot, y)
      \/ d = To(b, NoSlot, x)
      \/ x \in Container /\ \E y \in s.inside[x] : d = To(x, NoSlot, y)
      \/ x \in Container /\ d = To(x, NoSlot, NoThing)
  <2> DEFINE alike == {y \in s.inside[b] : y \in Stack \ {t} /\ s.units[y] < MaxStack}
             sub == {y \in s.inside[x] : y \in Stack \ {t} /\ s.units[y] < MaxStack}
             A == IF AutoStack /\ t \in Stack /\ s.parent[t] # b /\ alike # {}
                  THEN {To(b, NoSlot, y) : y \in alike} ELSE {}
             B == IF AutoStack /\ t \in Stack /\ s.parent[t] # x /\ sub # {}
                  THEN {To(x, NoSlot, y) : y \in sub} ELSE {}
  <2>1. d \in IF A # {} THEN A ELSE IF x \notin Container THEN {To(b, NoSlot, x)}
              ELSE IF B # {} THEN B ELSE {To(x, NoSlot, NoThing)}
    BY DEF BagDest
  <2>2. \A e \in A : \E y \in s.inside[b] : e = To(b, NoSlot, y)
    OBVIOUS
  <2>3. \A e \in B : \E y \in s.inside[x] : e = To(x, NoSlot, y)
    OBVIOUS
  <2> HIDE DEF A, B
  <2> QED BY <2>1, <2>2, <2>3
<1>4. \A c \in Container : \A y \in s.inside[c] : y \in s.inside[c] \cup {NoThing}
  OBVIOUS
<1>5. b # Nowhere
  BY Constants
<1> QED BY <1>1, <1>2, <1>3, <1>5

\* One of the slots is the first.
LEMMA FirstIsOne ==
    ASSUME NEW K \in SUBSET Slot, K # {}
    PROVE  FirstOf(K) \in K
<1>1. \A k \in K : k \in {"backpack", "right", "left"}
  BY DEF Slot, Hand
<1>2. \E k \in K : \A l \in K \ {k} : Before(k, l)
  <2>1. CASE "backpack" \in K
    BY <1>1, <2>1 DEF Before
  <2>2. CASE "backpack" \notin K /\ "right" \in K
    BY <1>1, <2>2 DEF Before
  <2>3. CASE "backpack" \notin K /\ "right" \notin K
    BY <1>1, <2>3 DEF Before
  <2> QED BY <2>1, <2>2, <2>3
<1> QED BY <1>2 DEF FirstOf

\* Where a player without a slot given has room: somewhere that takes t, or nowhere.
Roomy(s, p, d) ==
    /\ Spot(s, d) /\ d.item = NoThing
    /\ Holder(s, d.place) = p
    /\ d.place \in Player => d.place = p
    /\ d.place \in Player /\ d.slot \in Slot => s.inv[p][d.slot] = NoThing

\* Where Player::__queryDestination leads without a slot: to him or into a bag he has
LEMMA RoomSpots ==
    ASSUME NEW s \in Stores, Placed(s), NEW p \in Player, NEW t, NEW d \in RoomFor(s, p, t)
    PROVE  Roomy(s, p, d)
<1> DEFINE q == IF t \in Stack THEN s.units[t] ELSE 1
           free == {k \in Slot : s.inv[p][k] = NoThing /\ PlayerVerdict(s, p, k, t, q) = "ok"}
           takes(b) == BagVerdict(s, b, NoThing, t, q) = "ok"
           worn == {k \in Slot : s.inv[p][k] \in Container /\ takes(s.inv[p][k])}
           deeper == {b \in Container : Holder(s, b) = p /\ s.parent[b] # p /\ takes(b)}
<1>1. \/ free # {} /\ d = To(p, FirstOf(free), NoThing)
      \/ worn # {} /\ d = To(s.inv[p][FirstOf(worn)], NoSlot, NoThing)
      \/ \E b \in deeper : d = To(b, NoSlot, NoThing)
      \/ d = To(p, NoSlot, NoThing)
  BY DEF RoomFor
<1>0. p \notin Thing /\ p \notin Container /\ p # Nowhere /\ p \in Place /\ NoThing \notin Container
  BY Constants DEF Place
<1>2. Holder(s, p) = p
  BY <1>0 DEF Holder
<1>3. CASE free # {} /\ d = To(p, FirstOf(free), NoThing)
  <2>1. FirstOf(free) \in free
    BY <1>3, FirstIsOne
  <2>2. /\ d.place = p /\ d.slot = FirstOf(free) /\ d.item = NoThing
        /\ d = To(d.place, d.slot, d.item)
    BY <1>3 DEF To
  <2> DEFINE k == FirstOf(free)
  <2>3. k \in Slot /\ s.inv[p][k] = NoThing
    BY <2>1
  <2> HIDE DEF k, free
  <2> QED BY <1>0, <1>2, <2>2, <2>3 DEF Roomy, Spot, k
<1>4. ASSUME NEW b \in Container, Holder(s, b) = p, s.parent[b] # Nowhere, d = To(b, NoSlot, NoThing)
      PROVE  Roomy(s, p, d)
  <2>1. /\ d.place = b /\ d.item = NoThing /\ b \in Place /\ b \notin Player
        /\ d = To(d.place, d.slot, d.item)
    BY <1>4, Constants DEF To, Place
  <2> QED BY <1>4, <2>1 DEF Roomy, Spot
<1>5. CASE worn # {} /\ d = To(s.inv[p][FirstOf(worn)], NoSlot, NoThing)
  <2> DEFINE k == FirstOf(worn)
             b == s.inv[p][k]
  <2>1. k \in worn
    BY <1>5, FirstIsOne
  <2>2. k \in Slot /\ b \in Container
    BY <2>1
  <2> HIDE DEF k, worn
  <2>3. s.parent[b] = p
    BY <1>0, <2>2 DEF Placed
  <2>4. Holder(s, b) = p
    <3>1. b \in Thing /\ s.parent[b] \in Place /\ Grounded(s.parent)
      BY <1>0, <2>2, <2>3, Constants DEF Placed
    <3> HIDE DEF b
    <3> QED BY <1>2, <2>3, <3>1, HolderOfPlace
  <2>5. d = To(b, NoSlot, NoThing)
    BY <1>5 DEF k
  <2> HIDE DEF b
  <2> QED BY <1>0, <1>4, <2>2, <2>3, <2>4, <2>5
<1>6. ASSUME NEW b \in deeper, d = To(b, NoSlot, NoThing) PROVE Roomy(s, p, d)
  <2>1. b \in Container /\ Holder(s, b) = p
    OBVIOUS
  <2>2. s.parent[b] # Nowhere
    <3>1. SUFFICES ASSUME s.parent[b] = Nowhere PROVE FALSE
      OBVIOUS
    <3>2. TopOf(s.parent, b) = Nowhere
      BY <3>1, TopUnfolds, Constants DEF Placed
    <3> QED BY <1>0, <2>1, <3>2, Constants DEF Holder
  <2> QED BY <1>4, <1>6, <2>1, <2>2
<1>7. CASE d = To(p, NoSlot, NoThing)
  <2>1. /\ d.place = p /\ d.slot = NoSlot /\ d.item = NoThing
        /\ d = To(d.place, d.slot, d.item)
    BY <1>7 DEF To
  <2> QED BY <1>0, <1>2, <2>1, Constants DEF Roomy, Spot
<1> HIDE DEF free, worn, deeper
<1> QED BY <1>1, <1>3, <1>5, <1>6, <1>7

\* Where a call of internalMoveItem may be sent.
Sent(s, d) ==
    /\ d.place \in Place
    /\ d.place \in Player => d.slot \in Slot \cup {NoSlot}
    /\ d.place \in Container => d.item \in s.inside[d.place] \cup {NoThing} /\ s.parent[d.place] # Nowhere

\* Where the loop of internalMoveItem leads
LEMMA DestinationSpots ==
    ASSUME NEW s \in Stores, Placed(s), NEW to, Sent(s, to), NEW t, NEW d \in Destinations(s, to, t)
    PROVE  Spot(s, d) /\ (to.place \notin Player => d.place \notin Player)
                      /\ (to.place \in Tile => d.place = to.place)
<1> DEFINE pl == to.place
<1>0. NoThing \notin Container /\ \A b \in Container : NoThing \in s.inside[b] \cup {NoThing}
  BY Constants
<1>1. CASE pl \in Container
  <2>1. d \in BagDest(s, pl, to.item, t)
    BY <1>1, Constants, Zenon DEF Destinations
  <2>2. pl \notin Tile /\ s.parent[pl] # Nowhere /\ to.item \in s.inside[pl] \cup {NoThing}
    BY <1>1, Constants DEF Sent
  <2>3. Spot(s, d) /\ d.place \in Container
    <3> DEFINE x == to.item
    <3> HIDE DEF pl, x
    <3> QED BY <1>1, <2>1, <2>2, BagSpots DEF pl, x
  <2>4. d.place \notin Player
    BY <2>3, Constants
  <2> QED BY <2>2, <2>3, <2>4
<1>2. CASE pl \in Player
  <2>0. pl \notin Container /\ pl \notin Tile
    BY <1>2, Constants
  <2>1. CASE to.slot # NoSlot
    <3> DEFINE k == to.slot
               x == s.inv[pl][k]
    <3>1. d \in IF x \in Container THEN BagDest(s, x, NoThing, t) ELSE {To(pl, k, x)}
      BY <1>2, <2>0, <2>1, Zenon DEF Destinations
    <3>2. k \in Slot
      BY <1>2, <2>1 DEF Sent
    <3>3. x \in Thing \cup {NoThing} /\ (x # NoThing => s.parent[x] = pl)
      BY <1>2, <3>2, StoreTypes DEF Placed
    <3>4. CASE x \in Container
      <4>1. d \in BagDest(s, x, NoThing, t) /\ s.parent[x] # Nowhere
        BY <1>0, <1>2, <3>1, <3>3, <3>4, Constants DEF Place
      <4> HIDE DEF x
      <4>2. Spot(s, d)
        BY <1>0, <3>4, <4>1, BagSpots
      <4> QED BY <1>2, <2>0, <4>2
    <3>5. CASE x \notin Container
      <4>1. d.place = pl /\ d.slot = k /\ d.item = x /\ d = To(d.place, d.slot, d.item)
        BY <3>1, <3>5 DEF To
      <4>2. pl \in Place
        BY <1>2 DEF Place
      <4>3. s.inv[d.place][d.slot] = x
        BY <4>1
      <4>4. d.place \in Player /\ d.place \notin Container /\ d.place \notin Tile /\ d.slot \in Slot
        BY <1>2, <2>0, <3>2, <4>1
      <4> HIDE DEF pl, k, x
      <4>5. d.place \in Place /\ d.item \in Thing \cup {NoThing}
        BY <3>3, <4>1, <4>2
      <4>6. d.slot \in Slot /\ d.item = s.inv[d.place][d.slot] /\ d.item \notin Container
        BY <3>5, <4>1, <4>3, <4>4
      <4>7. Spot(s, d)
        BY <4>1, <4>4, <4>5, <4>6 DEF Spot
      <4> QED BY <1>2, <2>0, <4>7 DEF pl
    <3> QED BY <3>4, <3>5
  <2>2. CASE to.slot = NoSlot
    <3>1. \E e \in RoomFor(s, pl, t) :
            d \in IF e.place \in Container THEN BagDest(s, e.place, NoThing, t) ELSE {e}
      BY <1>2, <2>0, <2>2 DEF Destinations
    <3>2. PICK e \in RoomFor(s, pl, t) :
            d \in IF e.place \in Container THEN BagDest(s, e.place, NoThing, t) ELSE {e}
      BY <3>1
    <3>3. Roomy(s, pl, e)
      <4> HIDE DEF pl
      <4> QED BY <1>2, RoomSpots
    <3>4. Spot(s, e)
      BY <3>3 DEF Roomy
    <3>5. CASE e.place \in Container
      <4> DEFINE b == e.place
      <4>1. d \in BagDest(s, b, NoThing, t) /\ b \in Container /\ s.parent[b] # Nowhere
        BY <3>2, <3>4, <3>5 DEF Spot
      <4> HIDE DEF b
      <4>2. Spot(s, d)
        BY <1>0, <4>1, BagSpots
      <4> QED BY <1>2, <2>0, <4>2
    <3>6. CASE e.place \notin Container
      BY <1>2, <2>0, <3>2, <3>4, <3>6
    <3> QED BY <3>5, <3>6
  <2> QED BY <2>1, <2>2
<1>3. CASE pl \in Tile
  <2>0. pl \notin Container /\ pl \notin Player /\ pl \in Place
    BY <1>3, Constants DEF Place
  <2>1. \E x \in IF s.inside[pl] = {} THEN {NoThing} ELSE s.inside[pl] : d = To(pl, NoSlot, x)
    BY <2>0, Zenon DEF Destinations
  <2>2. PICK x \in s.inside[pl] \cup {NoThing} : d = To(pl, NoSlot, x)
    BY <2>1
  <2>3. d.place = pl /\ d.item = x /\ d = To(d.place, d.slot, d.item)
    BY <2>2 DEF To
  <2>4. x # NoThing => x \in Thing /\ s.parent[x] = pl
    BY <1>3, <2>2, StoreTypes DEF Placed
  <2> HIDE DEF pl
  <2>5. Spot(s, d)
    BY <2>0, <2>2, <2>3, <2>4 DEF Spot
  <2> QED BY <2>0, <2>3, <2>5 DEF pl
<1> QED BY <1>1, <1>2, <1>3 DEF Sent, Place

-----------------------------------------------------------------------------
(* An exchange: what is worn goes to where t is, and t is tried again.     *)

\* Setting a count to what it is changes nothing.
LEMMA NumberedSame ==
    ASSUME NEW s \in Stores, NEW x \in Stack
    PROVE  Numbered(s, x, s.units[x]) = s
<1> DEFINE g == [s.units EXCEPT ![x] = s.units[x]]
<1>1. g = s.units
  BY StoreTypes
<1>2. Numbered(s, x, s.units[x]) = [s EXCEPT !.units = g]
  BY DEF Numbered
<1> HIDE DEF g
<1>3. [s EXCEPT !.units = g] = s
  BY <1>1 DEF Stores
<1> QED BY <1>2, <1>3

\* All of a thing
All(s, x) == IF x \in Stack THEN s.units[x] ELSE 1

\* The place of t, where what is worn may go
Back(s, t) == To(s.parent[t], NoSlot, NoThing)

\* d is worn, t is elsewhere, and they do not join.
Worn(s, d, t) ==
    /\ Spot(s, d) /\ d.place \in Player /\ d.slot \in Slot
    /\ InPlace(s, t) /\ d.item # t /\ d.item # NoThing /\ ~({d.item, t} \subseteq Stack)

\* An exchange is a move of what is worn to where t is, which the queries allowed.
LEMMA ExchangeMay ==
    ASSUME NEW s, Good(s), NEW d, NEW t \in Thing, Worn(s, d, t), MayExchange(s, d, t)
    PROVE  /\ s.parent[t] \in Place \ Player
           /\ Verdict(s, Back(s, t), d.item, All(s, d.item)) = "ok"
           /\ Movable(s, Back(s, t), d.item, All(s, d.item), d.item)
           /\ Whole(s, d.item, All(s, d.item))
<1> DEFINE x == d.item
           pl == s.parent[t]
           q == All(s, x)
           k == IF pl \in Player THEN CHOOSE h \in Slot : s.inv[pl][h] = t ELSE NoSlot
           back == To(pl, k, t)
<1>1. s \in Stores /\ Placed(s) /\ InUse(s, {})
  BY DEF Good, Sound
<1>2. /\ x \in Thing /\ x \notin Container /\ x # t /\ s.parent[x] = d.place
      /\ InPlace(s, x) /\ s.parent[x] # Nowhere
  <2>1. x \in Thing /\ x \notin Container /\ x # t /\ x = s.inv[d.place][d.slot] /\ x # NoThing
    BY Constants DEF Worn, Spot
  <2>2. s.parent[x] = d.place
    BY <1>1, <2>1 DEF Worn, Placed
  <2>3. x \in Inventory(s, d.place)
    BY <2>1, InventoryOf DEF Worn
  <2> QED BY <2>1, <2>2, <2>3, Constants DEF InPlace, Worn, Spot
<1>3. pl \in Place
  BY DEF Worn, InPlace
<1>4. q \in Nat \ {0} /\ (x \in Stack => q <= s.units[x]) /\ Whole(s, x, q)
  <2>1. CASE x \in Stack
    <3>1. s.units[x] \in Nat /\ s.units[x] > 0
      BY <1>1, <1>2, <2>1, StoreTypes, Constants DEF InUse
    <3> QED BY <2>1, <3>1 DEF All, Whole
  <2>2. CASE x \notin Stack
    BY <2>2 DEF All, Whole
  <2> QED BY <2>1, <2>2
<1>5. Verdict(s, back, x, q) = "ok" /\ MaxCount(s, [back EXCEPT !.item = NoThing], x, q) > 0
  BY Zenon DEF MayExchange, All
<1>6. back.place = pl /\ back.slot = k /\ back.item = t
  BY DEF To
<1>7. pl \notin Player
  <2>1. SUFFICES ASSUME pl \in Player PROVE FALSE
    OBVIOUS
  <2>2. \E h \in Slot : s.inv[pl][h] = t
    BY <2>1, InventoryOf DEF Worn, InPlace
  <2>3. k = CHOOSE h \in Slot : s.inv[pl][h] = t
    BY <2>1
  <2>4. s.inv[pl][k] = t
    BY <2>2, <2>3
  <2> HIDE DEF x, pl, q, k, back
  <2>5. s.inv[pl][k] = NoThing \/ {s.inv[pl][k], x} \subseteq Stack
    BY <1>2, <1>3, <1>5, <1>6, <2>1, VerdictAsks
  <2> QED BY <2>4, <2>5, Constants DEF Worn, x
<1>8. k = NoSlot
  BY <1>7
<1> DEFINE b == Back(s, t)
<1>9. b.place = pl /\ b.slot = NoSlot /\ b.item = NoThing /\ [back EXCEPT !.item = NoThing] = b
  <2> HIDE DEF k
  <2>1. back = [place |-> pl, slot |-> NoSlot, item |-> t]
    BY <1>8 DEF To
  <2>2. b = [place |-> pl, slot |-> NoSlot, item |-> NoThing]
    BY DEF Back, To
  <2> HIDE DEF back, b, pl
  <2> QED BY <2>1, <2>2
<1> HIDE DEF k, back, b
<1>10. pl \in Container => Cardinality(s.inside[pl]) < Room[pl]
  <2>1. SUFFICES ASSUME pl \in Container PROVE Cardinality(s.inside[pl]) < Room[pl]
    OBVIOUS
  <2>2. MaxCount(s, b, x, q) > 0
    BY <1>5, <1>9
  <2> HIDE DEF x, pl, q
  <2>3. Fitting(s, b, x) = 0
    BY <1>9, Constants DEF Fitting
  <2>4. Cardinality(s.inside[b.place]) < Room[b.place] \/ MaxCount(s, b, x, q) = Fitting(s, b, x)
    BY <1>1, <1>2, <1>3, <1>4, <1>9, <2>1, MaxCountSays
  <2> QED BY <1>9, <2>2, <2>3, <2>4
<1>11. Verdict(s, b, x, q) = "ok"
  <2>1. CASE pl \in Container
    <3>1. BagVerdict(s, pl, t, x, q) = "ok"
      BY <1>5, <1>6, <1>7, <2>1, Zenon DEF Verdict
    <3>2. BagVerdict(s, pl, NoThing, x, q) = "ok"
      BY <1>10, <2>1, <3>1 DEF BagVerdict
    <3> QED BY <1>7, <1>9, <2>1, <3>2 DEF Verdict
  <2>2. CASE pl \notin Container
    <3>1. TileVerdict(s, pl) = "ok"
      BY <1>5, <1>6, <1>7, <2>2, Zenon DEF Verdict
    <3> QED BY <1>7, <1>9, <2>2, <3>1 DEF Verdict
  <2> QED BY <2>1, <2>2
<1>12. Target(s, b, x)
  <2>1. pl \in Container => s.parent[pl] # Nowhere
    <3>1. t \in s.inside[pl] \/ pl \notin Container
      BY <1>1 DEF Placed
    <3> QED BY <1>1, <3>1 DEF InUse
  <2>2. x \notin UpFrom(s.parent, pl)
    BY <1>2, UpFromType
  <2> QED BY <1>2, <1>3, <1>7, <1>9, <2>1, <2>2, Constants DEF Target
<1>13. Movable(s, b, x, q, x)
  BY <1>2, <1>4, <1>7, <1>9, <1>12 DEF Movable
<1> QED BY <1>3, <1>4, <1>7, <1>11, <1>13 DEF b

\* The exchange does what a shift does.
LEMMA ExchangeIsShift ==
    ASSUME NEW s, Good(s), NEW d, NEW t \in Thing, Worn(s, d, t), MayExchange(s, d, t)
    PROVE  Exchanged(s, d, t) = Shift(s, Back(s, t), d.item, All(s, d.item), d.item)
<1> DEFINE x == d.item
           q == All(s, x)
           pl == s.parent[t]
           b == Back(s, t)
           taken == Take(s, x, q)
<1>1. pl \in Place \ Player /\ Movable(s, b, x, q, x) /\ Whole(s, x, q)
  BY ExchangeMay
<1>2. s \in Stores /\ Sound(s, {}) /\ Placed(s)
  BY DEF Good, Sound
<1>3. b.place = pl /\ b.slot = NoSlot /\ b.item = NoThing
  BY DEF Back, To
<1> HIDE DEF x, q, pl, b
<1>4. q \in Nat \ {0} /\ x \in Thing /\ x \notin Container /\ InPlace(s, x) /\ (x \in Stack => q = s.units[x])
  <2>1. x \in Thing /\ x \notin Container
    BY Constants DEF Worn, Spot, x
  <2> QED BY <1>1, <2>1 DEF Movable, All, q
<1>5. Taken(s, taken, x, q)
  BY <1>1, <1>2, <1>4, TakeStep DEF Movable
<1>6. taken \in Stores /\ taken.units = s.units
  BY <1>1, <1>5 DEF Taken, Sound
<1>7. x \in Stack => [taken EXCEPT !.units[x] = q - 0] = taken
  <2> HIDE DEF taken
  <2>1. x \in Stack => Numbered(taken, x, taken.units[x]) = taken
    BY <1>6, NumberedSame
  <2>2. x \in Stack => taken.units[x] = q /\ q - 0 = q
    BY <1>4, <1>6
  <2> QED BY <2>1, <2>2 DEF Numbered
<1>8. /\ Holder(s, x) = d.place
      /\ Holder(s, t) = Holder(s, pl)
  <2>1. s.parent[x] = d.place /\ d.place \in Place /\ d.place \notin Thing
    BY <1>2, Constants DEF Worn, Spot, Placed, x
  <2>2. Holder(s, x) = Holder(s, d.place)
    BY <1>2, <1>4, <2>1, HolderOfPlace DEF Placed
  <2>3. Holder(s, t) = Holder(s, pl)
    BY <1>1, <1>2, HolderOfPlace DEF Placed, pl
  <2> QED BY <2>1, <2>2, <2>3 DEF Holder
<1>9. Exchanged(s, d, t) = Weighed(Put(taken, pl, NoSlot, x), {Holder(s, pl), d.place})
  BY <1>8 DEF Exchanged, x, q, pl, All
<1>10. Shift(s, b, x, q, x) = Weighed(Put(taken, pl, NoSlot, x), {d.place, Holder(s, pl)})
  <2>1. ~({x, b.item} \subseteq Stack)
    BY <1>3, Constants
  <2>2. q - 0 > 0 /\ ~(0 > 0)
    BY <1>4
  <2> QED BY <1>3, <1>7, <1>8, <2>1, <2>2 DEF Shift
<1>11. {d.place, Holder(s, pl)} = {Holder(s, pl), d.place}
  OBVIOUS
<1> QED BY <1>9, <1>10, <1>11 DEF x, q, b

\* RET_NEEDEXCHANGE: what is worn goes out, then t is tried again.
LEMMA ExchangesGood ==
    ASSUME NEW s, Good(s), NEW d, NEW t \in Thing, Worn(s, d, t), NEW n \in Nat,
           NEW r \in Exchanges(s, d, t, n)
    PROVE  Good(r) /\ Kept(s, r, t)
<1> DEFINE x == d.item
           q == All(s, x)
           b == Back(s, t)
           e == Exchanged(s, d, t)
           free == [d EXCEPT !.item = NoThing]
<1>1. CASE ~MayExchange(s, d, t)
  BY <1>1, KeptSame DEF Exchanges
<1>2. CASE MayExchange(s, d, t)
  <2>1. /\ s.parent[t] \in Place \ Player /\ Verdict(s, b, x, q) = "ok"
        /\ Movable(s, b, x, q, x) /\ Whole(s, x, q)
    BY <1>2, ExchangeMay
  <2>2. e = Shift(s, b, x, q, x)
    BY <1>2, ExchangeIsShift
  <2>3. r \in IF Verdict(e, free, t, n) = "ok" THEN Shifts(e, free, t, n) ELSE {e}
    BY <1>2 DEF Exchanges
  <2>4. x \in Thing /\ x \notin Container /\ x # t /\ x # NoThing /\ d.place \in Player /\ d.slot \in Slot
        /\ x = s.inv[d.place][d.slot] /\ InPlace(s, t) /\ d.place \in Place /\ q \in Nat /\ (x \in Stack => q <= q)
    BY <2>1, Constants DEF Worn, Spot, Movable
  <2>5. b.place = s.parent[t] /\ b.item = NoThing
    BY DEF Back, To
  <2>6. free = To(d.place, d.slot, NoThing)
    BY DEF Worn, Spot, To
  <2>7. free.place = d.place /\ free.slot = d.slot /\ free.item = NoThing
    BY <2>6 DEF To
  <2>8. Sound(s, {})
    BY DEF Good
  <2>9. ~Puts(s, b, x, q) \/ b.place \notin Container \/ Cardinality(s.inside[b.place]) < Room[b.place]
    BY <2>1, <2>5, Constants DEF Verdict, BagVerdict
  <2> HIDE DEF x, q, b, e, free
  <2>10. Shifted(s, e, b, x, q, x, Puts(s, b, x, q))
    BY <2>1, <2>2, <2>4, <2>8, ShiftStep
  <2>11. Good(e) /\ Kept(s, e, x)
    BY <2>1, <2>4, <2>9, <2>10, ShiftGood
  <2>12. /\ e.parent[t] = s.parent[t]
         /\ e.inv[d.place][d.slot] = NoThing
    BY <2>1, <2>4, <2>5, <2>10 DEF Shifted, ShiftedTo
  <2>13. InPlace(e, t) /\ Target(e, free, t)
    <3>1. InPlace(e, t)
      BY <2>1, <2>12 DEF InPlace
    <3>2. UpFrom(e.parent, d.place) = {}
      BY <2>4, Constants DEF UpFrom
    <3>3. NoThing # t
      BY Constants
    <3> QED BY <2>4, <2>7, <2>12, <3>1, <3>2, <3>3, Constants DEF Target
  <2>14. CASE Verdict(e, free, t, n) = "ok"
    <3>1. r \in Shifts(e, free, t, n)
      BY <2>3, <2>14
    <3>2. Good(r) /\ Kept(e, r, t)
      BY <2>11, <2>13, <2>14, <3>1, ShiftsGood
    <3> QED BY <2>4, <2>11, <3>2, KeptOn
  <2>15. CASE Verdict(e, free, t, n) # "ok"
    BY <2>3, <2>4, <2>11, <2>15, KeptSame, KeptOn
  <2> QED BY <2>14, <2>15
<1> QED BY <1>1, <1>2

-----------------------------------------------------------------------------
(* A hand is freed, and a move as a whole.                                 *)

\* Moving out to a tile or a bag; slots are emptied by it at most.
LEMMA MoveOutGood ==
    ASSUME NEW s, Good(s), NEW pl \in Place \ Player, pl \in Container => s.parent[pl] # Nowhere,
           NEW t \in Thing, InPlace(s, t), NEW n \in Nat, NEW r \in MoveOut(s, pl, t, n)
    PROVE  /\ Good(r) /\ Kept(s, r, t)
           /\ \A p \in Player, k \in Slot : r.inv[p][k] \in {s.inv[p][k], NoThing}
<1> DEFINE to == To(pl, NoSlot, NoThing)
<1>1. s \in Stores /\ Placed(s)
  BY DEF Good, Sound
<1>2. PICK d \in Destinations(s, to, t) :
        r \in IF d.item = t \/ Verdict(s, d, t, n) # "ok" THEN {s} ELSE Shifts(s, d, t, n)
  BY DEF MoveOut
<1>3. to.place = pl /\ to.item = NoThing
  BY DEF To
<1> HIDE DEF to
<1>4. Sent(s, to)
  BY <1>3 DEF Sent
<1>5. Spot(s, d) /\ d.place \notin Player
  BY <1>1, <1>3, <1>4, DestinationSpots
<1>6. CASE d.item = t \/ Verdict(s, d, t, n) # "ok"
  BY <1>2, <1>6, KeptSame
<1>7. CASE d.item # t /\ Verdict(s, d, t, n) = "ok"
  <2>1. Target(s, d, t)
    BY <1>5, <1>7, SpotIsTarget
  <2> QED BY <1>2, <1>5, <1>7, <2>1, ShiftsGood
<1> QED BY <1>6, <1>7

\* A slot forgets what is in it.
Forgets(r, p, k) == [r EXCEPT !.inv[p][k] = NoThing]

\* Forgets, field by field
LEMMA ForgetsFields ==
    ASSUME NEW r \in Stores, NEW p \in Player, NEW k \in Slot, NEW e, e = Forgets(r, p, k)
    PROVE  /\ e \in Stores
           /\ e.parent = r.parent /\ e.inside = r.inside /\ e.carried = r.carried
           /\ e.weight = r.weight /\ e.amount = r.amount /\ e.units = r.units
           /\ \A q \in Player, j \in Slot :
                e.inv[q][j] = IF q = p /\ j = k THEN NoThing ELSE r.inv[q][j]
<1> DEFINE g == [r.inv EXCEPT ![p][k] = NoThing]
<1>1. /\ g \in [Player -> [Slot -> Thing \cup {NoThing}]]
      /\ \A q \in Player, j \in Slot : g[q][j] = IF q = p /\ j = k THEN NoThing ELSE r.inv[q][j]
  BY StoreTypes
<1>2. e = [r EXCEPT !.inv = g]
  BY DEF Forgets
<1> HIDE DEF g
<1>3. /\ e.inv = g /\ e.parent = r.parent /\ e.inside = r.inside /\ e.carried = r.carried
      /\ e.weight = r.weight /\ e.amount = r.amount /\ e.units = r.units
  BY <1>2 DEF Stores
<1>4. e \in Stores
  BY <1>1, <1>2 DEF Stores
<1> QED BY <1>1, <1>3, <1>4

\* A player who forgets a thing that is no bag is only the worse for it himself.
LEMMA ForgetsGood ==
    ASSUME NEW r, Good(r), NEW p \in Player, NEW k \in Slot, r.inv[p][k] \notin Container,
           NEW e, e = Forgets(r, p, k)
    PROVE  Good(e)
<1> DEFINE u == r.inv[p][k]
<1>0. r \in Stores /\ Placed(r) /\ Counted(r) /\ InUse(r, {}) /\ Carried(r) /\ Limits(r)
  BY DEF Good, Sound
<1>1. /\ e \in Stores
      /\ e.parent = r.parent /\ e.inside = r.inside /\ e.carried = r.carried
      /\ e.weight = r.weight /\ e.amount = r.amount /\ e.units = r.units
      /\ \A q \in Player, j \in Slot : e.inv[q][j] = IF q = p /\ j = k THEN NoThing ELSE r.inv[q][j]
  BY <1>0, ForgetsFields
<1>2. \A T \in SUBSET Thing : Load(e, T) = Load(r, T)
  <2>1. \A t \in Thing : Weight(e, t) = Weight(r, t)
    BY <1>1 DEF Weight
  <2> QED BY <1>0, <2>1, LoadSame
<1>3. Placed(e)
  <2>1. ASSUME NEW q \in Player, NEW c \in Container, r.parent[c] = q PROVE c \in Inventory(e, q)
    <3>1. PICK j \in Slot : r.inv[q][j] = c /\ c # NoThing
      BY <1>0, <2>1, InventoryOf DEF Placed
    <3>2. e.inv[q][j] = c
      BY <1>1, <3>1
    <3> QED BY <3>1, <3>2, InventoryOf
  <2> QED BY <1>0, <1>1, <2>1 DEF Placed
<1>4. Counted(e)
  <2>1. \A b \in Container : r.inside[b] \in SUBSET Thing
    BY <1>0, StoreTypes
  <2> QED BY <1>0, <1>1, <1>2, <2>1 DEF Counted, CountedAt
<1>5. InUse(e, {})
  BY <1>0, <1>1 DEF InUse
<1>6. ASSUME NEW q \in Player
      PROVE  /\ LoadOf(e, q) <= e.carried[q]
             /\ Forgot(e, q) = {} => e.carried[q] = LoadOf(e, q)
  <2>0. LoadOf(r, q) <= r.carried[q] /\ (Forgot(r, q) = {} => r.carried[q] = LoadOf(r, q))
    BY <1>0 DEF Carried
  <2>1. Inventory(e, q) \in SUBSET Thing /\ Inventory(r, q) \in SUBSET Thing
    BY <1>0, <1>1, InventoryType
  <2>2. CASE q # p \/ u = NoThing
    <3>1. \A j \in Slot : e.inv[q][j] = r.inv[q][j]
      BY <1>1, <2>2
    <3>2. Inventory(e, q) = Inventory(r, q)
      BY <3>1 DEF Inventory
    <3>3. LoadOf(e, q) = LoadOf(r, q)
      BY <1>2, <2>1, <3>2 DEF LoadOf
    <3>4. Forgot(e, q) = Forgot(r, q)
      BY <1>1, <3>2 DEF Forgot
    <3> QED BY <1>1, <2>0, <3>3, <3>4
  <2>3. CASE q = p /\ u # NoThing
    <3>1. /\ u \in Thing /\ r.parent[u] = p
          /\ \A j \in Slot : r.inv[p][j] = u => j = k
      BY <1>0, <2>3, StoreTypes DEF Placed
    <3> HIDE DEF u
    <3>2. u \notin Inventory(e, p) /\ Inventory(r, p) = Inventory(e, p) \cup {u}
      <4>1. \A j \in Slot : e.inv[p][j] = IF j = k THEN NoThing ELSE r.inv[p][j]
        BY <1>1
      <4>2. r.inv[p][k] = u
        BY DEF u
      <4> QED BY <2>3, <3>1, <4>1, <4>2 DEF Inventory
    <3>3. Load(r, Inventory(r, p)) = Load(r, Inventory(e, p)) + Weight(r, u)
      <4> DEFINE T == Inventory(e, p)
      <4>1. T \in SUBSET Thing /\ u \in Thing \ T
        BY <2>1, <2>3, <3>1, <3>2
      <4> HIDE DEF T
      <4>2. Load(r, T \cup {u}) = Load(r, T) + Weight(r, u)
        BY <1>0, <4>1, LoadWith
      <4> QED BY <3>2, <4>2 DEF T
    <3>4. Load(e, Inventory(e, p)) = Load(r, Inventory(e, p))
      BY <1>2, <2>1, <2>3
    <3>5. LoadOf(e, p) <= LoadOf(r, p)
      <4>1. Weight(r, u) \in Nat /\ Load(r, Inventory(e, p)) \in Nat
        BY <1>0, <2>1, <2>3, <3>1, WeightType, LoadType
      <4> QED BY <3>3, <3>4, <4>1 DEF LoadOf
    <3>6. Forgot(e, p) # {}
      BY <1>1, <3>1, <3>2 DEF Forgot
    <3>7. LoadOf(e, p) \in Nat /\ LoadOf(r, p) \in Nat /\ r.carried[p] \in Nat
      BY <1>0, <1>1, InventoryType, StoreTypes
    <3> QED BY <1>1, <2>0, <2>3, <3>5, <3>6, <3>7
  <2> QED BY <2>2, <2>3
<1>7. Limits(e)
  <2>1. ASSUME NEW q \in Player, NEW h \in Hand, e.inv[q][h] \in TwoHanded
        PROVE  e.inv[q][Other(h)] = NoThing
    <3>1. h \in Slot /\ Other(h) \in Slot
      BY Hands
    <3>2. e.inv[q][h] # NoThing
      BY <2>1, StorageConstants DEF Thing
    <3>3. r.inv[q][h] \in TwoHanded
      BY <1>1, <2>1, <3>1, <3>2
    <3> QED BY <1>0, <1>1, <3>1, <3>3 DEF Limits
  <2> QED BY <1>0, <1>1, <2>1 DEF Limits
<1> QED BY <1>1, <1>3, <1>4, <1>5, <1>6, <1>7 DEF Good, Sound, Carried

\* RET_BOTHHANDSNEEDTOBEFREE: the query that moves things keeps to the limits.
LEMMA HandsFreedGood ==
    ASSUME NEW s, Good(s), at \in [Player -> Tile], NEW p \in Player, NEW k \in Slot,
           s.inv[p][k] \notin Container, NEW t \in Thing, InPlace(s, t),
           NEW r \in HandsFreed(s, p, k, t)
    PROVE  Good(r) /\ Kept(s, r, t)
<1> DEFINE u == s.inv[p][k]
           n == IF u \in Stack THEN s.units[u] ELSE 1
           from == s.parent[t]
           shown == from \in {window[p][i] : i \in Window}
<1>0. s \in Stores /\ Placed(s) /\ InUse(s, {}) /\ from \in Place
  BY DEF Good, Sound, InPlace
<1>1. CASE r = s
  BY <1>1, KeptSame
<1>2. ASSUME u # NoThing, NEW pl \in Place \ Player, pl \in Container => s.parent[pl] # Nowhere,
             NEW e \in MoveOut(s, pl, u, n), r = Forgets(e, p, k)
      PROVE  Good(r) /\ Kept(s, r, t)
  <2>1. u \in Thing /\ s.parent[u] = p /\ InPlace(s, u)
    <3>1. u \in Thing /\ s.parent[u] = p
      BY <1>0, <1>2, StoreTypes DEF Placed
    <3>2. u \in Inventory(s, p)
      BY <1>2, InventoryOf
    <3> QED BY <3>1, <3>2 DEF InPlace, Place
  <2>2. n \in Nat
    BY <1>0, StoreTypes, Constants
  <2>3. r = Forgets(e, p, k)
    BY <1>2
  <2>4. u \notin Container /\ u = s.inv[p][k]
    OBVIOUS
  <2> HIDE DEF u, n
  <2>5. /\ Good(e) /\ Kept(s, e, u)
        /\ e.inv[p][k] \in {s.inv[p][k], NoThing}
    BY <1>2, <2>1, <2>2, MoveOutGood
  <2>6. Good(r)
    BY <2>3, <2>4, <2>5, ForgetsGood, Constants
  <2>7. r.parent = e.parent /\ Pieces(r) = Pieces(e)
    <3>1. e \in Stores
      BY <2>5 DEF Good, Sound
    <3>2. r.parent = e.parent /\ r.units = e.units
      BY <2>3, <3>1, ForgetsFields
    <3> QED BY <3>2 DEF Pieces
  <2> QED BY <2>4, <2>5, <2>6, <2>7 DEF Kept
<1>3. CASE u # NoThing /\ from \in Container /\ Cardinality(s.inside[from]) < Room[from] /\ shown
  <2>1. PICK e \in MoveOut(s, from, u, n) : r = Forgets(e, p, k)
    BY <1>3 DEF HandsFreed, Forgets
  <2>2. s.parent[from] # Nowhere
    <3>1. t \in s.inside[from]
      BY <1>0, <1>3 DEF Placed
    <3> QED BY <1>0, <1>3, <3>1 DEF InUse
  <2>3. from \notin Player
    BY <1>3, Constants
  <2> QED BY <1>0, <1>2, <1>3, <2>1, <2>2, <2>3
<1>4. CASE u # NoThing /\ from \notin Container
  <2>1. PICK e \in MoveOut(s, TileOf(s, t), u, n) : r = Forgets(e, p, k)
    BY <1>4 DEF HandsFreed, Forgets
  <2>2. Holder(s, t) = from
    BY <1>0, <1>4, TopUnfolds DEF Holder, Placed
  <2>3. TileOf(s, t) \in Tile
    BY <1>0, <1>4, <2>2 DEF TileOf, Place
  <2>4. TileOf(s, t) \in Place \ Player /\ TileOf(s, t) \notin Container
    BY <2>3, Constants DEF Place
  <2> QED BY <1>2, <1>4, <2>1, <2>4
<1>5. \/ r = s
      \/ u # NoThing /\ from \in Container /\ Cardinality(s.inside[from]) < Room[from] /\ shown
      \/ u # NoThing /\ from \notin Container
  <2>1. CASE u = NoThing
    <3>1. r = s
      BY <2>1 DEF HandsFreed
    <3> QED BY <3>1
  <2>2. CASE u # NoThing /\ from \in Container
    <3>1. Cardinality(s.inside[from]) \in Nat /\ Room[from] \in Nat
      <4>1. s.inside[from] \in SUBSET Thing
        BY <1>0, <2>2, StoreTypes
      <4>2. IsFiniteSet(s.inside[from])
        BY <4>1, Constants, FS_Subset
      <4> QED BY <2>2, <4>2, FS_CardinalityType, StorageConstants
    <3>2. CASE Cardinality(s.inside[from]) >= Room[from] \/ ~shown
      <4>1. r = s
        BY <2>2, <3>1, <3>2 DEF HandsFreed
      <4> QED BY <4>1
    <3> QED BY <2>2, <3>1, <3>2
  <2> QED BY <2>1, <2>2
<1> HIDE DEF u, n, from, shown
<1> QED BY <1>1, <1>3, <1>4, <1>5

\* Which answers a destination may give, and what they mean
LEMMA VerdictKinds ==
    ASSUME NEW s, NEW d, d.place \in Place, NEW t, NEW n
    PROVE  /\ Verdict(s, d, t, n) \in {"exchange", "hands"} => d.place \in Player
           /\ Verdict(s, d, t, n) = "exchange" =>
                /\ s.inv[d.place][d.slot] # NoThing
                /\ ~({s.inv[d.place][d.slot], t} \subseteq Stack)
<1>1. CASE d.place \in Player
  <2>1. Verdict(s, d, t, n) = PlayerVerdict(s, d.place, d.slot, t, n)
    BY <1>1, Constants, Zenon DEF Verdict
  <2>2. HandVerdict(s, d.place, d.slot, t) # "exchange"
    BY DEF HandVerdict
  <2> QED BY <1>1, <2>1, <2>2 DEF PlayerVerdict
<1>2. CASE d.place \in Container
  <2>1. Verdict(s, d, t, n) = BagVerdict(s, d.place, d.item, t, n)
    BY <1>2, Constants, Zenon DEF Verdict
  <2>2. BagVerdict(s, d.place, d.item, t, n) \in {"ok", "no"}
    BY DEF BagVerdict
  <2> QED BY <2>1, <2>2
<1>3. CASE d.place \in Tile
  <2>1. Verdict(s, d, t, n) = TileVerdict(s, d.place)
    BY <1>3, Constants, Zenon DEF Verdict
  <2>2. TileVerdict(s, d.place) \in {"ok", "no"}
    BY DEF TileVerdict
  <2> QED BY <2>1, <2>2
<1> QED BY <1>1, <1>2, <1>3 DEF Place

\* internalMoveItem
LEMMA MovedGood ==
    ASSUME NEW s, Good(s), at \in [Player -> Tile], NEW to, Sent(s, to),
           NEW t \in Thing, InPlace(s, t), NEW n \in Nat, NEW r \in Moved(s, to, t, n)
    PROVE  Good(r) /\ Kept(s, r, t)
<1>1. PICK d \in Destinations(s, to, t) :
        r \in CASE d.item = t -> {s}
                [] d.item # t /\ Verdict(s, d, t, n) = "ok" -> Shifts(s, d, t, n)
                [] d.item # t /\ Verdict(s, d, t, n) = "exchange" -> Exchanges(s, d, t, n)
                [] d.item # t /\ Verdict(s, d, t, n) = "hands" -> HandsFreed(s, d.place, d.slot, t)
                [] OTHER -> {s}
  BY Zenon DEF Moved
<1> DEFINE v == Verdict(s, d, t, n)
<1>2. s \in Stores /\ Placed(s)
  BY DEF Good, Sound
<1>3. Spot(s, d)
  BY <1>2, DestinationSpots
<1>4. d.place \in Place
  BY <1>3 DEF Spot
<1>5. \/ r = s
      \/ d.item # t /\ v = "ok" /\ r \in Shifts(s, d, t, n)
      \/ d.item # t /\ v = "exchange" /\ r \in Exchanges(s, d, t, n)
      \/ d.item # t /\ v = "hands" /\ r \in HandsFreed(s, d.place, d.slot, t)
  <2> HIDE DEF v
  <2>1. r \in CASE d.item = t -> {s}
                [] d.item # t /\ v = "ok" -> Shifts(s, d, t, n)
                [] d.item # t /\ v = "exchange" -> Exchanges(s, d, t, n)
                [] d.item # t /\ v = "hands" -> HandsFreed(s, d.place, d.slot, t)
                [] OTHER -> {s}
    BY <1>1 DEF v
  <2> QED BY <2>1
<1>6. CASE r = s
  BY <1>6, KeptSame
<1>7. CASE d.item # t /\ v = "ok" /\ r \in Shifts(s, d, t, n)
  <2>1. d.place \in Player => d.slot \in Slot
    BY <1>3, <1>7, SlotAsked
  <2>2. Target(s, d, t)
    BY <1>3, <1>7, <2>1, SpotIsTarget
  <2> QED BY <1>7, <2>2, ShiftsGood
<1>8. CASE d.item # t /\ v = "exchange" /\ r \in Exchanges(s, d, t, n)
  <2>1. d.place \in Player /\ s.inv[d.place][d.slot] # NoThing /\ ~({s.inv[d.place][d.slot], t} \subseteq Stack)
    BY <1>4, <1>8, VerdictKinds
  <2>2. d.slot \in Slot
    BY <1>3, <1>8, <2>1, SlotAsked
  <2>3. d.item = s.inv[d.place][d.slot]
    BY <1>3, <2>1, <2>2, Constants DEF Spot
  <2>4. Worn(s, d, t)
    BY <1>3, <1>8, <2>1, <2>2, <2>3 DEF Worn
  <2> QED BY <1>8, <2>4, ExchangesGood
<1>9. CASE d.item # t /\ v = "hands" /\ r \in HandsFreed(s, d.place, d.slot, t)
  <2>1. d.place \in Player
    BY <1>4, <1>9, VerdictKinds
  <2>2. d.slot \in Slot
    BY <1>3, <1>9, <2>1, SlotAsked
  <2>3. s.inv[d.place][d.slot] \notin Container
    BY <1>3, <2>1, <2>2, Constants DEF Spot
  <2> DEFINE p == d.place
             k == d.slot
  <2>4. p \in Player /\ k \in Slot /\ s.inv[p][k] \notin Container /\ r \in HandsFreed(s, p, k, t)
    BY <1>9, <2>1, <2>2, <2>3
  <2> HIDE DEF p, k
  <2> QED BY <2>4, HandsFreedGood
<1> QED BY <1>5, <1>6, <1>7, <1>8, <1>9

-----------------------------------------------------------------------------
(* A new stack is given to a player, or laid at his feet.                  *)

\* n pieces more, and nothing else
Filled(s, r, n) ==
    /\ Good(r) /\ Pieces(r) = Pieces(s) + n
    /\ \A x \in Thing \ Stack : r.parent[x] = s.parent[x]

\* h is s with the stack f of n in hand.
Handing(s, h, f, n) ==
    /\ Good(s) /\ f \in Stack /\ s.units[f] = 0 /\ n \in 1 .. MaxStack
    /\ h = Numbered(s, f, n)

\* It has n pieces more, and weighs nobody down yet.
InHands(s, h, f, n) ==
    /\ Sound(h, {f}) /\ h.units[f] = n
    /\ h.parent = s.parent /\ h.inv = s.inv /\ h.inside = s.inside
    /\ h.carried = s.carried /\ h.amount = s.amount
    /\ s.parent[f] = Nowhere
    /\ Pieces(h) = Pieces(s) + n /\ Weight(h, f) = Heft[f] * n
    /\ \A p \in Player : LoadOf(h, p) = LoadOf(s, p)

\* The new stack is in hand, and counted as pieces.
LEMMA HandingStep ==
    ASSUME NEW s, NEW h, NEW f, NEW n, Handing(s, h, f, n)
    PROVE  InHands(s, h, f, n)
<1> USE DEF Handing
<1>1. Sound(s, {}) /\ s \in Stores /\ InUse(s, {})
  BY DEF Good, Sound
<1>2. f \in Stack /\ s.parent[f] = Nowhere /\ n \in 0 .. MaxStack /\ n # 0 /\ n \in Nat
  BY <1>1, Constants DEF InUse
<1>3. NumberedAs(s, h, f, n, IF n = 0 THEN {} \ {f} ELSE {} \cup {f})
  BY <1>1, <1>2, NumberStep
<1>4. (IF n = 0 THEN {} \ {f} ELSE {} \cup {f}) = {f}
  BY <1>2
<1>5. NumberedAs(s, h, f, n, {f})
  BY <1>3, <1>4
<1>6. h.units[f] = n
  <2>1. s.units \in [Stack -> 0 .. MaxStack]
    BY <1>1, StoreTypes
  <2> QED BY <1>2, <1>5, <2>1 DEF NumberedAs
<1>7. Pieces(h) = Pieces(s) + n
  <2>1. Pieces(s) \in Nat /\ Pieces(h) = Pieces(s) + (n - 0)
    BY <1>1, <1>5, PiecesType DEF NumberedAs
  <2> QED BY <1>2, <2>1
<1> QED BY <1>2, <1>5, <1>6, <1>7 DEF NumberedAs, InHands

\* Given to a player who has room for it
LEMMA GivenFits ==
    ASSUME NEW s, NEW h, NEW f, NEW n, Handing(s, h, f, n), NEW p \in Player,
           NEW d \in RoomFor(h, p, f), Verdict(h, d, f, n) = "ok",
           NEW r, r = Weighed(Put(h, d.place, d.slot, f), {p})
    PROVE  Filled(s, r, n)
<1> DEFINE pl == d.place
           k == d.slot
           q == Put(h, pl, k, f)
<1>0. /\ Good(s) /\ s \in Stores /\ Placed(s) /\ Carried(s) /\ Limits(s)
      /\ f \in Stack /\ f \in Thing /\ f \notin Container /\ n \in Nat /\ n > 0
  BY Constants DEF Handing, Good, Sound
<1>1. /\ Sound(h, {f}) /\ h.units[f] = n
      /\ h.parent = s.parent /\ h.inv = s.inv /\ h.inside = s.inside
      /\ h.carried = s.carried /\ h.amount = s.amount
      /\ s.parent[f] = Nowhere
      /\ Pieces(h) = Pieces(s) + n /\ Weight(h, f) = Heft[f] * n
      /\ \A x \in Player : LoadOf(h, x) = LoadOf(s, x)
  BY HandingStep DEF InHands
<1>2. h \in Stores /\ Placed(h)
  BY <1>1 DEF Sound
<1>3. Roomy(h, p, d)
  BY <1>2, RoomSpots
<1>4. /\ Spot(h, d) /\ d.item = NoThing /\ Holder(h, pl) = p /\ pl \in Place
      /\ pl \in Container => h.parent[pl] # Nowhere
      /\ pl \in Player => pl = p /\ k \in Slot /\ h.inv[pl][k] = NoThing
  <2>1. pl \in Player => k \in Slot
    BY <1>3, SlotAsked DEF Roomy
  <2> QED BY <1>3, <2>1 DEF Roomy, Spot
<1>5. f \notin UpFrom(h.parent, pl)
  BY <1>0, UpFromType
<1>6. /\ HasCapacity(h, p, f, n)
      /\ pl \in Container /\ MaxAmount > 0 =>
           \A c \in UpFrom(h.parent, pl) : h.amount[c] + Amount(h, f) <= MaxAmount + 1
      /\ pl \in Container => Cardinality(h.inside[pl]) < Room[pl]
      /\ pl \in Player /\ k \in Hand => HandVerdict(h, pl, k, f) = "ok"
  BY <1>0, <1>4, VerdictAsks
<1>7. PutInto(h, q, f, pl, k)
  <2> HIDE DEF q, k, pl
  <2>1. f \in Stack => h.units[f] > 0
    BY <1>0, <1>1
  <2> QED BY <1>0, <1>1, <1>4, <1>5, <2>1, PutStep DEF q
<1> HIDE DEF q
<1>8. /\ Sound(q, {}) /\ q.carried = s.carried /\ q.units = h.units
      /\ q.parent = [s.parent EXCEPT ![f] = pl]
      /\ \A x \in Player, j \in Slot : q.inv[x][j] = IF x = pl /\ j = k THEN f ELSE s.inv[x][j]
      /\ \A x \in Container \cup Tile : q.inside[x] = s.inside[x] \cup IF x = pl THEN {f} ELSE {}
      /\ \A b \in Container :
           q.amount[b] = h.amount[b] + IF b \in UpFrom(h.parent, pl) THEN Amount(h, f) ELSE 0
      /\ \A x \in Player : LoadOf(q, x) = LoadOf(s, x) + IF x = p THEN Heft[f] * n ELSE 0
  <2>1. \A x \in Player : LoadOf(q, x) = LoadOf(h, x) + IF x = p THEN Heft[f] * n ELSE 0
    BY <1>1, <1>4, <1>7 DEF PutInto
  <2> QED BY <1>1, <1>7, <2>1 DEF PutInto
<1>9. /\ r \in Stores /\ Placed(r) /\ Counted(r)
      /\ r.parent = q.parent /\ r.inv = q.inv /\ r.inside = q.inside
      /\ r.units = q.units /\ r.amount = q.amount
      /\ \A x \in Player : /\ LoadOf(r, x) = LoadOf(q, x)
                           /\ r.carried[x] = IF x \in {p} THEN LoadOf(q, x) ELSE q.carried[x]
  <2> DEFINE X == {p}
  <2>1. q \in Stores /\ Placed(q) /\ Counted(q)
    BY <1>8 DEF Sound
  <2>2. r = Weighed(q, X) /\ \A x : x \in X <=> x \in {p}
    BY DEF q
  <2> HIDE DEF X
  <2>3. WeighedAs(q, r, X)
    BY <2>1, <2>2, WeighedCounts
  <2> QED BY <2>2, <2>3 DEF WeighedAs
<1>10. Sound(r, {})
  BY <1>8, <1>9 DEF Sound, InUse
<1>11. Heft[f] * n \in Nat /\ \A x \in Player : LoadOf(s, x) \in Nat /\ s.carried[x] \in Nat /\ Strength[x] \in Nat
  BY <1>0, Constants, Product, InventoryType, StoreTypes, StorageConstants
<1>12. ASSUME NEW x \in Player
       PROVE  /\ LoadOf(r, x) <= r.carried[x]
              /\ Forgot(r, x) = {} => r.carried[x] = LoadOf(r, x)
  <2>1. CASE x = p
    <3>1. r.carried[x] = LoadOf(r, x) /\ LoadOf(r, x) \in Nat
      BY <1>9, <2>1, InventoryType
    <3> QED BY <3>1
  <2>2. CASE x # p
    <3>1. LoadOf(r, x) = LoadOf(s, x) /\ r.carried[x] = s.carried[x]
      <4>1. LoadOf(q, x) = LoadOf(s, x) + 0 /\ LoadOf(s, x) \in Nat
        BY <1>8, <1>11, <2>2
      <4>2. LoadOf(r, x) = LoadOf(q, x) /\ r.carried[x] = q.carried[x]
        BY <1>9, <2>2
      <4> QED BY <1>8, <4>1, <4>2
    <3>2. Forgot(s, x) \subseteq Forgot(r, x)
      <4>1. SUFFICES ASSUME NEW y \in Forgot(s, x) PROVE y \in Forgot(r, x)
        OBVIOUS
      <4>2. y \in Thing /\ s.parent[y] = x /\ y \notin Inventory(s, x)
        BY DEF Forgot
      <4>3. y # f
        BY <1>1, <4>2, Constants DEF Place
      <4>4. r.parent[y] = x
        BY <1>0, <1>8, <1>9, <4>2, <4>3, StoreTypes
      <4>5. \A j \in Slot : r.inv[x][j] = s.inv[x][j]
        BY <1>4, <1>8, <1>9, <2>2
      <4>6. Inventory(r, x) = Inventory(s, x)
        BY <4>5 DEF Inventory
      <4> QED BY <4>2, <4>4, <4>6 DEF Forgot
    <3> QED BY <1>0, <3>1, <3>2 DEF Carried
  <2> QED BY <2>1, <2>2
<1>13. ASSUME NEW b \in Container PROVE Cardinality(r.inside[b]) <= Room[b]
  <2> DEFINE I == s.inside[b]
  <2>1. I \in SUBSET Thing /\ Cardinality(I) <= Room[b] /\ Room[b] \in Nat
    BY <1>0, StoreTypes, StorageConstants DEF Limits
  <2>2. IsFiniteSet(I) /\ Cardinality(I) \in Nat
    BY <2>1, Constants, FS_Subset, FS_CardinalityType
  <2>3. r.inside[b] = I \cup IF b = pl THEN {f} ELSE {}
    BY <1>8, <1>9
  <2>4. b = pl => Cardinality(I) < Room[b]
    BY <1>1, <1>6
  <2> HIDE DEF I
  <2>5. CASE b = pl /\ f \notin I
    <3>1. Cardinality(I \cup {f}) = Cardinality(I) + 1
      BY <2>2, <2>5, FS_AddElement
    <3>2. r.inside[b] = I \cup {f}
      BY <2>3, <2>5
    <3>3. Cardinality(r.inside[b]) = Cardinality(I) + 1
      BY <3>1, <3>2
    <3> QED BY <2>1, <2>2, <2>4, <2>5, <3>3
  <2>6. CASE b # pl \/ f \in I
    <3>1. I \cup {f} = I \/ b # pl
      BY <2>6
    <3>2. r.inside[b] = I
      BY <2>3, <3>1
    <3> QED BY <2>1, <3>2
  <2> QED BY <2>5, <2>6
<1>14. ASSUME MaxAmount > 0, NEW b \in Container PROVE r.amount[b] <= MaxAmount + 1
  <2>1. /\ s.amount[b] \in Nat /\ MaxAmount \in Nat /\ s.amount[b] <= MaxAmount + 1
        /\ r.amount[b] = s.amount[b] + IF b \in UpFrom(h.parent, pl) THEN Amount(h, f) ELSE 0
    BY <1>0, <1>1, <1>8, <1>9, <1>14, StoreTypes, StorageConstants DEF Limits
  <2>2. b \in UpFrom(h.parent, pl) => s.amount[b] + Amount(h, f) <= MaxAmount + 1
    BY <1>1, <1>6, <1>14 DEF UpFrom
  <2> QED BY <2>1, <2>2
<1>15. ASSUME NEW x \in Player PROVE r.carried[x] < Strength[x] \/ r.carried[x] = 0
  <2>1. CASE x = p
    <3>1. Holder(h, f) # p
      <4>1. TopOf(h.parent, f) = Nowhere
        BY <1>1, <1>2, TopUnfolds, Constants DEF Placed
      <4> QED BY <1>0, <4>1, Constants DEF Holder, Place
    <3>2. Heft[f] * n < Strength[p] - s.carried[p]
      BY <1>0, <1>1, <1>6, <3>1 DEF HasCapacity
    <3>3. r.carried[p] = LoadOf(s, p) + Heft[f] * n /\ LoadOf(s, p) <= s.carried[p]
      BY <1>0, <1>8, <1>9 DEF Carried
    <3> DEFINE W == Heft[f] * n
    <3>4. W \in Nat /\ W < Strength[p] - s.carried[p] /\ r.carried[p] = LoadOf(s, p) + W
      BY <1>11, <3>2, <3>3
    <3> HIDE DEF W
    <3> QED BY <1>11, <2>1, <3>3, <3>4
  <2>2. CASE x # p
    <3>1. r.carried[x] = s.carried[x]
      BY <1>8, <1>9, <2>2
    <3> QED BY <1>0, <3>1 DEF Limits
  <2> QED BY <2>1, <2>2
<1>16. ASSUME NEW x \in Player, NEW g \in Hand, r.inv[x][g] \in TwoHanded
       PROVE  r.inv[x][Other(g)] = NoThing
  <2>1. g \in Slot /\ Other(g) \in Slot /\ Other(g) \in Hand /\ Other(g) # g /\ Other(Other(g)) = g
    BY Hands
  <2>2. r.inv[x][g] # NoThing /\ r.inv[x][g] \notin Stack
    BY <1>16, StorageConstants DEF Thing
  <2>3. s.inv[x][g] = r.inv[x][g] /\ s.inv[x][Other(g)] = NoThing
    <3>1. ~(x = pl /\ g = k)
      BY <1>0, <1>8, <1>9, <2>1, <2>2
    <3>2. s.inv[x][g] = r.inv[x][g]
      BY <1>8, <1>9, <2>1, <3>1
    <3> QED BY <1>0, <1>16, <3>2 DEF Limits
  <2>4. ~(x = pl /\ Other(g) = k)
    <3>1. SUFFICES ASSUME x = pl, Other(g) = k PROVE FALSE
      OBVIOUS
    <3>2. HandVerdict(h, x, Other(g), f) = "ok"
      BY <1>6, <2>1, <3>1
    <3>3. h.inv[x][g] \in TwoHanded /\ h.inv[x][g] # NoThing /\ f \notin TwoHanded
      BY <1>0, <1>1, <1>16, <2>2, <2>3, StorageConstants
    <3> QED BY <2>1, <3>2, <3>3 DEF HandVerdict
  <2> QED BY <1>8, <1>9, <2>1, <2>3, <2>4
<1>17. Pieces(r) = Pieces(s) + n
  BY <1>1, <1>8, <1>9 DEF Pieces
<1>18. ASSUME NEW x \in Thing \ Stack PROVE r.parent[x] = s.parent[x]
  BY <1>0, <1>8, <1>9, StoreTypes
<1>19. Good(r)
  BY <1>10, <1>12, <1>13, <1>14, <1>15, <1>16 DEF Good, Carried, Limits
<1> QED BY <1>17, <1>18, <1>19 DEF Filled

\* A store that differs from a good one only by what lies on tiles
Underfoot(s, r, f) ==
    /\ Sound(r, {}) /\ r.carried = s.carried /\ r.amount = s.amount
    /\ \A p \in Player, k \in Slot : r.inv[p][k] = s.inv[p][k]
    /\ \A b \in Container : r.inside[b] = s.inside[b]
    /\ \A p \in Player : LoadOf(r, p) = LoadOf(s, p)
    /\ f \in Stack /\ \A x \in Thing \ {f} : r.parent[x] = s.parent[x]
    /\ s.parent[f] \notin Player

\* What comes to lie on a tile is on nobody's account.
LEMMA UnderfootGood ==
    ASSUME NEW s, Good(s), NEW r, NEW f, Underfoot(s, r, f)
    PROVE  Good(r) /\ \A x \in Thing \ Stack : r.parent[x] = s.parent[x]
<1> USE DEF Underfoot
<1>1. ASSUME NEW p \in Player
      PROVE  /\ LoadOf(r, p) <= r.carried[p]
             /\ Forgot(r, p) = {} => r.carried[p] = LoadOf(r, p)
  <2>1. Inventory(r, p) = Inventory(s, p)
    BY DEF Inventory
  <2>2. ASSUME NEW x \in Forgot(s, p) PROVE x \in Forgot(r, p)
    <3>1. x \in Thing /\ s.parent[x] = p /\ x \notin Inventory(s, p)
      BY DEF Forgot
    <3>2. x # f
      BY <3>1
    <3> QED BY <2>1, <3>1, <3>2 DEF Forgot
  <2> QED BY <2>2 DEF Good, Carried
<1>2. Limits(r)
  <2>1. Hand \subseteq Slot /\ \A k \in Hand : Other(k) \in Slot
    BY Hands
  <2>2. Limits(s)
    BY DEF Good
  <2>3. \A p \in Player, k \in Hand : r.inv[p][k] \in TwoHanded => r.inv[p][Other(k)] = NoThing
    BY <2>1, <2>2 DEF Limits
  <2> QED BY <2>2, <2>3 DEF Limits
<1>3. \A x \in Thing \ Stack : x # f
  OBVIOUS
<1> QED BY <1>1, <1>2, <1>3 DEF Good, Carried

\* internalAddItem of the new stack to a tile
LEMMA LaidGood ==
    ASSUME NEW s, NEW h, NEW f, NEW n, Handing(s, h, f, n), NEW l \in Tile, NEW r \in Laid(h, l, f)
    PROVE  Filled(s, r, n)
<1> DEFINE to == To(l, NoSlot, NoThing)
<1>0. /\ Good(s) /\ s \in Stores
      /\ f \in Stack /\ f \in Thing /\ f \notin Container /\ n \in Nat /\ n > 0 /\ n <= MaxStack
      /\ MaxStack \in Nat
  BY Constants DEF Handing, Good, Sound
<1>1. /\ Sound(h, {f}) /\ h.units[f] = n
      /\ h.parent = s.parent /\ h.inv = s.inv /\ h.inside = s.inside
      /\ h.carried = s.carried /\ h.amount = s.amount
      /\ s.parent[f] = Nowhere
      /\ Pieces(h) = Pieces(s) + n
      /\ \A p \in Player : LoadOf(h, p) = LoadOf(s, p)
  <2>1. InHands(s, h, f, n)
    BY HandingStep
  <2> QED BY <2>1 DEF InHands
<1>2. h \in Stores /\ Placed(h) /\ Pieces(s) \in Nat
  BY <1>0, <1>1, PiecesType DEF Sound
<1>3. l \in Place /\ l \notin Player /\ l \notin Container /\ l \notin Thing /\ l # Nowhere
  BY Constants DEF Place
<1>4. PICK d \in Destinations(h, to, f) :
        r = LET joined == IF d.item \in Stack THEN Min({MaxStack - h.units[d.item], h.units[f]}) ELSE 0
                grown == IF joined > 0 THEN Grow(h, d.item, joined) ELSE h
                rest == h.units[f] - joined
            IN  IF rest = 0 THEN [grown EXCEPT !.units[f] = 0]
                ELSE Put([grown EXCEPT !.units[f] = rest], l, NoSlot, f)
  BY Zenon DEF Laid
<1> DEFINE j == Joining(h, d, f, n)
           g == IF j > 0 THEN Grow(h, d.item, j) ELSE h
           rest == n - j
           w == Numbered(g, f, rest)
<1>5. Spot(h, d) /\ d.place = l
  <2>1. to.place = l
    BY DEF To
  <2> HIDE DEF to
  <2>2. Sent(h, to)
    BY <1>3, <2>1 DEF Sent
  <2> QED BY <1>2, <2>1, <2>2, DestinationSpots
<1>6. /\ j \in Nat /\ j <= n /\ (j > 0 => d.item \in Stack)
      /\ d.item \in Stack => h.units[d.item] + j <= MaxStack
  BY <1>0, <1>2, JoiningType
<1>7. r = IF rest = 0 THEN Numbered(g, f, 0) ELSE Put(w, l, NoSlot, f)
  <2>1. j = IF d.item \in Stack THEN Min({MaxStack - h.units[d.item], n}) ELSE 0
    BY <1>0 DEF Joining
  <2> QED BY <1>1, <1>4, <2>1 DEF Numbered
<1>8. /\ Sound(g, {f}) /\ g.parent = s.parent /\ g.inv = s.inv /\ g.inside = s.inside
      /\ g.carried = s.carried /\ g.amount = s.amount /\ g.units[f] = n
      /\ Pieces(g) = Pieces(s) + n + j
      /\ \A p \in Player : LoadOf(g, p) = LoadOf(s, p)
  <2>1. CASE j = 0
    <3>1. g = h /\ Pieces(s) + n = Pieces(s) + n + j
      BY <1>0, <1>2, <2>1
    <3> QED BY <1>1, <3>1
  <2>2. CASE j > 0
    <3> DEFINE x == d.item
    <3>1. x \in Stack /\ x \in Thing /\ h.parent[x] = l
      BY <1>3, <1>5, <1>6, <2>2, Constants DEF Spot
    <3>2. x # f
      BY <1>1, <1>3, <3>1
    <3>3. InPlace(h, x)
      BY <1>3, <3>1 DEF InPlace
    <3>4. g = Grow(h, x, j) /\ h.units[x] + j <= MaxStack
      BY <1>6, <2>2, <3>1
    <3> HIDE DEF x, j, g
    <3>5. GrownBy(h, g, x, j, {f})
      <4> DEFINE H == {f}
      <4>1. Sound(h, H) /\ x \in Stack \ H
        BY <1>1, <3>1, <3>2
      <4> HIDE DEF H
      <4>2. GrownBy(h, g, x, j, H)
        BY <1>6, <3>3, <3>4, <4>1, GrowStep
      <4> QED BY <4>2 DEF H
    <3>6. Holder(h, x) = l
      BY <1>2, <1>3, <3>1, TopUnfolds DEF Holder, Placed
    <3>7. \A p \in Player : LoadOf(g, p) = LoadOf(s, p)
      <4>1. \A p \in Player : LoadOf(g, p) = LoadOf(h, p) + 0
        BY <1>3, <3>5, <3>6 DEF GrownBy
      <4>2. \A p \in Player : LoadOf(h, p) \in Nat
        BY <1>2, InventoryType
      <4> QED BY <1>1, <4>1, <4>2
    <3>8. g.units[f] = n
      <4>1. h.units \in [Stack -> 0 .. MaxStack]
        BY <1>2, StoreTypes
      <4> QED BY <1>0, <1>1, <3>1, <3>2, <3>5, <4>1 DEF GrownBy
    <3> QED BY <1>1, <3>5, <3>7, <3>8 DEF GrownBy
  <2> QED BY <1>6, <2>1, <2>2
<1> HIDE DEF g, j
<1>9. rest \in 0 .. MaxStack /\ rest \in Nat
  BY <1>0, <1>6
<1>10. g.parent[f] = Nowhere
  BY <1>1, <1>8
<1>11. CASE rest = 0
  <2>1. r = Numbered(g, f, 0) /\ 0 \in 0 .. MaxStack
    BY <1>0, <1>7, <1>11
  <2>2. NumberedAs(g, r, f, 0, IF 0 = 0 THEN {f} \ {f} ELSE {f} \cup {f})
    <3> DEFINE H == {f}
    <3> HIDE DEF H
    <3>1. Sound(g, H)
      BY <1>8 DEF H
    <3>2. NumberedAs(g, r, f, 0, IF 0 = 0 THEN H \ {f} ELSE H \cup {f})
      BY <1>0, <1>10, <2>1, <3>1, NumberStep
    <3> QED BY <3>2 DEF H
  <2>3. (IF 0 = 0 THEN {f} \ {f} ELSE {f} \cup {f}) = {}
    OBVIOUS
  <2>4. NumberedAs(g, r, f, 0, {})
    BY <2>2, <2>3
  <2>5. Pieces(r) = Pieces(s) + n
    <3>1. Pieces(r) = Pieces(g) + (0 - n)
      BY <1>8, <2>4 DEF NumberedAs
    <3>2. j = n
      BY <1>0, <1>6, <1>11
    <3> QED BY <1>0, <1>2, <1>8, <3>1, <3>2
  <2>6. Underfoot(s, r, f)
    BY <1>0, <1>1, <1>8, <2>4, Constants DEF Underfoot, NumberedAs, Place
  <2> QED BY <1>0, <2>5, <2>6, UnderfootGood DEF Filled
<1>12. CASE rest # 0
  <2>1. r = Put(w, l, NoSlot, f) /\ rest > 0
    BY <1>7, <1>9, <1>12
  <2> DEFINE v == rest
  <2>2. NumberedAs(g, w, f, v, {f})
    <3> DEFINE H == {f}
    <3>1. Sound(g, H) /\ v \in 0 .. MaxStack /\ v # 0 /\ w = Numbered(g, f, v)
      BY <1>8, <1>9, <1>12
    <3> HIDE DEF H, v, w, rest
    <3>2. NumberedAs(g, w, f, v, IF v = 0 THEN H \ {f} ELSE H \cup {f})
      BY <1>0, <1>10, <3>1, NumberStep
    <3>3. (IF v = 0 THEN H \ {f} ELSE H \cup {f}) = {f}
      BY <3>1 DEF H
    <3> QED BY <3>2, <3>3
  <2>3. /\ Sound(w, {f}) /\ w.parent = s.parent /\ w.inv = s.inv /\ w.inside = s.inside
        /\ w.carried = s.carried /\ w.amount = s.amount
        /\ w.units = [g.units EXCEPT ![f] = v]
        /\ Pieces(w) = Pieces(g) + (v - n)
        /\ \A p \in Player : LoadOf(w, p) = LoadOf(s, p)
    <3> HIDE DEF v, w, rest
    <3> QED BY <1>8, <2>2 DEF NumberedAs
  <2>4. w.units[f] > 0
    <3>1. g.units \in [Stack -> 0 .. MaxStack]
      BY <1>8, StoreTypes DEF Sound
    <3> HIDE DEF w
    <3> QED BY <1>0, <2>1, <2>3, <3>1
  <2>5. f \notin UpFrom(w.parent, l)
    BY <1>3 DEF UpFrom
  <2>6. PutInto(w, r, f, l, NoSlot)
    <3> HIDE DEF w
    <3> QED BY <1>0, <1>3, <2>1, <2>3, <2>4, <2>5, PutStep
  <2> HIDE DEF w
  <2>7. /\ Sound(r, {}) /\ r.carried = s.carried /\ r.units = w.units
        /\ r.parent = [s.parent EXCEPT ![f] = l]
        /\ \A p \in Player, k \in Slot : r.inv[p][k] = s.inv[p][k]
        /\ \A b \in Container : r.inside[b] = s.inside[b]
    <3>1. \A p \in Player : p # l
      BY <1>3
    <3>2. \A b \in Container : b # l
      BY <1>3
    <3>3. \A b \in Container : r.inside[b] = s.inside[b] \cup {}
      BY <2>3, <2>6, <3>2 DEF PutInto
    <3>4. \A p \in Player, k \in Slot : r.inv[p][k] = s.inv[p][k]
      BY <2>3, <2>6, <3>1 DEF PutInto
    <3> QED BY <2>3, <2>6, <3>3, <3>4 DEF PutInto
  <2>8. r.amount = s.amount
    <3>1. r.amount \in [Container -> Nat] /\ s.amount \in [Container -> Nat]
      BY <1>0, <2>7, StoreTypes DEF Sound
    <3>2. UpFrom(w.parent, l) = {}
      BY <1>3 DEF UpFrom
    <3>3. \A b \in Container : r.amount[b] = s.amount[b] + 0
      BY <2>3, <2>6, <3>2 DEF PutInto
    <3>4. \A b \in Container : r.amount[b] = s.amount[b]
      BY <3>1, <3>3
    <3> QED BY <3>1, <3>4
  <2>9. \A p \in Player : LoadOf(r, p) = LoadOf(s, p)
    <3>1. Holder(w, l) = l
      BY <1>3 DEF Holder
    <3>2. \A p \in Player : LoadOf(r, p) = LoadOf(w, p) + 0
      BY <1>3, <2>6, <3>1 DEF PutInto
    <3>3. \A p \in Player : LoadOf(s, p) \in Nat
      BY <1>0, InventoryType
    <3> QED BY <2>3, <3>2, <3>3
  <2>10. Pieces(r) = Pieces(s) + n
    <3>1. Pieces(r) = Pieces(w)
      BY <2>7 DEF Pieces
    <3> QED BY <1>0, <1>2, <1>6, <1>8, <2>3, <3>1
  <2>11. Underfoot(s, r, f)
    <3>1. \A x \in Thing \ {f} : r.parent[x] = s.parent[x]
      BY <1>0, <2>7, StoreTypes
    <3> QED BY <1>0, <1>1, <2>7, <2>8, <2>9, <3>1, Constants DEF Underfoot, Place
  <2> QED BY <1>0, <2>10, <2>11, UnderfootGood DEF Filled
<1> QED BY <1>11, <1>12

\* internalPlayerAddItem and addMoney
LEMMA GivenGood ==
    ASSUME NEW s, NEW h, NEW f, NEW n, Handing(s, h, f, n), at \in [Player -> Tile],
           NEW p \in Player, NEW r \in Given(h, p, f)
    PROVE  Filled(s, r, n)
<1>1. h.units[f] = n
  <2>1. InHands(s, h, f, n)
    BY HandingStep
  <2> QED BY <2>1 DEF InHands
<1>2. PICK d \in RoomFor(h, p, f) :
        r \in IF Verdict(h, d, f, n) = "ok" /\ PlayerRoom(h, p, f, n) >= n
              THEN {Weighed(Put(h, d.place, d.slot, f), {p})} ELSE Laid(h, at[p], f)
  BY <1>1, Zenon DEF Given
<1>3. CASE Verdict(h, d, f, n) = "ok" /\ PlayerRoom(h, p, f, n) >= n
  <2>1. r = Weighed(Put(h, d.place, d.slot, f), {p})
    BY <1>2, <1>3
  <2> QED BY <1>3, <2>1, GivenFits
<1>4. CASE ~(Verdict(h, d, f, n) = "ok" /\ PlayerRoom(h, p, f, n) >= n)
  <2>1. r \in Laid(h, at[p], f) /\ at[p] \in Tile
    BY <1>2, <1>4
  <2> DEFINE l == at[p]
  <2> HIDE DEF l
  <2>2. r \in Laid(h, l, f) /\ l \in Tile
    BY <2>1 DEF l
  <2> QED BY <2>2, LaidGood
<1> QED BY <1>3, <1>4

-----------------------------------------------------------------------------
(* What is removed, and what was in it.                                    *)

\* G goes out of use.
Emptied(a, G) ==
    [a EXCEPT !.parent = [x \in Thing |-> IF x \in G THEN Nowhere ELSE @[x]],
              !.units = [x \in Stack |-> IF x \in G THEN 0 ELSE @[x]],
              !.inside = [b \in Container \cup Tile |-> IF b \in G THEN {} ELSE a.inside[b]],
              !.weight = [b \in Container |-> IF b \in G THEN 0 ELSE @[b]],
              !.amount = [b \in Container |-> IF b \in G THEN 1 ELSE @[b]]]

\* What Emptied does to the fields of a store
EmptiedFrom(a, b, G) ==
    /\ b \in Stores
    /\ b.inv = a.inv /\ b.carried = a.carried
    /\ \A x \in Thing : b.parent[x] = IF x \in G THEN Nowhere ELSE a.parent[x]
    /\ \A x \in Stack : b.units[x] = IF x \in G THEN 0 ELSE a.units[x]
    /\ \A x \in Container \cup Tile : b.inside[x] = IF x \in G THEN {} ELSE a.inside[x]
    /\ \A c \in Container : b.weight[c] = IF c \in G THEN 0 ELSE a.weight[c]
    /\ \A c \in Container : b.amount[c] = IF c \in G THEN 1 ELSE a.amount[c]

\* Emptied, field by field
LEMMA EmptiedFields ==
    ASSUME NEW a \in Stores, NEW G, NEW b, b = Emptied(a, G)
    PROVE  EmptiedFrom(a, b, G)
<1> DEFINE pa == [x \in Thing |-> IF x \in G THEN Nowhere ELSE a.parent[x]]
           un == [x \in Stack |-> IF x \in G THEN 0 ELSE a.units[x]]
           ins == [x \in Container \cup Tile |-> IF x \in G THEN {} ELSE a.inside[x]]
           we == [c \in Container |-> IF c \in G THEN 0 ELSE a.weight[c]]
           am == [c \in Container |-> IF c \in G THEN 1 ELSE a.amount[c]]
<1>1. /\ pa \in [Thing -> Place \cup {Nowhere}] /\ un \in [Stack -> 0 .. MaxStack]
      /\ ins \in [Container \cup Tile -> SUBSET Thing]
      /\ we \in [Container -> Nat] /\ am \in [Container -> Nat]
  BY StoreTypes, Constants
<1>2. b = [a EXCEPT !.parent = pa, !.units = un, !.inside = ins, !.weight = we, !.amount = am]
  BY DEF Emptied, Stores
<1>3. /\ \A x \in Thing : pa[x] = IF x \in G THEN Nowhere ELSE a.parent[x]
      /\ \A x \in Stack : un[x] = IF x \in G THEN 0 ELSE a.units[x]
      /\ \A x \in Container \cup Tile : ins[x] = IF x \in G THEN {} ELSE a.inside[x]
      /\ \A c \in Container : we[c] = IF c \in G THEN 0 ELSE a.weight[c]
      /\ \A c \in Container : am[c] = IF c \in G THEN 1 ELSE a.amount[c]
  OBVIOUS
<1> HIDE DEF pa, un, ins, we, am
<1>4. /\ b \in Stores /\ b.parent = pa /\ b.units = un /\ b.inside = ins
      /\ b.weight = we /\ b.amount = am /\ b.inv = a.inv /\ b.carried = a.carried
  BY <1>1, <1>2 DEF Stores
<1> QED BY <1>3, <1>4 DEF EmptiedFrom

\* Something lies in a container around a thing: the thing, or another around it.
LEMMA AroundHoldsSome ==
    ASSUME NEW l, NEW i, NEW c \in Around(l, i)
    PROVE  \E j \in {i} \cup Around(l, i) : l[j] = c
<1> DEFINE S == Around(l, i) \ {c}
<1>1. SUFFICES ASSUME \A j \in {i} \cup Around(l, i) : l[j] # c PROVE FALSE
  OBVIOUS
<1>2. S \in SUBSET Container /\ ClosedFrom(l, S, i)
  BY <1>1, AroundIsClosed DEF ClosedFrom
<1> HIDE DEF S
<1>3. Around(l, i) \subseteq S
  BY <1>2, AroundIsLeast
<1> QED BY <1>3 DEF S

\* t, and what goes along with it
Along(a, t) == {t} \cup Inner(a.parent, t)

\* What is outside of t keeps what is around it; what is in it has nothing around it.
LEMMA EmptiedAround ==
    ASSUME NEW a, NEW t \in Thing, a.parent[t] = Nowhere, NEW b,
           EmptiedFrom(a, b, Along(a, t)), NEW x \in Thing
    PROVE  /\ x \in Along(a, t) => Around(b.parent, x) = {}
           /\ x \notin Along(a, t) => /\ Around(b.parent, x) = Around(a.parent, x)
                                      /\ TopOf(b.parent, x) = TopOf(a.parent, x)
                                      /\ \A c \in Around(a.parent, x) : c \notin Along(a, t)
<1> DEFINE l == a.parent
           m == b.parent
<1>0. \A y \in Thing : m[y] = IF y \in Along(a, t) THEN Nowhere ELSE l[y]
  BY DEF EmptiedFrom
<1>1. CASE x \in Along(a, t)
  <2>1. m[x] \notin Container
    BY <1>0, <1>1, Constants
  <2>2. Around(m, x) = {}
    BY <2>1, AroundUnfolds
  <2> QED BY <1>1, <2>2
<1>2. CASE x \notin Along(a, t)
  <2>1. t \notin Around(l, x) /\ x # t
    BY <1>2 DEF Along, Inner
  <2>2. ASSUME NEW c \in Around(l, x) PROVE c \notin Along(a, t)
    <3>1. c # t
      BY <2>1
    <3>2. t \notin Around(l, c)
      BY <2>1, AroundIsTransitive
    <3> QED BY <3>1, <3>2 DEF Along, Inner
  <2>3. Around(l, x) \subseteq Thing
    BY AroundIsClosed, Constants
  <2>4. \A j \in {x} \cup Around(l, x) : m[j] = l[j]
    BY <1>0, <1>2, <2>2, <2>3
  <2> HIDE DEF l, m
  <2>5. Around(m, x) = Around(l, x) /\ TopOf(m, x) = TopOf(l, x)
    BY <2>4, AroundAgrees
  <2> QED BY <1>2, <2>2, <2>5 DEF l, m
<1> QED BY <1>1, <1>2

\* r is a without t, which was in hand, and what was in it.
Cleared(a, b, t) ==
    /\ Sound(b, {}) /\ EmptiedFrom(a, b, Along(a, t))
    /\ \A p \in Player : LoadOf(b, p) = LoadOf(a, p)
    /\ \A c \in Container : b.amount[c] <= a.amount[c]
    /\ Pieces(a) = Pieces(b) + SumFunctionOnSet(a.units, Along(a, t) \cap Stack)

\* When t, in hand, goes with all that is in it, the rest is as it was.
LEMMA ClearedStep ==
    ASSUME NEW a, NEW t \in Thing, Sound(a, {t}), NEW b, b = Emptied(a, Along(a, t))
    PROVE  Cleared(a, b, t)
<1> DEFINE G == Along(a, t)
           l == a.parent
           m == b.parent
<1>0. /\ a \in Stores /\ Placed(a) /\ Counted(a) /\ InUse(a, {t}) /\ Grounded(l)
      /\ l[t] = Nowhere /\ t \in G /\ G \in SUBSET Thing
  BY DEF Sound, InUse, Placed, Along, Inner
<1>1. EmptiedFrom(a, b, G)
  BY <1>0, EmptiedFields
<1>2. /\ b \in Stores
      /\ b.inv = a.inv /\ b.carried = a.carried
      /\ \A x \in Thing : m[x] = IF x \in G THEN Nowhere ELSE l[x]
      /\ \A x \in Stack : b.units[x] = IF x \in G THEN 0 ELSE a.units[x]
      /\ \A x \in Container \cup Tile : b.inside[x] = IF x \in G THEN {} ELSE a.inside[x]
      /\ \A c \in Container : b.weight[c] = IF c \in G THEN 0 ELSE a.weight[c]
      /\ \A c \in Container : b.amount[c] = IF c \in G THEN 1 ELSE a.amount[c]
  BY <1>1 DEF EmptiedFrom
<1>3. ASSUME NEW x \in Thing
      PROVE  /\ x \in G => Around(m, x) = {}
             /\ x \notin G => /\ Around(m, x) = Around(l, x)
                              /\ \A c \in Around(l, x) : c \notin G
  <2>1. a.parent[t] = Nowhere /\ EmptiedFrom(a, b, Along(a, t))
    BY <1>0, <1>1
  <2> QED BY <2>1, EmptiedAround
<1>4. ASSUME NEW x \in Thing, l[x] \in G PROVE x \in G
  <2>1. l[x] \in Container
    <3>1. l[x] \in Place \cup {Nowhere} /\ l[x] \in Thing
      BY <1>0, <1>4, StoreTypes
    <3> QED BY <3>1, Constants DEF Place
  <2>2. l[x] \in Around(l, x)
    BY <2>1, AroundUnfolds
  <2> QED BY <1>3, <1>4, <2>2
<1>5. ASSUME NEW x \in G PROVE x = t \/ l[x] \in G
  <2>1. CASE t \in Around(l, x)
    <3>1. l[x] \in Container /\ t \in {l[x]} \cup Around(l, l[x])
      BY <2>1, AroundUnfolds
    <3> QED BY <3>1, Constants DEF Along, Inner
  <2> QED BY <2>1 DEF Along, Inner
<1> HIDE DEF G
<1>6. \A p \in Player : p \notin G
  BY <1>0, Constants
<1>7. \A x \in Tile : x \notin G
  BY <1>0, Constants
<1>8. ASSUME NEW x \in G PROVE l[x] \notin Player
  BY <1>0, <1>5, <1>6, Constants DEF Place
<1>9. Placed(b)
  <2>1. Grounded(m)
    <3>1. ASSUME NEW S \in SUBSET Container, S # {} PROVE \E c \in S : m[c] \notin S
      <4>1. PICK c \in S : l[c] \notin S
        BY <1>0, <3>1 DEF Grounded
      <4>2. m[c] = l[c] \/ m[c] = Nowhere
        BY <1>2, Constants
      <4> QED BY <4>1, <4>2, Constants
    <3> QED BY <3>1 DEF Grounded
  <2>2. ASSUME NEW x \in Container \cup Tile PROVE b.inside[x] = {u \in Thing : m[u] = x}
    <3>1. a.inside[x] = {u \in Thing : l[u] = x}
      BY <1>0 DEF Placed
    <3>2. x # Nowhere
      BY Constants DEF Place
    <3>3. CASE x \in G
      <4>1. ASSUME NEW u \in Thing, m[u] = x PROVE FALSE
        <5>1. u \notin G /\ l[u] = x
          BY <1>2, <3>2, <4>1
        <5> QED BY <1>4, <3>3, <5>1
      <4> QED BY <1>2, <3>3, <4>1
    <3>4. CASE x \notin G
      <4>1. ASSUME NEW u \in Thing PROVE m[u] = x <=> l[u] = x
        <5>1. CASE u \in G
          <6>1. m[u] = Nowhere
            BY <1>2, <5>1
          <6>2. l[u] = Nowhere \/ l[u] \in G
            BY <1>0, <1>5, <5>1
          <6> QED BY <3>2, <3>4, <6>1, <6>2
        <5>2. CASE u \notin G
          BY <1>2, <5>2
        <5> QED BY <5>1, <5>2
      <4> QED BY <1>2, <3>1, <3>4, <4>1
    <3> QED BY <3>3, <3>4
  <2>3. ASSUME NEW p \in Player, NEW k \in Slot, b.inv[p][k] # NoThing
        PROVE  /\ m[b.inv[p][k]] = p
               /\ \A j \in Slot : b.inv[p][j] = b.inv[p][k] => j = k
    <3> DEFINE u == a.inv[p][k]
    <3>1. /\ u = b.inv[p][k] /\ u \in Thing /\ l[u] = p
          /\ \A j \in Slot : a.inv[p][j] = u => j = k
      BY <1>0, <1>2, <2>3, StoreTypes DEF Placed
    <3> HIDE DEF u
    <3>2. u \notin G
      BY <1>8, <3>1
    <3>3. m[u] = p
      BY <1>2, <3>1, <3>2
    <3> QED BY <1>2, <3>1, <3>3
  <2>4. ASSUME NEW p \in Player, NEW c \in Container, m[c] = p PROVE c \in Inventory(b, p)
    <3>1. p # Nowhere
      BY Constants DEF Place
    <3>2. l[c] = p
      BY <1>2, <2>4, <3>1, Constants
    <3>3. c \in Inventory(a, p)
      BY <1>0, <3>2 DEF Placed
    <3> QED BY <1>2, <3>3 DEF Inventory
  <2> QED BY <2>1, <2>2, <2>3, <2>4 DEF Placed
<1>10. ASSUME NEW u \in Thing \ G PROVE Weight(b, u) = Weight(a, u)
  <2>1. CASE u \in Container
    BY <1>2, <2>1, Weigh
  <2>2. CASE u \in Stack
    BY <1>2, <2>2, Weigh
  <2>3. CASE u \notin Container \cup Stack
    BY <2>3, Weigh
  <2> QED BY <2>1, <2>2, <2>3
<1>11. ASSUME NEW T \in SUBSET (Thing \ G) PROVE Load(b, T) = Load(a, T)
  BY <1>0, <1>10, LoadSame
<1>12. ASSUME NEW c \in Container
       PROVE  CountedAt(b, c) /\ b.amount[c] <= a.amount[c]
  <2>0. a.weight[c] = Load(a, a.inside[c]) /\ a.amount[c] = 1 + Cardinality(Inner(l, c))
    BY <1>0 DEF Counted, CountedAt
  <2>1. CASE c \in G
    <3>1. b.inside[c] = {} /\ b.weight[c] = 0 /\ b.amount[c] = 1
      BY <1>2, <2>1
    <3>2. Load(b, {}) = 0
      BY SumWithout, FS_EmptySet DEF Load
    <3>3. Inner(m, c) = {}
      <4>1. ASSUME NEW x \in Thing, c \in Around(m, x) PROVE FALSE
        <5>1. PICK j \in {x} \cup Around(m, x) : m[j] = c
          BY <4>1, AroundHoldsSome
        <5>2. j \in Thing
          BY AroundIsClosed, Constants
        <5>3. j \in b.inside[c]
          BY <1>9, <5>1, <5>2 DEF Placed
        <5> QED BY <3>1, <5>3
      <4> QED BY <4>1 DEF Inner
    <3>4. Cardinality({}) = 0
      BY FS_EmptySet
    <3>5. CountedAt(b, c)
      BY <3>1, <3>2, <3>3, <3>4 DEF CountedAt
    <3> HIDE DEF l
    <3> QED BY <2>0, <3>1, <3>5, InnerType
  <2>2. CASE c \notin G
    <3>1. b.inside[c] = a.inside[c] /\ b.weight[c] = a.weight[c] /\ b.amount[c] = a.amount[c]
      BY <1>2, <2>2
    <3>2. a.inside[c] \in SUBSET (Thing \ G)
      <4>1. \A u \in a.inside[c] : u \in Thing /\ l[u] = c
        BY <1>0 DEF Placed
      <4>2. \A u \in G : l[u] # c
        BY <1>0, <1>5, <2>2, Constants
      <4> QED BY <4>1, <4>2
    <3>3. Load(b, a.inside[c]) = Load(a, a.inside[c])
      BY <1>11, <3>2
    <3>4. Inner(m, c) = Inner(l, c)
      <4>1. ASSUME NEW x \in Thing PROVE c \in Around(m, x) <=> c \in Around(l, x)
        <5>1. CASE x \in G
          <6>1. Around(m, x) = {}
            BY <1>3, <5>1
          <6>2. c \notin Around(l, x)
            <7>1. SUFFICES ASSUME c \in Around(l, x) PROVE FALSE
              OBVIOUS
            <7>2. Around(l, t) = {}
              BY <1>0, AroundUnfolds, Constants
            <7>3. t \in Around(l, x)
              BY <5>1, <7>1, <7>2 DEF G, Along, Inner
            <7>4. c # t
              BY <1>0, <2>2
            <7>5. t \in Around(l, c)
              <8>1. c = t \/ c \in Around(l, t) \/ t \in Around(l, c)
                BY <7>1, <7>3, AroundIsAChain
              <8> QED BY <7>2, <7>4, <8>1
            <7> QED BY <2>2, <7>5, Constants DEF G, Along, Inner
          <6> QED BY <6>1, <6>2
        <5>2. CASE x \notin G
          BY <1>3, <5>2
        <5> QED BY <5>1, <5>2
      <4> QED BY <4>1 DEF Inner
    <3>5. a.amount[c] \in Nat
      BY <1>0, StoreTypes
    <3> QED BY <2>0, <3>1, <3>3, <3>4, <3>5 DEF CountedAt
  <2> QED BY <2>1, <2>2
<1>13. InUse(b, {})
  <2>1. \A x \in Stack : b.units[x] > 0 <=> m[x] # Nowhere
    BY <1>0, <1>2, Constants DEF InUse
  <2>2. \A c \in Container : m[c] = Nowhere => b.inside[c] = {}
    BY <1>0, <1>2, Constants DEF InUse
  <2> QED BY <2>1, <2>2 DEF InUse
<1>14. ASSUME NEW p \in Player PROVE LoadOf(b, p) = LoadOf(a, p)
  <2>1. Inventory(b, p) = Inventory(a, p)
    BY <1>2 DEF Inventory
  <2>2. Inventory(a, p) \in SUBSET (Thing \ G)
    <3>1. \A u \in Inventory(a, p) : u \in Thing /\ l[u] = p
      BY <1>0, InventoryType DEF Inventory, Placed
    <3> QED BY <1>8, <3>1
  <2> QED BY <1>11, <2>1, <2>2 DEF LoadOf
<1>15. Pieces(a) = Pieces(b) + SumFunctionOnSet(a.units, G \cap Stack)
  <2> DEFINE f == a.units
             g == b.units
             R == G \cap Stack
             U == Stack \ R
  <2>1. \A x \in Stack : f[x] \in Int /\ g[x] \in Int
    BY <1>0, <1>2, StoreTypes
  <2>2. (\A x \in R : g[x] = 0) /\ (\A x \in U : g[x] = f[x])
    BY <1>2
  <2>3. IsFiniteSet(Stack) /\ R \in SUBSET Stack /\ U \in SUBSET Stack /\ IsFiniteSet(U) /\ Stack \ U = R
    BY Constants, FS_Subset
  <2>4. U = Stack \ R
    OBVIOUS
  <2> HIDE DEF f, g, R, U
  <2>5. SumFunctionOnSet(g, U) = SumFunctionOnSet(g, Stack)
    BY <2>1, <2>2, <2>3, SumZeros
  <2>6. SumFunctionOnSet(g, U) = SumFunctionOnSet(f, U)
    BY <2>1, <2>2, <2>3, SumSame
  <2>7. SumFunctionOnSet(f, Stack) = SumFunctionOnSet(f, R) + SumFunctionOnSet(f, U)
    BY <2>1, <2>3, <2>4, SumSplit
  <2>8. SumFunctionOnSet(f, R) \in Int /\ SumFunctionOnSet(f, U) \in Int
    <3>1. IsFiniteSet(R) /\ (\A x \in R : f[x] \in Int) /\ (\A x \in U : f[x] \in Int)
      BY <2>1, <2>3, FS_Subset
    <3> QED BY <2>3, <3>1, SumEquation
  <2>9. SumFunctionOnSet(f, Stack) = SumFunctionOnSet(g, Stack) + SumFunctionOnSet(f, R)
    BY <2>5, <2>6, <2>7, <2>8
  <2> QED BY <2>9 DEF Pieces, f, g, R
<1>16. Sound(b, {})
  BY <1>2, <1>9, <1>12, <1>13 DEF Sound, Counted
<1> QED BY <1>1, <1>12, <1>14, <1>15, <1>16 DEF Cleared, G

\* c is s without t, or some of it, and without the things D.
Less(s, c, t, D) ==
    /\ Sound(c, {}) /\ c.carried = s.carried
    /\ \A x \in Thing : c.parent[x] = IF x \in D THEN Nowhere ELSE s.parent[x]
    /\ \A p \in Player, k \in Slot :
         \/ c.inv[p][k] = s.inv[p][k]
         \/ c.inv[p][k] = NoThing /\ s.inv[p][k] = t
    /\ \A b \in Container : c.inside[b] \subseteq s.inside[b] /\ c.amount[b] <= s.amount[b]
    /\ \A p \in Player : /\ LoadOf(c, p) <= LoadOf(s, p)
                         /\ p # Holder(s, t) => LoadOf(c, p) = LoadOf(s, p)
    /\ \A x \in D : x = t \/ s.parent[x] \notin Player

\* Whoever has less keeps to every limit.
LEMMA LessGood ==
    ASSUME NEW s, Good(s), NEW t \in Thing, InPlace(s, t), NEW D, NEW c, Less(s, c, t, D),
           NEW r, r = Weighed(c, {Holder(s, t)})
    PROVE  Good(r) /\ r.parent = c.parent /\ r.inv = c.inv /\ r.units = c.units
<1> DEFINE o == Holder(s, t)
<1>0. s \in Stores /\ Placed(s) /\ Carried(s) /\ Limits(s) /\ c \in Stores
  BY DEF Good, Sound, Less
<1>1. WeighedAs(c, r, {o})
  <2>1. c \in Stores /\ Placed(c) /\ Counted(c)
    BY DEF Less, Sound
  <2> DEFINE X == {o}
  <2> HIDE DEF X
  <2>2. r = Weighed(c, X)
    BY DEF X
  <2>3. WeighedAs(c, r, X)
    BY <2>1, <2>2, WeighedCounts
  <2> QED BY <2>3 DEF X
<1>2. /\ r \in Stores /\ Placed(r) /\ Counted(r)
      /\ r.parent = c.parent /\ r.inv = c.inv /\ r.inside = c.inside
      /\ r.units = c.units /\ r.amount = c.amount
      /\ \A p \in Player : /\ LoadOf(r, p) = LoadOf(c, p)
                           /\ r.carried[p] = IF p = o THEN LoadOf(c, p) ELSE s.carried[p]
  <2> HIDE DEF o
  <2> QED BY <1>1 DEF WeighedAs, Less
<1>3. Sound(r, {})
  BY <1>2 DEF Less, Sound, InUse
<1>4. \A p \in Player : /\ LoadOf(s, p) \in Nat /\ LoadOf(c, p) \in Nat
                        /\ s.carried[p] \in Nat /\ Strength[p] \in Nat
  BY <1>0, InventoryType, StoreTypes, StorageConstants
<1>5. ASSUME NEW p \in Player, p # o PROVE \A k \in Slot : s.inv[p][k] # t
  <2>1. SUFFICES ASSUME NEW k \in Slot, s.inv[p][k] = t PROVE FALSE
    OBVIOUS
  <2>2. s.parent[t] = p
    BY <1>0, <2>1, Constants DEF Placed
  <2>3. Holder(s, t) = p
    <3>1. Holder(s, t) = Holder(s, p)
      BY <1>0, <2>2, HolderOfPlace DEF Placed, Place
    <3>2. p \notin Thing
      BY Constants
    <3> QED BY <3>1, <3>2 DEF Holder
  <2> QED BY <1>5, <2>3
<1> HIDE DEF o
<1>6. ASSUME NEW p \in Player
      PROVE  /\ LoadOf(r, p) <= r.carried[p] /\ r.carried[p] <= s.carried[p]
             /\ Forgot(r, p) = {} => r.carried[p] = LoadOf(r, p)
  <2>1. CASE p = o
    <3>1. r.carried[p] = LoadOf(c, p) /\ LoadOf(r, p) = LoadOf(c, p)
      BY <1>2, <2>1
    <3>2. LoadOf(c, p) <= LoadOf(s, p) /\ LoadOf(s, p) <= s.carried[p]
      BY <1>0 DEF Less, Carried
    <3> QED BY <1>4, <3>1, <3>2
  <2>2. CASE p # o
    <3>1. r.carried[p] = s.carried[p] /\ LoadOf(r, p) = LoadOf(s, p)
      BY <1>2, <2>2 DEF Less, o
    <3>2. \A k \in Slot : r.inv[p][k] = s.inv[p][k]
      BY <1>2, <1>5, <2>2 DEF Less
    <3>3. Inventory(r, p) = Inventory(s, p)
      BY <3>2 DEF Inventory
    <3>4. ASSUME NEW y \in Forgot(s, p) PROVE y \in Forgot(r, p)
      <4>1. y \in Thing /\ s.parent[y] = p /\ y \notin Inventory(s, p)
        BY DEF Forgot
      <4>2. y # t
        BY <4>1 DEF InPlace
      <4>3. y \notin D
        BY <4>1, <4>2 DEF Less
      <4>4. r.parent[y] = p
        BY <1>2, <4>1, <4>3 DEF Less
      <4> QED BY <3>3, <4>1, <4>4 DEF Forgot
    <3>5. LoadOf(s, p) <= s.carried[p] /\ (Forgot(s, p) = {} => s.carried[p] = LoadOf(s, p))
      BY <1>0 DEF Carried
    <3> QED BY <1>4, <3>1, <3>4, <3>5
  <2> QED BY <2>1, <2>2
<1>7. ASSUME NEW b \in Container PROVE Cardinality(r.inside[b]) <= Room[b]
  <2> DEFINE I == s.inside[b]
             J == r.inside[b]
  <2>1. I \in SUBSET Thing /\ J \subseteq I /\ Cardinality(I) <= Room[b] /\ Room[b] \in Nat
    BY <1>0, <1>2, StoreTypes, StorageConstants DEF Limits, Less
  <2> HIDE DEF I, J
  <2>2. IsFiniteSet(I)
    BY <2>1, Constants, FS_Subset
  <2>3. IsFiniteSet(J) /\ Cardinality(J) <= Cardinality(I)
    BY <2>1, <2>2, FS_Subset
  <2>4. Cardinality(I) \in Nat /\ Cardinality(J) \in Nat
    BY <2>2, <2>3, FS_CardinalityType
  <2>5. Cardinality(J) <= Room[b]
    BY <2>1, <2>3, <2>4
  <2> QED BY <2>5 DEF J
<1>8. ASSUME MaxAmount > 0, NEW b \in Container PROVE r.amount[b] <= MaxAmount + 1
  <2>1. s.amount[b] \in Nat /\ c.amount[b] \in Nat /\ MaxAmount \in Nat
    BY <1>0, StoreTypes, StorageConstants
  <2>2. s.amount[b] <= MaxAmount + 1 /\ c.amount[b] <= s.amount[b]
    BY <1>0, <1>8 DEF Limits, Less
  <2> QED BY <1>2, <2>1, <2>2
<1>9. ASSUME NEW p \in Player PROVE r.carried[p] < Strength[p] \/ r.carried[p] = 0
  <2>1. r.carried[p] \in Nat /\ r.carried[p] <= s.carried[p]
    BY <1>2, <1>4, <1>6
  <2>2. s.carried[p] < Strength[p] \/ s.carried[p] = 0
    BY <1>0 DEF Limits
  <2> QED BY <1>4, <2>1, <2>2
<1>10. ASSUME NEW p \in Player, NEW k \in Hand, r.inv[p][k] \in TwoHanded
       PROVE  r.inv[p][Other(k)] = NoThing
  <2>1. k \in Slot /\ Other(k) \in Slot
    BY Hands
  <2>2. r.inv[p][k] # NoThing
    BY <1>10, StorageConstants DEF Thing
  <2>3. s.inv[p][k] = r.inv[p][k]
    BY <1>2, <2>1, <2>2 DEF Less
  <2>4. s.inv[p][Other(k)] = NoThing
    BY <1>0, <1>10, <2>3 DEF Limits
  <2> QED BY <1>2, <2>1, <2>4 DEF Less
<1> QED BY <1>2, <1>3, <1>6, <1>7, <1>8, <1>9, <1>10 DEF Good, Carried, Limits

\* Emptying nothing changes nothing.
LEMMA EmptiedNothing ==
    ASSUME NEW a \in Stores
    PROVE  Emptied(a, {}) = a
<1> DEFINE pa == [x \in Thing |-> a.parent[x]]
           un == [x \in Stack |-> a.units[x]]
           ins == [x \in Container \cup Tile |-> a.inside[x]]
           we == [c \in Container |-> a.weight[c]]
           am == [c \in Container |-> a.amount[c]]
<1>1. pa = a.parent /\ un = a.units /\ ins = a.inside /\ we = a.weight /\ am = a.amount
  BY StoreTypes
<1>2. Emptied(a, {}) = [a EXCEPT !.parent = pa, !.units = un, !.inside = ins, !.weight = we, !.amount = am]
  BY DEF Emptied, Stores
<1> HIDE DEF pa, un, ins, we, am
<1> QED BY <1>1, <1>2 DEF Stores

\* What goes when m of t are removed
Gone(s, t, m) == IF Whole(s, t, m) THEN {t} \cup Inner(s.parent, t) ELSE {}

\* r is s without m of t, and without what was in t if that is all of it.
RemovedAs(s, r, t, m) ==
    LET D == Gone(s, t, m) IN
    /\ Good(r)
    /\ \A x \in Thing : r.parent[x] = IF x \in D THEN Nowhere ELSE s.parent[x]
    /\ \A p \in Player, k \in Slot :
         r.inv[p][k] = IF Whole(s, t, m) /\ s.inv[p][k] = t THEN NoThing ELSE s.inv[p][k]
    /\ \A x \in Stack :
         r.units[x] = IF x \in D THEN 0 ELSE IF x = t THEN s.units[x] - m ELSE s.units[x]
    /\ Pieces(s) = Pieces(r) + IF t \in Stack THEN m ELSE SumFunctionOnSet(s.units, D \cap Stack)

\* Removed takes t out, empties it and updates its holder's weight.
LEMMA RemovedIs ==
    ASSUME NEW s, Placed(s), NEW t \in Thing, NEW m
    PROVE  Removed(s, t, m) = Weighed(Emptied(Take(s, t, m), Gone(s, t, m)), {Holder(s, t)})
<1>1. Contents(s, t) = IF t \in Container THEN Inner(s.parent, t) ELSE {}
  BY ContentsAreInner DEF Placed
<1>2. t \notin Container => Inner(s.parent, t) = {}
  BY AroundIsClosed DEF Inner
<1> DEFINE G == IF ~Whole(s, t, m) THEN {} ELSE {t} \cup IF t \in Container THEN Contents(s, t) ELSE {}
<1>3. G = Gone(s, t, m)
  BY <1>1, <1>2 DEF Gone
<1>4. Removed(s, t, m) = Weighed(Emptied(Take(s, t, m), G), {Holder(s, t)})
  BY DEF Removed, Emptied
<1> HIDE DEF G
<1> QED BY <1>3, <1>4

\* What is inside of t is what was before t was taken out.
LEMMA AlongTaken ==
    ASSUME NEW s \in Stores, Placed(s), NEW a, NEW t \in Thing, NEW m,
           Taken(s, a, t, m), Whole(s, t, m)
    PROVE  Along(a, t) = {t} \cup Inner(s.parent, t)
<1> DEFINE l == a.parent
           u == s.parent
<1>1. l[t] \notin Container /\ (\A x \in Thing \ {t} : u[x] = l[x]) /\ Grounded(u)
  <2>1. u \in [Thing -> Place \cup {Nowhere}] /\ l = [u EXCEPT ![t] = Nowhere]
    BY StoreTypes DEF Taken
  <2> HIDE DEF l, u
  <2>2. l[t] = Nowhere /\ \A x \in Thing \ {t} : u[x] = l[x]
    BY <2>1
  <2> QED BY <2>2, Constants DEF Placed, u
<1>2. Grounded(l) /\ PutIn(l, u, t)
  <2>1. \A c \in Container \ {t} : u[c] = l[c]
    BY <1>1, Constants
  <2> HIDE DEF l, u
  <2> QED BY <1>1, <2>1, GroundedTakenOut
<1>3. t \notin UpFrom(l, u[t])
  <2> HIDE DEF l, u
  <2> QED BY <1>2 DEF PutIn, UpFrom
<1>4. ASSUME NEW x \in Thing \ {t} PROVE t \in Around(l, x) <=> t \in Around(u, x)
  <2>1. u[x] = l[x]
    BY <1>1
  <2> HIDE DEF l, u
  <2>2. Around(u, x) = IF t \in {x} \cup Around(l, x)
                       THEN Around(l, x) \cup UpFrom(l, u[t]) ELSE Around(l, x)
    BY <1>2, <2>1, AroundPutIn
  <2> QED BY <1>3, <2>2
<1> HIDE DEF l, u
<1>5. \A x \in Thing : x \in {t} \cup Inner(l, t) <=> x \in {t} \cup Inner(u, t)
  BY <1>4 DEF Inner
<1>6. {t} \cup Inner(l, t) \subseteq Thing /\ {t} \cup Inner(u, t) \subseteq Thing
  BY DEF Inner
<1>7. {t} \cup Inner(l, t) = {t} \cup Inner(u, t)
  BY <1>5, <1>6
<1> QED BY <1>7 DEF Along, l, u

\* internalRemoveItem
LEMMA RemovedGood ==
    ASSUME NEW s, Good(s), NEW t \in Thing, InPlace(s, t), NEW m \in Nat,
           t \in Stack => m <= s.units[t],
           NEW r, r = Removed(s, t, m)
    PROVE  RemovedAs(s, r, t, m)
<1> DEFINE a == Take(s, t, m)
           D == Gone(s, t, m)
           c == Emptied(a, D)
<1>0. s \in Stores /\ Placed(s) /\ Sound(s, {}) /\ Grounded(s.parent)
  BY DEF Good, Sound, Placed
<1>1. Taken(s, a, t, m)
  <2> HIDE DEF a
  <2>1. a = Take(s, t, m)
    BY DEF a
  <2> QED BY <1>0, <2>1, TakeStep
<1>2. r = Weighed(c, {Holder(s, t)})
  BY <1>0, RemovedIs
<1> HIDE DEF a
<1>3. /\ s.parent \in [Thing -> Place \cup {Nowhere}] /\ s.units \in [Stack -> 0 .. MaxStack]
      /\ s.amount \in [Container -> Nat] /\ a \in Stores
      /\ \A p \in Player : LoadOf(s, p) \in Nat /\ Moving(s, t, m) \in Nat
  BY <1>0, <1>1, StoreTypes, InventoryType, MovingType DEF Taken, Sound
<1>4. \A p \in Player : /\ LoadOf(a, p) <= LoadOf(s, p)
                        /\ p # Holder(s, t) => LoadOf(a, p) = LoadOf(s, p)
  <2>1. \A p \in Player :
          LoadOf(a, p) = LoadOf(s, p) - IF p = Holder(s, t) THEN Moving(s, t, m) ELSE 0
    BY <1>1 DEF Taken
  <2> QED BY <1>3, <2>1
<1>5. CASE Whole(s, t, m)
  <2>1. /\ Sound(a, {t}) /\ a.carried = s.carried
        /\ a.parent = [s.parent EXCEPT ![t] = Nowhere] /\ a.units = s.units
        /\ \A p \in Player, k \in Slot :
             a.inv[p][k] = IF s.inv[p][k] = t THEN NoThing ELSE s.inv[p][k]
        /\ \A x \in Container \cup Tile : a.inside[x] = s.inside[x] \ {t}
        /\ \A b \in Container : a.amount[b] <= s.amount[b]
    BY <1>1, <1>5 DEF Taken
  <2>2. D = Along(a, t)
    <3>1. Along(a, t) = {t} \cup Inner(s.parent, t)
      BY <1>0, <1>1, <1>5, AlongTaken
    <3> QED BY <1>5, <3>1 DEF Gone
  <2>3. c = Emptied(a, Along(a, t))
    BY <2>2
  <2> HIDE DEF c
  <2>4. Cleared(a, c, t)
    BY <2>1, <2>3, ClearedStep
  <2> HIDE DEF D
  <2>5. /\ Sound(c, {}) /\ c.inv = a.inv /\ c.carried = a.carried
        /\ \A x \in Thing : c.parent[x] = IF x \in D THEN Nowhere ELSE a.parent[x]
        /\ \A x \in Stack : c.units[x] = IF x \in D THEN 0 ELSE a.units[x]
        /\ \A x \in Container \cup Tile : c.inside[x] = IF x \in D THEN {} ELSE a.inside[x]
        /\ \A p \in Player : LoadOf(c, p) = LoadOf(a, p)
        /\ \A b \in Container : c.amount[b] <= a.amount[b]
        /\ Pieces(a) = Pieces(c) + SumFunctionOnSet(a.units, D \cap Stack)
    BY <2>2, <2>4 DEF Cleared, EmptiedFrom
  <2>6. t \in D /\ D \in SUBSET Thing /\ \A x \in D : x = t \/ s.parent[x] \notin Player
    <3>1. D = {t} \cup Inner(s.parent, t)
      BY <1>5 DEF D, Gone
    <3>2. \A x \in Inner(s.parent, t) : s.parent[x] \in Container
      BY AroundUnfolds DEF Inner
    <3> QED BY <3>1, <3>2, Constants DEF Inner
  <2>7. \A x \in Thing : c.parent[x] = IF x \in D THEN Nowhere ELSE s.parent[x]
    BY <1>3, <2>1, <2>5, <2>6
  <2>8. \A b \in Container : c.inside[b] \subseteq s.inside[b] /\ c.amount[b] <= s.amount[b]
    <3>1. c \in Stores
      BY <2>5 DEF Sound
    <3>2. \A b \in Container : c.amount[b] \in Nat /\ a.amount[b] \in Nat /\ s.amount[b] \in Nat
      BY <1>3, <3>1, StoreTypes
    <3> QED BY <2>1, <2>5, <3>2
  <2>9. Less(s, c, t, D)
    BY <1>4, <2>1, <2>5, <2>6, <2>7, <2>8 DEF Less
  <2>10. Good(r) /\ r.parent = c.parent /\ r.inv = c.inv /\ r.units = c.units
    BY <1>2, <2>9, LessGood
  <2>11. Pieces(s) = Pieces(r) + IF t \in Stack THEN m ELSE SumFunctionOnSet(s.units, D \cap Stack)
    <3>1. Pieces(s) = Pieces(r) + SumFunctionOnSet(s.units, D \cap Stack)
      BY <2>1, <2>5, <2>10 DEF Pieces
    <3>2. CASE t \in Stack
      <4>1. D \cap Stack = {t} /\ s.units[t] = m
        <5>1. Inner(s.parent, t) = {}
          BY <3>2, AroundIsClosed, Constants DEF Inner
        <5> QED BY <1>5, <3>2, <5>1 DEF D, Gone, Whole
      <4> DEFINE f == s.units
      <4>2. IsFiniteSet({t}) /\ IsFiniteSet({})
        BY FS_Singleton, FS_EmptySet, Zenon
      <4>3. f[t] = m /\ f[t] \in Int /\ {t} \ {t} = {}
        BY <4>1
      <4> HIDE DEF f
      <4>4. SumFunctionOnSet(f, {}) = 0
        BY <4>2, SumWithout
      <4>5. SumFunctionOnSet(f, {t}) = f[t] + SumFunctionOnSet(f, {t} \ {t})
        BY <4>2, <4>3, SumWithout
      <4>6. SumFunctionOnSet(f, {t}) = m
        BY <4>3, <4>4, <4>5
      <4> QED BY <3>1, <3>2, <4>1, <4>6 DEF f
    <3> QED BY <3>1, <3>2
  <2>12. \A p \in Player, k \in Slot :
           r.inv[p][k] = IF Whole(s, t, m) /\ s.inv[p][k] = t THEN NoThing ELSE s.inv[p][k]
    BY <1>5, <2>1, <2>5, <2>10
  <2>13. \A x \in Stack :
           r.units[x] = IF x \in D THEN 0 ELSE IF x = t THEN s.units[x] - m ELSE s.units[x]
    BY <2>1, <2>5, <2>6, <2>10
  <2>14. \A x \in Thing : r.parent[x] = IF x \in D THEN Nowhere ELSE s.parent[x]
    BY <2>7, <2>10
  <2> QED BY <2>10, <2>11, <2>12, <2>13, <2>14 DEF RemovedAs, D
<1>6. CASE ~Whole(s, t, m)
  <2>1. /\ Sound(a, {}) /\ a.carried = s.carried /\ a.parent = s.parent
        /\ a.units = [s.units EXCEPT ![t] = s.units[t] - m]
        /\ \A p \in Player, k \in Slot : a.inv[p][k] = s.inv[p][k]
        /\ \A x \in Container \cup Tile : a.inside[x] = s.inside[x]
        /\ \A b \in Container : a.amount[b] <= s.amount[b]
    BY <1>1, <1>6 DEF Taken
  <2>2. D = {} /\ c = a
    BY <1>3, <1>6, EmptiedNothing DEF Gone
  <2>3. t \in Stack
    BY <1>6 DEF Whole
  <2> HIDE DEF c, D
  <2>4. Less(s, a, t, D)
    BY <1>4, <2>1, <2>2 DEF Less
  <2>5. Good(r) /\ r.parent = a.parent /\ r.inv = a.inv /\ r.units = a.units
    BY <1>2, <2>2, <2>4, LessGood
  <2>6. s.units[t] - m \in 0 .. MaxStack
    <3>1. s.units[t] \in 0 .. MaxStack /\ MaxStack \in Nat /\ m <= s.units[t]
      BY <1>3, <2>3, Constants
    <3> QED BY <3>1
  <2>7. Pieces(s) = Pieces(r) + m
    <3> DEFINE v == s.units[t] - m
    <3>1. v \in 0 .. MaxStack /\ a.units = [s.units EXCEPT ![t] = v]
      BY <2>1, <2>6
    <3> HIDE DEF v
    <3>2. Pieces(a) = Pieces(s) + (v - s.units[t])
      BY <1>0, <1>3, <2>3, <3>1, PiecesChange
    <3>3. Pieces(r) = Pieces(a) /\ Pieces(s) \in Nat
      BY <1>0, <2>5, PiecesType DEF Pieces
    <3>4. s.units[t] \in Nat
      BY <1>3, <2>3
    <3> QED BY <3>2, <3>3, <3>4 DEF v
  <2>8. \A x \in Stack : r.units[x] = IF x = t THEN s.units[x] - m ELSE s.units[x]
    BY <1>3, <2>1, <2>5
  <2> QED BY <1>6, <2>1, <2>2, <2>3, <2>5, <2>7, <2>8 DEF RemovedAs, D
<1> QED BY <1>5, <1>6

-----------------------------------------------------------------------------
(* Paying: whole stacks are removed one after the other, and what was too  *)
(* much is given back.                                                     *)

\* A whole stack is removed.
RemoveAll(q, x) == Removed(q, x, q.units[x])

\* What the fold over the stacks S computes
Paid(s, S) ==
    CHOOSE g : g = [T \in SUBSET S |->
                      IF T = {} THEN s ELSE RemoveAll(g[T \ {OneOf(T)}], OneOf(T))]

\* FoldSet is what Paid has for the whole set, by the definitions of the library.
LEMMA PaidIsThere ==
    ASSUME NEW s, NEW S
    PROVE  FoldSet(LAMBDA t, q : Removed(q, t, q.units[t]), s, S) = Paid(s, S)[S]
BY DEF FoldSet, MapThenFoldSet, Paid, RemoveAll, OneOf

\* There is such a function: by induction, one that is right for the smaller subsets.
LEMMA PaidExists ==
    ASSUME NEW S, IsFiniteSet(S), NEW s
    PROVE  \A T \in SUBSET S :
             Paid(s, S)[T] = IF T = {} THEN s ELSE RemoveAll(Paid(s, S)[T \ {OneOf(T)}], OneOf(T))
<1> DEFINE After(g) == [T \in SUBSET S |->
                          IF T = {} THEN s ELSE RemoveAll(g[T \ {OneOf(T)}], OneOf(T))]
           Right(g, T) == g[T] = After(g)[T]
           P == {n \in Nat : \E g : \A T \in SUBSET S : Cardinality(T) <= n => Right(g, T)}
<1>1. ASSUME NEW T \in SUBSET S
      PROVE  /\ IsFiniteSet(T) /\ Cardinality(T) \in Nat
             /\ Cardinality(T) <= Cardinality(S)
             /\ T # {} => /\ OneOf(T) \in T
                          /\ T \ {OneOf(T)} \in SUBSET S
                          /\ Cardinality(T \ {OneOf(T)}) = Cardinality(T) - 1
  <2>1. IsFiniteSet(T) /\ Cardinality(T) <= Cardinality(S)
    BY FS_Subset
  <2>2. T # {} => OneOf(T) \in T
    BY DEF OneOf
  <2> QED BY <2>1, <2>2, FS_CardinalityType, FS_RemoveElement
<1>2. 0 \in P
  <2>1. ASSUME NEW T \in SUBSET S, Cardinality(T) <= 0 PROVE T = {}
    <3>1. Cardinality(T) \in Nat /\ IsFiniteSet(T)
      BY <1>1
    <3>2. Cardinality(T) = 0
      BY <2>1, <3>1
    <3> QED BY <3>1, <3>2, FS_EmptySet
  <2>2. \A T \in SUBSET S : Cardinality(T) <= 0 => Right([U \in SUBSET S |-> s], T)
    BY <2>1
  <2> HIDE DEF Right
  <2> QED BY <2>2
<1>3. ASSUME NEW n \in P PROVE n + 1 \in P
  <2>1. PICK g : \A T \in SUBSET S : Cardinality(T) <= n => Right(g, T)
    BY <1>3
  <2>2. \A T \in SUBSET S : Cardinality(T) <= n => After(g)[T] = g[T]
    BY <2>1
  <2>3. ASSUME NEW T \in SUBSET S, Cardinality(T) <= n + 1 PROVE Right(After(g), T)
    <3>1. CASE T = {}
      BY <3>1
    <3>2. CASE T # {}
      <4>1. T \ {OneOf(T)} \in SUBSET S /\ Cardinality(T \ {OneOf(T)}) <= n
        BY <1>1, <1>3, <2>3, <3>2
      <4>2. After(g)[T \ {OneOf(T)}] = g[T \ {OneOf(T)}]
        BY <2>2, <4>1
      <4> QED BY <3>2, <4>2
    <3> QED BY <3>1, <3>2
  <2> HIDE DEF Right, After
  <2> QED BY <1>3, <2>3
<1>4. Cardinality(S) \in P
  <2>1. P = Nat
    <3> HIDE DEF P
    <3>1. P \in SUBSET Nat
      BY DEF P
    <3> QED BY <1>2, <1>3, <3>1, Induct
  <2> QED BY <1>1, <2>1
<1>5. PICK g : \A T \in SUBSET S : Right(g, T)
  BY <1>1, <1>4
<1>6. After(g) = After(After(g))
  <2>1. \A T \in SUBSET S : g[T] = After(g)[T]
    BY <1>5
  <2>2. \A T \in SUBSET S : T # {} => g[T \ {OneOf(T)}] = After(g)[T \ {OneOf(T)}]
    <3> HIDE DEF After
    <3> QED BY <2>1
  <2>3. \A T \in SUBSET S : T # {} =>
          RemoveAll(g[T \ {OneOf(T)}], OneOf(T)) = RemoveAll(After(g)[T \ {OneOf(T)}], OneOf(T))
    <3> HIDE DEF After
    <3> QED BY <2>2
  <2> DEFINE h == After(g)
  <2> HIDE DEF h
  <2>4. \A T \in SUBSET S : T # {} =>
          RemoveAll(g[T \ {OneOf(T)}], OneOf(T)) = RemoveAll(h[T \ {OneOf(T)}], OneOf(T))
    BY <2>3 DEF h
  <2>5. After(g) = After(h)
    BY <2>4
  <2> QED BY <2>5 DEF h
<1>7. Paid(s, S) = After(Paid(s, S))
  <2> DEFINE N(h) == After(h)
             o == After(g)
  <2>1. o = N(o)
    BY <1>6
  <2>2. Paid(s, S) = CHOOSE h : h = N(h)
    BY DEF Paid
  <2> HIDE DEF N, o
  <2>3. Paid(s, S) = N(Paid(s, S))
    BY <2>1, <2>2
  <2> QED BY <2>3 DEF N
<1> DEFINE p == Paid(s, S)
<1>8. p = After(p)
  BY <1>7
<1> HIDE DEF p
<1>9. \A T \in SUBSET S : p[T] = IF T = {} THEN s ELSE RemoveAll(p[T \ {OneOf(T)}], OneOf(T))
  BY <1>8
<1> QED BY <1>9 DEF p

\* q is s without the stacks T.
Spent(s, q, T) ==
    /\ Good(q)
    /\ \A x \in Thing : q.parent[x] = IF x \in T THEN Nowhere ELSE s.parent[x]
    /\ \A p \in Player, k \in Slot :
         q.inv[p][k] = IF s.inv[p][k] \in T THEN NoThing ELSE s.inv[p][k]
    /\ \A x \in Stack : q.units[x] = IF x \in T THEN 0 ELSE s.units[x]
    /\ Pieces(s) = Pieces(q) + SumFunctionOnSet(s.units, T)

\* One stack more is removed.
LEMMA SpentStep ==
    ASSUME NEW s, Good(s), NEW T \in SUBSET Stack, NEW x \in T, InPlace(s, x),
           NEW q, Spent(s, q, T \ {x}), NEW r, r = RemoveAll(q, x)
    PROVE  Spent(s, r, T)
<1> DEFINE m == q.units[x]
           U == T \ {x}
<1>0. /\ s \in Stores /\ q \in Stores /\ Good(q) /\ x \in Stack /\ x \in Thing /\ x \notin Container
      /\ x \notin U /\ T = U \cup {x}
  BY Constants DEF Good, Sound, Spent
<1>1. m = s.units[x] /\ m \in Nat /\ q.parent[x] = s.parent[x]
  BY <1>0, StoreTypes DEF Spent
<1>2. InPlace(q, x)
  <2>1. ASSUME s.parent[x] \in Player PROVE x \in Inventory(q, s.parent[x])
    <3> DEFINE p == s.parent[x]
    <3>1. p \in Player /\ x \in Inventory(s, p)
      BY <2>1 DEF InPlace
    <3> HIDE DEF p
    <3>2. PICK k \in Slot : s.inv[p][k] = x
      BY <3>1 DEF Inventory
    <3>3. q.inv[p][k] = x
      BY <1>0, <3>1, <3>2 DEF Spent
    <3>4. x \in Inventory(q, p)
      BY <1>0, <3>3, Constants DEF Inventory
    <3> QED BY <3>4 DEF p
  <2> QED BY <1>1, <2>1 DEF InPlace
<1>3. RemovedAs(q, r, x, m)
  <2>1. r = Removed(q, x, m)
    BY DEF RemoveAll
  <2> HIDE DEF m
  <2>2. x \in Stack => m <= q.units[x]
    BY <1>1 DEF m
  <2> QED BY <1>0, <1>1, <1>2, <2>1, <2>2, RemovedGood
<1>4. Whole(q, x, m) /\ Gone(q, x, m) = {x}
  <2>1. Whole(q, x, m)
    BY DEF Whole
  <2>2. Inner(q.parent, x) = {}
    BY <1>0, AroundIsClosed DEF Inner
  <2> QED BY <2>1, <2>2 DEF Gone
<1> HIDE DEF m
<1>5. /\ Good(r)
      /\ \A y \in Thing : r.parent[y] = IF y \in {x} THEN Nowhere ELSE q.parent[y]
      /\ \A p \in Player, k \in Slot : r.inv[p][k] = IF q.inv[p][k] = x THEN NoThing ELSE q.inv[p][k]
      /\ \A y \in Stack : r.units[y] = IF y \in {x} THEN 0 ELSE IF y = x THEN q.units[y] - m ELSE q.units[y]
      /\ Pieces(q) = Pieces(r) + m
  BY <1>0, <1>3, <1>4 DEF RemovedAs
<1>6. Pieces(s) = Pieces(r) + SumFunctionOnSet(s.units, T)
  <2> DEFINE f == s.units
  <2>1. IsFiniteSet(U) /\ (\A y \in U \cup {x} : f[y] \in Int) /\ (\A y \in U : f[y] \in Nat)
    BY <1>0, Constants, FS_Subset, StoreTypes
  <2> HIDE DEF f, U
  <2>2. SumFunctionOnSet(f, U \cup {x}) = SumFunctionOnSet(f, U) + f[x]
    BY <1>0, <2>1, SumWith
  <2>3. SumFunctionOnSet(f, U) \in Nat
    BY <2>1, SumNat
  <2>4. Pieces(r) \in Nat
    BY <1>5, PiecesType DEF Good, Sound
  <2>5. Pieces(s) = Pieces(q) + SumFunctionOnSet(f, U)
    BY DEF Spent, f, U
  <2>6. f[x] = m
    BY <1>1 DEF f
  <2>7. Pieces(s) = Pieces(r) + SumFunctionOnSet(f, U \cup {x})
    BY <1>1, <1>5, <2>2, <2>3, <2>4, <2>5, <2>6
  <2> QED BY <1>0, <2>7 DEF f
<1>7. \A y \in Thing : r.parent[y] = IF y \in T THEN Nowhere ELSE s.parent[y]
  BY <1>5 DEF Spent
<1>8. \A p \in Player, k \in Slot :
        r.inv[p][k] = IF s.inv[p][k] \in T THEN NoThing ELSE s.inv[p][k]
  BY <1>0, <1>5, Constants DEF Spent
<1>9. \A y \in Stack : r.units[y] = IF y \in T THEN 0 ELSE s.units[y]
  BY <1>5 DEF Spent
<1> QED BY <1>5, <1>6, <1>7, <1>8, <1>9 DEF Spent

\* Removing stacks one by one, in whatever order the fold takes them
LEMMA PaidIsSpent ==
    ASSUME NEW s, Good(s), NEW S \in SUBSET Stack, \A x \in S : InPlace(s, x)
    PROVE  Spent(s, FoldSet(LAMBDA t, q : Removed(q, t, q.units[t]), s, S), S)
<1> DEFINE g == Paid(s, S)
           P == {T \in SUBSET S : Spent(s, g[T], T)}
<1>1. IsFiniteSet(S)
  BY Constants, FS_Subset
<1>2. \A T \in SUBSET S : g[T] = IF T = {} THEN s ELSE RemoveAll(g[T \ {OneOf(T)}], OneOf(T))
  BY <1>1, PaidExists
<1>3. {} \in P
  <2>1. g[{}] = s
    BY <1>2
  <2>2. SumFunctionOnSet(s.units, {}) = 0
    BY SumWithout, FS_EmptySet
  <2>3. Pieces(s) \in Nat
    BY PiecesType DEF Good, Sound
  <2>4. Pieces(s) = Pieces(s) + SumFunctionOnSet(s.units, {})
    BY <2>2, <2>3
  <2>5. Spent(s, s, {})
    BY <2>4 DEF Spent
  <2> QED BY <2>1, <2>5
<1>4. ASSUME NEW T \in SUBSET S, T # {}, \A x \in T : T \ {x} \in P PROVE T \in P
  <2> DEFINE x == OneOf(T)
             q == g[T \ {x}]
             r == g[T]
  <2>1. x \in T
    BY <1>4 DEF OneOf
  <2>2. Spent(s, q, T \ {x}) /\ InPlace(s, x)
    BY <1>4, <2>1
  <2>3. r = RemoveAll(q, x)
    BY <1>2, <1>4
  <2> HIDE DEF x, q, r, g
  <2>4. Spent(s, r, T)
    BY <2>1, <2>2, <2>3, SpentStep
  <2> QED BY <2>4 DEF r
<1>5. P = SUBSET S
  <2> HIDE DEF P
  <2>1. P \in SUBSET (SUBSET S)
    BY DEF P
  <2> QED BY <1>1, <1>3, <1>4, <2>1, SetInduct
<1>6. Spent(s, g[S], S)
  BY <1>5
<1> QED BY <1>6, PaidIsThere

\* What __getIndexOfThing finds is in its place.
LEMMA IndexedInPlace ==
    ASSUME NEW s \in Stores, NEW t \in Thing, Indexed(s, t)
    PROVE  InPlace(s, t)
BY StoreTypes DEF Indexed, InPlace

\* Game::removeMoney
LEMMA PayGood ==
    ASSUME Good(store), at \in [Player -> Tile], NEW p \in Player, NEW money \in 1 .. MaxStack,
           Pay(p, money)
    PROVE  Filled(store, store', -money)
<1>0. store \in Stores /\ MaxStack \in Nat /\ money \in Nat
  BY Constants DEF Good, Sound
<1>1. PICK R \in SUBSET Purse(p) : \E last \in Purse(p) \ R :
        /\ Worth(R) < money /\ money <= Worth(R) + store.units[last]
        /\ LET change == Worth(R) + store.units[last] - money
               step(t, s) == Removed(s, t, s.units[t])
               paid == FoldSet(step, store, R \cup {last})
           IN  IF change = 0 THEN store' = paid
               ELSE \E s \in Given([paid EXCEPT !.units[last] = change], p, last) : store' = s
  BY DEF Pay
<1>2. PICK last \in Purse(p) \ R :
        /\ Worth(R) < money /\ money <= Worth(R) + store.units[last]
        /\ LET change == Worth(R) + store.units[last] - money
               step(t, s) == Removed(s, t, s.units[t])
               paid == FoldSet(step, store, R \cup {last})
           IN  IF change = 0 THEN store' = paid
               ELSE \E s \in Given([paid EXCEPT !.units[last] = change], p, last) : store' = s
  BY <1>1
<1> DEFINE S == R \cup {last}
           paid == FoldSet(LAMBDA t, s : Removed(s, t, s.units[t]), store, S)
           change == Worth(R) + store.units[last] - money
<1>3. /\ Worth(R) < money /\ money <= Worth(R) + store.units[last]
      /\ change = 0 => store' = paid
      /\ change # 0 => store' \in Given(Numbered(paid, last, change), p, last)
  BY <1>2 DEF Numbered
<1>4. S \in SUBSET Stack /\ \A x \in S : InPlace(store, x)
  <2>1. \A x \in Purse(p) : x \in Stack /\ Indexed(store, x)
    BY DEF Purse
  <2>2. \A x \in Purse(p) : x \in Stack /\ InPlace(store, x)
    BY <1>0, <2>1, IndexedInPlace, Constants
  <2> QED BY <2>2
<1>5. Spent(store, paid, S)
  <2> HIDE DEF S
  <2> QED BY <1>4, PaidIsSpent
<1>6. Worth(S) = Worth(R) + store.units[last] /\ Worth(R) \in Nat /\ store.units[last] \in 0 .. MaxStack
  <2> DEFINE f == store.units
  <2>1. \A x \in Stack : f[x] \in Nat /\ f[x] \in 0 .. MaxStack
    BY <1>0, StoreTypes
  <2>2. IsFiniteSet(R) /\ R \subseteq Stack /\ last \in Stack \ R
    BY <1>4, Constants, FS_Subset
  <2> HIDE DEF f
  <2>3. SumFunctionOnSet(f, R) \in Nat
    BY <2>1, <2>2, SumNat
  <2>4. SumFunctionOnSet(f, R \cup {last}) = SumFunctionOnSet(f, R) + f[last]
    <3>1. \A y \in R \cup {last} : f[y] \in Int
      BY <2>1, <2>2
    <3> QED BY <2>2, <3>1, SumWith
  <2> QED BY <2>1, <2>2, <2>3, <2>4 DEF Worth, f
<1>7. change \in 0 .. MaxStack
  <2> DEFINE w == Worth(R)
             u == store.units[last]
  <2>1. w \in Nat /\ u \in Nat /\ u <= MaxStack
    BY <1>0, <1>6
  <2>2. w < money /\ money <= w + u
    BY <1>3
  <2>3. change = w + u - money
    OBVIOUS
  <2> HIDE DEF w, u, change
  <2> QED BY <1>0, <2>1, <2>2, <2>3
<1>8. Pieces(store) = Pieces(paid) + change + money
  <2>1. Pieces(store) = Pieces(paid) + Worth(S)
    BY <1>5 DEF Spent, Worth
  <2>2. Pieces(paid) \in Nat
    <3> HIDE DEF paid
    <3> QED BY <1>5, PiecesType DEF Spent, Good, Sound
  <2> HIDE DEF paid
  <2> QED BY <1>0, <1>6, <2>1, <2>2
<1> HIDE DEF paid, change
<1>9. /\ Good(paid) /\ paid.units[last] = 0 /\ last \in Stack
      /\ \A x \in Thing \ Stack : paid.parent[x] = store.parent[x]
  BY <1>4, <1>5 DEF Spent
<1>10. Pieces(store) \in Nat /\ Pieces(paid) \in Nat
  BY <1>0, <1>9, PiecesType DEF Good, Sound
<1>11. CASE change = 0
  <2>1. Good(store') /\ Pieces(store') = Pieces(store) + -money
    BY <1>0, <1>3, <1>8, <1>9, <1>10, <1>11
  <2> QED BY <1>3, <1>9, <1>11, <2>1 DEF Filled
<1>12. CASE change # 0
  <2> DEFINE h == Numbered(paid, last, change)
  <2>1. Handing(paid, h, last, change)
    <3>1. change \in 1 .. MaxStack
      BY <1>0, <1>7, <1>12
    <3> QED BY <1>9, <3>1 DEF Handing
  <2>2. store' \in Given(h, p, last)
    BY <1>3, <1>12
  <2> HIDE DEF h
  <2>3. Filled(paid, store', change)
    BY <2>1, <2>2, GivenGood
  <2>4. Pieces(store') = Pieces(paid) + change
    BY <2>3 DEF Filled
  <2>5. Pieces(store') = Pieces(store) + -money
    BY <1>0, <1>7, <1>8, <1>10, <2>4
  <2> QED BY <1>9, <2>3, <2>5 DEF Filled
<1> QED BY <1>11, <1>12

\* internalPlayerAddItem
LEMMA GiveGood ==
    ASSUME Good(store), at \in [Player -> Tile], NEW p \in Player, NEW n \in 1 .. MaxStack, Give(p, n)
    PROVE  Filled(store, store', n)
<1>1. PICK f \in Fresh(store) : store' \in Given(Numbered(store, f, n), p, f)
  BY DEF Give, Numbered
<1> DEFINE h == Numbered(store, f, n)
<1>2. Handing(store, h, f, n)
  BY DEF Handing, Fresh
<1>3. store' \in Given(h, p, f)
  BY <1>1
<1> HIDE DEF h
<1> QED BY <1>2, <1>3, GivenGood

-----------------------------------------------------------------------------
(* Windows.  A container is in reach of a player who carries it or stands  *)
(* next to it.                                                             *)

\* b is with q, or on a tile next to him.
Reach(s, a, q, b) == Holder(s, b) = q \/ (Holder(s, b) \in Tile /\ Near(a[q], Holder(s, b)))

\* What the windows w show is in reach.
InReach(s, a, w) ==
    \A q \in Player, i \in Window : w[q][i] # NoThing => Reach(s, a, q, w[q][i])

\* The type of window
Windows == [Player -> [Window -> Container \cup {NoThing}]]

\* Being in reach is not to be taken from.
LEMMA ReachIs ==
    ASSUME at \in [Player -> Tile], NEW s, NEW q \in Player, NEW b
    PROVE  Reach(s, at, q, b) <=> ~TakenFrom(s, q, b)
<1> DEFINE h == Holder(s, b)
<1>1. at[q] \in Int /\ Tile \cap Player = {}
  BY StorageConstants, Constants
<1>2. Near(at[q], at[q])
  BY <1>1 DEF Near
<1>3. TileOf(s, b) = IF h \in Player THEN at[h] ELSE h
  BY DEF TileOf
<1>4. TakenFrom(s, q, b) <=> h \notin {q} \cup Tile \/ ~Near(at[q], TileOf(s, b))
  BY DEF TakenFrom
<1>5. Reach(s, at, q, b) <=> h = q \/ (h \in Tile /\ Near(at[q], h))
  BY DEF Reach
<1> HIDE DEF h
<1> QED BY <1>1, <1>2, <1>3, <1>4, <1>5

\* The property in terms of Reach
LEMMA ReachedIs ==
    ASSUME at \in [Player -> Tile], window \in Windows
    PROVE  WindowsInReach <=> InReach(store, at, window)
<1>1. WindowsInReach <=> \A q \in Player : \A b \in Shown(q) : Reach(store, at, q, b)
  BY ReachIs DEF WindowsInReach
<1>2. \A q \in Player : \A b : b \in Shown(q) <=> b # NoThing /\ \E i \in Window : window[q][i] = b
  BY DEF Shown
<1> QED BY <1>1, <1>2 DEF InReach

\* A container is where it was if it and what is around it lie where they lay.
LEMMA HolderKept ==
    ASSUME NEW s, NEW r, NEW b \in Container,
           \A j \in {b} \cup Around(s.parent, b) : r.parent[j] = s.parent[j]
    PROVE  Holder(r, b) = Holder(s, b)
<1> DEFINE l == s.parent
           m == r.parent
<1>1. TopOf(m, b) = TopOf(l, b)
  <2>1. \A j \in {b} \cup Around(l, b) : m[j] = l[j]
    OBVIOUS
  <2> HIDE DEF l, m
  <2> QED BY <2>1, AroundAgrees
<1> QED BY <1>1 DEF Holder

\* Containers that stay where they are stay in reach.
LEMMA ReachKept ==
    ASSUME NEW s, NEW r, \A c \in Container : r.parent[c] = s.parent[c], NEW a, NEW w \in Windows,
           InReach(s, a, w)
    PROVE  InReach(r, a, w)
<1>1. ASSUME NEW b \in Container PROVE Holder(r, b) = Holder(s, b)
  <2>1. {b} \cup Around(s.parent, b) \subseteq Container
    BY AroundIsClosed
  <2> QED BY <2>1, HolderKept
<1>2. \A q \in Player, i \in Window : w[q][i] # NoThing => w[q][i] \in Container
  BY DEF Windows
<1> QED BY <1>1, <1>2 DEF InReach, Reach

\* Nothing is opened by closing.
LEMMA ClosedSome ==
    ASSUME NEW s, NEW w \in [Window -> Container \cup {NoThing}], NEW B
    PROVE  /\ AutoClose(s, w, B) \in [Window -> Container \cup {NoThing}]
           /\ \A i \in Window : AutoClose(s, w, B)[i] # NoThing =>
                /\ AutoClose(s, w, B)[i] = w[i]
                /\ w[i] \in Container
                /\ ({w[i]} \cup Around(s.parent, w[i])) \cap B = {}
<1>1. \A i \in Window : w[i] # NoThing => w[i] \in Container
  OBVIOUS
<1>2. \A i \in Window : AutoClose(s, w, B)[i] = IF BagsUp(s, w[i]) \cap B # {} THEN NoThing ELSE w[i]
  BY DEF AutoClose
<1>3. \A i \in Window : w[i] # NoThing => BagsUp(s, w[i]) = {w[i]} \cup Around(s.parent, w[i])
  BY <1>1 DEF BagsUp
<1>4. AutoClose(s, w, B) \in [Window -> Container \cup {NoThing}]
  BY DEF AutoClose
<1> QED BY <1>1, <1>2, <1>3, <1>4

\* What is in t, or is t, has the place of t, wherever t is.
LEMMA MovedAlong ==
    ASSUME NEW s, NEW r, Grounded(r.parent), NEW t \in Thing,
           \A c \in Container \ {t} : r.parent[c] = s.parent[c],
           NEW b \in Container, t \in {b} \cup Around(s.parent, b)
    PROVE  t \in {b} \cup Around(r.parent, b) /\ Holder(r, b) = Holder(r, t)
<1> DEFINE l == s.parent
           m == r.parent
<1>1. t \in {b} \cup Around(m, b)
  <2>1. SUFFICES ASSUME t \notin {b} \cup Around(m, b) PROVE FALSE
    OBVIOUS
  <2>2. \A j \in {b} \cup Around(m, b) : l[j] = m[j]
    BY <2>1, AroundIsClosed
  <2>3. t \in {b} \cup Around(l, b)
    OBVIOUS
  <2>4. Around(l, b) = Around(m, b)
    <3> HIDE DEF l, m
    <3> QED BY <2>2, AroundAgrees
  <2> QED BY <2>1, <2>3, <2>4
<1>2. Grounded(m)
  OBVIOUS
<1>3. TopOf(m, b) = TopOf(m, t)
  <2> HIDE DEF l, m
  <2> QED BY <1>1, <1>2, TopOfAround
<1> QED BY <1>1, <1>3, Constants DEF Holder

\* A move of t closes what it takes out of reach.
LEMMA WindowsMoved ==
    ASSUME store \in Stores, Placed(store), at \in [Player -> Tile], window \in Windows,
           InReach(store, at, window), NEW t \in Thing, InPlace(store, t),
           NEW s, Placed(s), \A c \in Container \ {t} : s.parent[c] = store.parent[c],
           NEW w, w = WindowsAfter(s, t, store.parent[t])
    PROVE  w \in Windows /\ InReach(s, at, w)
<1> DEFINE pl == store.parent[t]
           Closes(q) == t \in Container /\ q \in Notified(pl) /\ TakenFrom(s, q, t)
<1>0. Grounded(store.parent) /\ Grounded(s.parent)
  BY DEF Placed
<1>1. \A q \in Player : window[q] \in [Window -> Container \cup {NoThing}]
  BY DEF Windows
<1>2. \A q \in Player : w[q] = IF Closes(q) THEN AutoClose(s, window[q], {t}) ELSE window[q]
  BY DEF WindowsAfter
<1>3. w \in Windows
  <2>1. DOMAIN w = Player /\ w = [q \in Player |-> w[q]]
    BY DEF WindowsAfter
  <2>2. ASSUME NEW q \in Player PROVE w[q] \in [Window -> Container \cup {NoThing}]
    BY <1>1, <1>2, ClosedSome
  <2> QED BY <2>1, <2>2 DEF Windows
<1> HIDE DEF Closes
<1>4. ASSUME NEW q \in Player, NEW i \in Window, w[q][i] # NoThing
      PROVE  /\ window[q][i] = w[q][i] /\ w[q][i] \in Container
             /\ Closes(q) => t \notin {w[q][i]} \cup Around(s.parent, w[q][i])
  <2>1. CASE Closes(q)
    <3> DEFINE v == window[q]
               B == {t}
               u == AutoClose(s, v, B)
    <3>1. v \in [Window -> Container \cup {NoThing}] /\ w[q] = u
      BY <1>1, <1>2, <2>1
    <3> HIDE DEF v, B
    <3>2. \A j \in Window : u[j] # NoThing =>
            /\ u[j] = v[j] /\ v[j] \in Container
            /\ ({v[j]} \cup Around(s.parent, v[j])) \cap B = {}
      BY <3>1, ClosedSome
    <3> HIDE DEF u
    <3>3. /\ w[q][i] = v[i] /\ v[i] \in Container
          /\ ({v[i]} \cup Around(s.parent, v[i])) \cap B = {}
      BY <1>4, <3>1, <3>2
    <3> QED BY <3>3 DEF v, B
  <2>2. CASE ~Closes(q)
    BY <1>1, <1>2, <1>4, <2>2
  <2> QED BY <2>1, <2>2
<1>5. Holder(store, t) = Holder(store, pl)
  BY <1>0, HolderOfPlace DEF InPlace
<1>6. ASSUME NEW q \in Player, NEW i \in Window, w[q][i] # NoThing
      PROVE  Reach(s, at, q, w[q][i])
  <2> DEFINE b == w[q][i]
  <2>1. window[q][i] = b /\ b \in Container /\ (Closes(q) => t \notin {b} \cup Around(s.parent, b))
    BY <1>4, <1>6
  <2>2. Reach(store, at, q, b)
    BY <1>6, <2>1 DEF InReach
  <2> HIDE DEF b
  <2>3. CASE t \notin {b} \cup Around(store.parent, b)
    <3>1. \A j \in {b} \cup Around(store.parent, b) : s.parent[j] = store.parent[j]
      BY <2>1, <2>3, AroundIsClosed
    <3>2. Holder(s, b) = Holder(store, b)
      BY <2>1, <3>1, HolderKept
    <3>3. Reach(s, at, q, b)
      BY <2>2, <3>2 DEF Reach
    <3> QED BY <3>3 DEF b
  <2>4. CASE t \in {b} \cup Around(store.parent, b)
    <3>1. t \in {b} \cup Around(s.parent, b) /\ Holder(s, b) = Holder(s, t)
      BY <1>0, <2>1, <2>4, MovedAlong
    <3>2. t \in Container
      BY <2>1, <2>4, AroundIsClosed
    <3>3. Holder(store, b) = Holder(store, t)
      BY <1>0, <2>1, <2>4, MovedAlong
    <3>4. q \in Notified(pl)
      <4>1. Holder(store, b) = Holder(store, pl)
        BY <1>5, <3>3
      <4>2. Holder(store, b) = q \/ Holder(store, b) \notin Player
        BY <2>2, Constants DEF Reach
      <4> QED BY <4>1, <4>2 DEF Notified
    <3>5. ~TakenFrom(s, q, t)
      BY <2>1, <3>1, <3>2, <3>4 DEF Closes
    <3>6. Reach(s, at, q, t)
      BY <3>5, ReachIs
    <3>7. Reach(s, at, q, b)
      BY <3>1, <3>6 DEF Reach
    <3> QED BY <3>7 DEF b
  <2> QED BY <2>3, <2>4
<1> QED BY <1>3, <1>6 DEF InReach

\* What is around a container is held by who holds it.
LEMMA HolderAround ==
    ASSUME NEW s, Grounded(s.parent), NEW b \in Container, NEW t \in {b} \cup Around(s.parent, b)
    PROVE  Holder(s, b) = Holder(s, t)
<1> DEFINE l == s.parent
<1>1. Grounded(l) /\ t \in {b} \cup Around(l, b) /\ t \in Container
  BY AroundIsClosed
<1>2. TopOf(l, b) = TopOf(l, t)
  <2> HIDE DEF l
  <2> QED BY <1>1, TopOfAround
<1> QED BY <1>1, <1>2, Constants DEF Holder

\* Closing every window on a container and on what is in it
LEMMA WindowsClosed ==
    ASSUME NEW w \in [Window -> Container \cup {NoThing}], NEW s, NEW B,
           NEW v, v = AutoClose(s, w, B), NEW i \in Window, v[i] # NoThing
    PROVE  v[i] = w[i] /\ v[i] \in Container /\ ({v[i]} \cup Around(s.parent, v[i])) \cap B = {}
<1> DEFINE u == AutoClose(s, w, B)
<1>1. \A j \in Window : u[j] # NoThing =>
        /\ u[j] = w[j] /\ w[j] \in Container
        /\ ({w[j]} \cup Around(s.parent, w[j])) \cap B = {}
  BY ClosedSome
<1>2. v = u
  OBVIOUS
<1> HIDE DEF u
<1> QED BY <1>1, <1>2

\* What is removed, and what was in it, is closed first.
LEMMA WindowsRemoved ==
    ASSUME store \in Stores, Placed(store), window \in Windows, InReach(store, at, window),
           NEW t \in Thing, InPlace(store, t), NEW m, NEW s, RemovedAs(store, s, t, m), NEW w,
           w = IF t \in Container
               THEN [q \in Player |-> IF q \in Notified(store.parent[t])
                                      THEN AutoClose(store, window[q], {t}) ELSE window[q]]
               ELSE window
    PROVE  w \in Windows /\ InReach(s, at, w)
<1> DEFINE l == store.parent
           pl == store.parent[t]
           Closes(q) == t \in Container /\ q \in Notified(pl)
           B == {t}
<1>0. Grounded(l)
  BY DEF Placed
<1>1. \A q \in Player : window[q] \in [Window -> Container \cup {NoThing}]
  BY DEF Windows
<1>2. \A q \in Player : w[q] = IF Closes(q) THEN AutoClose(store, window[q], B) ELSE window[q]
  OBVIOUS
<1>3. w \in Windows
  <2>1. t \in Container => w = [q \in Player |-> w[q]]
    OBVIOUS
  <2> HIDE DEF B
  <2>2. ASSUME NEW q \in Player PROVE w[q] \in [Window -> Container \cup {NoThing}]
    BY <1>1, <1>2, ClosedSome
  <2>3. t \notin Container => w = window
    OBVIOUS
  <2> QED BY <2>1, <2>2, <2>3 DEF Windows
<1> HIDE DEF Closes, B
<1>4. ASSUME NEW q \in Player, NEW i \in Window, w[q][i] # NoThing
      PROVE  /\ window[q][i] = w[q][i] /\ w[q][i] \in Container
             /\ Closes(q) => t \notin {w[q][i]} \cup Around(l, w[q][i])
  <2>1. CASE Closes(q)
    <3> DEFINE v == window[q]
               u == w[q]
    <3>1. v \in [Window -> Container \cup {NoThing}] /\ u = AutoClose(store, v, B) /\ u[i] # NoThing
      BY <1>1, <1>2, <1>4, <2>1
    <3> HIDE DEF v, u
    <3>2. u[i] = v[i] /\ u[i] \in Container /\ ({u[i]} \cup Around(store.parent, u[i])) \cap B = {}
      BY <3>1, WindowsClosed
    <3> QED BY <3>2 DEF v, u, B
  <2>2. CASE ~Closes(q)
    BY <1>1, <1>2, <1>4, <2>2
  <2> QED BY <2>1, <2>2
<1>5. Holder(store, t) = Holder(store, pl)
  BY <1>0, HolderOfPlace DEF InPlace
<1>6. Gone(store, t, m) \subseteq {t} \cup Inner(l, t)
  BY DEF Gone
<1>7. ASSUME NEW q \in Player, NEW i \in Window, w[q][i] # NoThing
      PROVE  Reach(s, at, q, w[q][i])
  <2> DEFINE b == w[q][i]
  <2>1. window[q][i] = b /\ b \in Container /\ (Closes(q) => t \notin {b} \cup Around(l, b))
    BY <1>4, <1>7
  <2>2. Reach(store, at, q, b)
    BY <1>7, <2>1 DEF InReach
  <2> HIDE DEF b
  <2>3. t \notin {b} \cup Around(l, b)
    <3>1. SUFFICES ASSUME t \in {b} \cup Around(l, b) PROVE FALSE
      OBVIOUS
    <3>2. t \in Container
      BY <2>1, <3>1, AroundIsClosed
    <3>3. Holder(store, b) = Holder(store, pl)
      BY <1>0, <1>5, <2>1, <3>1, HolderAround
    <3>4. Holder(store, b) = q \/ Holder(store, b) \notin Player
      BY <2>2, Constants DEF Reach
    <3>5. q \in Notified(pl)
      BY <3>3, <3>4 DEF Notified
    <3> QED BY <2>1, <3>1, <3>2, <3>5 DEF Closes
  <2>4. ASSUME NEW j \in {b} \cup Around(l, b) PROVE s.parent[j] = l[j]
    <3>1. j \in Thing /\ Around(l, j) \subseteq Around(l, b)
      BY <2>1, AroundIsClosed, AroundIsTransitive, Constants
    <3>2. j \notin Gone(store, t, m)
      BY <1>6, <2>3, <3>1 DEF Inner
    <3> QED BY <3>1, <3>2 DEF RemovedAs
  <2>5. Holder(s, b) = Holder(store, b)
    BY <2>1, <2>4, HolderKept
  <2>6. Reach(s, at, q, b)
    BY <2>2, <2>5 DEF Reach
  <2> QED BY <2>6 DEF b
<1> QED BY <1>3, <1>7 DEF InReach

\* A player who walks away closes what he leaves.
LEMMA WindowsWalked ==
    ASSUME at \in [Player -> Tile], window \in Windows, InReach(store, at, window),
           NEW p \in Player, NEW l \in Tile, Walk(p, l)
    PROVE  /\ at' \in [Player -> Tile] /\ window' \in Windows
           /\ InReach(store, at', window')
<1> DEFINE far == {b \in Shown(p) : Holder(store, b) # p /\ ~Near(l, TileOf(store, b))}
           v == window[p]
           u == AutoClose(store, v, far)
<1>0. Tile \cap Player = {}
  BY Constants
<1>1. at' = [at EXCEPT ![p] = l] /\ window' = [window EXCEPT ![p] = u]
  BY DEF Walk
<1>2. v \in [Window -> Container \cup {NoThing}]
  BY DEF Windows
<1>3. \A i \in Window : v[i] # NoThing => v[i] \in Shown(p)
  BY DEF Shown
<1> HIDE DEF v, far
<1>4. u \in [Window -> Container \cup {NoThing}]
  BY <1>2, ClosedSome
<1>5. ASSUME NEW i \in Window, u[i] # NoThing
      PROVE  u[i] = v[i] /\ u[i] \in Container /\ u[i] \notin far
  <2>1. u[i] = v[i] /\ u[i] \in Container /\ ({u[i]} \cup Around(store.parent, u[i])) \cap far = {}
    BY <1>2, <1>5, WindowsClosed
  <2> QED BY <2>1
<1> HIDE DEF u
<1>6. at' \in [Player -> Tile] /\ at'[p] = l /\ \A q \in Player \ {p} : at'[q] = at[q]
  BY <1>1
<1>7. window' \in Windows /\ window'[p] = u /\ \A q \in Player \ {p} : window'[q] = window[q]
  BY <1>1, <1>4 DEF Windows
<1>8. ASSUME NEW q \in Player, NEW i \in Window, window'[q][i] # NoThing
      PROVE  Reach(store, at', q, window'[q][i])
  <2>1. CASE q # p
    <3>1. Reach(store, at, q, window'[q][i])
      BY <1>7, <1>8, <2>1 DEF InReach
    <3> QED BY <1>6, <2>1, <3>1 DEF Reach
  <2>2. CASE q = p
    <3> DEFINE b == u[i]
    <3>1. b = v[i] /\ b # NoThing /\ b \notin far /\ window'[q][i] = b
      BY <1>5, <1>7, <1>8, <2>2
    <3>2. Reach(store, at, p, b) /\ b \in Shown(p)
      BY <1>3, <3>1 DEF InReach, v
    <3> HIDE DEF b
    <3>3. Holder(store, b) = p \/ (Holder(store, b) \in Tile /\ Near(l, Holder(store, b)))
      <4>1. Holder(store, b) = p \/ Near(l, TileOf(store, b))
        BY <3>1, <3>2 DEF far
      <4> QED BY <1>0, <3>2, <4>1 DEF Reach, TileOf
    <3>4. Reach(store, at', p, b)
      BY <1>6, <3>3 DEF Reach
    <3> QED BY <2>2, <3>1, <3>4
  <2> QED BY <2>1, <2>2
<1> QED BY <1>6, <1>7, <1>8 DEF InReach

\* Opening what a player can name, or the container around what he has open, and closing
LEMMA CanNameReach ==
    ASSUME store \in Stores, Placed(store), at \in [Player -> Tile], window \in Windows,
           InReach(store, at, window), NEW p \in Player, NEW t \in Thing, CanName(p, t)
    PROVE  InPlace(store, t) /\ Reach(store, at, p, t)
<1> DEFINE pl == store.parent[t]
<1>0. Grounded(store.parent)
  BY DEF Placed
<1>1. \/ pl = p /\ t \in Inventory(store, p)
      \/ pl \in Container /\ pl \in Shown(p)
      \/ pl \in Tile /\ Near(at[p], pl)
  BY Constants DEF CanName
<1>2. pl \in Place
  BY <1>1 DEF Place
<1>3. InPlace(store, t)
  BY <1>1, <1>2, Constants DEF InPlace
<1>4. Holder(store, t) = Holder(store, pl)
  BY <1>0, <1>2, HolderOfPlace
<1>5. CASE pl \in Container
  <2>1. PICK i \in Window : window[p][i] = pl /\ pl # NoThing
    BY <1>1, <1>5, Constants DEF Shown
  <2>2. Reach(store, at, p, pl)
    BY <2>1 DEF InReach
  <2> QED BY <1>3, <1>4, <2>2 DEF Reach
<1>6. CASE pl \notin Container
  <2>1. Holder(store, pl) = pl
    BY <1>2, <1>6, Constants DEF Holder, Place
  <2> QED BY <1>1, <1>3, <1>4, <1>6, <2>1 DEF Reach
<1> QED BY <1>5, <1>6

\* A window is closed, or shows something in reach.
LEMMA WindowSet ==
    ASSUME window \in Windows, InReach(store, at, window), NEW p \in Player, NEW i \in Window,
           NEW b \in Container \cup {NoThing}, b = NoThing \/ Reach(store, at, p, b),
           NEW w, w = [window EXCEPT ![p][i] = b]
    PROVE  w \in Windows /\ InReach(store, at, w)
<1>1. w \in Windows
  BY DEF Windows
<1>2. \A q \in Player, j \in Window : w[q][j] = IF q = p /\ j = i THEN b ELSE window[q][j]
  BY DEF Windows
<1> QED BY <1>1, <1>2 DEF InReach

\* Opening, closing and going one bag up
LEMMA WindowsUsed ==
    ASSUME store \in Stores, Placed(store), at \in [Player -> Tile], window \in Windows,
           InReach(store, at, window), NEW p \in Player, NEW i \in Window,
           \/ \E b \in Container : UseContainer(p, b, i)
           \/ CloseContainer(p, i)
           \/ MoveUpContainer(p, i)
    PROVE  window' \in Windows /\ InReach(store, at, window')
<1>1. ASSUME NEW b \in Container, UseContainer(p, b, i)
      PROVE  window' \in Windows /\ InReach(store, at, window')
  <2>1. b \in Thing /\ CanName(p, b)
    BY <1>1, Constants DEF UseContainer
  <2>2. Reach(store, at, p, b)
    BY <2>1, CanNameReach
  <2>3. CASE b \in Shown(p)
    <3>1. PICK j \in Window : window' = [window EXCEPT ![p][j] = NoThing]
      BY <1>1, <2>3 DEF UseContainer
    <3> QED BY <3>1, WindowSet
  <2>4. CASE b \notin Shown(p)
    <3>1. window' = [window EXCEPT ![p][i] = b]
      BY <1>1, <2>4 DEF UseContainer
    <3> QED BY <2>2, <3>1, WindowSet
  <2> QED BY <2>3, <2>4
<1>2. CASE CloseContainer(p, i)
  <2>1. window' = [window EXCEPT ![p][i] = NoThing]
    BY <1>2 DEF CloseContainer
  <2> QED BY <2>1, WindowSet
<1>3. CASE MoveUpContainer(p, i)
  <2> DEFINE b == window[p][i]
             c == store.parent[b]
  <2>1. b # NoThing /\ c \in Container /\ window' = [window EXCEPT ![p][i] = c]
    BY <1>3 DEF MoveUpContainer
  <2>2. b \in Container /\ Reach(store, at, p, b)
    BY <2>1 DEF Windows, InReach
  <2>3. Holder(store, b) = Holder(store, c)
    <3>1. b \in Thing /\ c \in Place /\ Grounded(store.parent)
      BY <2>1, <2>2, Constants DEF Place, Placed
    <3> HIDE DEF b
    <3> QED BY <3>1, HolderOfPlace
  <2>4. Reach(store, at, p, c)
    BY <2>2, <2>3 DEF Reach
  <2> HIDE DEF c
  <2> QED BY <2>1, <2>4, WindowSet
<1> QED BY <1>1, <1>2, <1>3

-----------------------------------------------------------------------------
(* The invariant.                                                          *)

\* What there is of things that do not stack
Existing(s) == {x \in Container \cup Gear : s.parent[x] # Nowhere}

\* The ledger has all pieces and all things.
Booked(s, b) ==
    /\ b \in [pieces : Int, things : SUBSET Thing]
    /\ b.pieces = Pieces(s) /\ b.things = Existing(s)

\* The invariant: good books, windows in reach, and a ledger that agrees
StorageInv ==
    /\ Good(store)
    /\ at \in [Player -> Tile] /\ window \in Windows
    /\ InReach(store, at, window)
    /\ Booked(store, ledger)

\* As the map is loaded, bags and gear lie on tiles, and nobody has anything.
Laying(s, lies) ==
    /\ s.parent = [t \in Thing |-> IF t \in Stack THEN Nowhere ELSE lies[t]]
    /\ s.inv = [p \in Player |-> [k \in Slot |-> NoThing]]
    /\ s.inside = [x \in Container \cup Tile |-> IF x \in Container THEN {}
                                           ELSE {t \in Container \cup Gear : lies[t] = x}]
    /\ s.units = [t \in Stack |-> 0]
    /\ s.weight = [b \in Container |-> 0] /\ s.amount = [b \in Container |-> 1]
    /\ s.carried = [p \in Player |-> 0]

\* The store of Init, field by field
LEMMA LaidOut ==
    ASSUME NEW lies \in [Container \cup Gear -> Tile], NEW s,
           s = [Empty EXCEPT
                  !.parent = [t \in Thing |-> IF t \in Stack THEN Nowhere ELSE lies[t]],
                  !.inside = [x \in Container \cup Tile |-> IF x \in Container THEN {}
                                       ELSE {t \in Container \cup Gear : lies[t] = x}]]
    PROVE  s \in Stores /\ Laying(s, lies)
<1> DEFINE pa == [t \in Thing |-> IF t \in Stack THEN Nowhere ELSE lies[t]]
           ins == [x \in Container \cup Tile |-> IF x \in Container THEN {}
                                       ELSE {t \in Container \cup Gear : lies[t] = x}]
<1>1. pa \in [Thing -> Place \cup {Nowhere}]
  <2>1. \A t \in Thing : t \notin Stack => t \in Container \cup Gear
    BY DEF Thing
  <2> QED BY <2>1 DEF Place
<1>2. ins \in [Container \cup Tile -> SUBSET Thing]
  BY Constants
<1>3. s = [Empty EXCEPT !.parent = pa, !.inside = ins]
  OBVIOUS
<1> HIDE DEF pa, ins
<1>4. /\ s.parent = pa /\ s.inside = ins
      /\ s.inv = [p \in Player |-> [k \in Slot |-> NoThing]]
      /\ s.units = [t \in Stack |-> 0]
      /\ s.weight = [b \in Container |-> 0] /\ s.amount = [b \in Container |-> 1]
      /\ s.depth = [b \in Container |-> 0] /\ s.carried = [p \in Player |-> 0]
  BY <1>3 DEF Empty
<1> DEFINE iv == Empty.inv
           un == Empty.units
           we == Empty.weight
           am == Empty.amount
           de == Empty.depth
           ca == Empty.carried
<1>5. iv \in [Player -> [Slot -> Thing \cup {NoThing}]]
      /\ un \in [Stack -> 0 .. MaxStack]
      /\ we \in [Container -> Nat] /\ am \in [Container -> Nat]
      /\ de \in [Container -> Nat] /\ ca \in [Player -> Nat]
  BY Constants DEF Empty
<1>6. s = [parent |-> pa, inv |-> iv, inside |-> ins, units |-> un, weight |-> we,
           amount |-> am, depth |-> de, carried |-> ca]
  BY <1>3 DEF Empty
<1> HIDE DEF iv, un, we, am, de, ca
<1>7. [parent |-> pa, inv |-> iv, inside |-> ins, units |-> un, weight |-> we,
       amount |-> am, depth |-> de, carried |-> ca] \in Stores
  BY <1>1, <1>2, <1>5, StoreMade
<1>8. s \in Stores
  BY <1>6, <1>7
<1> QED BY <1>4, <1>8 DEF Laying, pa, ins

\* With everything on tiles all books are right.
LEMMA LaidOutGood ==
    ASSUME NEW lies \in [Container \cup Gear -> Tile], NEW s \in Stores, Laying(s, lies)
    PROVE  Good(s) /\ Pieces(s) = 0 /\ Existing(s) = Container \cup Gear
<1>1. /\ \A t \in Stack : s.parent[t] = Nowhere /\ s.units[t] = 0
      /\ \A t \in Container \cup Gear : s.parent[t] = lies[t] /\ s.parent[t] \in Tile
      /\ \A p \in Player, k \in Slot : s.inv[p][k] = NoThing
      /\ \A b \in Container : s.inside[b] = {} /\ s.weight[b] = 0 /\ s.amount[b] = 1
      /\ \A x \in Tile : s.inside[x] = {t \in Container \cup Gear : lies[t] = x}
      /\ \A p \in Player : s.carried[p] = 0
  <2>1. \A x \in Tile : x \notin Container
    BY Constants
  <2>2. \A t \in Container \cup Gear : t \notin Stack /\ t \in Thing
    BY Constants
  <2> QED BY <2>1, <2>2, Constants DEF Laying
<1>2. \A x \in Tile : x \notin Container /\ x # Nowhere /\ x \notin Player
  BY Constants DEF Place
<1>3. Thing = Stack \cup (Container \cup Gear) /\ Stack \cap (Container \cup Gear) = {}
  BY Constants DEF Thing
<1>4. \A t \in Thing : s.parent[t] \notin Container /\ s.parent[t] \notin Player
  BY <1>1, <1>2, <1>3, Constants DEF Place
<1>5. Placed(s)
  <2>1. Grounded(s.parent)
    BY <1>4, Constants DEF Grounded
  <2>2. ASSUME NEW x \in Container \cup Tile PROVE s.inside[x] = {t \in Thing : s.parent[t] = x}
    <3>1. CASE x \in Container
      BY <1>1, <1>4, <3>1
    <3>2. CASE x \in Tile
      <4>1. \A t \in Thing : s.parent[t] = x <=> t \in Container \cup Gear /\ lies[t] = x
        BY <1>1, <1>2, <1>3, <3>2
      <4>2. s.inside[x] = {t \in Container \cup Gear : lies[t] = x}
        BY <1>1, <3>2
      <4> QED BY <1>3, <4>1, <4>2
    <3> QED BY <3>1, <3>2
  <2> QED BY <1>1, <1>4, <2>1, <2>2, Constants DEF Placed
<1>6. Load(s, {}) = 0 /\ Cardinality({}) = 0
  BY SumWithout, FS_EmptySet DEF Load
<1>7. Counted(s)
  <2>1. ASSUME NEW b \in Container PROVE CountedAt(s, b)
    <3>1. \A x \in Thing : Around(s.parent, x) = {}
      BY <1>4, AroundUnfolds
    <3>2. Inner(s.parent, b) = {}
      BY <3>1 DEF Inner
    <3>3. s.inside[b] = {} /\ s.weight[b] = 0 /\ s.amount[b] = 1
      BY <1>1
    <3>4. s.weight[b] = Load(s, s.inside[b])
      BY <1>6, <3>3
    <3>5. Cardinality(Inner(s.parent, b)) = 0
      BY <1>6, <3>2
    <3> QED BY <3>3, <3>4, <3>5 DEF CountedAt
  <2> QED BY <2>1 DEF Counted
<1>8. InUse(s, {})
  BY <1>1, <1>2 DEF InUse
<1>9. \A p \in Player : Inventory(s, p) = {}
  BY <1>1 DEF Inventory
<1>10. Carried(s)
  <2>1. ASSUME NEW p \in Player PROVE LoadOf(s, p) = 0
    <3>1. Inventory(s, p) = {}
      BY <1>9
    <3> QED BY <1>6, <3>1 DEF LoadOf
  <2> QED BY <1>1, <2>1 DEF Carried
<1>11. Limits(s)
  <2>1. Hand \subseteq Slot /\ \A k \in Hand : Other(k) \in Slot
    BY Hands
  <2>2. ASSUME NEW b \in Container PROVE Cardinality(s.inside[b]) <= Room[b]
    <3>1. s.inside[b] = {}
      BY <1>1
    <3>2. Cardinality(s.inside[b]) = 0
      BY <1>6, <3>1
    <3>3. Room[b] \in Nat
      BY StorageConstants
    <3> QED BY <3>2, <3>3
  <2>3. MaxAmount > 0 => \A b \in Container : s.amount[b] <= MaxAmount + 1
    BY <1>1, StorageConstants
  <2> QED BY <1>1, <2>1, <2>2, <2>3 DEF Limits
<1>12. Pieces(s) = 0
  <2> DEFINE f == s.units
  <2>1. \A x \in Stack : f[x] = 0 /\ f[x] \in Int
    BY <1>1
  <2>2. IsFiniteSet(Stack) /\ IsFiniteSet({})
    BY Constants, FS_EmptySet
  <2> HIDE DEF f
  <2>3. SumFunctionOnSet(f, {}) = 0
    BY <2>2, SumWithout
  <2>4. SumFunctionOnSet(f, {}) = SumFunctionOnSet(f, Stack)
    <3> DEFINE R == {}
    <3>1. R \in SUBSET Stack /\ \A y \in Stack \ R : f[y] = 0
      BY <2>1
    <3> HIDE DEF R
    <3>2. SumFunctionOnSet(f, R) = SumFunctionOnSet(f, Stack)
      BY <2>1, <2>2, <3>1, SumZeros
    <3> QED BY <3>2 DEF R
  <2> QED BY <2>3, <2>4 DEF Pieces, f
<1>13. Existing(s) = Container \cup Gear
  BY <1>1, <1>2 DEF Existing
<1> QED BY <1>5, <1>7, <1>8, <1>10, <1>11, <1>12, <1>13 DEF Good, Sound

\* Init is such a world, with every window closed.
LEMMA StorageInitially ==
    ASSUME Init
    PROVE  StorageInv
<1>1. PICK lies \in [Container \cup Gear -> Tile] :
        store = [Empty EXCEPT
                  !.parent = [t \in Thing |-> IF t \in Stack THEN Nowhere ELSE lies[t]],
                  !.inside = [x \in Container \cup Tile |-> IF x \in Container THEN {}
                                       ELSE {t \in Container \cup Gear : lies[t] = x}]]
  BY DEF Init
<1>2. store \in Stores /\ Laying(store, lies)
  BY <1>1, LaidOut
<1>3. Good(store) /\ Pieces(store) = 0 /\ Existing(store) = Container \cup Gear
  BY <1>2, LaidOutGood
<1>4. at \in [Player -> Tile] /\ window \in Windows /\ \A q \in Player, i \in Window : window[q][i] = NoThing
  BY DEF Init, Windows
<1>5. InReach(store, at, window)
  BY <1>4 DEF InReach
<1>6. Booked(store, ledger)
  <2>1. ledger = [pieces |-> 0, things |-> Container \cup Gear]
    BY DEF Init
  <2> QED BY <1>3, <2>1, Constants DEF Booked
<1> QED BY <1>3, <1>4, <1>5, <1>6 DEF StorageInv

-----------------------------------------------------------------------------
(* Every step keeps the invariant.                                         *)

\* The books are right as long as no piece and no other thing comes or goes.
LEMMA BookedKept ==
    ASSUME Booked(store, ledger), NEW s, Pieces(s) = Pieces(store),
           \A x \in Container \cup Gear : s.parent[x] = Nowhere <=> store.parent[x] = Nowhere
    PROVE  Booked(s, ledger)
<1>1. Existing(s) = Existing(store)
  BY DEF Existing
<1> QED BY <1>1 DEF Booked

\* What is with somebody or on a tile in the end is somewhere to begin with, and
\* what is somewhere is not nowhere in the end: a bag that is nowhere is empty.
LEMMA SomewhereIsHeld ==
    ASSUME NEW s \in Stores, Placed(s), InUse(s, {}), NEW t \in Thing
    PROVE  Holder(s, t) = Nowhere <=> s.parent[t] = Nowhere
<1> DEFINE l == s.parent
<1>0. Grounded(l) /\ Nowhere \notin Container
  BY Constants DEF Placed
<1>1. TopOf(l, t) = IF l[t] \in Container THEN TopOf(l, l[t]) ELSE l[t]
  BY <1>0, TopUnfolds
<1>2. l[t] = Nowhere => TopOf(l, t) = Nowhere
  BY <1>0, <1>1
<1>3. ASSUME l[t] # Nowhere PROVE TopOf(l, t) # Nowhere
  <2>1. PICK a \in {t} \cup Around(l, t) : TopOf(l, t) = l[a]
    BY <1>0, TopIsThere
  <2>2. CASE a = t
    BY <1>3, <2>1, <2>2
  <2>3. CASE a # t
    <3>1. a \in Around(l, t) /\ a \in Container /\ Around(l, t) \subseteq Thing
      BY <2>1, <2>3, AroundIsClosed, Constants
    <3>2. PICK j \in {t} \cup Around(l, t) : l[j] = a
      BY <3>1, AroundHoldsSome
    <3>3. j \in s.inside[a]
      BY <3>1, <3>2 DEF Placed
    <3>4. l[a] # Nowhere
      BY <3>1, <3>3 DEF InUse
    <3> QED BY <2>1, <3>4
  <2> QED BY <2>2, <2>3
<1> QED BY <1>2, <1>3 DEF Holder

\* Where a client may ask to put something is a place there is.
LEMMA TargetsSent ==
    ASSUME Good(store), at \in [Player -> Tile], window \in Windows,
           InReach(store, at, window), NEW p \in Player, NEW to \in Targets(p)
    PROVE  Sent(store, to)
<1>0. /\ store \in Stores /\ Placed(store) /\ InUse(store, {}) /\ Grounded(store.parent)
      /\ Nowhere \notin Player \cup Tile /\ Player \cap Tile = {} /\ Tile \cap Container = {}
      /\ Player \cap Container = {} /\ Container \subseteq Thing /\ Nowhere \notin Container
  BY Constants DEF Good, Sound, Placed, Place
<1>1. ASSUME NEW b \in Shown(p)
      PROVE  b \in Container /\ Holder(store, b) # Nowhere /\ store.parent[b] # Nowhere
  <2>1. PICK i \in Window : window[p][i] = b /\ b # NoThing
    BY <1>1 DEF Shown
  <2>2. b \in Container /\ Reach(store, at, p, b)
    BY <2>1 DEF Windows, InReach
  <2>3. Holder(store, b) # Nowhere
    BY <1>0, <2>2 DEF Reach
  <2>4. store.parent[b] # Nowhere
    BY <1>0, <2>2, <2>3, SomewhereIsHeld
  <2> QED BY <2>2, <2>3, <2>4
<1>2. CASE \E l \in Tile : to = To(l, NoSlot, NoThing)
  BY <1>0, <1>2 DEF Sent, To, Place
<1>3. CASE \E k \in Slot \cup {NoSlot} : to = To(p, k, NoThing)
  BY <1>0, <1>3 DEF Sent, To, Place
<1>4. ASSUME NEW b \in Shown(p), NEW x \in store.inside[b] \cup {NoThing}, to = To(b, NoSlot, x)
      PROVE  Sent(store, to)
  BY <1>0, <1>1, <1>4 DEF Sent, To, Place
<1>5. ASSUME NEW b \in Shown(p), store.parent[b] \in Container,
             to = To(store.parent[b], NoSlot, NoThing)
      PROVE  Sent(store, to)
  <2> DEFINE c == store.parent[b]
  <2>1. c \in Container /\ b \in Thing /\ c \in Place
    BY <1>0, <1>1, <1>5 DEF Place
  <2>2. Holder(store, b) = Holder(store, c)
    BY <1>0, <2>1, HolderOfPlace
  <2>3. store.parent[c] # Nowhere
    <3> HIDE DEF c
    <3>1. Holder(store, c) # Nowhere
      BY <1>1, <2>2
    <3> QED BY <1>0, <2>1, <3>1, SomewhereIsHeld
  <2>4. to.place = c /\ to.item = NoThing
    BY <1>5 DEF To
  <2> HIDE DEF c
  <2> QED BY <1>0, <2>1, <2>3, <2>4 DEF Sent
<1> QED BY <1>2, <1>3, <1>4, <1>5 DEF Targets

\* A client's move: what is moved stays in one piece, and every window that shows
\* a bag that went out of reach is closed.
LEMMA MoveItemKeeps ==
    ASSUME StorageInv, NEW p \in Player, NEW t \in Thing, MoveItem(p, t)
    PROVE  StorageInv'
<1>0. /\ Good(store) /\ store \in Stores /\ Placed(store) /\ at \in [Player -> Tile]
      /\ window \in Windows /\ InReach(store, at, window) /\ Booked(store, ledger)
  BY DEF StorageInv, Good, Sound
<1>1. InPlace(store, t)
  BY <1>0, CanNameReach DEF MoveItem
<1>2. PICK to \in Targets(p), n \in 1 .. IF t \in Stack THEN store.units[t] ELSE 1 :
        \E s \in Moved(store, to, t, n) \ {store} :
          store' = s /\ window' = WindowsAfter(s, t, store.parent[t])
  BY DEF MoveItem
<1>3. n \in Nat
  BY <1>0, <1>2, StoreTypes
<1>4. Sent(store, to)
  BY <1>0, TargetsSent
<1>5. PICK s \in Moved(store, to, t, n) : store' = s /\ window' = WindowsAfter(s, t, store.parent[t])
  BY <1>2
<1>6. Good(s) /\ Kept(store, s, t)
  BY <1>0, <1>1, <1>3, <1>4, MovedGood
<1>7. window' \in Windows /\ InReach(s, at, window')
  <2>1. Placed(s) /\ \A c \in Container \ {t} : s.parent[c] = store.parent[c]
    BY <1>6 DEF Good, Sound, Kept
  <2> QED BY <1>0, <1>1, <1>5, <2>1, WindowsMoved
<1>8. Booked(s, ledger)
  BY <1>0, <1>6, BookedKept DEF Kept
<1>9. at' = at /\ ledger' = ledger
  BY DEF MoveItem
<1> QED BY <1>0, <1>5, <1>6, <1>7, <1>8, <1>9 DEF StorageInv

\* What is given or paid fills or empties stacks, and moves nothing else.
LEMMA FilledKeeps ==
    ASSUME StorageInv, NEW n \in Int, Filled(store, store', n), UNCHANGED <<at, window>>,
           ledger' = [ledger EXCEPT !.pieces = @ + n]
    PROVE  StorageInv'
<1>0. /\ at \in [Player -> Tile] /\ window \in Windows
      /\ InReach(store, at, window) /\ Booked(store, ledger)
  BY DEF StorageInv
<1>1. Good(store') /\ Pieces(store') = Pieces(store) + n
      /\ \A x \in Thing \ Stack : store'.parent[x] = store.parent[x]
  BY DEF Filled
<1>2. \A x \in Container \cup Gear : store'.parent[x] = store.parent[x]
  BY <1>1, Constants
<1>3. InReach(store', at, window)
  BY <1>0, <1>2, ReachKept
<1>4. Booked(store', ledger')
  <2>1. Existing(store') = Existing(store)
    BY <1>2 DEF Existing
  <2>2. ledger' \in [pieces : Int, things : SUBSET Thing] /\ ledger'.things = ledger.things
        /\ ledger'.pieces = ledger.pieces + n
    BY <1>0 DEF Booked
  <2> QED BY <1>0, <1>1, <2>1, <2>2 DEF Booked
<1> QED BY <1>0, <1>1, <1>3, <1>4 DEF StorageInv

\* A script or a monster's loot gives a player a stack.
LEMMA GiveKeeps ==
    ASSUME StorageInv, NEW p \in Player, NEW n \in 1 .. MaxStack, Give(p, n)
    PROVE  StorageInv'
<1>1. Good(store) /\ at \in [Player -> Tile]
  BY DEF StorageInv
<1>2. Filled(store, store', n)
  BY <1>1, GiveGood
<1>3. n \in Int /\ UNCHANGED <<at, window>> /\ ledger' = [ledger EXCEPT !.pieces = @ + n]
  BY Constants DEF Give
<1> QED BY <1>2, <1>3, FilledKeeps

\* A player pays; the change comes back as a stack.
LEMMA PayKeeps ==
    ASSUME StorageInv, NEW p \in Player, NEW money \in 1 .. MaxStack, Pay(p, money)
    PROVE  StorageInv'
<1>1. Good(store) /\ at \in [Player -> Tile] /\ ledger.pieces \in Int
  BY DEF StorageInv, Booked
<1>2. Filled(store, store', -money)
  BY <1>1, PayGood
<1>3. money \in Int /\ -money \in Int
  BY Constants
<1>4. UNCHANGED <<at, window>> /\ ledger' = [ledger EXCEPT !.pieces = @ + (-money)]
  BY <1>1, <1>3 DEF Pay
<1> QED BY <1>2, <1>3, <1>4, FilledKeeps

\* With a bag goes what is in it, from the books as well.
LEMMA RemoveKeeps ==
    ASSUME StorageInv, NEW t \in Thing, NEW m \in 1 .. MaxStack, Remove(t, m)
    PROVE  StorageInv'
<1> DEFINE G == {t} \cup IF t \in Container THEN Contents(store, t) ELSE {}
           s == store'
<1>0. /\ Good(store) /\ store \in Stores /\ Placed(store) /\ at \in [Player -> Tile]
      /\ window \in Windows /\ InReach(store, at, window) /\ Booked(store, ledger)
  BY DEF StorageInv, Good, Sound
<1>1. /\ Indexed(store, t) /\ m \in Nat /\ m > 0 /\ (t \in Stack => m <= store.units[t])
      /\ store' = Removed(store, t, m) /\ at' = at
      /\ window' = IF t \in Container
                   THEN [q \in Player |-> IF q \in Notified(store.parent[t])
                                          THEN AutoClose(store, window[q], {t}) ELSE window[q]]
                   ELSE window
  BY Constants DEF Remove
<1>2. InPlace(store, t)
  BY <1>0, <1>1, IndexedInPlace
<1>3. RemovedAs(store, s, t, m)
  BY <1>0, <1>1, <1>2, RemovedGood
<1>4. window' \in Windows /\ InReach(s, at, window')
  <2> HIDE DEF s
  <2> QED BY <1>0, <1>1, <1>2, <1>3, WindowsRemoved
<1>5. G = {t} \cup Inner(store.parent, t)
  <2>1. \A x \in Container : store.inside[x] = {u \in Thing : store.parent[u] = x}
    BY <1>0 DEF Placed
  <2>2. Contents(store, t) = IF t \in Container THEN Inner(store.parent, t) ELSE {}
    BY <2>1, ContentsAreInner
  <2>3. t \notin Container => Inner(store.parent, t) = {}
    BY AroundIsClosed DEF Inner
  <2> QED BY <2>2, <2>3
<1>6. ledger' = [pieces |-> ledger.pieces - IF t \in Stack THEN m ELSE Worth(G \cap Stack),
                 things |-> ledger.things \ G]
  BY DEF Remove
<1>7. Pieces(store) = Pieces(s) + IF t \in Stack THEN m ELSE Worth(G \cap Stack)
  <2>1. t \notin Stack => Gone(store, t, m) = G
    BY <1>5 DEF Gone, Whole
  <2>2. Pieces(store) = Pieces(s) + IF t \in Stack THEN m
                          ELSE SumFunctionOnSet(store.units, Gone(store, t, m) \cap Stack)
    BY <1>3 DEF RemovedAs
  <2> HIDE DEF G, s
  <2> QED BY <2>1, <2>2 DEF Worth
<1>8. Existing(s) = Existing(store) \ G
  <2>1. \A x \in Thing : s.parent[x] = IF x \in Gone(store, t, m) THEN Nowhere ELSE store.parent[x]
    BY <1>3 DEF RemovedAs
  <2>2. CASE Whole(store, t, m)
    <3>1. Gone(store, t, m) = G
      BY <1>5, <2>2 DEF Gone
    <3> HIDE DEF G, s
    <3> QED BY <2>1, <3>1, Constants DEF Existing
  <2>3. CASE ~Whole(store, t, m)
    <3>1. Gone(store, t, m) = {} /\ t \in Stack /\ t \notin Container \cup Gear
      BY <2>3, Constants DEF Gone, Whole
    <3>2. G = {t}
      BY <3>1
    <3> HIDE DEF G, s
    <3>3. \A x \in Container \cup Gear : s.parent[x] = store.parent[x] /\ x \notin G
      BY <2>1, <3>1, <3>2, Constants
    <3> QED BY <3>3 DEF Existing
  <2> QED BY <2>2, <2>3
<1>9. Booked(s, ledger')
  <2>1. Pieces(store) \in Nat /\ ledger.pieces = Pieces(store) /\ ledger.things = Existing(store)
        /\ ledger.things \in SUBSET Thing
    BY <1>0, PiecesType DEF Booked
  <2>2. Pieces(s) \in Nat
    BY <1>3, PiecesType DEF RemovedAs, Good, Sound
  <2> DEFINE v == IF t \in Stack THEN m ELSE Worth(G \cap Stack)
  <2>3. Pieces(store) = Pieces(s) + v /\ ledger' = [pieces |-> ledger.pieces - v, things |-> ledger.things \ G]
    BY <1>6, <1>7
  <2>4. v \in Int
    <3>1. ASSUME t \notin Stack PROVE Worth(G \cap Stack) \in Int
      <4>1. IsFiniteSet(G \cap Stack)
        <5>1. G \cap Stack \in SUBSET Stack
          OBVIOUS
        <5> QED BY <5>1, Constants, FS_Subset
      <4>2. \A x \in G \cap Stack : store.units[x] \in Int
        BY <1>0, StoreTypes
      <4> HIDE DEF G
      <4> QED BY <4>1, <4>2, SumEquation DEF Worth
    <3> QED BY <1>1, <3>1
  <2> HIDE DEF v, G, s
  <2>5. ledger.pieces - v = Pieces(s)
    BY <2>1, <2>2, <2>3, <2>4
  <2>6. ledger' = [pieces |-> Pieces(s), things |-> Existing(s)]
    BY <1>8, <2>1, <2>3, <2>5
  <2>7. Existing(s) \in SUBSET Thing
    BY Constants DEF Existing
  <2> QED BY <2>2, <2>6, <2>7 DEF Booked
<1>10. Good(s)
  BY <1>3 DEF RemovedAs
<1> QED BY <1>0, <1>1, <1>4, <1>9, <1>10 DEF StorageInv

\* Opening and closing windows, and walking, leave the things alone.
LEMMA WindowStepKeeps ==
    ASSUME StorageInv, UNCHANGED <<store, ledger>>, at' \in [Player -> Tile],
           window' \in Windows, InReach(store, at', window')
    PROVE  StorageInv'
<1>1. Good(store) /\ Booked(store, ledger)
  BY DEF StorageInv
<1> QED BY <1>1 DEF StorageInv

\* No step breaks the invariant.
LEMMA StorageStep ==
    ASSUME StorageInv, [Next]_vars
    PROVE  StorageInv'
<1>0. /\ store \in Stores /\ Placed(store) /\ at \in [Player -> Tile] /\ window \in Windows
      /\ InReach(store, at, window)
  BY DEF StorageInv, Good, Sound
<1>1. ASSUME NEW p \in Player, NEW t \in Thing, MoveItem(p, t) PROVE StorageInv'
  BY <1>1, MoveItemKeeps
<1>2. ASSUME NEW p \in Player, NEW i \in Window,
             \/ \E b \in Container : UseContainer(p, b, i)
             \/ CloseContainer(p, i)
             \/ MoveUpContainer(p, i)
      PROVE  StorageInv'
  <2>1. window' \in Windows /\ InReach(store, at, window')
    BY <1>0, <1>2, WindowsUsed
  <2>2. UNCHANGED <<store, at, ledger>>
    BY <1>2 DEF UseContainer, CloseContainer, MoveUpContainer
  <2> QED BY <1>0, <2>1, <2>2, WindowStepKeeps
<1>3. ASSUME NEW p \in Player, NEW l \in Tile, Walk(p, l) PROVE StorageInv'
  <2>1. at' \in [Player -> Tile] /\ window' \in Windows /\ InReach(store, at', window')
    BY <1>0, <1>3, WindowsWalked
  <2>2. UNCHANGED <<store, ledger>>
    BY <1>3 DEF Walk
  <2> QED BY <2>1, <2>2, WindowStepKeeps
<1>4. ASSUME NEW p \in Player, NEW n \in 1 .. MaxStack, Give(p, n) PROVE StorageInv'
  BY <1>4, GiveKeeps
<1>5. ASSUME NEW p \in Player, NEW n \in 1 .. MaxStack, Pay(p, n) PROVE StorageInv'
  BY <1>5, PayKeeps
<1>6. ASSUME NEW t \in Thing, NEW m \in 1 .. MaxStack, Remove(t, m) PROVE StorageInv'
  BY <1>6, RemoveKeeps
<1>7. CASE UNCHANGED vars
  <2>1. UNCHANGED <<store, ledger>> /\ at' = at /\ window' = window
    BY <1>7 DEF vars
  <2> QED BY <1>0, <2>1, WindowStepKeeps
<1> QED BY <1>1, <1>2, <1>3, <1>4, <1>5, <1>6, <1>7 DEF Next

-----------------------------------------------------------------------------
(* What the invariant says of the properties.                              *)

\* The numbers and weights kept twice agree.
LEMMA GoodBooks ==
    ASSUME Good(store)
    PROVE  BooksAgree
<1>0. /\ store \in Stores /\ Placed(store) /\ Counted(store) /\ InUse(store, {})
      /\ Carried(store) /\ Grounded(store.parent)
  BY DEF Good, Sound, Placed
<1>1. \A pl \in Container \cup Tile : store.inside[pl] = {t \in Thing : store.parent[t] = pl}
  BY <1>0 DEF Placed
<1>2. ASSUME NEW p \in Player, NEW t \in Inventory(store, p)
      PROVE  store.parent[t] = p /\ Cardinality({k \in Slot : store.inv[p][k] = t}) = 1
  <2>1. PICK k \in Slot : store.inv[p][k] = t /\ t # NoThing
    BY <1>2 DEF Inventory
  <2>2. store.parent[t] = p /\ \A j \in Slot : store.inv[p][j] = t => j = k
    BY <1>0, <2>1 DEF Placed
  <2>3. {j \in Slot : store.inv[p][j] = t} = {k}
    BY <2>1, <2>2
  <2> QED BY <2>2, <2>3, FS_Singleton
<1>3. \A t \in Stack : store.units[t] > 0 <=> store.parent[t] # Nowhere
  BY <1>0 DEF InUse
<1>4. ASSUME NEW b \in Container
      PROVE  /\ b \notin Around(store.parent, b)
             /\ store.weight[b] = Load(store, store.inside[b])
             /\ store.amount[b] = 1 + Cardinality(Contents(store, b))
  <2>1. b \notin Around(store.parent, b)
    BY <1>0, NothingAroundItself
  <2>2. Contents(store, b) = Inner(store.parent, b)
    BY <1>1, ContentsAreInner
  <2>3. CountedAt(store, b)
    BY <1>0 DEF Counted
  <2> QED BY <2>1, <2>2, <2>3 DEF CountedAt
<1>5. \A p \in Player : Forgotten(p) = {} => store.carried[p] = Load(store, Inventory(store, p))
  BY <1>0 DEF Carried, LoadOf, Forgot, Forgotten
<1> QED BY <1>1, <1>2, <1>3, <1>4, <1>5 DEF BooksAgree

\* The limits hold of the things themselves, not only of the cached numbers.
LEMMA GoodLimits ==
    ASSUME Good(store)
    PROVE  LimitsHold
<1>0. store \in Stores /\ Placed(store) /\ Counted(store) /\ Limits(store)
  BY DEF Good, Sound
<1>1. ASSUME MaxAmount > 0, NEW b \in Container
      PROVE  Cardinality(Contents(store, b)) <= MaxAmount
  <2>1. \A x \in Container : store.inside[x] = {t \in Thing : store.parent[t] = x}
    BY <1>0 DEF Placed
  <2>2. Contents(store, b) = Inner(store.parent, b)
    BY <2>1, ContentsAreInner
  <2>3. store.amount[b] = 1 + Cardinality(Inner(store.parent, b)) /\ store.amount[b] <= MaxAmount + 1
    BY <1>0, <1>1 DEF Counted, CountedAt, Limits
  <2>4. Cardinality(Inner(store.parent, b)) \in Nat /\ MaxAmount \in Nat
    BY InnerType, StorageConstants
  <2> QED BY <2>2, <2>3, <2>4
<1> QED BY <1>0, <1>1 DEF Limits, LimitsHold

\* What is somewhere is what the ledger has.
LEMMA BookedIsAll ==
    ASSUME Good(store), Booked(store, ledger)
    PROVE  NothingLost
<1> DEFINE E == {t \in Thing : Holder(store, t) # Nowhere}
           f == store.units
<1>0. store \in Stores /\ Placed(store) /\ InUse(store, {})
  BY DEF Good, Sound
<1>1. \A t \in Thing : t \in E <=> store.parent[t] # Nowhere
  BY <1>0, SomewhereIsHeld
<1>2. Worth(E \cap Stack) = Pieces(store)
  <2>1. E \cap Stack \in SUBSET Stack /\ \A y \in Stack : f[y] \in Int
    BY <1>0, StoreTypes
  <2>2. ASSUME NEW y \in Stack \ (E \cap Stack) PROVE f[y] = 0
    <3>1. store.parent[y] = Nowhere
      BY <1>1, <2>2, Constants
    <3>2. f[y] \in Nat /\ ~(f[y] > 0)
      BY <1>0, <3>1, StoreTypes, Constants DEF InUse
    <3> QED BY <3>2
  <2> DEFINE R == E \cap Stack
  <2>3. R \in SUBSET Stack /\ \A y \in Stack \ R : f[y] = 0
    BY <2>1, <2>2
  <2> HIDE DEF R, E, f
  <2>4. SumFunctionOnSet(f, R) = SumFunctionOnSet(f, Stack)
    BY <2>1, <2>3, Constants, SumZeros
  <2> QED BY <2>4 DEF Worth, Pieces, R, f
<1>3. E \ Stack = Existing(store)
  <2>1. Thing = Stack \cup (Container \cup Gear) /\ Stack \cap (Container \cup Gear) = {}
    BY Constants DEF Thing
  <2>2. E \in SUBSET Thing
    OBVIOUS
  <2> HIDE DEF E
  <2> QED BY <1>1, <2>1, <2>2 DEF Existing
<1>4. Worth(E \cap Stack) = ledger.pieces /\ E \ Stack = ledger.things
  BY <1>2, <1>3 DEF Booked
<1> QED BY <1>4 DEF NothingLost

-----------------------------------------------------------------------------
(* The theorems.                                                           *)

\* The invariant of moving and storing: however the handlers of game.cpp interleave,
\* after each of them no container is in itself, what is nowhere is out of use and
\* empty, every cached number is right, every limit holds and every open window is
\* in reach.
THEOREM StorageInvariant == Spec => []StorageInv
<1>1. Init => StorageInv
  BY StorageInitially
<1>2. StorageInv /\ [Next]_vars => StorageInv'
  BY StorageStep
<1> QED BY <1>1, <1>2, PTL DEF Spec

\* Cylinders keep to their types: counts stay between 0 and 100, and the weights
\* and numbers that Container and Player cache never fall below nothing.
THEOREM StorageTypes == Spec => []TypeOK
<1>1. StorageInv => TypeOK
  BY DEF StorageInv, Good, Sound, Windows, TypeOK
<1> QED BY <1>1, StorageInvariant, PTL

\* What the code keeps twice agrees: Thing::getParent with Container::itemlist,
\* Tile::items and Player::inventory; Container's weight and number of items with
\* all that is in it at any depth; Player::inventoryWeight with what is worn, but for
\* a player who was made to forget something.
THEOREM StorageBooks == Spec => []BooksAgree
<1>1. StorageInv => BooksAgree
  BY GoodBooks DEF StorageInv
<1> QED BY <1>1, StorageInvariant, PTL

\* No sequence of Game::internalMoveItem, internalAddItem and internalRemoveItem gets
\* past a limit that __queryAdd and __queryMaxCount test: a bag's room, the number of
\* things in it at any depth, a player's strength, hands full with one two-handed thing.
THEOREM StorageLimits == Spec => []LimitsHold
<1>1. StorageInv => LimitsHold
  BY GoodLimits DEF StorageInv
<1> QED BY <1>1, StorageInvariant, PTL

\* A container a client has open exists, and he carries it or it lies next to him:
\* Player::postRemoveNotification and autoCloseContainers close enough windows,
\* whatever the bag is in and whoever moves that.
THEOREM StorageWindows == Spec => []WindowsInReach
<1>1. StorageInv => WindowsInReach
  BY ReachedIs DEF StorageInv
<1> QED BY <1>1, StorageInvariant, PTL

\* Nothing is made or lost by moving it: Game::internalMoveItem splits, joins and
\* exchanges without changing the sum of all stacks or the set of all other things,
\* and Game::removeMoney takes exactly the price, change included.
THEOREM StorageConserves == Spec => []NothingLost
<1>1. StorageInv => NothingLost
  BY BookedIsAll DEF StorageInv
<1> QED BY <1>1, StorageInvariant, PTL

=============================================================================
