---------------------------- MODULE World_proofs ----------------------------
(***************************************************************************)
(* Proofs about three components that share nothing but the world they are *)
(* in: the decay of items, the raids, and the parties of players.          *)
(*                                                                         *)
(* Decay, for any types, sizes of the wheel and numbers of items: the      *)
(* references of an object are exact because every node of the three lists *)
(* is taken with a reference and given back with one: a node only moves    *)
(* from the wheel to ToReleaseThings (ListingsMove), and cleanup gives back *)
(* as many references as it removes nodes (CleanUpSound).  An item that is *)
(* decaying is listed because the state is set with the node, and taken    *)
(* back, or replaced by a fresh one, whenever the node is.  Its time is    *)
(* over close to its duration because, from one visit to the next, what it *)
(* has waited, what is left of its duration, and the turns until its node  *)
(* is visited again add up to the duration it started with, but for what   *)
(* rounding and the place of the cleanup between two turns add (Drift).    *)
(*                                                                         *)
(* Raids, for any raids and any number of reloads: why at most one runs,   *)
(* with exactly one event to wait for, and why checks go on.  Both are     *)
(* statements about how many tasks of a kind wait, with the scheduler or   *)
(* the dispatcher.  The first lemmas say how the steps of a task change    *)
(* such a number; the invariant says which events a reload can stop.       *)
(*                                                                         *)
(* Parties: Update, Pass and Leave are looked at one record at a time: each *)
(* leaves a record with a sound roster, a private channel and a current    *)
(* verdict.  Settle then mends the pointers of the players of whatever     *)
(* parties end, and the other handlers change one record.                  *)
(***************************************************************************)
EXTENDS Decay, Raids, Party, FiniteSetTheorems, FunctionTheorems, SequenceTheorems, TLAPS

-----------------------------------------------------------------------------
(* DECAY OF ITEMS.                                                         *)

\* The references of one item are exact.
Exact(i) ==
  /\ useCount[i] = (IF inWorld[i] THEN 1 ELSE 0) + Cardinality(ListingsOf(i))
  /\ Exists(i) <=> useCount[i] > 0

-----------------------------------------------------------------------------
(* Arithmetic of the wheel *)

LEMMA ModRange ==
  ASSUME NEW a \in Int, NEW b \in Nat \ {0}
  PROVE  a % b \in 0 .. b - 1
  OBVIOUS

LEMMA DivNat ==
  ASSUME NEW a \in Nat, NEW b \in Nat \ {0}
  PROVE  a \div b \in Nat
  OBVIOUS

\* What is left of a duration is one, and its bucket is one.
LEMMA WheelTypes ==
  ASSUME NEW d \in Nat, NEW b \in BucketSet
  PROVE  /\ Rounded(d) \in Nat
         /\ (b + Rounded(d)) % Buckets \in BucketSet
         /\ FirstBucket(b, d) \in BucketSet
<1>1. Rounded(d) \in Nat
  BY DivNat, SizesAssumption DEF Rounded
<1>2. /\ Buckets \in Nat \ {0}
      /\ b + Rounded(d) \in Int /\ b + 1 + Rounded(d) \in Int
  BY <1>1, SizesAssumption DEF BucketSet
<1>3. (b + Rounded(d)) % Buckets \in BucketSet
  <2> DEFINE e == b + Rounded(d)
  <2> HIDE DEF e
  <2>1. e \in Int => e % Buckets \in 0 .. Buckets - 1
    BY <1>2, ModRange
  <2> QED
    BY <2>1, <1>2 DEF e, BucketSet
<1>4. (b + 1 + Rounded(d)) % Buckets \in BucketSet
  <2> DEFINE e == b + 1 + Rounded(d)
  <2> HIDE DEF e
  <2>1. e \in Int => e % Buckets \in 0 .. Buckets - 1
    BY <1>2, ModRange
  <2> QED
    BY <2>1, <1>2 DEF e, BucketSet
<1> QED
  BY <1>1, <1>3, <1>4 DEF FirstBucket

-----------------------------------------------------------------------------
(* The nodes of the lists *)

LEMMA ListingsFinite ==
  ASSUME NEW i PROVE IsFiniteSet(ListingsOf(i)) /\ Cardinality(ListingsOf(i)) \in Nat
<1>1. ListingsOf(i) \in SUBSET Listings
  BY DEF ListingsOf
<1>2. IsFiniteSet(Listings)
  BY SizesAssumption
<1> QED
  BY <1>1, <1>2, FS_Subset, FS_CardinalityType

\* One more node for item i, in any list.
LEMMA ListingAdded ==
  ASSUME DecayTypeOK, HasSpare, NEW i \in Items, NEW done \in SUBSET Listings,
         \A l \in done : place[l] # Spare,
         NEW where \in {Joining, Freeing},
         entry' = [entry EXCEPT ![SpareOne] = i],
         \A l \in Listings : place'[l] = IF l = SpareOne THEN where
                                         ELSE IF l \in done THEN Freeing ELSE place[l]
  PROVE  /\ SpareOne \in Listings /\ place[SpareOne] = Spare
         /\ ListingsOf(i)' = ListingsOf(i) \cup {SpareOne}
         /\ Cardinality(ListingsOf(i)') = Cardinality(ListingsOf(i)) + 1
         /\ \A j \in Items \ {i} : ListingsOf(j)' = ListingsOf(j)
<1>1. SpareOne \in Listings /\ place[SpareOne] = Spare
  BY DEF HasSpare, SpareOne
<1>2. where # Spare /\ Freeing # Spare
  BY DEF Joining, Freeing, Spare
<1>3. ListingsOf(i)' = ListingsOf(i) \cup {SpareOne}
  BY <1>1, <1>2 DEF ListingsOf, DecayTypeOK
<1>4. SpareOne \notin ListingsOf(i)
  BY <1>1 DEF ListingsOf
<1>5. Cardinality(ListingsOf(i) \cup {SpareOne}) = Cardinality(ListingsOf(i)) + 1
  BY <1>4, ListingsFinite, FS_AddElement
<1>6. \A j \in Items \ {i} : ListingsOf(j)' = ListingsOf(j)
  BY <1>1, <1>2 DEF ListingsOf, DecayTypeOK
<1> QED
  BY <1>1, <1>3, <1>5, <1>6

\* The same, where no other node moves.
LEMMA ListedAdded ==
  ASSUME DecayTypeOK, HasSpare, NEW i \in Items, entry' = [entry EXCEPT ![SpareOne] = i],
         \A l \in Listings : place'[l] = IF l = SpareOne THEN Joining ELSE place[l]
  PROVE  /\ SpareOne \in Listings /\ place[SpareOne] = Spare
         /\ Cardinality(ListingsOf(i)') = Cardinality(ListingsOf(i)) + 1
         /\ \A j \in Items \ {i} : ListingsOf(j)' = ListingsOf(j)
<1> DEFINE done == {}
<1>1. done \in SUBSET Listings /\ \A l \in done : place[l] # Spare
  OBVIOUS
<1>2. \A l \in Listings : place'[l] = IF l = SpareOne THEN Joining
                                      ELSE IF l \in done THEN Freeing ELSE place[l]
  OBVIOUS
<1> HIDE DEF done
<1> QED
  BY <1>1, <1>2, ListingAdded

\* Nodes go from one list to another.
LEMMA ListingsMove ==
  ASSUME DecayTypeOK, UNCHANGED entry,
         \A l \in Listings : place'[l] = Spare <=> place[l] = Spare
  PROVE  \A j \in Items : ListingsOf(j)' = ListingsOf(j)
  BY DEF ListingsOf

-----------------------------------------------------------------------------
(* Changes of an item *)

\* The types of what a change of an item assigns.
ItemTypeOK ==
  /\ type \in [Items -> Types \cup {Never}]
  /\ inWorld \in [Items -> BOOLEAN]
  /\ duration \in [Items -> Nat \cup {NoTime}]
  /\ decaying \in [Items -> BOOLEAN]
  /\ useCount \in [Items -> Nat]
  /\ entry \in [Listings -> Items \cup {NoItem}]
  /\ place \in [Listings -> BucketSet \cup {Spare, Joining, Freeing}]
  /\ \A l \in Listings : place[l] # Spare => entry[l] \in Items

LEMMA FullTimeNat ==
  ASSUME NEW t \in Types PROVE FullTime(t) \in Nat
  BY SizesAssumption, InfoAssumption DEF FullTime

\* An object that is in the world has a type.
LEMMA InWorldExists ==
  ASSUME DecayTypeOK, RefsExact, NEW i \in Items, inWorld[i]
  PROVE  type[i] \in Types
<1>1. Cardinality(ListingsOf(i)) \in Nat
  BY ListingsFinite
<1>2. useCount[i] > 0 /\ Exists(i)
  BY <1>1 DEF RefsExact, DecayTypeOK
<1> QED
  BY <1>2 DEF DecayTypeOK, Exists

LEMMA TransformSound ==
  ASSUME DecayTypeOK, RefsExact, NEW i \in Items, inWorld[i], NEW t \in Types, NEW new \in Items,
         NEW done \in SUBSET Listings, \A l \in done : place[l] # Spare,
         Transform(i, t, new, done)
  PROVE  ItemTypeOK' /\ RefsExact'
<1>1. type[i] \in Types
  BY InWorldExists
<1>2. FullTime(t) \in Nat
  BY FullTimeNat
<1>3. CASE new = i /\ ChangeInPlace(i, t)
           /\ place' = [l \in Listings |-> IF l \in done THEN Freeing ELSE place[l]]
           /\ UNCHANGED entry
  <2>1. ItemTypeOK'
    BY <1>2, <1>3 DEF ItemTypeOK, DecayTypeOK, ChangeInPlace
  <2>2. \A j \in Items : ListingsOf(j)' = ListingsOf(j)
    <3>1. \A l \in Listings : place'[l] = Spare <=> place[l] = Spare
      BY <1>3 DEF Freeing, Spare
    <3> QED
      BY <3>1, <1>3, ListingsMove
  <2>3. \A j \in Items : Exists(j)' <=> Exists(j)
    BY <1>1, <1>3, SizesAssumption DEF Exists, ChangeInPlace, DecayTypeOK
  <2>4. RefsExact'
    BY <1>3, <2>2, <2>3 DEF RefsExact, ChangeInPlace
  <2> QED
    BY <2>1, <2>4
<1>4. CASE /\ HasSpare /\ ReplaceBy(i, new, t)
           /\ place' = [l \in Listings |-> IF l \in done \cup {SpareOne}
                                           THEN Freeing ELSE place[l]]
           /\ entry' = [entry EXCEPT ![SpareOne] = i]
  <2>1. SpareOne \in Listings
    BY <1>4 DEF HasSpare, SpareOne
  <2>2. /\ ListingsOf(i)' = ListingsOf(i) \cup {SpareOne}
        /\ Cardinality(ListingsOf(i)') = Cardinality(ListingsOf(i)) + 1
        /\ \A j \in Items \ {i} : ListingsOf(j)' = ListingsOf(j)
    <3>1. \A l \in Listings : place'[l] = IF l = SpareOne THEN Freeing
                                          ELSE IF l \in done THEN Freeing ELSE place[l]
      BY <1>4
    <3> QED
      BY <3>1, <1>4, ListingAdded
  <2>3. ItemTypeOK'
    BY <1>2, <1>4, <2>1 DEF ItemTypeOK, DecayTypeOK, ReplaceBy
  <2>4. new # i /\ useCount[new] = 0 /\ ~inWorld[new] /\ Cardinality(ListingsOf(new)) = 0
    <3>1. Cardinality(ListingsOf(new)) \in Nat
      BY ListingsFinite
    <3>2. ~Exists(new) /\ Exists(i)
      BY <1>1, <1>4, SizesAssumption DEF ReplaceBy, Exists
    <3> QED
      BY <3>1, <3>2 DEF RefsExact, DecayTypeOK
  <2>5. ASSUME NEW j \in Items PROVE Exact(j)'
    <3>1. CASE j = i
      <4>1. useCount[i] = 1 + Cardinality(ListingsOf(i)) /\ Exists(i) /\ useCount[i] > 0
        BY <1>1, SizesAssumption DEF RefsExact, Exists
      <4>2. useCount'[i] = useCount[i] /\ ~inWorld'[i] /\ type'[i] = type[i]
        BY <1>4, <2>4 DEF ReplaceBy, DecayTypeOK
      <4>3. Cardinality(ListingsOf(i)) \in Nat
        BY ListingsFinite
      <4>4. useCount'[i] = 0 + Cardinality(ListingsOf(i)')
        BY <2>2, <4>1, <4>2, <4>3
      <4>5. Exact(i)'
        BY <4>1, <4>2, <4>4 DEF Exact, Exists
      <4> QED
        BY <3>1, <4>5
    <3>2. CASE j = new
      <4>1. ListingsOf(new)' = ListingsOf(new)
        BY <2>2, <2>4
      <4>2. useCount'[new] = 1 /\ inWorld'[new] /\ type'[new] = t
        BY <1>4, <2>4 DEF ReplaceBy, DecayTypeOK
      <4>3. t # Never
        BY SizesAssumption
      <4> QED
        BY <2>4, <3>2, <4>1, <4>2, <4>3 DEF Exact, Exists
    <3>3. CASE j # i /\ j # new
      BY <1>4, <2>2, <3>3 DEF RefsExact, Exact, ReplaceBy, Exists, DecayTypeOK
    <3> QED
      BY <3>1, <3>2, <3>3
  <2> QED
    BY <2>3, <2>5 DEF RefsExact, Exact
<1> QED
  BY <1>3, <1>4 DEF Transform

LEMMA RemoveSound ==
  ASSUME DecayTypeOK, RefsExact, NEW i \in Items, inWorld[i],
         NEW done \in SUBSET Listings, \A l \in done : place[l] # Spare,
         RemoveItem(i, done)
  PROVE  ItemTypeOK' /\ RefsExact'
<1>1. SpareOne \in Listings
  BY DEF HasSpare, SpareOne, RemoveItem
<1>2. /\ ListingsOf(i)' = ListingsOf(i) \cup {SpareOne}
      /\ Cardinality(ListingsOf(i)') = Cardinality(ListingsOf(i)) + 1
      /\ \A j \in Items \ {i} : ListingsOf(j)' = ListingsOf(j)
  <2>1. \A l \in Listings : place'[l] = IF l = SpareOne THEN Freeing
                                        ELSE IF l \in done THEN Freeing ELSE place[l]
    BY DEF RemoveItem
  <2> QED
    BY <2>1, ListingAdded DEF RemoveItem
<1>3. ItemTypeOK'
  BY <1>1 DEF ItemTypeOK, DecayTypeOK, RemoveItem
<1>4. ASSUME NEW j \in Items PROVE Exact(j)'
  <2>1. Cardinality(ListingsOf(i)) \in Nat
    BY ListingsFinite
  <2>2. CASE j = i
    <3>1. useCount[i] = 1 + Cardinality(ListingsOf(i)) /\ Exists(i)
      BY <2>1 DEF RefsExact, DecayTypeOK
    <3>2. useCount' = useCount /\ type' = type /\ ~inWorld'[i]
      BY DEF RemoveItem, DecayTypeOK
    <3>3. Cardinality(ListingsOf(i)') = Cardinality(ListingsOf(i)) + 1
      BY <1>2
    <3>4. useCount'[i] = 0 + Cardinality(ListingsOf(i)') /\ useCount'[i] > 0
      BY <2>1, <3>1, <3>2, <3>3
    <3>5. Exists(i)'
      BY <3>1, <3>2 DEF Exists
    <3>6. Exact(i)'
      BY <3>2, <3>4, <3>5 DEF Exact
    <3> QED
      BY <2>2, <3>6
  <2>3. CASE j # i
    <3>1. useCount' = useCount /\ type' = type /\ inWorld'[j] = inWorld[j]
      BY <2>3 DEF RemoveItem, DecayTypeOK
    <3> QED
      BY <1>2, <2>3, <3>1 DEF RefsExact, Exact, Exists
  <2> QED
    BY <2>2, <2>3
<1> QED
  BY <1>3, <1>4 DEF RefsExact, Exact

\* internalDecayItem, with what becomes of starting.
LEMMA DecaySound ==
  ASSUME DecayTypeOK, RefsExact, NEW i \in Items, CanDecay(i),
         NEW done \in SUBSET Listings, \A l \in done : place[l] # Spare,
         DecayItem(i, done)
  PROVE  ItemTypeOK' /\ RefsExact' /\ starting' \in Items \cup {NoItem}
<1>1. inWorld[i] /\ type[i] \in Types /\ Info[type[i]].decayTo # Never
  BY DEF CanDecay
<1>2. CASE Info[type[i]].decayTo = Vanish
  BY <1>1, <1>2, RemoveSound DEF DecayItem
<1>3. CASE Info[type[i]].decayTo # Vanish
  <2>1. Info[type[i]].decayTo \in Types
    BY <1>1, <1>3, InfoAssumption
  <2>2. PICK new \in Items : Transform(i, Info[type[i]].decayTo, new, done) /\ starting' = new
    BY <1>3 DEF DecayItem
  <2> QED
    BY <1>1, <2>1, <2>2, TransformSound
<1> QED
  BY <1>2, <1>3

-----------------------------------------------------------------------------
(* Game::cleanup *)

LEMMA CleanUpSound ==
  ASSUME DecayTypeOK, RefsExact, NEW base \in BucketSet, CleanUp(base)
  PROVE  ItemTypeOK' /\ RefsExact'
<1> DEFINE freed(i) == {l \in Listings : entry[l] = i /\ place[l] = Freeing}
           kept(i) == {l \in ListingsOf(i) : place[l] # Freeing}
<1>1. ASSUME NEW i \in Items
      PROVE  /\ Released(i) = Cardinality(freed(i)) /\ Released(i) \in Nat
             /\ Cardinality(kept(i)) \in Nat
             /\ Cardinality(ListingsOf(i)) = Released(i) + Cardinality(kept(i))
  <2>1. freed(i) \in SUBSET ListingsOf(i) /\ kept(i) \in SUBSET ListingsOf(i)
    BY DEF ListingsOf, Freeing, Spare
  <2>2. IsFiniteSet(ListingsOf(i))
    BY ListingsFinite
  <2>3. IsFiniteSet(freed(i)) /\ IsFiniteSet(kept(i))
    BY <2>1, <2>2, FS_Subset
  <2>4. Cardinality(freed(i)) \in Nat /\ Cardinality(kept(i)) \in Nat
    BY <2>3, FS_CardinalityType
  <2>5. freed(i) \cup kept(i) = ListingsOf(i) /\ freed(i) \cap kept(i) = {}
    BY DEF ListingsOf, Freeing, Spare
  <2>6. Cardinality(ListingsOf(i)) = Cardinality(freed(i)) + Cardinality(kept(i)) - Cardinality({})
    BY <2>3, <2>5, FS_Union
  <2>7. Cardinality({}) = 0
    BY FS_EmptySet
  <2>8. Released(i) = Cardinality(freed(i))
    BY DEF Released
  <2> QED
    BY <2>4, <2>6, <2>7, <2>8
<1>2. ASSUME NEW l \in Listings
      PROVE  /\ place'[l] \in BucketSet \cup {Spare, Joining, Freeing}
             /\ place'[l] = Spare <=> place[l] \in {Spare, Freeing}
             /\ place[l] \notin {Spare, Freeing} => entry'[l] = entry[l]
  <2>1. place[l] = Joining => FirstBucket(base, GetDuration(entry[l])) \in BucketSet
    <3>1. place[l] = Joining => entry[l] \in Items
      BY DEF DecayTypeOK, Joining, Spare
    <3>2. place[l] = Joining => GetDuration(entry[l]) \in Nat
      BY <3>1 DEF GetDuration, DecayTypeOK
    <3> QED
      BY <3>2, WheelTypes
  <2> QED
    BY <2>1 DEF CleanUp, BucketSet, Spare, Joining, Freeing, DecayTypeOK
<1>3. ASSUME NEW i \in Items PROVE ListingsOf(i)' = kept(i)
  BY <1>2, SizesAssumption DEF ListingsOf, CleanUp
<1>4. ASSUME NEW i \in Items PROVE /\ Exact(i)' /\ useCount'[i] \in Nat
  <2> DEFINE r == Released(i)
             k == Cardinality(kept(i))
             w == IF inWorld[i] THEN 1 ELSE 0
  <2>1. useCount[i] = w + r + k /\ (Exists(i) <=> useCount[i] > 0)
    <3>1. /\ useCount[i] = w + Cardinality(ListingsOf(i))
          /\ (Exists(i) <=> useCount[i] > 0)
      BY DEF RefsExact
    <3>2. Cardinality(ListingsOf(i)) = r + k /\ r \in Nat /\ k \in Nat /\ w \in {0, 1}
      BY <1>1
    <3> HIDE DEF r, k, w
    <3> QED
      BY <3>1, <3>2
  <2>2. r \in Nat /\ k \in Nat /\ w \in {0, 1}
    BY <1>1
  <2>3. Cardinality(ListingsOf(i)') = k
    BY <1>3
  <2>4. CASE LosesLast(i)
    <3>1. useCount'[i] = 0 /\ type'[i] = Never /\ ~inWorld'[i]
      BY <2>4 DEF CleanUp
    <3>2. useCount[i] <= r
      BY <2>4 DEF LosesLast
    <3> HIDE DEF r, k, w
    <3>3. k = 0
      BY <2>1, <2>2, <3>2
    <3> QED
      BY <2>3, <3>1, <3>3 DEF Exact, Exists
  <2>5. CASE ~LosesLast(i)
    <3>1. /\ useCount'[i] = useCount[i] - r
          /\ type'[i] = type[i] /\ (inWorld'[i] <=> inWorld[i])
      BY <2>5 DEF CleanUp, DecayTypeOK
    <3>2. r > 0 => useCount[i] > r
      BY <1>1, <2>1, <2>2, <2>5 DEF LosesLast
    <3>3. w = IF inWorld'[i] THEN 1 ELSE 0
      BY <3>1
    <3> HIDE DEF r, k, w
    <3>4. useCount'[i] = w + k /\ useCount'[i] \in Nat
      BY <2>1, <2>2, <3>1
    <3>5. useCount'[i] > 0 <=> useCount[i] > 0
      BY <2>1, <2>2, <3>1, <3>2
    <3> QED
      BY <2>1, <2>3, <3>1, <3>3, <3>4, <3>5 DEF Exact, Exists
  <2> QED
    BY <2>4, <2>5
<1>5. ItemTypeOK'
  BY <1>2, <1>4 DEF ItemTypeOK, CleanUp, DecayTypeOK, BucketSet, Spare, Joining, Freeing
<1> QED
  BY <1>4, <1>5 DEF RefsExact, Exact

-----------------------------------------------------------------------------
(* Every step *)

DecayInv == DecayTypeOK /\ RefsExact

LEMMA DecayInitInv == DecayInit => DecayInv
<1> SUFFICES ASSUME DecayInit PROVE DecayInv
  OBVIOUS
<1>1. DecayTypeOK
  BY SizesAssumption DEF DecayInit, DecayTypeOK, BucketSet
<1>2. ASSUME NEW i \in Items PROVE ListingsOf(i) = {}
  BY DEF DecayInit, ListingsOf
<1>3. RefsExact
  BY <1>2, FS_EmptySet, SizesAssumption DEF DecayInit, RefsExact, Exists
<1> QED
  BY <1>1, <1>3 DEF DecayInv

\* What a charge leaves.
LEMMA ChargedTypes ==
  ASSUME DecayTypeOK, NEW i \in Items
  PROVE  Left(i) \in Nat /\ Charged(i) \in [Items -> Nat \cup {NoTime}]
<1>1. Interval * Buckets \in Nat
  BY SizesAssumption
<1>2. GetDuration(i) \in Nat
  BY DEF GetDuration, DecayTypeOK
<1>3. Left(i) \in Nat
  BY <1>1, <1>2 DEF Left
<1> QED
  BY <1>3 DEF Charged, DecayTypeOK

LEMMA ObservedTypes ==
  ASSUME DecayTypeOK, NEW i \in Items, Forget(i)
  PROVE  full' \in [Items -> Nat \cup {NoTime}] /\ age' \in [Items -> Nat]
  BY DEF DecayTypeOK, Forget

LEMMA DecayNextInv == DecayInv /\ [DecayNext]_decayVars => DecayInv'
<1> SUFFICES ASSUME DecayTypeOK, RefsExact, [DecayNext]_decayVars PROVE DecayTypeOK' /\ RefsExact'
  BY DEF DecayInv
<1>1. ASSUME NEW i \in Items, NEW t \in Types, NEW d \in Made(t), NEW starts \in BOOLEAN,
             NewItem(i, t, d, starts)
      PROVE  DecayTypeOK' /\ RefsExact'
  <2>1. d \in Nat /\ t # Never
    BY InfoAssumption, SizesAssumption
  <2>2. DecayTypeOK'
    BY <1>1, <2>1, ObservedTypes DEF NewItem, DecayTypeOK, lists, clock
  <2>3. \A j \in Items : ListingsOf(j)' = ListingsOf(j)
    BY <1>1 DEF NewItem, lists, ListingsOf
  <2>4. useCount[i] = 0 /\ Cardinality(ListingsOf(i)) = 0
    <3>1. Cardinality(ListingsOf(i)) \in Nat
      BY ListingsFinite
    <3> QED
      BY <1>1, <3>1 DEF NewItem, RefsExact, DecayTypeOK
  <2>5. Exact(i)'
    <3>1. useCount'[i] = 1 /\ inWorld'[i] /\ type'[i] = t
      BY <1>1 DEF NewItem, DecayTypeOK
    <3> QED
      BY <2>1, <2>3, <2>4, <3>1 DEF Exact, Exists
  <2>6. ASSUME NEW j \in Items, j # i PROVE Exact(j)'
    <3>1. useCount'[j] = useCount[j] /\ inWorld'[j] = inWorld[j] /\ type'[j] = type[j]
      BY <1>1, <2>6 DEF NewItem, DecayTypeOK
    <3> QED
      BY <2>3, <3>1 DEF RefsExact, Exact, Exists
  <2> QED
    BY <2>2, <2>5, <2>6 DEF RefsExact, Exact
<1>2. ASSUME NEW i \in Items, ScriptDecay(i) PROVE DecayTypeOK' /\ RefsExact'
  BY <1>2 DEF ScriptDecay, DecayTypeOK, RefsExact, ListingsOf, Exists, object, lists, clock, observed
<1>3. ASSUME NEW i \in Items, Remove(i) PROVE DecayTypeOK' /\ RefsExact'
  <2>1. ItemTypeOK' /\ RefsExact'
    BY <1>3, RemoveSound DEF Remove
  <2> QED
    BY <1>3, <2>1, ObservedTypes DEF Remove, DecayTypeOK, ItemTypeOK, clock
<1>4. ASSUME NEW i \in Items, NEW new \in Items, Equip(i, new) PROVE DecayTypeOK' /\ RefsExact'
  <2>1. type[i] \in Types /\ inWorld[i]
    BY <1>4, InWorldExists DEF Equip
  <2>2. Info[type[i]].equipTo \in Types
    BY <1>4, <2>1, InfoAssumption DEF Equip
  <2>3. ItemTypeOK' /\ RefsExact'
    BY <1>4, <2>1, <2>2, TransformSound DEF Equip
  <2> QED
    BY <1>4, <2>3, ObservedTypes DEF Equip, DecayTypeOK, ItemTypeOK, clock
<1>5. ASSUME NEW i \in Items, NEW new \in Items, DeEquip(i, new) PROVE DecayTypeOK' /\ RefsExact'
  <2>1. type[i] \in Types /\ inWorld[i]
    BY <1>5, InWorldExists DEF DeEquip
  <2>2. Info[type[i]].deEquipTo \in Types
    BY <1>5, <2>1, InfoAssumption DEF DeEquip
  <2>3. ItemTypeOK' /\ RefsExact'
    BY <1>5, <2>1, <2>2, TransformSound DEF DeEquip
  <2> QED
    BY <1>5, <2>3, ObservedTypes DEF DeEquip, DecayTypeOK, ItemTypeOK, clock
<1>6. ASSUME NEW i \in Items, NEW new \in Items, NEW t \in Types, ScriptTransform(i, t, new)
      PROVE  DecayTypeOK' /\ RefsExact'
  <2>1. ItemTypeOK' /\ RefsExact'
    BY <1>6, TransformSound DEF ScriptTransform
  <2> QED
    BY <1>6, <2>1, ObservedTypes DEF ScriptTransform, DecayTypeOK, ItemTypeOK, clock
<1>7. CASE StartRefused
  BY <1>7 DEF StartRefused, DecayTypeOK, RefsExact, ListingsOf, Exists, object, lists, clock, observed
<1>8. CASE StartListed
  <2>1. PICK i \in Items : i = starting /\ inWorld[i] /\ GetDuration(i) \in Nat
    BY <1>8 DEF StartListed, CanDecay, DecayTypeOK, GetDuration
  <2>2. /\ SpareOne \in Listings
        /\ Cardinality(ListingsOf(i)') = Cardinality(ListingsOf(i)) + 1
        /\ \A j \in Items \ {i} : ListingsOf(j)' = ListingsOf(j)
    <3>1. \A l \in Listings : place'[l] = IF l = SpareOne THEN Joining ELSE place[l]
      BY <1>8 DEF StartListed, DecayTypeOK
    <3>2. entry' = [entry EXCEPT ![SpareOne] = i] /\ HasSpare
      BY <1>8, <2>1 DEF StartListed
    <3> QED
      BY <3>1, <3>2, ListedAdded
  <2>3. DecayTypeOK'
    BY <1>8, <2>1, <2>2 DEF StartListed, DecayTypeOK, clock
  <2>4. Exact(i)'
    <3>1. Cardinality(ListingsOf(i)) \in Nat
      BY ListingsFinite
    <3>2. useCount[i] = 1 + Cardinality(ListingsOf(i)) /\ Exists(i)
      BY <2>1, <3>1 DEF RefsExact
    <3>3. useCount'[i] = useCount[i] + 1 /\ inWorld'[i] /\ type'[i] = type[i]
      BY <1>8, <2>1 DEF StartListed, DecayTypeOK
    <3>4. useCount'[i] = 1 + Cardinality(ListingsOf(i)') /\ useCount'[i] > 0
      BY <2>2, <3>1, <3>2, <3>3
    <3> QED
      BY <3>2, <3>3, <3>4 DEF Exact, Exists
  <2>5. ASSUME NEW j \in Items, j # i PROVE Exact(j)'
    <3>1. useCount'[j] = useCount[j] /\ inWorld'[j] = inWorld[j] /\ type'[j] = type[j]
      BY <1>8, <2>1, <2>5 DEF StartListed, DecayTypeOK
    <3> QED
      BY <2>1, <2>2, <2>5, <3>1 DEF RefsExact, Exact, Exists
  <2> QED
    BY <2>3, <2>4, <2>5 DEF RefsExact, Exact
<1>9. CASE StartOver
  <2>1. ItemTypeOK' /\ RefsExact' /\ starting' \in Items \cup {NoItem}
    BY <1>9, DecaySound DEF StartOver, DecayTypeOK
  <2> QED
    BY <1>9, <2>1, ObservedTypes DEF StartOver, DecayTypeOK, ItemTypeOK, clock
<1>10. CASE BeginTurn
  <2>1. turning' \in BucketSet
    BY <1>10, ModRange, SizesAssumption DEF BeginTurn, DecayTypeOK, BucketSet
  <2> QED
    BY <1>10, <2>1 DEF BeginTurn, DecayTypeOK, RefsExact, ListingsOf, Exists, object, lists, observed
<1>11. CASE EndTurn
  <2>1. turning \in BucketSet
    BY <1>11 DEF EndTurn, DecayTypeOK
  <2>2. ItemTypeOK' /\ RefsExact'
    BY <1>11, <2>1, CleanUpSound DEF EndTurn
  <2> QED
    BY <1>11, <2>1, <2>2 DEF EndTurn, DecayTypeOK, ItemTypeOK
<1>12. CASE OtherCleanUp
  <2>1. ItemTypeOK' /\ RefsExact'
    BY <1>12, CleanUpSound DEF OtherCleanUp, DecayTypeOK
  <2> QED
    BY <1>12, <2>1 DEF OtherCleanUp, DecayTypeOK, ItemTypeOK, clock, observed
<1>13. ASSUME NEW l \in Listings, InTurn(l)
       PROVE  entry[l] \in Items /\ place[l] \in BucketSet /\ place[l] # Spare
                /\ turning \in BucketSet
  BY <1>13 DEF InTurn, DecayTypeOK, BucketSet, Spare, NoTurn
<1>14. ASSUME NEW l \in Listings, VisitLost(l) PROVE DecayTypeOK' /\ RefsExact'
  <2>1. entry[l] \in Items /\ place[l] # Spare
    BY <1>13, <1>14 DEF VisitLost
  <2>2. DecayTypeOK'
    BY <1>14, <2>1, ChargedTypes, ObservedTypes DEF VisitLost, DecayTypeOK, clock
  <2>3. \A j \in Items : ListingsOf(j)' = ListingsOf(j)
    BY <1>14, <2>1, ListingsMove DEF VisitLost, Freeing, Spare, DecayTypeOK
  <2> QED
    BY <1>14, <2>2, <2>3 DEF VisitLost, RefsExact, Exists
<1>15. ASSUME NEW l \in Listings, VisitOver(l) PROVE DecayTypeOK' /\ RefsExact'
  <2>1. entry[l] \in Items /\ place[l] # Spare
    BY <1>13, <1>15 DEF VisitOver
  <2>2. ItemTypeOK' /\ RefsExact' /\ starting' \in Items \cup {NoItem}
    BY <1>15, <2>1, DecaySound DEF VisitOver
  <2> QED
    BY <1>15, <2>1, <2>2, ObservedTypes DEF VisitOver, DecayTypeOK, ItemTypeOK, clock
<1>16. ASSUME NEW l \in Listings, VisitShort(l) PROVE DecayTypeOK' /\ RefsExact'
  <2>1. entry[l] \in Items /\ place[l] # Spare /\ turning \in BucketSet
    BY <1>13, <1>16 DEF VisitShort
  <2>2. NewBucket(Left(entry[l])) \in BucketSet
    BY <2>1, ChargedTypes, WheelTypes DEF NewBucket
  <2>3. DecayTypeOK'
    BY <1>16, <2>1, <2>2, ChargedTypes DEF VisitShort, DecayTypeOK, clock, observed, BucketSet, Spare
  <2>4. \A j \in Items : ListingsOf(j)' = ListingsOf(j)
    BY <1>16, <2>1, <2>2, ListingsMove DEF VisitShort, BucketSet, Spare, DecayTypeOK
  <2> QED
    BY <1>16, <2>3, <2>4 DEF VisitShort, RefsExact, Exists
<1>17. ASSUME NEW l \in Listings, VisitLong(l) PROVE DecayTypeOK' /\ RefsExact'
  <2>1. entry[l] \in Items
    BY <1>13, <1>17 DEF VisitLong
  <2>2. DecayTypeOK'
    BY <1>17, <2>1, ChargedTypes DEF VisitLong, DecayTypeOK, lists, observed
  <2>3. \A j \in Items : ListingsOf(j)' = ListingsOf(j)
    BY <1>17 DEF VisitLong, lists, ListingsOf
  <2> QED
    BY <1>17, <2>2, <2>3 DEF VisitLong, RefsExact, Exists
<1>18. CASE UNCHANGED decayVars
  BY <1>18 DEF decayVars, DecayTypeOK, RefsExact, ListingsOf, Exists
<1> QED
  BY <1>1, <1>2, <1>3, <1>4, <1>5, <1>6, <1>7, <1>8, <1>9, <1>10, <1>11, <1>12, <1>14, <1>15,
     <1>16, <1>17, <1>18 DEF DecayNext

\* The references of every item are exact: no list points to an object that was deleted,
\* and an object is deleted when no list points to it and it has left the world.
THEOREM ReferencesExact == DecaySpec => []RefsExact
<1>1. DecayInv => RefsExact
  BY DEF DecayInv
<1> QED
  BY DecayInitInv, DecayNextInv, <1>1, PTL DEF DecaySpec

\* The types, for any wheel.
THEOREM TypesOK == DecaySpec => []DecayTypeOK
<1>1. DecayInv => DecayTypeOK
  BY DEF DecayInv
<1> QED
  BY DecayInitInv, DecayNextInv, <1>1, PTL DEF DecaySpec

-----------------------------------------------------------------------------
(* An item that is decaying is listed *)

\* One item that says so is.
Listed(i) == decaying[i] /\ inWorld[i] => \E l \in Listings : entry[l] = i /\ Waits(l)

LEMMA ListedIsListing == DecayingIsListed <=> \A i \in Items : Listed(i)
  BY DEF DecayingIsListed, Listed, ListingsOf, Waits, BucketSet, Spare, Joining

\* No node that waits is changed, but for nodes of items that are not decaying any more.
LEMMA StillListed ==
  ASSUME NEW j \in Items, Listed(j), decaying'[j] /\ inWorld'[j] => decaying[j] /\ inWorld[j],
         \A l \in Listings : entry[l] = j /\ Waits(l) => entry'[l] = j /\ Waits(l)'
  PROVE  Listed(j)'
  BY DEF Listed

\* The node taken for one more entry was not waiting.
LEMMA SpareNeverWaits ==
  ASSUME HasSpare PROVE SpareOne \in Listings /\ ~Waits(SpareOne)
  BY DEF HasSpare, SpareOne, Waits, Spare, Joining, BucketSet

LEMMA TransformListed ==
  ASSUME DecayTypeOK, DecayingIsListed, NEW i \in Items, NEW t \in Types, NEW new \in Items,
         NEW done \in SUBSET Listings, \A l \in done : entry[l] = i,
         done # {} => Renews(i, t) \/ Strips(t), Transform(i, t, new, done)
  PROVE  DecayingIsListed'
<1> SUFFICES ASSUME NEW j \in Items PROVE Listed(j)'
  BY ListedIsListing DEF DecayingIsListed, Listed, ListingsOf, Waits, BucketSet, Spare, Joining
<1>1. Listed(j)
  BY ListedIsListing
<1>2. CASE /\ new = i /\ ChangeInPlace(i, t)
           /\ place' = [l \in Listings |-> IF l \in done THEN Freeing ELSE place[l]]
           /\ UNCHANGED entry
  <2>1. decaying'[j] /\ inWorld'[j] => decaying[j] /\ inWorld[j]
    BY <1>2 DEF ChangeInPlace, DecayTypeOK
  <2>2. CASE j = i /\ done # {}
    <3>1. ~decaying'[j]
      BY <1>2, <2>2 DEF ChangeInPlace, DecayTypeOK
    <3> QED
      BY <3>1 DEF Listed
  <2>3. CASE j # i \/ done = {}
    <3>1. \A l \in Listings : entry[l] = j /\ Waits(l) => entry'[l] = j /\ Waits(l)'
      BY <1>2, <2>3 DEF Waits
    <3> QED
      BY <1>1, <2>1, <3>1, StillListed
  <2> QED
    BY <2>2, <2>3
<1>3. CASE /\ HasSpare /\ ReplaceBy(i, new, t)
           /\ place' = [l \in Listings |-> IF l \in done \cup {SpareOne}
                                           THEN Freeing ELSE place[l]]
           /\ entry' = [entry EXCEPT ![SpareOne] = i]
  <2>1. CASE j = i \/ j = new
    <3>1. ~decaying'[j] \/ ~inWorld'[j]
      <4>1. CASE j = new
        BY <1>3, <4>1 DEF ReplaceBy, DecayTypeOK
      <4>2. CASE j = i /\ j # new
        BY <1>3, <4>2 DEF ReplaceBy, DecayTypeOK
      <4> QED
        BY <2>1, <4>1, <4>2
    <3> QED
      BY <3>1 DEF Listed
  <2>2. CASE j # i /\ j # new
    <3>1. decaying'[j] = decaying[j] /\ inWorld'[j] = inWorld[j]
      BY <1>3, <2>2 DEF ReplaceBy, DecayTypeOK
    <3>2. \A l \in Listings : entry[l] = j /\ Waits(l) => entry'[l] = j /\ Waits(l)'
      BY <1>3, <2>2, SpareNeverWaits DEF Waits, DecayTypeOK
    <3> QED
      BY <1>1, <3>1, <3>2, StillListed
  <2> QED
    BY <2>1, <2>2
<1> QED
  BY <1>2, <1>3 DEF Transform

LEMMA RemoveListed ==
  ASSUME DecayTypeOK, DecayingIsListed, NEW i \in Items,
         NEW done \in SUBSET Listings, \A l \in done : entry[l] = i, RemoveItem(i, done)
  PROVE  DecayingIsListed'
<1> SUFFICES ASSUME NEW j \in Items PROVE Listed(j)'
  BY ListedIsListing DEF DecayingIsListed, Listed, ListingsOf, Waits, BucketSet, Spare, Joining
<1>1. CASE j = i
  BY <1>1 DEF RemoveItem, Listed, DecayTypeOK
<1>2. CASE j # i
  <2>1. Listed(j) /\ decaying'[j] = decaying[j] /\ inWorld'[j] = inWorld[j]
    BY <1>2, ListedIsListing DEF RemoveItem, DecayTypeOK
  <2>2. \A l \in Listings : entry[l] = j /\ Waits(l) => entry'[l] = j /\ Waits(l)'
    BY <1>2, SpareNeverWaits DEF RemoveItem, Waits, DecayTypeOK
  <2> QED
    BY <2>1, <2>2, StillListed
<1> QED
  BY <1>1, <1>2

\* An item that decays gets a new time, or is of a type that has none.
LEMMA DecayRenews ==
  ASSUME DecayTypeOK, NEW i \in Items, CanDecay(i), Info[type[i]].decayTo # Vanish
  PROVE  /\ Info[type[i]].decayTo \in Types
         /\ Renews(i, Info[type[i]].decayTo) \/ Strips(Info[type[i]].decayTo)
<1>1. type[i] \in Types /\ Info[type[i]].decayTo # Never
  BY DEF CanDecay
<1>2. PICK t \in Types : t = Info[type[i]].decayTo
  BY <1>1, InfoAssumption
<1>3. ~Info[type[i]].stopTime /\ ~Info[t].stopTime
  BY <1>1, <1>2, InfoAssumption
<1>4. FullTime(t) \in Nat
  BY FullTimeNat
<1>5. CASE FullTime(t) > 0
  BY <1>2, <1>3, <1>5 DEF Renews
<1>6. CASE FullTime(t) = 0
  <2>1. Info[t].decayTime \in Nat /\ Interval \in Nat \ {0}
    BY InfoAssumption, SizesAssumption
  <2>2. Info[t].decayTime = 0
    BY <1>6, <2>1 DEF FullTime
  <2>3. Info[t].decayTo = Never
    BY <2>2, InfoAssumption
  <2> QED
    BY <1>2, <1>3, <1>6, <2>3 DEF Strips
<1> QED
  BY <1>2, <1>4, <1>5, <1>6

LEMMA DecayListed ==
  ASSUME DecayTypeOK, DecayingIsListed, NEW i \in Items, CanDecay(i),
         NEW done \in SUBSET Listings, \A l \in done : entry[l] = i, DecayItem(i, done)
  PROVE  DecayingIsListed'
<1>1. CASE Info[type[i]].decayTo = Vanish
  BY <1>1, RemoveListed DEF DecayItem
<1>2. CASE Info[type[i]].decayTo # Vanish
  <2>1. PICK new \in Items : Transform(i, Info[type[i]].decayTo, new, done)
    BY <1>2 DEF DecayItem
  <2> QED
    BY <1>2, <2>1, DecayRenews, TransformListed
<1> QED
  BY <1>1, <1>2

LEMMA CleanUpListed ==
  ASSUME DecayTypeOK, DecayingIsListed, NEW base \in BucketSet, CleanUp(base)
  PROVE  DecayingIsListed'
<1> SUFFICES ASSUME NEW j \in Items PROVE Listed(j)'
  BY ListedIsListing DEF DecayingIsListed, Listed, ListingsOf, Waits, BucketSet, Spare, Joining
<1>1. Listed(j)
  BY ListedIsListing
<1>2. decaying'[j] /\ inWorld'[j] => decaying[j] /\ inWorld[j]
  BY DEF CleanUp
<1>3. ASSUME NEW l \in Listings, Waits(l) PROVE entry'[l] = entry[l] /\ Waits(l)'
  <2>1. entry[l] \in Items /\ place[l] \notin {Freeing, Spare}
    BY <1>3 DEF Waits, DecayTypeOK, BucketSet, Spare, Joining, Freeing
  <2>2. FirstBucket(base, GetDuration(entry[l])) \in BucketSet
    BY <2>1, WheelTypes DEF GetDuration, DecayTypeOK
  <2> QED
    BY <1>3, <2>1, <2>2 DEF CleanUp, Waits
<1> QED
  BY <1>1, <1>2, <1>3, StillListed

LEMMA NextListed == DecayTypeOK /\ RefsExact /\ DecayingIsListed /\ [DecayNext]_decayVars => DecayingIsListed'
<1> SUFFICES ASSUME DecayTypeOK, RefsExact, DecayingIsListed, [DecayNext]_decayVars PROVE DecayingIsListed'
  OBVIOUS
<1> USE ListedIsListing
<1>1. ASSUME NEW i \in Items, NEW t \in Types, NEW d \in Made(t), NEW starts \in BOOLEAN,
             NewItem(i, t, d, starts)
      PROVE  DecayingIsListed'
  BY <1>1 DEF NewItem, DecayTypeOK, DecayingIsListed, ListingsOf, Waits, lists
<1>2. ASSUME NEW i \in Items, ScriptDecay(i) PROVE DecayingIsListed'
  BY <1>2 DEF ScriptDecay, DecayingIsListed, ListingsOf, Waits, object, lists
<1>3. ASSUME NEW i \in Items, Remove(i) PROVE DecayingIsListed'
  BY <1>3, RemoveListed DEF Remove
<1>4. ASSUME NEW i \in Items, NEW new \in Items, NEW t \in Types, inWorld[i],
             Transform(i, t, new, {})
      PROVE  DecayingIsListed'
  <2> DEFINE done == {}
  <2>1. done \in SUBSET Listings /\ (\A l \in done : entry[l] = i) /\ done = {}
    OBVIOUS
  <2>2. Transform(i, t, new, done)
    BY <1>4
  <2> HIDE DEF done
  <2> QED
    BY <2>1, <2>2, TransformListed
<1>5. ASSUME NEW i \in Items, NEW new \in Items, Equip(i, new) \/ DeEquip(i, new)
      PROVE  DecayingIsListed'
  <2>1. type[i] \in Types /\ inWorld[i]
    BY <1>5, InWorldExists DEF Equip, DeEquip
  <2>2. PICK t \in Types : Transform(i, t, new, {})
    BY <1>5, <2>1, InfoAssumption DEF Equip, DeEquip
  <2> QED
    BY <1>4, <2>1, <2>2
<1>6. ASSUME NEW i \in Items, NEW new \in Items, NEW t \in Types, ScriptTransform(i, t, new)
      PROVE  DecayingIsListed'
  BY <1>4, <1>6 DEF ScriptTransform
<1>7. CASE StartRefused
  BY <1>7 DEF StartRefused, DecayingIsListed, ListingsOf, Waits, object, lists
<1>8. CASE StartListed
  <2> SUFFICES ASSUME NEW j \in Items PROVE Listed(j)'
    BY DEF DecayingIsListed, Listed, ListingsOf, Waits, BucketSet, Spare, Joining
  <2>1. SpareOne \in Listings /\ ~Waits(SpareOne)
    BY <1>8, SpareNeverWaits DEF StartListed
  <2>2. CASE j = starting
    <3>1. entry'[SpareOne] = j /\ place'[SpareOne] = Joining
      BY <1>8, <2>1, <2>2 DEF StartListed, DecayTypeOK
    <3> QED
      BY <2>1, <3>1 DEF Listed, Waits
  <2>3. CASE j # starting
    <3>1. decaying'[j] = decaying[j] /\ inWorld' = inWorld
      BY <1>8, <2>3 DEF StartListed, DecayTypeOK
    <3>2. \A l \in Listings : entry[l] = j /\ Waits(l) => entry'[l] = j /\ Waits(l)'
      BY <1>8, <2>1 DEF StartListed, Waits, DecayTypeOK
    <3> QED
      BY <3>1, <3>2, StillListed
  <2> QED
    BY <2>2, <2>3
<1>9. CASE StartOver
  <2>1. PICK i \in Items : i = starting
    BY <1>9 DEF StartOver, DecayTypeOK
  <2> DEFINE done == {}
  <2>2. done \in SUBSET Listings /\ (\A l \in done : entry[l] = i) /\ DecayItem(i, done) /\ CanDecay(i)
    BY <1>9, <2>1 DEF StartOver
  <2> HIDE DEF done
  <2> QED
    BY <2>2, DecayListed
<1>10. CASE BeginTurn
  BY <1>10 DEF BeginTurn, DecayingIsListed, ListingsOf, Waits, object, lists
<1>11. CASE EndTurn \/ OtherCleanUp
  <2>1. PICK base \in BucketSet : CleanUp(base)
    BY <1>11 DEF EndTurn, OtherCleanUp, DecayTypeOK
  <2> QED
    BY <2>1, CleanUpListed
<1>12. ASSUME NEW l \in Listings, InTurn(l)
       PROVE  entry[l] \in Items /\ Waits(l) /\ turning \in BucketSet
  BY <1>12 DEF InTurn, DecayTypeOK, BucketSet, Spare, NoTurn, Waits
<1>13. ASSUME NEW l \in Listings, VisitLost(l) PROVE DecayingIsListed'
  <2> SUFFICES ASSUME NEW j \in Items PROVE Listed(j)'
    BY DEF DecayingIsListed, Listed, ListingsOf, Waits, BucketSet, Spare, Joining
  <2>1. CASE j = entry[l]
    BY <1>13, <2>1 DEF VisitLost, Listed, DecayTypeOK
  <2>2. CASE j # entry[l]
    <3>1. decaying'[j] = decaying[j] /\ inWorld' = inWorld
      BY <1>13, <2>2 DEF VisitLost, DecayTypeOK
    <3>2. \A k \in Listings : entry[k] = j /\ Waits(k) => entry'[k] = j /\ Waits(k)'
      BY <1>13, <2>2 DEF VisitLost, Waits, DecayTypeOK
    <3> QED
      BY <3>1, <3>2, StillListed
  <2> QED
    BY <2>1, <2>2
<1>14. ASSUME NEW l \in Listings, VisitOver(l) PROVE DecayingIsListed'
  <2>1. PICK i \in Items : i = entry[l]
    BY <1>12, <1>14 DEF VisitOver
  <2>2. {l} \in SUBSET Listings /\ \A k \in {l} : entry[k] = i
    BY <2>1
  <2>3. CanDecay(i) /\ DecayItem(i, {l})
    BY <1>14, <2>1 DEF VisitOver
  <2> QED
    BY <2>2, <2>3, DecayListed
<1>15. ASSUME NEW l \in Listings, VisitShort(l) \/ VisitLong(l) PROVE DecayingIsListed'
  <2> SUFFICES ASSUME NEW j \in Items PROVE Listed(j)'
    BY DEF DecayingIsListed, Listed, ListingsOf, Waits, BucketSet, Spare, Joining
  <2>1. decaying' = decaying /\ inWorld' = inWorld /\ entry' = entry
    BY <1>15 DEF VisitShort, VisitLong, lists
  <2>2. \A k \in Listings : Waits(k) => Waits(k)'
    <3>1. CASE VisitLong(l)
      BY <3>1 DEF VisitLong, lists, Waits
    <3>2. CASE VisitShort(l)
      <4>1. NewBucket(Left(entry[l])) \in BucketSet
        BY <1>12, <3>2, ChargedTypes, WheelTypes DEF NewBucket, VisitShort
      <4> QED
        BY <3>2, <4>1 DEF VisitShort, Waits, DecayTypeOK
    <3> QED
      BY <1>15, <3>1, <3>2
  <2> QED
    BY <2>1, <2>2, StillListed
<1>16. CASE UNCHANGED decayVars
  BY <1>16 DEF decayVars, DecayingIsListed, ListingsOf, Waits
<1> QED
  BY <1>1, <1>2, <1>3, <1>5, <1>6, <1>7, <1>8, <1>9, <1>10, <1>11, <1>13, <1>14, <1>15, <1>16
  DEF DecayNext

\* An item whose state says that it is decaying has a node on the wheel, or in the list
\* that goes there next, so that its time does come.
THEOREM DecayingItemsAreListed == DecaySpec => []DecayingIsListed
<1>1. DecayInit => DecayingIsListed
  BY DEF DecayInit, DecayingIsListed
<1>2. DecayInv /\ DecayingIsListed /\ [DecayNext]_decayVars => DecayingIsListed'
  BY NextListed DEF DecayInv
<1> QED
  BY DecayInitInv, DecayNextInv, <1>1, <1>2, PTL DEF DecaySpec

-----------------------------------------------------------------------------
(* The time of an item is over close to its duration *)

LEMMA DivBounds ==
  ASSUME NEW a \in Nat, NEW b \in Nat \ {0}
  PROVE  b * (a \div b) <= a /\ a < b * (a \div b) + b
  OBVIOUS

LEMMA ModOnce ==
  ASSUME NEW b \in Nat \ {0}, NEW a \in 0 .. b + b - 1
  PROVE  a % b = IF a < b THEN a ELSE a - b
  OBVIOUS

LEMMA ModOfSum ==
  ASSUME NEW b \in Nat \ {0}, NEW u \in 0 .. b - 1, NEW r \in 0 .. b
  PROVE  (u + r) % b = IF u + r < b THEN u + r ELSE u + r - b
  OBVIOUS

LEMMA TimesSum ==
  ASSUME NEW a \in Int, NEW b \in Int, NEW c \in Int
  PROVE  (a + b) * c = a * c + b * c /\ c * (a + b) = a * c + b * c
  OBVIOUS

LEMMA TimesCommute ==
  ASSUME NEW a \in Int, NEW b \in Int PROVE a * b = b * a
  OBVIOUS

LEMMA TimesOrder ==
  ASSUME NEW a \in Nat, NEW b \in Nat, a >= b, NEW c \in Nat PROVE a * c >= b * c
<1>1. (b + (a - b)) * c = b * c + (a - b) * c
  BY TimesSum
<1>2. (a - b) * c \in Nat
  OBVIOUS
<1> QED
  BY <1>1, <1>2

LEMMA Halves ==
  ASSUME NEW a \in Nat \ {0}
  PROVE  a \div 2 + (a - 1) \div 2 = a - 1 /\ 2 * (a \div 2) <= a /\ 2 * (a \div 2) >= a - 1
  OBVIOUS

\* How much rounding to whole intervals takes or adds.
LEMMA RoundingBounds ==
  ASSUME NEW d \in Nat
  PROVE  /\ Rounded(d) \in Nat /\ Rounded(d) * Interval \in Nat
         /\ Rounded(d) * Interval <= d + Interval \div 2
         /\ d + Interval \div 2 < Rounded(d) * Interval + Interval
<1>1. Interval \in Nat \ {0} /\ Interval \div 2 \in Nat
  BY SizesAssumption
<1>2. PICK e \in Nat : e = d + Interval \div 2
  BY <1>1
<1>3. Rounded(d) = e \div Interval /\ e \div Interval \in Nat
  BY <1>1, <1>2, DivNat DEF Rounded
<1>4. Interval * (e \div Interval) <= e /\ e < Interval * (e \div Interval) + Interval
  BY <1>1, DivBounds
<1>5. Interval * (e \div Interval) = (e \div Interval) * Interval
  BY <1>1, <1>3, TimesCommute
<1>6. (e \div Interval) * Interval \in Nat
  BY <1>1, <1>3
<1> QED
  BY <1>2, <1>3, <1>4, <1>5, <1>6

\* One round of the wheel in units of time, and the reach of the wheel.
LEMMA WheelReach ==
  /\ Buckets * Interval \in Nat /\ Interval * Buckets = Buckets * Interval
  /\ Buckets * Interval >= Interval + Interval
  /\ \A d \in Nat : IsShort(d) <=> d <= Buckets * Interval - Interval + (Interval - 1) \div 2
<1>1. Interval \in Nat \ {0} /\ Buckets \in Nat /\ Buckets >= 2
  BY SizesAssumption
<1>2. Interval * Buckets = Buckets * Interval /\ Buckets * Interval \in Nat
  BY <1>1, TimesCommute
<1>3. Buckets * Interval >= 2 * Interval
  BY <1>1, TimesOrder
<1>4. Interval * (Buckets - 1) = Buckets * Interval - Interval
  <2>1. ((Buckets - 1) + 1) * Interval = (Buckets - 1) * Interval + 1 * Interval
    BY <1>1, TimesSum
  <2>2. Interval * (Buckets - 1) = (Buckets - 1) * Interval
    BY <1>1, TimesCommute
  <2>3. (Buckets - 1) * Interval \in Int /\ (Buckets - 1) + 1 = Buckets
    BY <1>1
  <2> QED
    BY <1>1, <1>2, <2>1, <2>2, <2>3
<1> QED
  BY <1>1, <1>2, <1>3, <1>4 DEF IsShort

\* What is within the reach of the wheel is rounded to less than a round.
LEMMA ShortRounds ==
  ASSUME NEW d \in Nat, IsShort(d)
  PROVE  /\ Rounded(d) \in 0 .. Buckets - 1
         /\ ~IsOver(d) => Rounded(d) >= 1
<1>1. Interval \in Nat \ {0} /\ Buckets \in Nat
  BY SizesAssumption
<1>2. Rounded(d) * Interval < Buckets * Interval
  BY <1>1, RoundingBounds, WheelReach, Halves
<1>3. Rounded(d) < Buckets
  <2>1. PICK r \in Nat : r = Rounded(d)
    BY RoundingBounds
  <2>2. r >= Buckets => r * Interval >= Buckets * Interval
    BY <1>1, TimesOrder
  <2>3. r * Interval < Buckets * Interval /\ r * Interval \in Nat /\ Buckets * Interval \in Nat
    BY <1>2, <2>1, RoundingBounds, WheelReach
  <2> QED
    BY <1>1, <2>1, <2>2, <2>3
<1>4. ASSUME ~IsOver(d), Rounded(d) = 0 PROVE FALSE
  <2>1. d + Interval \div 2 < Interval
    BY <1>1, <1>4, RoundingBounds
  <2> QED
    BY <1>1, <1>4, <2>1, Halves DEF IsOver
<1> QED
  BY <1>1, <1>3, <1>4, RoundingBounds

\* The bucket of the turn under way or of the next, how many turns it takes from one bucket
\* to another, and to a node that waits on the wheel.
Upcoming == IF turning = NoTurn THEN (last + 1) % Buckets ELSE turning
Gap(from, b) == IF b >= from THEN b - from ELSE b - from + Buckets
TurnsLeft(l) == IF l \in seen THEN Buckets ELSE Gap(Upcoming, place[l])

\* How far the duration d of an item, what is left of it and the turns it will have
\* waited at its next visit may be apart: by the rounding, and by one interval for the
\* cleanup that put it on the wheel within a turn or between two.
Drift(d, left, turns) ==
  LET off == d - left - turns * Interval
      rest == IF IsShort(left) THEN Rounded(left) * Interval ELSE Buckets * Interval
  IN  IF IsShort(d) THEN IsShort(left) /\ off \in {-rest, -rest - Interval}
                    ELSE off \in {-rest, Interval - rest}

OnCourse(i, l) ==
  IF place[l] = Joining THEN age[i] = 0 /\ GetDuration(i) = full[i] /\ ~IsOver(full[i])
  ELSE Drift(full[i], GetDuration(i), age[i] + TurnsLeft(l))

\* An item whose time is observed waits once, and its node is on course.
Timed(i) ==
  /\ \E l \in Listings : entry[l] = i /\ Waits(l)
  /\ \A l, m \in Listings : entry[l] = i /\ Waits(l) /\ entry[m] = i /\ Waits(m) => l = m
  /\ \A l \in Listings : entry[l] = i /\ Waits(l) => OnCourse(i, l)

TurnInOrder ==
  /\ turning # NoTurn => turning = (last + 1) % Buckets
  /\ \A l \in seen : turning # NoTurn /\ place[l] = turning

AllTimed == \A i \in Items : full[i] # NoTime => Timed(i)

TimedInv == DecayInv /\ TurnInOrder /\ AllTimed

\* A node that is visited with its time over is in time.
LEMMA DriftInTime ==
  ASSUME NEW d \in Nat, NEW left \in Nat, NEW turns \in Nat, Drift(d, left, turns),
         left <= Buckets * Interval + (Interval - 1) \div 2
  PROVE  /\ IsShort(d) => /\ 2 * turns * Interval >= 2 * d - Interval
                          /\ 2 * turns * Interval <= 2 * d + 3 * Interval
         /\ ~IsShort(d) => /\ 2 * turns * Interval >= 2 * d - 3 * Interval
                           /\ 2 * turns * Interval <= 2 * d + Interval
<1> DEFINE x == turns * Interval
           y == Rounded(left) * Interval
           k == Buckets * Interval
<1>1. Interval \in Nat \ {0} /\ x \in Nat /\ y \in Nat /\ k \in Nat
  BY SizesAssumption, RoundingBounds
<1>2. 2 * turns * Interval = 2 * x
  <2>1. (turns + turns) * Interval = turns * Interval + turns * Interval
    BY <1>1, TimesSum
  <2>2. 2 * turns = turns + turns
    OBVIOUS
  <2> QED
    BY <1>1, <2>1, <2>2
<1>3. y <= left + Interval \div 2 /\ left + Interval \div 2 < y + Interval
  BY RoundingBounds
<1>4. IsShort(left) <=> left <= k - Interval + (Interval - 1) \div 2
  BY WheelReach
<1>5. /\ Interval \div 2 + (Interval - 1) \div 2 = Interval - 1
      /\ 2 * (Interval \div 2) <= Interval /\ 2 * (Interval \div 2) >= Interval - 1
      /\ Interval \div 2 \in Nat /\ (Interval - 1) \div 2 \in Nat
  BY <1>1, Halves
<1>6. LET off == d - left - x
          rest == IF IsShort(left) THEN y ELSE k
      IN  IF IsShort(d) THEN IsShort(left) /\ off \in {-rest, -rest - Interval}
                        ELSE off \in {-rest, Interval - rest}
  BY DEF Drift
<1> HIDE DEF x, y, k
<1>7. left <= k + (Interval - 1) \div 2
  BY DEF k
<1>8. CASE IsShort(d)
  BY <1>1, <1>2, <1>3, <1>5, <1>6, <1>8
<1>9. CASE ~IsShort(d) /\ IsShort(left)
  BY <1>1, <1>2, <1>3, <1>5, <1>6, <1>9
<1>10. CASE ~IsShort(d) /\ ~IsShort(left)
  BY <1>1, <1>2, <1>4, <1>5, <1>6, <1>7, <1>10
<1> QED
  BY <1>8, <1>9, <1>10

-----------------------------------------------------------------------------
(* Turns between buckets *)

LEMMA GapBasics ==
  ASSUME NEW u \in BucketSet, NEW b \in BucketSet
  PROVE  /\ Gap(u, b) \in 0 .. Buckets - 1
         /\ Gap(u, b) = 0 <=> b = u
         /\ (u + 1) % Buckets \in BucketSet
         /\ Gap((u + 1) % Buckets, b) = IF b = u THEN Buckets - 1 ELSE Gap(u, b) - 1
<1>1. Buckets \in Nat \ {0} /\ u \in 0 .. Buckets - 1 /\ b \in 0 .. Buckets - 1
  BY SizesAssumption DEF BucketSet
<1>2. (u + 1) % Buckets = IF u + 1 < Buckets THEN u + 1 ELSE u + 1 - Buckets
  <2>1. 1 \in 0 .. Buckets
    BY <1>1
  <2> QED
    BY <1>1, <2>1, ModOfSum, Zenon
<1> QED
  BY <1>1, <1>2 DEF Gap, BucketSet

LEMMA GapSum ==
  ASSUME NEW u \in BucketSet, NEW r \in 0 .. Buckets - 1
  PROVE  (u + r) % Buckets \in BucketSet /\ Gap(u, (u + r) % Buckets) = r
<1>1. Buckets \in Nat \ {0} /\ u \in 0 .. Buckets - 1
  BY SizesAssumption DEF BucketSet
<1>2. (u + r) % Buckets = IF u + r < Buckets THEN u + r ELSE u + r - Buckets
  <2>1. r \in 0 .. Buckets
    BY <1>1
  <2> QED
    BY <1>1, <2>1, ModOfSum, Zenon
<1> QED
  BY <1>1, <1>2 DEF Gap, BucketSet

\* How many turns after base the bucket is that cleanup puts an item in.
LEMMA FirstGap ==
  ASSUME NEW base \in BucketSet, NEW d \in Nat
  PROVE  Gap((base + 1) % Buckets, FirstBucket(base, d)) =
           IF IsShort(d) THEN Rounded(d) ELSE Buckets - 1
<1> DEFINE u == (base + 1) % Buckets
<1>1. Buckets \in Nat \ {0} /\ base \in 0 .. Buckets - 1 /\ u \in BucketSet
  BY SizesAssumption, GapBasics DEF BucketSet
<1>2. CASE IsShort(d)
  <2>1. PICK r \in 0 .. Buckets - 1 : r = Rounded(d)
    BY <1>2, ShortRounds
  <2>2. (base + 1 + r) % Buckets = (u + r) % Buckets
    <3>1. PICK a \in 0 .. Buckets + Buckets - 1 : a = base + 1 + r
      BY <1>1
    <3>2. a % Buckets = IF a < Buckets THEN a ELSE a - Buckets
      BY <1>1, ModOnce
    <3>3. PICK e \in 0 .. Buckets + Buckets - 1 : e = base + 1
      BY <1>1
    <3>4. u = IF e < Buckets THEN e ELSE e - Buckets
      BY <1>1, <3>3, ModOnce
    <3>5. PICK f \in 0 .. Buckets + Buckets - 1 : f = u + r
      BY <1>1 DEF BucketSet
    <3>6. f % Buckets = IF f < Buckets THEN f ELSE f - Buckets
      BY <1>1, ModOnce
    <3> HIDE DEF u
    <3>7. a % Buckets = f % Buckets
      BY <1>1, <3>1, <3>2, <3>3, <3>4, <3>5, <3>6
    <3> QED
      BY <3>1, <3>5, <3>7
  <2>3. FirstBucket(base, d) = (u + r) % Buckets
    BY <1>2, <2>1, <2>2 DEF FirstBucket
  <2>4. Gap(u, (u + r) % Buckets) = r
    BY <1>1, GapSum
  <2> QED
    BY <1>2, <2>1, <2>3, <2>4
<1>3. CASE ~IsShort(d)
  BY <1>3, GapBasics DEF FirstBucket
<1> QED
  BY <1>2, <1>3

-----------------------------------------------------------------------------
(* What happens to the time of an item *)

\* It joins the wheel between two turns, or at the end of one.
LEMMA DriftJoining ==
  ASSUME NEW base \in BucketSet, NEW d \in Nat, NEW n \in {0, 1}
  PROVE  Drift(d, d, n + Gap((base + 1) % Buckets, FirstBucket(base, d)))
<1>1. Interval \in Nat \ {0} /\ Buckets \in Nat /\ Buckets * Interval \in Nat
  BY SizesAssumption, WheelReach
<1>2. PICK g \in Int : g = Gap((base + 1) % Buckets, FirstBucket(base, d))
  BY <1>1, FirstGap, RoundingBounds
<1>3. /\ (n + g) * Interval = n * Interval + g * Interval
      /\ 0 * Interval = 0 /\ 1 * Interval = Interval
  BY <1>1, TimesSum
<1>4. CASE IsShort(d)
  <2>1. g * Interval = Rounded(d) * Interval /\ Rounded(d) * Interval \in Nat
    BY <1>2, <1>4, FirstGap, RoundingBounds
  <2> QED
    BY <1>1, <1>2, <1>3, <1>4, <2>1 DEF Drift
<1>5. CASE ~IsShort(d)
  <2>1. g + 1 = Buckets
    BY <1>1, <1>2, <1>5, FirstGap
  <2>2. (g + 1) * Interval = g * Interval + 1 * Interval
    BY <1>1, TimesSum
  <2>3. g * Interval \in Int
    BY <1>1
  <2>4. g * Interval = Buckets * Interval - Interval
    BY <1>1, <1>3, <2>1, <2>2, <2>3
  <2> QED
    BY <1>1, <1>2, <1>3, <1>5, <2>4 DEF Drift
<1> QED
  BY <1>4, <1>5

\* A visit charges it for a round of the wheel.
LEMMA DriftVisit ==
  ASSUME NEW d \in Nat, NEW left \in Nat, NEW turns \in Nat, Drift(d, left, turns),
         left > Buckets * Interval
  PROVE  LET rest == left - Buckets * Interval
         IN  Drift(d, rest, turns + IF IsShort(rest) THEN Rounded(rest) ELSE Buckets)
<1> DEFINE k == Buckets * Interval
           rest == left - k
           n == IF IsShort(rest) THEN Rounded(rest) ELSE Buckets
<1>1. Interval \in Nat \ {0} /\ Buckets \in Nat /\ k \in Nat /\ rest \in Nat
  BY SizesAssumption, WheelReach
<1>2. n \in Nat
  BY <1>1, RoundingBounds
<1>3. (turns + n) * Interval = turns * Interval + n * Interval
  BY <1>1, <1>2, TimesSum
<1>4. n * Interval = IF IsShort(rest) THEN Rounded(rest) * Interval ELSE k
  OBVIOUS
<1>5. n * Interval \in Nat /\ turns * Interval \in Nat
  BY <1>1, <1>2
<1>6. ~IsShort(left)
  BY <1>1, WheelReach, Halves
<1>7. ~IsShort(d) /\ d - left - turns * Interval \in {-k, Interval - k}
  BY <1>6 DEF Drift
<1> HIDE DEF k, n
<1>8. d - rest - (turns + n) * Interval \in {-(n * Interval), Interval - n * Interval}
  BY <1>1, <1>3, <1>5, <1>7
<1>9. Drift(d, rest, turns + n)
  BY <1>4, <1>7, <1>8 DEF Drift, k
<1> QED
  BY <1>9 DEF n, k

-----------------------------------------------------------------------------
(* Steps *)

LEMMA UpcomingIn ==
  ASSUME DecayTypeOK PROVE Upcoming \in BucketSet
  BY GapBasics DEF DecayTypeOK, Upcoming, NoTurn

LEMMA GetDurationNat ==
  ASSUME DecayTypeOK, NEW i \in Items PROVE GetDuration(i) \in Nat
  BY DEF DecayTypeOK, GetDuration

\* A node that waits keeps its item alive.
LEMMA WaitingKeepsAlive ==
  ASSUME DecayInv, NEW l \in Listings, Waits(l)
  PROVE  entry[l] \in Items /\ Exists(entry[l]) /\ ~LosesLast(entry[l])
<1> DEFINE i == entry[l]
           freed == {m \in Listings : entry[m] = i /\ place[m] = Freeing}
<1>1. place[l] # Spare /\ place[l] # Freeing /\ i \in Items
  BY DEF Waits, DecayInv, DecayTypeOK, BucketSet, Joining, Spare, Freeing
<1>2. IsFiniteSet(ListingsOf(i)) /\ Cardinality(ListingsOf(i)) \in Nat
  BY ListingsFinite
<1>3. l \in ListingsOf(i)
  BY <1>1 DEF ListingsOf
<1>4. /\ IsFiniteSet(ListingsOf(i) \ {l})
      /\ Cardinality(ListingsOf(i) \ {l}) = Cardinality(ListingsOf(i)) - 1
  BY <1>2, <1>3, FS_RemoveElement
<1>5. freed \in SUBSET (ListingsOf(i) \ {l})
  BY <1>1 DEF ListingsOf, Freeing, Spare
<1>6. IsFiniteSet(freed) /\ Cardinality(freed) <= Cardinality(ListingsOf(i)) - 1
  BY <1>4, <1>5, FS_Subset
<1>7. Cardinality(freed) \in Nat /\ Released(i) = Cardinality(freed)
  BY <1>6, FS_CardinalityType DEF Released
<1>8. useCount[i] >= Cardinality(ListingsOf(i)) /\ (Exists(i) <=> useCount[i] > 0)
  BY <1>1, <1>2 DEF DecayInv, RefsExact
<1> QED
  BY <1>1, <1>2, <1>6, <1>7, <1>8 DEF LosesLast, DecayInv, DecayTypeOK

\* An address without an object has no time that is observed.
LEMMA NoObjectNoTime ==
  ASSUME DecayInv, AllTimed, NEW i \in Items, ~Exists(i)
  PROVE  full[i] = NoTime
  BY WaitingKeepsAlive DEF AllTimed, Timed

\* Nothing happens to an item, to its nodes, or to the turn that comes next.
LEMMA StaysTimed ==
  ASSUME NEW i \in Items, Timed(i), Upcoming' = Upcoming,
         full'[i] = full[i], age'[i] = age[i], duration'[i] = duration[i],
         \A l \in Listings : entry'[l] = i /\ Waits(l)' <=> entry[l] = i /\ Waits(l),
         \A l \in Listings : entry[l] = i /\ Waits(l) =>
                               place'[l] = place[l] /\ (l \in seen' <=> l \in seen)
  PROVE  Timed(i)'
<1>1. Upcoming' = Upcoming /\ GetDuration(i)' = GetDuration(i)
  BY DEF GetDuration
<1>2. ASSUME NEW l \in Listings, entry[l] = i, Waits(l) PROVE OnCourse(i, l)'
  <2>1. OnCourse(i, l)
    BY <1>2 DEF Timed
  <2>2. place'[l] = place[l] /\ (l \in seen' <=> l \in seen)
    BY <1>2
  <2>3. TurnsLeft(l)' = TurnsLeft(l)
    BY <1>1, <2>2 DEF TurnsLeft
  <2> QED
    BY <1>1, <2>1, <2>2, <2>3 DEF OnCourse
<1> QED
  BY <1>2 DEF Timed

\* Something happens to item i that ends the observation of it, and perhaps to its nodes.
LEMMA OthersTimed ==
  ASSUME DecayTypeOK, TurnInOrder, AllTimed, NEW i \in Items, Forget(i), UNCHANGED clock,
         \A j \in Items : j # i /\ full[j] # NoTime => duration'[j] = duration[j],
         \A l \in Listings : place[l] # Spare /\ entry[l] # i =>
                               entry'[l] = entry[l] /\ place'[l] = place[l],
         \A l \in Listings : place[l] = Spare \/ entry[l] = i => entry'[l] = i \/ ~Waits(l)',
         \A l \in seen : place'[l] = place[l]
  PROVE  TurnInOrder' /\ AllTimed'
<1>1. TurnInOrder'
  BY DEF TurnInOrder, clock
<1>2. ASSUME NEW j \in Items, full'[j] # NoTime PROVE Timed(j)'
  <2>1. j # i /\ full'[j] = full[j] /\ age'[j] = age[j]
    BY <1>2 DEF Forget, DecayTypeOK
  <2>2. Timed(j)
    BY <1>2, <2>1 DEF AllTimed
  <2>3. \A l \in Listings : Waits(l) => place[l] # Spare
    BY DEF Waits, BucketSet, Spare, Joining
  <2>4. \A l \in Listings : entry'[l] = j /\ Waits(l)' <=> entry[l] = j /\ Waits(l)
    BY <2>1, <2>3 DEF Waits
  <2>5. \A l \in Listings : entry[l] = j /\ Waits(l) =>
                              place'[l] = place[l] /\ (l \in seen' <=> l \in seen)
    BY <2>1, <2>3 DEF clock
  <2>6. Upcoming' = Upcoming
    BY DEF Upcoming, clock
  <2> QED
    BY <1>2, <2>1, <2>2, <2>4, <2>5, <2>6, StaysTimed
<1> QED
  BY <1>1, <1>2 DEF AllTimed

\* The node taken for one more entry was not passed in this turn.
LEMMA SpareNotSeen ==
  ASSUME DecayTypeOK, TurnInOrder, HasSpare
  PROVE  SpareOne \in Listings /\ place[SpareOne] = Spare /\ SpareOne \notin seen
  BY DEF HasSpare, SpareOne, TurnInOrder, DecayTypeOK, Spare, NoTurn, BucketSet

LEMMA TransformTimed ==
  ASSUME DecayInv, TurnInOrder, AllTimed, NEW i \in Items, NEW t, NEW new \in Items,
         NEW done \in SUBSET Listings, \A l \in done : entry[l] = i /\ l \notin seen,
         Transform(i, t, new, done), Forget(i), UNCHANGED clock
  PROVE  TurnInOrder' /\ AllTimed'
<1>1. DecayTypeOK
  BY DEF DecayInv
<1>2. \A l \in Listings : place'[l] = Freeing => ~Waits(l)'
  BY DEF Waits, Freeing, Joining, BucketSet
<1>3. CASE /\ new = i /\ ChangeInPlace(i, t)
           /\ place' = [l \in Listings |-> IF l \in done THEN Freeing ELSE place[l]]
           /\ UNCHANGED entry
  <2>1. \A j \in Items : j # i /\ full[j] # NoTime => duration'[j] = duration[j]
    BY <1>1, <1>3 DEF ChangeInPlace, DecayTypeOK
  <2>2. \A l \in Listings : place[l] = Spare => ~Waits(l)' \/ l \in done
    BY <1>3 DEF Waits, Spare, Joining, BucketSet
  <2>3. \A l \in Listings : place[l] = Spare \/ entry[l] = i => entry'[l] = i \/ ~Waits(l)'
    BY <1>2, <1>3, <2>2
  <2>4. \A l \in Listings : place[l] # Spare /\ entry[l] # i =>
                              entry'[l] = entry[l] /\ place'[l] = place[l]
    BY <1>3
  <2>5. \A l \in seen : place'[l] = place[l]
    BY <1>1, <1>3 DEF DecayTypeOK
  <2> QED
    BY <1>1, <2>1, <2>3, <2>4, <2>5, OthersTimed
<1>4. CASE /\ HasSpare /\ ReplaceBy(i, new, t)
           /\ place' = [l \in Listings |-> IF l \in done \cup {SpareOne}
                                           THEN Freeing ELSE place[l]]
           /\ entry' = [entry EXCEPT ![SpareOne] = i]
  <2>1. full[new] = NoTime
    BY <1>4, NoObjectNoTime DEF ReplaceBy
  <2>2. \A j \in Items : j # i /\ full[j] # NoTime => duration'[j] = duration[j]
    BY <1>1, <1>4, <2>1 DEF ReplaceBy, DecayTypeOK
  <2>3. SpareOne \in Listings /\ place[SpareOne] = Spare /\ SpareOne \notin seen
    BY <1>1, <1>4, SpareNotSeen
  <2>4. \A l \in Listings : place[l] = Spare => ~Waits(l)' \/ l \in done
    BY <1>2, <1>4 DEF Waits, Spare, Joining, BucketSet
  <2>5. \A l \in Listings : l # SpareOne => entry'[l] = entry[l]
    BY <1>1, <1>4 DEF DecayTypeOK
  <2>6. \A l \in Listings : place[l] = Spare \/ entry[l] = i => entry'[l] = i \/ ~Waits(l)'
    BY <1>2, <1>4, <2>4, <2>5
  <2>7. \A l \in Listings : place[l] # Spare /\ entry[l] # i =>
                              entry'[l] = entry[l] /\ place'[l] = place[l]
    BY <1>4, <2>3, <2>5
  <2>8. \A l \in seen : place'[l] = place[l]
    BY <1>1, <1>4, <2>3 DEF DecayTypeOK
  <2> QED
    BY <1>1, <2>2, <2>6, <2>7, <2>8, OthersTimed
<1> QED
  BY <1>3, <1>4 DEF Transform

LEMMA RemoveTimed ==
  ASSUME DecayInv, TurnInOrder, AllTimed, NEW i \in Items,
         NEW done \in SUBSET Listings, \A l \in done : entry[l] = i /\ l \notin seen,
         RemoveItem(i, done), Forget(i), UNCHANGED clock
  PROVE  TurnInOrder' /\ AllTimed'
<1>1. DecayTypeOK
  BY DEF DecayInv
<1>2. /\ SpareOne \in Listings /\ place[SpareOne] = Spare /\ SpareOne \notin seen
      /\ place' = [l \in Listings |-> IF l \in done \cup {SpareOne} THEN Freeing ELSE place[l]]
      /\ entry' = [entry EXCEPT ![SpareOne] = i] /\ duration' = duration
  BY <1>1, SpareNotSeen DEF RemoveItem
<1>3. \A l \in Listings : place'[l] = Freeing => ~Waits(l)'
  BY DEF Waits, Freeing, Joining, BucketSet
<1>4. \A l \in Listings : place[l] = Spare => ~Waits(l)' \/ l \in done
  BY <1>2, <1>3 DEF Waits, Spare, Joining, BucketSet
<1>5. \A l \in Listings : l # SpareOne => entry'[l] = entry[l]
  BY <1>1, <1>2 DEF DecayTypeOK
<1>6. \A l \in Listings : place[l] = Spare \/ entry[l] = i => entry'[l] = i \/ ~Waits(l)'
  BY <1>2, <1>3, <1>4, <1>5
<1>7. \A l \in Listings : place[l] # Spare /\ entry[l] # i =>
                            entry'[l] = entry[l] /\ place'[l] = place[l]
  BY <1>2, <1>5
<1>8. \A l \in seen : place'[l] = place[l]
  BY <1>1, <1>2 DEF DecayTypeOK
<1> QED
  BY <1>1, <1>2, <1>6, <1>7, <1>8, OthersTimed

LEMMA DecayTimed ==
  ASSUME DecayInv, TurnInOrder, AllTimed, NEW i \in Items, CanDecay(i),
         NEW done \in SUBSET Listings, \A l \in done : entry[l] = i /\ l \notin seen,
         DecayItem(i, done), Forget(i), UNCHANGED clock
  PROVE  TurnInOrder' /\ AllTimed'
<1>1. CASE Info[type[i]].decayTo = Vanish
  BY <1>1, RemoveTimed DEF DecayItem
<1>2. CASE Info[type[i]].decayTo # Vanish
  BY <1>2, TransformTimed DEF DecayItem
<1> QED
  BY <1>1, <1>2

\* cleanup moves the nodes that join, and deletes no item that waits.
LEMMA CleanUpWaits ==
  ASSUME DecayInv, NEW base \in BucketSet, CleanUp(base)
  PROVE  /\ \A l \in Listings : /\ Waits(l)' <=> Waits(l)
                                /\ Waits(l) => /\ entry'[l] = entry[l]
                                               /\ duration'[entry[l]] = duration[entry[l]]
                                /\ place[l] \in BucketSet => place'[l] = place[l]
                                /\ place[l] = Joining =>
                                     /\ place'[l] = FirstBucket(base, GetDuration(entry[l]))
                                     /\ place'[l] \in BucketSet
<1> SUFFICES ASSUME NEW l \in Listings
             PROVE  /\ Waits(l)' <=> Waits(l)
                    /\ Waits(l) => /\ entry'[l] = entry[l]
                                   /\ duration'[entry[l]] = duration[entry[l]]
                    /\ place[l] \in BucketSet => place'[l] = place[l]
                    /\ place[l] = Joining =>
                         /\ place'[l] = FirstBucket(base, GetDuration(entry[l]))
                         /\ place'[l] \in BucketSet
  OBVIOUS
<1>1. place'[l] = IF place[l] = Freeing THEN Spare
                  ELSE IF place[l] = Joining THEN FirstBucket(base, GetDuration(entry[l]))
                  ELSE place[l]
  BY DEF CleanUp
<1>2. place[l] \in BucketSet \cup {Spare, Joining, Freeing}
  BY DEF DecayInv, DecayTypeOK
<1>3. Spare \notin BucketSet /\ Joining \notin BucketSet /\ Freeing \notin BucketSet
      /\ Spare # Joining /\ Freeing # Joining /\ Spare # Freeing
  BY DEF BucketSet, Spare, Joining, Freeing
<1>4. place[l] = Joining => FirstBucket(base, GetDuration(entry[l])) \in BucketSet
  <2>1. place[l] = Joining => GetDuration(entry[l]) \in Nat
    BY WaitingKeepsAlive, GetDurationNat DEF DecayInv, Waits
  <2> QED
    BY <2>1, WheelTypes
<1>5. Waits(l)' <=> Waits(l)
  BY <1>1, <1>2, <1>3, <1>4 DEF Waits
<1>6. ASSUME Waits(l) PROVE entry'[l] = entry[l] /\ duration'[entry[l]] = duration[entry[l]]
  <2>1. place[l] \notin {Freeing, Spare}
    BY <1>3, <1>6 DEF Waits
  <2> QED
    BY <1>6, <2>1, WaitingKeepsAlive DEF CleanUp
<1> QED
  BY <1>1, <1>3, <1>4, <1>5, <1>6

\* The visit of a node that stays on the wheel, in the bucket of its turn or in another.
LEMMA VisitTimed ==
  ASSUME DecayInv, DecayInv', TurnInOrder, AllTimed, NEW l \in Listings,
         InTurn(l), UNCHANGED <<entry, last, turning, full, age>>,
         ~IsOver(Left(entry[l])), duration' = Charged(entry[l]),
         \/ /\ IsShort(Left(entry[l])) /\ place' = [place EXCEPT ![l] = NewBucket(Left(entry[l]))]
            /\ UNCHANGED seen
         \/ ~IsShort(Left(entry[l])) /\ UNCHANGED place /\ seen' = seen \cup {l}
  PROVE  TurnInOrder' /\ AllTimed'
<1> DEFINE i == entry[l]
<1>1. /\ place[l] = turning /\ turning \in BucketSet /\ l \notin seen /\ Waits(l)
      /\ turning # NoTurn
  BY DEF InTurn, DecayInv, DecayTypeOK, Waits, NoTurn
<1>2. i \in Items /\ GetDuration(i) \in Nat /\ Left(i) \in Nat
  BY <1>1, WaitingKeepsAlive, GetDurationNat, ChargedTypes DEF DecayInv
<1>3. Upcoming = turning /\ Upcoming' = turning
  BY <1>1 DEF Upcoming
<1>4. TurnInOrder'
  BY <1>1 DEF TurnInOrder, DecayInv, DecayTypeOK
<1>5. \A m \in Listings : m # l => place'[m] = place[m] /\ (m \in seen' <=> m \in seen)
  BY DEF DecayInv, DecayTypeOK
<1>6. Waits(l)'
  <2>1. place'[l] \in BucketSet
    <3>1. NewBucket(Left(i)) \in BucketSet
      BY <1>1, <1>2, WheelTypes DEF NewBucket
    <3> QED
      BY <1>1, <3>1 DEF DecayInv, DecayTypeOK
  <2> QED
    BY <2>1 DEF Waits
<1>7. \A m \in Listings : Waits(m)' <=> Waits(m)
  BY <1>1, <1>5, <1>6 DEF Waits
<1>8. ASSUME NEW j \in Items, full'[j] # NoTime, j # i PROVE Timed(j)'
  <2>1. Timed(j) /\ full'[j] = full[j] /\ age'[j] = age[j] /\ duration'[j] = duration[j]
    BY <1>8 DEF AllTimed, Charged, DecayInv, DecayTypeOK
  <2>2. \A m \in Listings : entry'[m] = j /\ Waits(m)' <=> entry[m] = j /\ Waits(m)
    BY <1>7
  <2>3. \A m \in Listings : entry[m] = j /\ Waits(m) =>
                              place'[m] = place[m] /\ (m \in seen' <=> m \in seen)
    BY <1>5, <1>8
  <2> QED
    BY <1>3, <2>1, <2>2, <2>3, StaysTimed
<1>9. ASSUME full'[i] # NoTime PROVE Timed(i)'
  <2>1. Timed(i) /\ full[i] \in Nat /\ age[i] \in Nat
    BY <1>2, <1>9 DEF AllTimed, DecayInv, DecayTypeOK
  <2>2. OnCourse(i, l)
    BY <1>1, <2>1 DEF Timed
  <2>3. TurnsLeft(l) = 0
    BY <1>1, <1>3, GapBasics DEF TurnsLeft
  <2>4. Drift(full[i], GetDuration(i), age[i])
    <3>1. place[l] # Joining
      BY <1>1 DEF BucketSet, Joining
    <3> QED
      BY <2>1, <2>2, <2>3, <3>1 DEF OnCourse
  <2>5. GetDuration(i) > Buckets * Interval /\ Left(i) = GetDuration(i) - Buckets * Interval
    <3>1. IsOver(0)
      BY SizesAssumption DEF IsOver
    <3>2. Interval * Buckets = Buckets * Interval
      BY WheelReach
    <3> QED
      BY <3>1, <3>2 DEF Left
  <2>6. Drift(full[i], Left(i),
              age[i] + IF IsShort(Left(i)) THEN Rounded(Left(i)) ELSE Buckets)
    BY <1>2, <2>1, <2>4, <2>5, DriftVisit
  <2>7. TurnsLeft(l)' = IF IsShort(Left(i)) THEN Rounded(Left(i)) ELSE Buckets
    <3>1. CASE IsShort(Left(i))
      <4>1. place'[l] = (turning + Rounded(Left(i))) % Buckets /\ l \notin seen'
        BY <1>1, <3>1 DEF NewBucket, DecayInv, DecayTypeOK
      <4>2. Rounded(Left(i)) \in 0 .. Buckets - 1
        BY <1>2, <3>1, ShortRounds
      <4>3. Gap(turning, (turning + Rounded(Left(i))) % Buckets) = Rounded(Left(i))
        BY <1>1, <4>2, GapSum
      <4> QED
        BY <1>3, <3>1, <4>1, <4>3 DEF TurnsLeft
    <3>2. CASE ~IsShort(Left(i))
      BY <3>2 DEF TurnsLeft
    <3> QED
      BY <3>1, <3>2
  <2>8. GetDuration(i)' = Left(i)
    BY <1>2 DEF GetDuration, Charged, DecayInv, DecayTypeOK, NoTime
  <2>9. place'[l] # Joining
    <3>1. NewBucket(Left(i)) \in BucketSet
      BY <1>1, <1>2, WheelTypes DEF NewBucket
    <3> QED
      BY <1>1, <3>1 DEF BucketSet, Joining, DecayInv, DecayTypeOK
  <2>10. OnCourse(i, l)'
    BY <2>6, <2>7, <2>8, <2>9 DEF OnCourse
  <2>11. \A m \in Listings : entry'[m] = i /\ Waits(m)' => m = l
    BY <1>1, <1>7, <2>1 DEF Timed
  <2> QED
    BY <1>1, <1>6, <2>10, <2>11 DEF Timed
<1> QED
  BY <1>4, <1>8, <1>9 DEF AllTimed

LEMMA EndTurnTimed ==
  ASSUME DecayInv, TurnInOrder, AllTimed, EndTurn
  PROVE  TurnInOrder' /\ AllTimed'
<1>1. turning \in BucketSet /\ Upcoming = turning /\ Upcoming' = (turning + 1) % Buckets
  BY DEF EndTurn, DecayInv, DecayTypeOK, Upcoming
<1>2. TurnInOrder'
  BY DEF EndTurn, TurnInOrder
<1>3. ASSUME NEW l \in Listings
      PROVE  /\ Waits(l)' <=> Waits(l)
             /\ Waits(l) => /\ entry'[l] = entry[l]
                            /\ duration'[entry[l]] = duration[entry[l]]
             /\ place[l] \in BucketSet => place'[l] = place[l]
             /\ place[l] = Joining => /\ place'[l] = FirstBucket(turning, GetDuration(entry[l]))
                                      /\ place'[l] \in BucketSet
  BY <1>1, CleanUpWaits DEF EndTurn
<1>4. ASSUME NEW j \in Items, full'[j] # NoTime PROVE Timed(j)'
  <2>1. Timed(j) /\ full'[j] = full[j] /\ full[j] # NoTime /\ full[j] \in Nat
    BY <1>4 DEF EndTurn, AllTimed, DecayInv, DecayTypeOK
  <2>2. age'[j] = age[j] + 1 /\ age[j] \in Nat
    BY <2>1 DEF EndTurn, DecayInv, DecayTypeOK
  <2>3. \A l \in Listings : entry'[l] = j /\ Waits(l)' <=> entry[l] = j /\ Waits(l)
    BY <1>3, <2>1 DEF EndTurn, CleanUp, Waits, BucketSet, Spare, Freeing, Joining
  <2>4. ASSUME NEW l \in Listings, entry[l] = j, Waits(l) PROVE OnCourse(j, l)'
    <3>1. OnCourse(j, l) /\ GetDuration(j)' = GetDuration(j) /\ GetDuration(j) \in Nat
      BY <1>3, <2>1, <2>4, GetDurationNat DEF Timed, GetDuration, DecayInv
    <3>2. place'[l] \in BucketSet /\ place'[l] # Joining
      BY <1>3, <2>4 DEF Waits, BucketSet, Joining
    <3>3. TurnsLeft(l)' = Gap((turning + 1) % Buckets, place'[l])
      BY <1>1 DEF TurnsLeft, EndTurn
    <3>4. CASE place[l] = Joining
      <4>1. age[j] = 0 /\ GetDuration(j) = full[j]
        BY <3>1, <3>4 DEF OnCourse
      <4>2. Drift(full[j], full[j], 1 + Gap((turning + 1) % Buckets, FirstBucket(turning, full[j])))
        BY <1>1, <2>1, DriftJoining
      <4>3. place'[l] = FirstBucket(turning, full[j])
        BY <1>3, <2>4, <3>4, <4>1
      <4>4. age'[j] = 1
        BY <2>2, <4>1
      <4> QED
        BY <2>1, <3>1, <3>2, <3>3, <4>1, <4>2, <4>3, <4>4 DEF OnCourse
    <3>5. CASE place[l] # Joining
      <4>1. place[l] \in BucketSet /\ place'[l] = place[l]
        BY <1>3, <2>4, <3>5 DEF Waits
      <4>2. TurnsLeft(l) \in Int /\ TurnsLeft(l)' = TurnsLeft(l) - 1
        <5>1. l \in seen <=> place[l] = turning
          BY DEF EndTurn, InTurn, TurnInOrder
        <5> QED
          BY <1>1, <3>3, <4>1, <5>1, GapBasics, SizesAssumption DEF TurnsLeft
      <4>3. age'[j] + TurnsLeft(l)' = age[j] + TurnsLeft(l)
        BY <2>2, <4>2
      <4> QED
        BY <2>1, <3>1, <3>2, <3>5, <4>3 DEF OnCourse
    <3> QED
      BY <3>4, <3>5
  <2> QED
    BY <2>1, <2>3, <2>4 DEF Timed
<1> QED
  BY <1>2, <1>4 DEF AllTimed

LEMMA OtherCleanUpTimed ==
  ASSUME DecayInv, TurnInOrder, AllTimed, OtherCleanUp
  PROVE  TurnInOrder' /\ AllTimed'
<1>1. last \in BucketSet /\ Upcoming = (last + 1) % Buckets /\ Upcoming' = Upcoming
  BY DEF OtherCleanUp, Idle, DecayInv, DecayTypeOK, Upcoming, clock
<1>2. TurnInOrder' /\ seen' = {} /\ seen = {}
  BY DEF OtherCleanUp, Idle, TurnInOrder, clock
<1>3. ASSUME NEW l \in Listings
      PROVE  /\ Waits(l)' <=> Waits(l)
             /\ Waits(l) => /\ entry'[l] = entry[l]
                            /\ duration'[entry[l]] = duration[entry[l]]
             /\ place[l] \in BucketSet => place'[l] = place[l]
             /\ place[l] = Joining => /\ place'[l] = FirstBucket(last, GetDuration(entry[l]))
                                      /\ place'[l] \in BucketSet
  BY <1>1, CleanUpWaits DEF OtherCleanUp
<1>4. ASSUME NEW j \in Items, full'[j] # NoTime PROVE Timed(j)'
  <2>1. /\ Timed(j) /\ full'[j] = full[j] /\ full[j] \in Nat
        /\ age'[j] = age[j] /\ age[j] \in Nat
    BY <1>4 DEF OtherCleanUp, AllTimed, DecayInv, DecayTypeOK, observed
  <2>2. \A l \in Listings : entry'[l] = j /\ Waits(l)' <=> entry[l] = j /\ Waits(l)
    BY <1>3, <2>1 DEF OtherCleanUp, CleanUp, Waits, BucketSet, Spare, Freeing, Joining
  <2>3. ASSUME NEW l \in Listings, entry[l] = j, Waits(l) PROVE OnCourse(j, l)'
    <3>1. OnCourse(j, l) /\ GetDuration(j)' = GetDuration(j) /\ GetDuration(j) \in Nat
      BY <1>3, <2>1, <2>3, GetDurationNat DEF Timed, GetDuration, DecayInv
    <3>2. place'[l] \in BucketSet /\ place'[l] # Joining
      BY <1>3, <2>3 DEF Waits, BucketSet, Joining
    <3>3. TurnsLeft(l)' = Gap((last + 1) % Buckets, place'[l])
      BY <1>1, <1>2 DEF TurnsLeft
    <3>4. CASE place[l] = Joining
      <4>1. age[j] = 0 /\ GetDuration(j) = full[j]
        BY <3>1, <3>4 DEF OnCourse
      <4>2. Drift(full[j], full[j], 0 + Gap((last + 1) % Buckets, FirstBucket(last, full[j])))
        BY <1>1, <2>1, DriftJoining
      <4>3. place'[l] = FirstBucket(last, full[j])
        BY <1>3, <2>3, <3>4, <4>1
      <4> QED
        BY <2>1, <3>1, <3>2, <3>3, <4>1, <4>2, <4>3 DEF OnCourse
    <3>5. CASE place[l] # Joining
      <4>1. place'[l] = place[l]
        BY <1>3, <2>3, <3>5 DEF Waits
      <4>2. TurnsLeft(l)' = TurnsLeft(l)
        BY <1>1, <1>2, <4>1 DEF TurnsLeft
      <4> QED
        BY <2>1, <3>1, <3>2, <3>5, <4>2 DEF OnCourse
    <3> QED
      BY <3>4, <3>5
  <2> QED
    BY <2>1, <2>2, <2>3 DEF Timed
<1> QED
  BY <1>2, <1>4 DEF AllTimed

-----------------------------------------------------------------------------
(* Every step *)

LEMMA InitTimed == DecayInit => TimedInv
  BY DecayInitInv DEF DecayInit, TimedInv, TurnInOrder, AllTimed

LEMMA NextTimed == TimedInv /\ [DecayNext]_decayVars => TimedInv'
<1> SUFFICES ASSUME DecayInv, TurnInOrder, AllTimed, [DecayNext]_decayVars
             PROVE  DecayInv' /\ TurnInOrder' /\ AllTimed'
  BY DEF TimedInv
<1>1. DecayInv' /\ DecayTypeOK
  BY DecayNextInv DEF DecayInv
<1>2. ASSUME NEW i \in Items, NEW t \in Types, NEW d \in Made(t), NEW starts \in BOOLEAN,
             NewItem(i, t, d, starts)
      PROVE  TurnInOrder' /\ AllTimed'
  <2>1. Forget(i) /\ UNCHANGED clock /\ entry' = entry /\ place' = place
    BY <1>2 DEF NewItem, lists
  <2>2. \A j \in Items : j # i /\ full[j] # NoTime => duration'[j] = duration[j]
    BY <1>1, <1>2 DEF NewItem, DecayTypeOK
  <2>3. \A l \in Listings : place[l] = Spare => ~Waits(l)'
    BY <2>1 DEF Waits, BucketSet, Spare, Joining
  <2> QED
    BY <1>1, <2>1, <2>2, <2>3, OthersTimed
<1>3. ASSUME duration' = duration, UNCHANGED lists, UNCHANGED observed, Upcoming' = Upcoming,
             \A l \in Listings : l \in seen' <=> l \in seen
      PROVE  AllTimed'
  <2> SUFFICES ASSUME NEW j \in Items, full'[j] # NoTime PROVE Timed(j)'
    BY DEF AllTimed
  <2>1. Timed(j) /\ full'[j] = full[j] /\ age'[j] = age[j] /\ duration'[j] = duration[j]
    BY <1>3 DEF AllTimed, observed
  <2>2. \A l \in Listings : entry'[l] = j /\ Waits(l)' <=> entry[l] = j /\ Waits(l)
    BY <1>3 DEF lists, Waits
  <2>3. \A l \in Listings : entry[l] = j /\ Waits(l) =>
                              place'[l] = place[l] /\ (l \in seen' <=> l \in seen)
    BY <1>3 DEF lists
  <2> QED
    BY <1>3, <2>1, <2>2, <2>3, StaysTimed
<1>4. ASSUME duration' = duration, UNCHANGED lists, UNCHANGED clock, UNCHANGED observed
      PROVE  TurnInOrder' /\ AllTimed'
  <2>1. TurnInOrder'
    BY <1>4 DEF TurnInOrder, clock, lists
  <2>2. Upcoming' = Upcoming /\ \A l \in Listings : l \in seen' <=> l \in seen
    BY <1>4 DEF clock, Upcoming
  <2> QED
    BY <1>3, <1>4, <2>1, <2>2
<1>5. ASSUME NEW i \in Items, ScriptDecay(i) PROVE TurnInOrder' /\ AllTimed'
  BY <1>4, <1>5 DEF ScriptDecay, object
<1>6. ASSUME NEW i \in Items, Remove(i) PROVE TurnInOrder' /\ AllTimed'
  BY <1>6, RemoveTimed DEF Remove
<1>7. ASSUME NEW i \in Items, NEW new \in Items, Equip(i, new) PROVE TurnInOrder' /\ AllTimed'
  BY <1>7, TransformTimed DEF Equip
<1>8. ASSUME NEW i \in Items, NEW new \in Items, DeEquip(i, new) PROVE TurnInOrder' /\ AllTimed'
  BY <1>8, TransformTimed DEF DeEquip
<1>9. ASSUME NEW i \in Items, NEW new \in Items, NEW t \in Types, ScriptTransform(i, t, new)
      PROVE  TurnInOrder' /\ AllTimed'
  BY <1>9, TransformTimed DEF ScriptTransform
<1>10. CASE StartRefused
  <2>1. duration' = duration /\ UNCHANGED lists /\ UNCHANGED clock /\ UNCHANGED observed
    BY <1>10 DEF StartRefused, object
  <2> QED
    BY <1>1, <1>4, <2>1
<1>11. CASE StartListed
  <2>1. PICK i \in Items : i = starting /\ GetDuration(i) \in Nat /\ HasSpare
    BY <1>1, <1>11, GetDurationNat DEF StartListed, DecayTypeOK
  <2>2. SpareOne \in Listings /\ place[SpareOne] = Spare /\ SpareOne \notin seen
    BY <1>1, <2>1, SpareNotSeen
  <2>3. /\ entry'[SpareOne] = i /\ place'[SpareOne] = Joining
        /\ \A l \in Listings : l # SpareOne => entry'[l] = entry[l] /\ place'[l] = place[l]
        /\ duration' = duration /\ UNCHANGED clock
    BY <1>1, <1>11, <2>1, <2>2 DEF StartListed, DecayTypeOK
  <2>4. TurnInOrder'
    BY <1>1, <2>2, <2>3 DEF TurnInOrder, clock, DecayTypeOK
  <2>5. ASSUME NEW j \in Items, j # i, full'[j] # NoTime PROVE Timed(j)'
    <3>1. full'[j] = full[j] /\ age'[j] = age[j] /\ Timed(j)
      BY <1>1, <1>11, <2>1, <2>5 DEF StartListed, DecayTypeOK, AllTimed
    <3>2. \A l \in Listings : Waits(l) => l # SpareOne
      BY <2>1, SpareNeverWaits
    <3>3. \A l \in Listings : entry'[l] = j /\ Waits(l)' <=> entry[l] = j /\ Waits(l)
      BY <2>3, <2>5, <3>2 DEF Waits
    <3>4. \A l \in Listings : entry[l] = j /\ Waits(l) =>
                                place'[l] = place[l] /\ (l \in seen' <=> l \in seen)
      BY <2>3, <3>2 DEF clock
    <3>5. Upcoming' = Upcoming /\ duration'[j] = duration[j]
      BY <2>3 DEF clock, Upcoming
    <3> QED
      BY <3>1, <3>3, <3>4, <3>5, StaysTimed
  <2>6. ASSUME full'[i] # NoTime PROVE Timed(i)'
    <3>1. full'[i] = GetDuration(i) /\ age'[i] = 0 /\ ~\E l \in ListingsOf(i) : Waits(l)
      BY <1>1, <1>11, <2>1, <2>6 DEF StartListed, DecayTypeOK
    <3>2. \A l \in Listings : entry[l] = i => ~Waits(l)
      BY <3>1 DEF ListingsOf, Waits, BucketSet, Spare, Joining
    <3>3. \A l \in Listings : entry'[l] = i /\ Waits(l)' <=> l = SpareOne
      BY <2>2, <2>3, <3>2 DEF Waits
    <3>4. GetDuration(i)' = GetDuration(i) /\ ~IsOver(GetDuration(i))
      BY <1>11, <2>1, <2>3 DEF GetDuration, StartListed
    <3>5. (age[i] = 0 /\ GetDuration(i) = full[i] /\ ~IsOver(full[i]))'
      BY <3>1, <3>4
    <3> QED
      BY <2>2, <2>3, <3>3, <3>5 DEF Timed, OnCourse
  <2> QED
    BY <1>1, <2>1, <2>4, <2>5, <2>6 DEF AllTimed
<1>12. CASE StartOver
  <2>1. PICK i \in Items : i = starting
    BY <1>1, <1>12 DEF StartOver, DecayTypeOK
  <2> QED
    BY <1>1, <1>12, <2>1, DecayTimed DEF StartOver
<1>13. CASE BeginTurn
  <2>1. /\ turning = NoTurn /\ seen = {} /\ seen' = {}
        /\ turning' = (last + 1) % Buckets /\ last' = last
    BY <1>13 DEF BeginTurn, Idle, TurnInOrder
  <2>2. Upcoming' = Upcoming /\ TurnInOrder'
    BY <2>1 DEF Upcoming, TurnInOrder
  <2>3. duration' = duration /\ UNCHANGED lists /\ UNCHANGED observed
    BY <1>13 DEF BeginTurn, object
  <2> QED
    BY <1>1, <1>3, <2>1, <2>2, <2>3
<1>14. ASSUME NEW l \in Listings, InTurn(l)
       PROVE  entry[l] \in Items /\ l \notin seen /\ place[l] # Spare
  BY <1>1, <1>14 DEF InTurn, DecayTypeOK, BucketSet, Spare, NoTurn
<1>15. ASSUME NEW l \in Listings, VisitLost(l) PROVE TurnInOrder' /\ AllTimed'
  <2> DEFINE i == entry[l]
  <2>1. i \in Items /\ l \notin seen /\ place[l] # Spare
    BY <1>14, <1>15 DEF VisitLost
  <2>2. Forget(i) /\ UNCHANGED clock /\ entry' = entry
    BY <1>15 DEF VisitLost
  <2>3. place'[l] = Freeing /\ \A m \in Listings : m # l => place'[m] = place[m]
    BY <1>1, <1>15 DEF VisitLost, DecayTypeOK
  <2>4. \A j \in Items : j # i /\ full[j] # NoTime => duration'[j] = duration[j]
    BY <1>1, <1>15 DEF VisitLost, Charged, DecayTypeOK
  <2>5. \A m \in Listings : place[m] = Spare => ~Waits(m)'
    BY <2>1, <2>3 DEF Waits, BucketSet, Spare, Joining
  <2> QED
    BY <1>1, <2>1, <2>2, <2>3, <2>4, <2>5, OthersTimed DEF DecayTypeOK
<1>16. ASSUME NEW l \in Listings, VisitOver(l) PROVE TurnInOrder' /\ AllTimed'
  <2>1. /\ entry[l] \in Items /\ l \notin seen /\ {l} \in SUBSET Listings
        /\ \A m \in {l} : entry[m] = entry[l] /\ m \notin seen
    BY <1>14, <1>16 DEF VisitOver
  <2> QED
    BY <1>16, <2>1, DecayTimed DEF VisitOver
<1>17. ASSUME NEW l \in Listings, VisitShort(l) PROVE TurnInOrder' /\ AllTimed'
  <2>1. /\ InTurn(l) /\ ~IsOver(Left(entry[l])) /\ IsShort(Left(entry[l]))
        /\ duration' = Charged(entry[l])
        /\ place' = [place EXCEPT ![l] = NewBucket(Left(entry[l]))]
        /\ UNCHANGED <<entry, last, turning, full, age>> /\ UNCHANGED seen
    BY <1>17 DEF VisitShort, observed, clock
  <2> QED
    BY <1>1, <2>1, VisitTimed
<1>18. ASSUME NEW l \in Listings, VisitLong(l) PROVE TurnInOrder' /\ AllTimed'
  <2>1. /\ InTurn(l) /\ ~IsShort(Left(entry[l])) /\ duration' = Charged(entry[l])
        /\ UNCHANGED place /\ seen' = seen \cup {l}
        /\ UNCHANGED <<entry, last, turning, full, age>>
    BY <1>18 DEF VisitLong, observed, lists
  <2>2. ~IsOver(Left(entry[l]))
    <3>1. Left(entry[l]) \in Nat
      BY <1>1, <1>14, <2>1, ChargedTypes
    <3> QED
      BY <2>1, <3>1, WheelReach, SizesAssumption DEF IsOver
  <2> QED
    BY <1>1, <2>1, <2>2, VisitTimed
<1>19. CASE UNCHANGED decayVars
  <2>1. duration' = duration /\ UNCHANGED lists /\ UNCHANGED clock /\ UNCHANGED observed
    BY <1>19 DEF decayVars, lists, clock, observed
  <2> QED
    BY <1>1, <1>4, <2>1
<1> QED
  BY <1>1, <1>2, <1>5, <1>6, <1>7, <1>8, <1>9, <1>10, <1>11, <1>12, <1>13, <1>15, <1>16, <1>17,
     <1>18, <1>19, EndTurnTimed, OtherCleanUpTimed DEF DecayNext

\* Only a visit that finds the time over takes a node off the wheel whose item can decay.
LEMMA DueIsOver ==
  ASSUME DecayInv, [DecayNext]_decayVars, NEW l \in Listings, InTurn(l), CanDecay(entry[l]),
         place'[l] = Freeing
  PROVE  IsOver(Left(entry[l]))
<1>1. /\ turning # NoTurn /\ starting = NoItem /\ turning \in BucketSet /\ place[l] = turning
      /\ place[l] # Freeing /\ place[l] # Spare /\ place[l] \in BucketSet /\ l \notin seen
  BY DEF InTurn, DecayInv, DecayTypeOK, BucketSet, Freeing, Spare, NoTurn
<1>2. place' # place
  BY <1>1
<1>3. PICK m \in Listings : VisitLost(m) \/ VisitOver(m) \/ VisitShort(m)
  <2>1. ~Idle /\ ~EndTurn
    BY <1>1 DEF Idle, EndTurn
  <2>2. ~StartRefused /\ ~StartListed /\ ~StartOver
    BY <1>1 DEF StartRefused, StartListed, StartOver
  <2>3. \A m \in Listings : ~VisitLong(m)
    BY <1>2 DEF VisitLong, lists
  <2>4. DecayNext
    BY <1>2 DEF decayVars
  <2>5. ~BeginTurn /\ ~OtherCleanUp
    BY <2>1 DEF BeginTurn, OtherCleanUp
  <2>6. \A i \in Items : ~ScriptDecay(i) /\ ~Remove(i)
    BY <2>1 DEF ScriptDecay, Remove
  <2>7. \A i, new \in Items : ~Equip(i, new) /\ ~DeEquip(i, new)
    BY <2>1 DEF Equip, DeEquip
  <2>8. \A i, new \in Items, t \in Types : ~ScriptTransform(i, t, new)
    BY <2>1 DEF ScriptTransform
  <2>9. ~\E i \in Items, t \in Types :
            \E d \in Made(t), starts \in BOOLEAN : NewItem(i, t, d, starts)
    BY <2>1 DEF NewItem
  <2> QED
    BY <2>1, <2>2, <2>3, <2>4, <2>5, <2>6, <2>7, <2>8, <2>9 DEF DecayNext
<1>4. CASE VisitLost(m)
  <2>1. m = l
    BY <1>1, <1>4 DEF VisitLost, DecayInv, DecayTypeOK
  <2> QED
    BY <1>4, <2>1 DEF VisitLost
<1>5. CASE VisitOver(m)
  <2>1. m = l
    <3>1. ASSUME m # l, HasSpare,
                 place' = [n \in Listings |->
                             IF n \in {m} \cup {SpareOne} THEN Freeing ELSE place[n]]
          PROVE  FALSE
      <4>1. place[SpareOne] = Spare
        BY <3>1 DEF HasSpare, SpareOne
      <4> QED
        BY <1>1, <3>1, <4>1
    <3>2. ASSUME m # l, place' = [n \in Listings |-> IF n \in {m} THEN Freeing ELSE place[n]]
          PROVE  FALSE
      BY <1>1, <3>2
    <3> QED
      BY <1>5, <3>1, <3>2 DEF VisitOver, DecayItem, RemoveItem, Transform
  <2> QED
    BY <1>5, <2>1 DEF VisitOver
<1>6. CASE VisitShort(m)
  <2>1. entry[m] \in Items /\ place[m] = turning
    BY <1>6, <1>1 DEF VisitShort, InTurn, DecayInv, DecayTypeOK, BucketSet, Spare
  <2>2. NewBucket(Left(entry[m])) \in BucketSet
    BY <1>1, <2>1, ChargedTypes, WheelTypes DEF NewBucket, DecayInv
  <2> QED
    BY <1>1, <1>6, <2>2 DEF VisitShort, BucketSet, Freeing, DecayInv, DecayTypeOK
<1> QED
  BY <1>3, <1>4, <1>5, <1>6

\* The time of an item that started once, and was not transformed since, is over close to
\* its duration, for any wheel and however often it goes round: checkDecay charges it for
\* whole rounds, and rounds what is left only once.
THEOREM ItemsDecayOnTime == DecaySpec => DecaysOnTime
<1> DEFINE P == \A i \in Items : full[i] # NoTime /\ ComesDue(i) => OnTime(i)
<1>1. ASSUME TimedInv, [DecayNext]_decayVars, NEW i \in Items, full[i] # NoTime, ComesDue(i)
      PROVE  OnTime(i)
  <2>1. DecayInv /\ full[i] \in Nat /\ age[i] \in Nat /\ GetDuration(i) \in Nat
    BY <1>1, GetDurationNat DEF TimedInv, DecayInv, DecayTypeOK
  <2>2. PICK l \in Listings : entry[l] = i /\ InTurn(l) /\ CanDecay(i) /\ place'[l] = Freeing
    BY <1>1 DEF ComesDue
  <2>3. place[l] \in BucketSet /\ turning \in BucketSet /\ place[l] = turning /\ l \notin seen
    BY <2>1, <2>2 DEF InTurn, DecayInv, DecayTypeOK, NoTurn
  <2>4. OnCourse(i, l)
    BY <1>1, <2>2, <2>3 DEF TimedInv, AllTimed, Timed, Waits
  <2>5. TurnsLeft(l) = 0
    <3>1. Upcoming = turning
      BY <2>2 DEF InTurn, Upcoming
    <3> QED
      BY <2>3, <3>1, GapBasics DEF TurnsLeft
  <2>6. Drift(full[i], GetDuration(i), age[i])
    BY <2>1, <2>3, <2>4, <2>5 DEF OnCourse, BucketSet, Joining
  <2>7. GetDuration(i) <= Buckets * Interval + (Interval - 1) \div 2
    <3>1. IsOver(Left(i))
      BY <1>1, <2>1, <2>2, DueIsOver
    <3>2. Interval * Buckets = Buckets * Interval /\ Buckets * Interval \in Nat
      BY WheelReach
    <3>3. (Interval - 1) \div 2 \in Nat
      BY SizesAssumption
    <3> QED
      BY <2>1, <3>1, <3>2, <3>3 DEF IsOver, Left
  <2> QED
    BY <2>1, <2>6, <2>7, DriftInTime DEF OnTime
<1>2. TimedInv /\ [DecayNext]_decayVars => [P]_decayVars
  BY <1>1
<1> QED
  BY <1>2, InitTimed, NextTimed, PTL DEF DecaySpec, DecaysOnTime

-----------------------------------------------------------------------------
(* RAIDS.                                                                  *)

Timers(ts, S) == {t \in ts : t.run \in S}
Places(q, S) == {k \in DOMAIN q : q[k] \in S}
Count(ts, q, S) == Cardinality(Timers(ts, S)) + Cardinality(Places(q, S))
One(run, S) == IF run \in S THEN 1 ELSE 0

-----------------------------------------------------------------------------
(* Counting tasks.                                                         *)

\* A count is a number, and zero when there is nothing to count.
LEMMA CountType ==
    ASSUME NEW ts, IsFiniteSet(ts), NEW q \in Seq(Run), NEW S
    PROVE  /\ IsFiniteSet(Timers(ts, S)) /\ Cardinality(Timers(ts, S)) \in Nat
           /\ IsFiniteSet(Places(q, S)) /\ Cardinality(Places(q, S)) \in Nat
           /\ Count(ts, q, S) \in Nat
           /\ Count(ts, q, S) = 0 <=> Timers(ts, S) = {} /\ Places(q, S) = {}
<1>1. Timers(ts, S) \in SUBSET ts
  BY DEF Timers
<1>2. IsFiniteSet(Timers(ts, S)) /\ Cardinality(Timers(ts, S)) \in Nat
  BY <1>1, FS_Subset, FS_CardinalityType
<1>3. Places(q, S) \in SUBSET (1 .. Len(q)) /\ Len(q) \in Nat
  BY DEF Places
<1>4. IsFiniteSet(1 .. Len(q))
  BY <1>3, FS_Interval
<1>5. IsFiniteSet(Places(q, S)) /\ Cardinality(Places(q, S)) \in Nat
  BY <1>3, <1>4, FS_Subset, FS_CardinalityType
<1>6. /\ Cardinality(Timers(ts, S)) = 0 <=> Timers(ts, S) = {}
      /\ Cardinality(Places(q, S)) = 0 <=> Places(q, S) = {}
  BY <1>2, <1>5, FS_EmptySet
<1> QED BY <1>2, <1>5, <1>6 DEF Count

LEMMA WaitingIsCount ==
    \A S : /\ Waiting(S) = Count(timers, queue, S)
           /\ Waiting(S)' = Count(timers', queue', S)
BY DEF Waiting, Count, Timers, Places

\* The scheduler gets a task.
LEMMA CountArmed ==
    ASSUME NEW ts, IsFiniteSet(ts), NEW q \in Seq(Run), NEW S, NEW t, t \notin ts
    PROVE  /\ IsFiniteSet(ts \cup {t})
           /\ Count(ts \cup {t}, q, S) = Count(ts, q, S) + One(t.run, S)
<1>1. IsFiniteSet(ts \cup {t})
  BY FS_AddElement
<1>2. IsFiniteSet(Timers(ts, S)) /\ t \notin Timers(ts, S)
  BY CountType DEF Timers
<1>3. Cardinality(Timers(ts, S) \cup {t}) = Cardinality(Timers(ts, S)) + 1
  BY <1>2, FS_AddElement
<1>4. Timers(ts \cup {t}, S) = IF t.run \in S THEN Timers(ts, S) \cup {t} ELSE Timers(ts, S)
  BY DEF Timers
<1>5. Cardinality(Timers(ts, S)) \in Nat /\ Cardinality(Places(q, S)) \in Nat
  BY CountType
<1> QED BY <1>1, <1>3, <1>4, <1>5 DEF Count, One

\* The scheduler loses one, when somebody stops it.
LEMMA CountStopped ==
    ASSUME NEW ts, IsFiniteSet(ts), NEW q \in Seq(Run), NEW S, NEW t \in ts
    PROVE  /\ IsFiniteSet(ts \ {t})
           /\ Count(ts \ {t}, q, S) = Count(ts, q, S) - One(t.run, S)
<1>1. IsFiniteSet(ts \ {t})
  BY FS_RemoveElement
<1>2. IsFiniteSet(Timers(ts, S)) /\ (t \in Timers(ts, S) <=> t.run \in S)
  BY CountType DEF Timers
<1>3. Cardinality(Timers(ts, S) \ {t})
        = IF t.run \in S THEN Cardinality(Timers(ts, S)) - 1 ELSE Cardinality(Timers(ts, S))
  BY <1>2, FS_RemoveElement
<1>4. Timers(ts \ {t}, S) = Timers(ts, S) \ {t}
  BY DEF Timers
<1>5. Cardinality(Timers(ts, S)) \in Nat /\ Cardinality(Places(q, S)) \in Nat
  BY CountType
<1>6. Cardinality(Timers(ts \ {t}, S))
        = IF t.run \in S THEN Cardinality(Timers(ts, S)) - 1 ELSE Cardinality(Timers(ts, S))
  BY <1>3, <1>4, Zenon
<1> QED BY <1>1, <1>5, <1>6 DEF Count, One

\* ... or loses many.
LEMMA CountFewer ==
    ASSUME NEW ts, IsFiniteSet(ts), NEW q \in Seq(Run), NEW S, NEW us \in SUBSET ts
    PROVE  IsFiniteSet(us) /\ Count(us, q, S) <= Count(ts, q, S)
<1>1. IsFiniteSet(us)
  BY FS_Subset
<1>2. Timers(us, S) \in SUBSET Timers(ts, S)
  BY DEF Timers
<1>3. Cardinality(Timers(us, S)) <= Cardinality(Timers(ts, S))
  BY <1>2, CountType, FS_Subset
<1> QED BY <1>1, <1>3, CountType DEF Count

\* The dispatcher gets a task.
LEMMA CountPosted ==
    ASSUME NEW ts, IsFiniteSet(ts), NEW q \in Seq(Run), NEW S, NEW x \in Run
    PROVE  /\ Append(q, x) \in Seq(Run)
           /\ Count(ts, Append(q, x), S) = Count(ts, q, S) + One(x, S)
<1> DEFINE n == Len(q) + 1
<1>1. /\ Append(q, x) \in Seq(Run)
      /\ DOMAIN Append(q, x) = DOMAIN q \cup {n} /\ n \notin DOMAIN q
      /\ \A k \in DOMAIN q : Append(q, x)[k] = q[k]
      /\ Append(q, x)[n] = x
  OBVIOUS
<1>2. Places(Append(q, x), S) = IF x \in S THEN Places(q, S) \cup {n} ELSE Places(q, S)
  BY <1>1 DEF Places
<1>3. IsFiniteSet(Places(q, S)) /\ n \notin Places(q, S)
  <2>1. n \notin Places(q, S)
    BY <1>1 DEF Places
  <2> QED BY <2>1, CountType
<1>4. Cardinality(Places(q, S) \cup {n}) = Cardinality(Places(q, S)) + 1
  BY <1>3, FS_AddElement
<1>5. Cardinality(Timers(ts, S)) \in Nat /\ Cardinality(Places(q, S)) \in Nat
  BY CountType
<1> QED BY <1>1, <1>2, <1>4, <1>5 DEF Count, One

\* The dispatcher takes the first.
LEMMA CountDone ==
    ASSUME NEW ts, IsFiniteSet(ts), NEW q \in Seq(Run), NEW S, q # <<>>
    PROVE  /\ Tail(q) \in Seq(Run) /\ Head(q) \in Run
           /\ Count(ts, Tail(q), S) = Count(ts, q, S) - One(Head(q), S)
<1> DEFINE u == Tail(q)
           rest == Places(q, S) \ {1}
           f == [k \in Places(u, S) |-> k + 1]
<1>1. /\ u \in Seq(Run) /\ Len(u) = Len(q) - 1 /\ Len(q) \in Nat \ {0}
      /\ \A a \in 1 .. Len(u) : u[a] = q[a + 1]
      /\ Head(q) = q[1] /\ Head(q) \in Run
      /\ DOMAIN u = 1 .. Len(u) /\ DOMAIN q = 1 .. Len(q)
  OBVIOUS
<1> HIDE DEF u
<1>2. \A a \in DOMAIN u : a + 1 \in DOMAIN q /\ u[a] = q[a + 1] /\ a + 1 # 1
  BY <1>1
<1>3. \A a \in DOMAIN q : a # 1 => a - 1 \in DOMAIN u /\ u[a - 1] = q[a] /\ (a - 1) + 1 = a
  BY <1>1
<1>4. f \in [Places(u, S) -> rest]
  BY <1>2 DEF Places
<1>5. \A a, b \in Places(u, S) : f[a] = f[b] => a = b
  BY <1>1 DEF Places
<1>6. \A b \in rest : \E a \in Places(u, S) : f[a] = b
  BY <1>3 DEF Places
<1>7. ExistsBijection(Places(u, S), rest)
  <2>1. f \in Bijection(Places(u, S), rest)
    BY <1>4, <1>5, <1>6, Fun_IsBij
  <2> QED BY <2>1 DEF ExistsBijection
<1>8. IsFiniteSet(Places(u, S))
  BY <1>1, CountType
<1>9. Cardinality(rest) = Cardinality(Places(u, S))
  BY <1>7, <1>8, FS_Bijection
<1>10. IsFiniteSet(Places(q, S)) /\ (1 \in Places(q, S) <=> Head(q) \in S)
  <2>1. IsFiniteSet(Places(q, S))
    BY CountType
  <2>2. 1 \in Places(q, S) <=> Head(q) \in S
    BY <1>1 DEF Places
  <2> QED BY <2>1, <2>2
<1>11. Cardinality(rest)
        = IF Head(q) \in S THEN Cardinality(Places(q, S)) - 1 ELSE Cardinality(Places(q, S))
  BY <1>10, FS_RemoveElement
<1>12. Cardinality(Timers(ts, S)) \in Nat /\ Cardinality(Places(q, S)) \in Nat
  BY CountType
<1>13. Count(ts, u, S) = Count(ts, q, S) - One(Head(q), S)
  BY <1>9, <1>11, <1>12 DEF Count, One
<1> QED BY <1>1, <1>13 DEF u

-----------------------------------------------------------------------------
(* New ids.                                                                *)

LEMMA NewIdIsNew ==
    ASSUME NEW used, IsFiniteSet(used)
    PROVE  NewId(used) \in Nat \ {0} /\ NewId(used) \notin used
<1> DEFINE n == Cardinality(used)
<1>1. n \in Nat
  BY FS_CardinalityType
<1> HIDE DEF n
<1>2. IsFiniteSet(1 .. n + 1) /\ Cardinality(1 .. n + 1) = n + 1
  BY <1>1, FS_Interval
<1>3. ~ (1 .. n + 1 \subseteq used)
  BY <1>1, <1>2, FS_Subset DEF n
<1>4. \E i \in 1 .. n + 1 : i \notin used
  BY <1>3
<1>5. NewId(used) \in 1 .. n + 1 /\ NewId(used) \notin used
  BY <1>4 DEF NewId, n
<1> QED BY <1>1, <1>5

LEMMA FreshIds ==
    ASSUME RaidsTypeOK
    PROVE  /\ Fresh \in Nat \ {0} /\ FreshTwo \in Nat \ {0} /\ Fresh # FreshTwo
           /\ \A t \in timers : t.id # Fresh /\ t.id # FreshTwo
           /\ Fresh # checkRaidsEvent /\ FreshTwo # checkRaidsEvent
           /\ \A r \in Raid : Fresh # nextEventEvent[r] /\ FreshTwo # nextEventEvent[r]
<1> DEFINE A == {t.id : t \in timers}
           B == {nextEventEvent[r] : r \in Raid}
           f == [t \in timers |-> t.id]
<1>1. IsFiniteSet(A)
  <2>1. f \in [timers -> A] /\ \A y \in A : \E x \in timers : f[x] = y
    OBVIOUS
  <2>2. f \in Surjection(timers, A)
    BY <2>1, Fun_IsSurj
  <2> QED BY <2>2, FS_Surjection DEF RaidsTypeOK
<1>2. IsFiniteSet(B)
  <2>1. nextEventEvent \in [Raid -> B] /\ \A y \in B : \E x \in Raid : nextEventEvent[x] = y
    BY DEF RaidsTypeOK
  <2>2. nextEventEvent \in Surjection(Raid, B)
    BY <2>1, Fun_IsSurj
  <2> QED BY <2>2, FS_Surjection, RaidsAssumption
<1>3. IsFiniteSet(A \cup {checkRaidsEvent})
  BY <1>1, FS_AddElement
<1>4. IsFiniteSet((A \cup {checkRaidsEvent}) \cup B)
  BY <1>2, <1>3, FS_Union
<1>5. IsFiniteSet(Ids) /\ IsFiniteSet(Ids \cup {Fresh})
  BY <1>4, FS_AddElement DEF Ids
<1>6. /\ Fresh \in Nat \ {0} /\ Fresh \notin Ids
      /\ FreshTwo \in Nat \ {0} /\ FreshTwo \notin Ids \cup {Fresh}
  BY <1>5, NewIdIsNew DEF Fresh, FreshTwo
<1> QED BY <1>6 DEF Ids

-----------------------------------------------------------------------------
(* The invariant.                                                          *)

\* The events of the raids that are loaded
Current == {run \in Run : run.kind = "event" /\ run.load = loads}

IdsApart == \A t, u \in timers : t.id = u.id => t = u
CheckFits == \A t \in timers : t.id = checkRaidsEvent => t.run = Check

\* A reload can stop what the raid that runs armed itself.
EventFits ==
    \A t \in timers : t.run.kind = "event" =>
       \/ t.run \in Due /\ (t.run.forced \/ t.id = nextEventEvent[running])
       \/ t.run.forced /\ t.run.load < loads
PostedFits ==
    \A k \in DOMAIN queue : queue[k].kind = "event" =>
       queue[k] \in Due \/ queue[k].load < loads

OneCurrent == Waiting(Current) = IF running # NoRaid /\ size[running] > 0 THEN 1 ELSE 0
Resting == \A r \in Raid : r # running => nextEvent[r] = 0

\* A check that a reload finds neither with the scheduler, under the id that is kept,
\* nor with the dispatcher is one of those the reloads before it left.
ChecksFit ==
    /\ started => Waiting({Check}) > 0
    /\ Waiting({Check}) <= 1 + late
    /\ (\A t \in timers : t.id # checkRaidsEvent) /\ (\A k \in DOMAIN queue : queue[k] # Check)
          => Waiting({Check}) <= late

RaidsInv ==
    /\ RaidsTypeOK
    /\ IdsApart /\ CheckFits
    /\ EventFits /\ PostedFits
    /\ OneCurrent /\ Resting
    /\ ChecksFit

LEMMA DueIsCurrent ==
    ASSUME RaidsTypeOK
    PROVE  Due \subseteq Current
BY DEF RaidsTypeOK, Due, Event, Current, Run

LEMMA CheckIsRun == Check \in Run /\ Check \notin Current /\ Check.kind = "check"
BY DEF Check, Run, Current

LEMMA RaidsInitInv == RaidsInit => RaidsInv
<1> SUFFICES ASSUME RaidsInit PROVE RaidsInv
  OBVIOUS
<1>1. IsFiniteSet(timers) /\ timers = {} /\ queue = <<>> /\ queue \in Seq(Run)
  BY FS_EmptySet DEF RaidsInit
<1>2. RaidsTypeOK
  BY <1>1, RaidsAssumption DEF RaidsInit, RaidsTypeOK
<1>3. \A S : Count(timers, queue, S) = 0
  <2> TAKE S
  <2>1. Timers(timers, S) = {} /\ Places(queue, S) = {}
    BY <1>1 DEF Timers, Places
  <2> QED BY <1>1, <2>1, CountType
<1>4. \A S : Waiting(S) = 0
  BY <1>3 DEF Waiting, Count, Timers, Places
<1> QED BY <1>1, <1>2, <1>4 DEF RaidsInit, RaidsInv, RaidsTypeOK, IdsApart, CheckFits, EventFits, PostedFits,
            OneCurrent, Resting, ChecksFit

\* What is in the queue when a task was added, or the first taken
LEMMA AppendHas ==
    ASSUME NEW q \in Seq(Run), NEW x \in Run
    PROVE  /\ \A k \in DOMAIN Append(q, x) :
                 (k \in DOMAIN q /\ Append(q, x)[k] = q[k]) \/ Append(q, x)[k] = x
           /\ \A j \in DOMAIN q : j \in DOMAIN Append(q, x) /\ Append(q, x)[j] = q[j]
           /\ \E k \in DOMAIN Append(q, x) : Append(q, x)[k] = x
OBVIOUS

LEMMA TailHas ==
    ASSUME NEW q \in Seq(Run), q # <<>>
    PROVE  /\ 1 \in DOMAIN q /\ Head(q) = q[1]
           /\ \A k \in DOMAIN Tail(q) : \E j \in DOMAIN q : Tail(q)[k] = q[j]
           /\ \A j \in DOMAIN q :
                 q[j] = Head(q) \/ \E k \in DOMAIN Tail(q) : Tail(q)[k] = q[j]
<1> DEFINE u == Tail(q)
<1>1. /\ u \in Seq(Run) /\ Len(u) = Len(q) - 1 /\ Len(q) \in Nat \ {0}
      /\ \A a \in 1 .. Len(u) : u[a] = q[a + 1]
      /\ Head(q) = q[1]
      /\ DOMAIN u = 1 .. Len(u) /\ DOMAIN q = 1 .. Len(q)
  OBVIOUS
<1> HIDE DEF u
<1>2. \A a \in DOMAIN u : a + 1 \in DOMAIN q /\ u[a] = q[a + 1]
  BY <1>1
<1>3. \A a \in DOMAIN q : a # 1 => a - 1 \in DOMAIN u /\ u[a - 1] = q[a]
  BY <1>1
<1>4. 1 \in DOMAIN q /\ Head(q) = q[1]
  BY <1>1
<1> QED BY <1>2, <1>3, <1>4 DEF u

\* The scheduler hands over a task: it waits elsewhere now.
LEMMA ExpireKeeps ==
    ASSUME RaidsInv, NEW t \in timers, Expire(t)
    PROVE  RaidsInv'
<1>1. /\ RaidsTypeOK /\ IsFiniteSet(timers) /\ queue \in Seq(Run) /\ t.run \in Run
      /\ timers' = timers \ {t} /\ queue' = Append(queue, t.run)
  BY DEF RaidsInv, RaidsTypeOK, Expire
<1>2. IsFiniteSet(timers') /\ queue' \in Seq(Run)
  BY <1>1, FS_RemoveElement
<1>3. \A S : Waiting(S)' = Waiting(S)
  <2> TAKE S
  <2>1. Count(timers \ {t}, queue, S) = Count(timers, queue, S) - One(t.run, S)
    BY <1>1, CountStopped
  <2>2. Count(timers \ {t}, Append(queue, t.run), S)
          = Count(timers \ {t}, queue, S) + One(t.run, S)
    BY <1>1, <1>2, CountPosted
  <2>3. Count(timers, queue, S) \in Nat /\ One(t.run, S) \in Nat
    BY <1>1, CountType DEF One
  <2>4. Count(timers', queue', S) = Count(timers, queue, S)
    BY <1>1, <2>1, <2>2, <2>3
  <2> QED BY <2>4 DEF Waiting, Count, Timers, Places
<1>4. RaidsTypeOK'
  BY <1>1, <1>2 DEF RaidsTypeOK, Expire, raidVars
<1>5. /\ Current' = Current /\ Due' = Due
      /\ UNCHANGED <<running, size, nextEvent, nextEventEvent, checkRaidsEvent, loads, late, started>>
  BY DEF Expire, Current, Due, Event, raidVars
<1>6. /\ \A k \in DOMAIN queue' :
            (k \in DOMAIN queue /\ queue'[k] = queue[k]) \/ queue'[k] = t.run
      /\ \A j \in DOMAIN queue : j \in DOMAIN queue' /\ queue'[j] = queue[j]
      /\ \E k \in DOMAIN queue' : queue'[k] = t.run
  BY <1>1, AppendHas
<1>7. (IdsApart /\ CheckFits /\ EventFits)'
  BY <1>1, <1>5 DEF RaidsInv, IdsApart, CheckFits, EventFits
<1>8. PostedFits'
  BY <1>5, <1>6 DEF RaidsInv, EventFits, PostedFits
<1>9. (OneCurrent /\ Resting)'
  <2>1. Waiting(Current)' = Waiting(Current)
    BY <1>3, <1>5
  <2> QED BY <1>5, <2>1 DEF RaidsInv, OneCurrent, Resting
<1>10. ChecksFit'
  <2>1. Waiting({Check})' = Waiting({Check})
    BY <1>3
  <2>2. /\ \A u \in timers' : u.id # checkRaidsEvent
        /\ \A k \in DOMAIN queue' : queue'[k] # Check
        => /\ \A u \in timers : u.id # checkRaidsEvent
           /\ \A k \in DOMAIN queue : queue[k] # Check
    BY <1>1, <1>6 DEF RaidsInv, CheckFits
  <2> QED BY <1>5, <2>1, <2>2 DEF RaidsInv, ChecksFit
<1> QED BY <1>4, <1>7, <1>8, <1>9, <1>10 DEF RaidsInv

\* An armed task is new to the scheduler.
LEMMA ArmedIsNew ==
    ASSUME RaidsTypeOK, NEW run \in Run
    PROVE  /\ Armed(Fresh, run) \notin timers /\ Armed(FreshTwo, run) \notin timers
           /\ Armed(Fresh, run) \in [id : Nat \ {0}, run : Run]
           /\ Armed(FreshTwo, run) \in [id : Nat \ {0}, run : Run]
           /\ Armed(Fresh, run).id = Fresh /\ Armed(Fresh, run).run = run
           /\ Armed(FreshTwo, run).id = FreshTwo /\ Armed(FreshTwo, run).run = run
BY FreshIds DEF Armed

\* A check that starts no raid: one check ends, another is armed.
LEMMA CheckKeeps ==
    ASSUME RaidsInv, checkRaids
    PROVE  RaidsInv'
<1> DEFINE new == Armed(Fresh, Check)
<1>1. /\ RaidsTypeOK /\ IsFiniteSet(timers) /\ queue \in Seq(Run) /\ queue # <<>>
      /\ Head(queue) = Check
      /\ timers' = timers \cup {new} /\ queue' = Tail(queue) /\ checkRaidsEvent' = Fresh
      /\ UNCHANGED <<loaded, started, running, size, nextEvent, nextEventEvent, loads, late, undefined>>
  <2>1. RaidsTypeOK /\ queue \in Seq(Run) /\ queue # <<>> /\ Head(queue).kind = "check"
    BY DEF RaidsInv, RaidsTypeOK, checkRaids, First
  <2>2. Head(queue) \in Run
    BY <2>1
  <2>3. Head(queue) = Check
    BY <2>1, <2>2 DEF Run, Check
  <2> QED BY <2>1, <2>3 DEF checkRaids, RaidsTypeOK, raidVars
<1>2. /\ new \notin timers /\ new.id = Fresh /\ new.run = Check
      /\ new \in [id : Nat \ {0}, run : Run]
  BY <1>1, CheckIsRun, ArmedIsNew
<1> HIDE DEF new
<1>3. IsFiniteSet(timers') /\ queue' \in Seq(Run)
  BY <1>1, CountArmed, CountDone
<1>4. \A S : Waiting(S)' = Waiting(S)
  <2> TAKE S
  <2>1. Count(timers \cup {new}, queue, S) = Count(timers, queue, S) + One(Check, S)
    BY <1>1, <1>2, CountArmed
  <2>2. Count(timers', Tail(queue), S) = Count(timers', queue, S) - One(Check, S)
    BY <1>1, <1>3, CountDone
  <2>3. Count(timers, queue, S) \in Nat /\ One(Check, S) \in Nat
    BY <1>1, CountType DEF One
  <2>4. Count(timers', queue', S) = Count(timers, queue, S)
    BY <1>1, <2>1, <2>2, <2>3
  <2> QED BY <2>4 DEF Waiting, Count, Timers, Places
<1>5. RaidsTypeOK'
  BY <1>1, <1>2, <1>3, FreshIds DEF RaidsTypeOK
<1>6. Current' = Current /\ Due' = Due
  BY <1>1 DEF Current, Due, Event
<1>7. \A t \in timers : t.id # Fresh
  BY <1>1, FreshIds
<1>8. (IdsApart /\ CheckFits)'
  BY <1>1, <1>2, <1>7 DEF RaidsInv, IdsApart, CheckFits
<1>9. EventFits'
  BY <1>1, <1>2, <1>6, CheckIsRun DEF RaidsInv, EventFits
<1>10. PostedFits'
  BY <1>1, <1>6, TailHas DEF RaidsInv, PostedFits
<1>11. (OneCurrent /\ Resting)'
  <2>1. Waiting(Current)' = Waiting(Current)
    BY <1>4, <1>6
  <2> QED BY <1>1, <2>1 DEF RaidsInv, OneCurrent, Resting
<1>12. ChecksFit'
  <2>1. Waiting({Check})' = Waiting({Check})
    BY <1>4
  <2>2. \E t \in timers' : t.id = checkRaidsEvent'
    BY <1>1, <1>2
  <2> QED BY <1>1, <2>1, <2>2 DEF RaidsInv, ChecksFit
<1> QED BY <1>5, <1>8, <1>9, <1>10, <1>11, <1>12 DEF RaidsInv

\* While no raid with events runs, no event of the raids there are waits anywhere.
LEMMA NothingCurrent ==
    ASSUME RaidsTypeOK, Count(timers, queue, Current) = 0
    PROVE  /\ \A t \in timers : t.run \notin Current
           /\ \A k \in DOMAIN queue : queue[k] \notin Current
<1>1. Timers(timers, Current) = {} /\ Places(queue, Current) = {}
  BY CountType DEF RaidsTypeOK
<1> QED BY <1>1 DEF Timers, Places

\* A raid starts, in whichever way: from now on at most its first event waits.
LEMMA StartFits ==
    ASSUME RaidsInv, NEW r \in Raid, running = NoRaid, running' = r,
           UNCHANGED <<size, nextEvent, loads>>
    PROVE  /\ nextEvent[r] = 0 /\ size[r] \in Nat /\ Current' = Current
           /\ Waiting(Current) = 0
           /\ \A f \in BOOLEAN : Event(r, nextEvent[r], f) \in Due' \cap Current
           /\ \A t \in timers : t.run.kind = "event" => t.run.forced /\ t.run.load < loads
           /\ \A k \in DOMAIN queue : queue[k].kind = "event" => queue[k].load < loads
           /\ Resting'
<1>1. RaidsTypeOK /\ nextEvent[r] = 0 /\ size[r] \in Nat /\ loads \in Nat
  BY RaidsAssumption DEF RaidsInv, RaidsTypeOK, Resting
<1>2. Due = {}
  BY DEF Due
<1>3. Current' = Current /\ Due' = {Event(r, nextEvent[r], f) : f \in BOOLEAN}
  BY RaidsAssumption DEF Current, Due, Event
<1>4. \A f \in BOOLEAN : Event(r, nextEvent[r], f) \in Due' \cap Current
  BY <1>1, <1>3 DEF Event, Current, Run, RaidsTypeOK
<1>5. Waiting(Current) = 0
  BY DEF RaidsInv, OneCurrent
<1>6. /\ \A t \in timers : t.run.kind = "event" => t.run.forced /\ t.run.load < loads
      /\ \A k \in DOMAIN queue : queue[k].kind = "event" => queue[k].load < loads
  BY <1>2 DEF RaidsInv, EventFits, PostedFits
<1>7. Resting'
  BY RaidsAssumption DEF RaidsInv, Resting
<1> QED BY <1>1, <1>3, <1>4, <1>5, <1>6, <1>7

\* checkRaids starts a raid: the check ends, its first event and a check are armed.
LEMMA StartKeeps ==
    ASSUME RaidsInv, NEW r \in Raid, startRaid(r)
    PROVE  RaidsInv'
<1> DEFINE ev == Event(r, nextEvent[r], FALSE)
           one == Armed(Fresh, ev)
           two == Armed(FreshTwo, Check)
           new == Armed(Fresh, Check)
<1>1. /\ RaidsTypeOK /\ IsFiniteSet(timers) /\ queue \in Seq(Run) /\ queue # <<>>
      /\ Head(queue) = Check /\ queue' = Tail(queue)
      /\ running = NoRaid /\ running' = r
      /\ UNCHANGED <<loaded, started, size, nextEvent, loads, late, undefined>>
  <2>1. RaidsTypeOK /\ queue \in Seq(Run) /\ queue # <<>> /\ Head(queue).kind = "check"
    BY DEF RaidsInv, RaidsTypeOK, startRaid, First
  <2>2. Head(queue) \in Run
    BY <2>1
  <2>3. Head(queue) = Check
    BY <2>1, <2>2 DEF Run, Check
  <2> QED BY <2>1, <2>3 DEF startRaid, RaidsTypeOK
<1>2. /\ nextEvent[r] = 0 /\ size[r] \in Nat /\ Current' = Current /\ Waiting(Current) = 0
      /\ ev \in Due' /\ ev \in Current /\ ev \in Run
      /\ \A t \in timers : t.run.kind = "event" => t.run.forced /\ t.run.load < loads
      /\ \A k \in DOMAIN queue : queue[k].kind = "event" => queue[k].load < loads
      /\ Resting'
  BY <1>1, StartFits DEF Current
<1>3. /\ one \notin timers /\ two \notin timers /\ new \notin timers
      /\ one.id = Fresh /\ one.run = ev /\ two.id = FreshTwo /\ two.run = Check
      /\ new.id = Fresh /\ new.run = Check
      /\ {one, two, new} \subseteq [id : Nat \ {0}, run : Run]
      /\ one # two
      /\ Fresh \in Nat /\ FreshTwo \in Nat /\ Fresh # FreshTwo
      /\ \A t \in timers : t.id # Fresh /\ t.id # FreshTwo
  <2>1. Fresh \in Nat /\ FreshTwo \in Nat /\ Fresh # FreshTwo
    BY <1>1, FreshIds
  <2>2. \A t \in timers : t.id # Fresh /\ t.id # FreshTwo
    BY <1>1, FreshIds
  <2>3. /\ one \notin timers /\ one.id = Fresh /\ one.run = ev
        /\ one \in [id : Nat \ {0}, run : Run]
    BY <1>1, <1>2, ArmedIsNew
  <2>4. /\ two \notin timers /\ two.id = FreshTwo /\ two.run = Check
        /\ new \notin timers /\ new.id = Fresh /\ new.run = Check
        /\ two \in [id : Nat \ {0}, run : Run] /\ new \in [id : Nat \ {0}, run : Run]
    BY <1>1, CheckIsRun, ArmedIsNew
  <2> HIDE DEF one, two, new
  <2> QED BY <2>1, <2>2, <2>3, <2>4
<1>4. ev.kind = "event" /\ ~ev.forced /\ Check \notin Current /\ Check.kind = "check" /\ ev # Check
  BY CheckIsRun DEF Event, Check
<1> HIDE DEF ev, one, two, new
<1>5. CASE size[r] > 0
  <2>1. /\ timers' = timers \cup {one, two} /\ checkRaidsEvent' = FreshTwo
        /\ nextEventEvent' = [nextEventEvent EXCEPT ![r] = Fresh]
    BY <1>2, <1>5 DEF startRaid, one, two, ev
  <2>2. /\ (timers \cup {one}) \cup {two} = timers' /\ two \notin timers \cup {one}
    BY <1>3, <2>1
  <2>3. IsFiniteSet(timers \cup {one}) /\ IsFiniteSet(timers') /\ queue' \in Seq(Run)
    <3>1. IsFiniteSet(timers \cup {one})
      BY <1>1, FS_AddElement
    <3>2. IsFiniteSet((timers \cup {one}) \cup {two})
      BY <3>1, FS_AddElement
    <3> QED BY <1>1, <2>2, <3>1, <3>2, CountDone
  <2>4. \A S : Waiting(S)' = Waiting(S) + One(ev, S)
    <3> TAKE S
    <3>1. Count(timers \cup {one}, queue, S) = Count(timers, queue, S) + One(ev, S)
      BY <1>1, <1>3, CountArmed
    <3>2. Count((timers \cup {one}) \cup {two}, queue, S)
            = Count(timers \cup {one}, queue, S) + One(Check, S)
      BY <1>1, <1>3, <2>2, <2>3, CountArmed
    <3>3. Count(timers', Tail(queue), S) = Count(timers', queue, S) - One(Check, S)
      BY <1>1, <2>3, CountDone
    <3>4. Count(timers, queue, S) \in Nat /\ One(Check, S) \in Nat /\ One(ev, S) \in Nat
      BY <1>1, CountType DEF One
    <3>5. Count(timers', queue', S) = Count(timers, queue, S) + One(ev, S)
      <4>1. Count(timers', queue, S) = Count(timers \cup {one}, queue, S) + One(Check, S)
        BY <2>2, <3>2, Zenon
      <4> QED BY <1>1, <3>1, <3>3, <3>4, <4>1
    <3> QED BY <3>5 DEF Waiting, Count, Timers, Places
  <2>5. RaidsTypeOK'
    BY <1>1, <1>3, <2>1, <2>3 DEF RaidsTypeOK
  <2>6. (IdsApart /\ CheckFits)'
    BY <1>1, <1>3, <2>1 DEF RaidsInv, IdsApart, CheckFits
  <2>7. EventFits'
    <3>1. nextEventEvent'[r] = Fresh
      BY <1>1, <2>1 DEF RaidsTypeOK
    <3> QED BY <1>1, <1>2, <1>3, <1>4, <2>1, <3>1 DEF EventFits
  <2>8. PostedFits'
    BY <1>1, <1>2, TailHas DEF PostedFits
  <2>9. OneCurrent'
    <3>1. Waiting(Current)' = 1
      BY <1>2, <2>4 DEF One
    <3> QED BY <1>1, <1>5, <3>1, RaidsAssumption DEF OneCurrent
  <2>10. ChecksFit'
    <3>1. Waiting({Check})' = Waiting({Check})
      <4>1. Waiting({Check})' = Waiting({Check}) + 0
        BY <1>4, <2>4 DEF One
      <4>2. Waiting({Check}) \in Nat
        BY <1>1, CountType DEF Waiting, Count, Timers, Places
      <4> QED BY <4>1, <4>2
    <3>2. \E t \in timers' : t.id = checkRaidsEvent'
      BY <1>3, <2>1
    <3> QED BY <1>1, <3>1, <3>2 DEF RaidsInv, ChecksFit
  <2> QED BY <1>2, <2>5, <2>6, <2>7, <2>8, <2>9, <2>10 DEF RaidsInv
<1>6. CASE size[r] = 0
  <2>1. /\ timers' = timers \cup {new} /\ checkRaidsEvent' = Fresh
        /\ nextEventEvent' = nextEventEvent
    BY <1>2, <1>6 DEF startRaid, new
  <2>2. IsFiniteSet(timers') /\ queue' \in Seq(Run)
    BY <1>1, <2>1, FS_AddElement, CountDone
  <2>3. \A S : Waiting(S)' = Waiting(S)
    <3> TAKE S
    <3>1. Count(timers \cup {new}, queue, S) = Count(timers, queue, S) + One(Check, S)
      BY <1>1, <1>3, CountArmed
    <3>2. Count(timers', Tail(queue), S) = Count(timers', queue, S) - One(Check, S)
      BY <1>1, <2>2, CountDone
    <3>3. Count(timers, queue, S) \in Nat /\ One(Check, S) \in Nat
      BY <1>1, CountType DEF One
    <3>4. Count(timers', queue', S) = Count(timers, queue, S)
      BY <1>1, <2>1, <3>1, <3>2, <3>3
    <3> QED BY <3>4 DEF Waiting, Count, Timers, Places
  <2>4. RaidsTypeOK'
    BY <1>1, <1>3, <2>1, <2>2 DEF RaidsTypeOK
  <2>5. (IdsApart /\ CheckFits)'
    BY <1>1, <1>3, <2>1 DEF RaidsInv, IdsApart, CheckFits
  <2>6. EventFits'
    BY <1>1, <1>2, <1>3, <1>4, <2>1 DEF EventFits
  <2>7. PostedFits'
    BY <1>1, <1>2, TailHas DEF PostedFits
  <2>8. OneCurrent'
    <3>1. Waiting(Current)' = 0
      BY <1>2, <2>3
    <3> QED BY <1>1, <1>6, <3>1, RaidsAssumption DEF OneCurrent
  <2>9. ChecksFit'
    <3>1. Waiting({Check})' = Waiting({Check})
      BY <2>3
    <3>2. \E t \in timers' : t.id = checkRaidsEvent'
      BY <1>3, <2>1
    <3> QED BY <1>1, <3>1, <3>2 DEF RaidsInv, ChecksFit
  <2> QED BY <1>2, <2>4, <2>5, <2>6, <2>7, <2>8, <2>9 DEF RaidsInv
<1> QED BY <1>2, <1>5, <1>6

\* forceRaid: the first event waits with the scheduler or the dispatcher, or there is
\* none.
LEMMA ForceKeeps ==
    ASSUME RaidsInv, NEW r \in Raid, forceRaid(r)
    PROVE  RaidsInv'
<1> DEFINE ev == Event(r, nextEvent[r], TRUE)
           one == Armed(Fresh, ev)
<1>1. /\ RaidsTypeOK /\ IsFiniteSet(timers) /\ queue \in Seq(Run)
      /\ running = NoRaid /\ running' = r
      /\ UNCHANGED <<loaded, started, checkRaidsEvent, size, nextEvent, nextEventEvent,
                     loads, late, undefined>>
  BY DEF RaidsInv, RaidsTypeOK, forceRaid, raidVars
<1>2. /\ nextEvent[r] = 0 /\ size[r] \in Nat /\ Current' = Current /\ Waiting(Current) = 0
      /\ ev \in Due' /\ ev \in Current /\ ev \in Run
      /\ \A t \in timers : t.run.kind = "event" => t.run.forced /\ t.run.load < loads
      /\ \A k \in DOMAIN queue : queue[k].kind = "event" => queue[k].load < loads
      /\ Resting'
  BY <1>1, StartFits DEF Current
<1>3. /\ one \notin timers /\ one.id = Fresh /\ one.run = ev
      /\ one \in [id : Nat \ {0}, run : Run]
  BY <1>1, <1>2, ArmedIsNew
<1>4. Fresh # checkRaidsEvent /\ \A t \in timers : t.id # Fresh
  BY <1>1, FreshIds
<1>5. ev.kind = "event" /\ ev.forced /\ ev # Check
  BY DEF Event, Check
<1>6. Waiting({Check}) \in Nat
  BY <1>1, CountType DEF Waiting, Count, Timers, Places
<1>7. \/ size[r] > 0 /\ timers' = timers \cup {one} /\ queue' = queue
      \/ size[r] > 0 /\ queue' = Append(queue, ev) /\ timers' = timers
      \/ size[r] = 0 /\ timers' = timers /\ queue' = queue
  <2>1. /\ nextEvent[r] < size[r] <=> size[r] > 0
        /\ nextEvent[r] >= size[r] <=> size[r] = 0
    BY <1>2
  <2> QED BY <2>1, Zenon DEF forceRaid
<1> HIDE DEF ev, one
<1>8. ASSUME size[r] > 0, RaidsTypeOK',
             IdsApart' /\ CheckFits' /\ EventFits' /\ PostedFits',
             \A S : Waiting(S)' = Waiting(S) + One(ev, S),
             \A t \in timers : t \in timers',
             \A k \in DOMAIN queue : k \in DOMAIN queue' /\ queue'[k] = queue[k]
      PROVE  RaidsInv'
  <2>1. Waiting(Current)' = 1 /\ Waiting({Check})' = Waiting({Check})
    BY <1>2, <1>5, <1>6, <1>8 DEF One
  <2>2. OneCurrent'
    BY <1>1, <1>8, <2>1, RaidsAssumption DEF OneCurrent
  <2>3. ChecksFit'
    BY <1>1, <1>8, <2>1 DEF RaidsInv, ChecksFit
  <2> QED BY <1>2, <1>8, <2>2, <2>3 DEF RaidsInv
<1>9. CASE size[r] > 0 /\ timers' = timers \cup {one} /\ queue' = queue
  <2>1. RaidsTypeOK'
    BY <1>1, <1>3, <1>9, FS_AddElement DEF RaidsTypeOK
  <2>2. \A S : Waiting(S)' = Waiting(S) + One(ev, S)
    <3> TAKE S
    <3>1. Count(timers \cup {one}, queue, S) = Count(timers, queue, S) + One(ev, S)
      BY <1>1, <1>3, CountArmed
    <3>2. Count(timers', queue', S) = Count(timers, queue, S) + One(ev, S)
      BY <1>9, <3>1
    <3> QED BY <3>2 DEF Waiting, Count, Timers, Places
  <2>3. (IdsApart /\ CheckFits /\ EventFits)'
    BY <1>1, <1>2, <1>3, <1>4, <1>5, <1>9 DEF RaidsInv, IdsApart, CheckFits, EventFits
  <2>4. PostedFits'
    BY <1>1, <1>2, <1>9 DEF PostedFits
  <2> QED BY <1>8, <1>9, <2>1, <2>2, <2>3, <2>4
<1>10. CASE size[r] > 0 /\ queue' = Append(queue, ev) /\ timers' = timers
  <2>1. RaidsTypeOK'
    BY <1>1, <1>2, <1>10 DEF RaidsTypeOK
  <2>2. \A S : Waiting(S)' = Waiting(S) + One(ev, S)
    BY <1>1, <1>2, <1>10, CountPosted DEF Waiting, Count, Timers, Places
  <2>3. (IdsApart /\ CheckFits /\ EventFits)'
    BY <1>1, <1>2, <1>10 DEF RaidsInv, IdsApart, CheckFits, EventFits
  <2>4. PostedFits'
    BY <1>1, <1>2, <1>10, AppendHas DEF PostedFits
  <2> QED BY <1>1, <1>2, <1>8, <1>10, <2>1, <2>2, <2>3, <2>4, AppendHas
<1>11. CASE size[r] = 0 /\ timers' = timers /\ queue' = queue
  <2>1. RaidsTypeOK'
    BY <1>1, <1>11 DEF RaidsTypeOK
  <2>2. Waiting(Current)' = 0 /\ Waiting({Check})' = Waiting({Check})
    BY <1>2, <1>11 DEF Waiting
  <2>3. (IdsApart /\ CheckFits /\ EventFits /\ PostedFits)'
    BY <1>1, <1>2, <1>11 DEF RaidsInv, IdsApart, CheckFits, EventFits, PostedFits
  <2>4. OneCurrent'
    BY <1>1, <1>11, <2>2, RaidsAssumption DEF OneCurrent
  <2>5. ChecksFit'
    BY <1>1, <1>11, <2>2 DEF RaidsInv, ChecksFit
  <2> QED BY <1>2, <2>1, <2>3, <2>4, <2>5 DEF RaidsInv
<1> QED BY <1>7, <1>9, <1>10, <1>11

\* When an event of a raid there is runs, it is the next of the raid that runs, and
\* nothing else is left of that raid.
LEMMA RunningAlone ==
    ASSUME RaidsInv, First("event"), Head(queue).load = loads
    PROVE  /\ running \in Raid /\ Head(queue).raid = running
           /\ Tail(queue) \in Seq(Run) /\ queue \in Seq(Run) /\ queue # <<>>
           /\ size[running] > 0
           /\ Head(queue) \in Current /\ Head(queue) # Check
           /\ Count(timers, Tail(queue), Current) = 0
           /\ \A t \in timers : t.run.kind = "event" => t.run.forced /\ t.run.load < loads
           /\ \A k \in DOMAIN Tail(queue) :
                 Tail(queue)[k].kind = "event" => Tail(queue)[k].load < loads
<1>1. /\ RaidsTypeOK /\ queue \in Seq(Run) /\ queue # <<>> /\ IsFiniteSet(timers)
      /\ Head(queue).kind = "event" /\ loads \in Nat
  BY DEF RaidsInv, RaidsTypeOK, First
<1>2. Head(queue) \in Run /\ Tail(queue) \in Seq(Run)
  BY <1>1
<1>3. Head(queue) \in Current /\ Head(queue) # Check
  BY <1>1, <1>2, CheckIsRun DEF Current
<1>4. 1 \in DOMAIN queue /\ Head(queue) = queue[1]
  BY <1>1
<1>5. Head(queue) \in Due
  BY <1>1, <1>4 DEF RaidsInv, PostedFits
<1>6. running \in Raid /\ Head(queue).raid = running
  BY <1>1, <1>5 DEF Due, Event, RaidsTypeOK
<1>7. Count(timers, queue, Current) \in Nat /\ Count(timers, queue, Current) # 0
  <2>1. 1 \in Places(queue, Current)
    BY <1>3, <1>4 DEF Places
  <2> QED BY <1>1, <2>1, CountType
<1>8. Count(timers, queue, Current) = Waiting(Current)
  BY DEF Count, Waiting, Timers, Places
<1>9. size[running] > 0 /\ Waiting(Current) = 1
  BY <1>7, <1>8 DEF RaidsInv, OneCurrent
<1>10. Count(timers, Tail(queue), Current) = 0
  <2>1. Count(timers, Tail(queue), Current)
          = Count(timers, queue, Current) - One(Head(queue), Current)
    BY <1>1, CountDone
  <2> QED BY <1>3, <1>8, <1>9, <2>1 DEF One
<1>11. Timers(timers, Current) = {} /\ Places(Tail(queue), Current) = {}
  BY <1>1, <1>2, <1>10, CountType
<1>12. ASSUME NEW t \in timers, t.run.kind = "event"
       PROVE  t.run.forced /\ t.run.load < loads
  <2>1. t.run \notin Due
    BY <1>1, <1>11, DueIsCurrent DEF Timers
  <2> QED BY <1>12, <2>1 DEF RaidsInv, EventFits
<1>13. ASSUME NEW k \in DOMAIN Tail(queue), Tail(queue)[k].kind = "event"
       PROVE  Tail(queue)[k].load < loads
  <2>1. Tail(queue)[k] \notin Due
    BY <1>1, <1>11, DueIsCurrent DEF Places
  <2>2. PICK j \in DOMAIN queue : Tail(queue)[k] = queue[j]
    BY <1>1, TailHas
  <2> QED BY <1>13, <2>1, <2>2 DEF RaidsInv, PostedFits
<1> QED BY <1>1, <1>2, <1>3, <1>6, <1>9, <1>10, <1>12, <1>13

\* The next event takes the place of the one that ran.
LEMMA ExecuteKeeps ==
    ASSUME RaidsInv, executeRaidEvent
    PROVE  RaidsInv'
<1> DEFINE r == running
           n == nextEvent[r] + 1
           ev == Event(r, n, FALSE)
           one == Armed(Fresh, ev)
<1>1. /\ r \in Raid /\ Head(queue).raid = r /\ size[r] > 0 /\ Head(queue) \in Current /\ Head(queue) # Check
      /\ queue \in Seq(Run) /\ queue # <<>> /\ Tail(queue) \in Seq(Run)
      /\ Count(timers, Tail(queue), Current) = 0
      /\ \A t \in timers : t.run.kind = "event" => t.run.forced /\ t.run.load < loads
      /\ \A k \in DOMAIN Tail(queue) :
            Tail(queue)[k].kind = "event" => Tail(queue)[k].load < loads
  BY RunningAlone DEF executeRaidEvent
<1>2. /\ RaidsTypeOK /\ IsFiniteSet(timers) /\ loads \in Nat /\ n \in Nat
      /\ queue' = Tail(queue) /\ timers' = timers \cup {one}
      /\ nextEvent' = [nextEvent EXCEPT ![r] = n] /\ nextEvent'[r] = n
      /\ nextEventEvent' = [nextEventEvent EXCEPT ![r] = Fresh] /\ nextEventEvent'[r] = Fresh
      /\ UNCHANGED <<loaded, started, running, checkRaidsEvent, size, loads, late, undefined>>
  <2>1. RaidsTypeOK /\ IsFiniteSet(timers) /\ loads \in Nat /\ n \in Nat
    BY <1>1 DEF RaidsInv, RaidsTypeOK
  <2>2. /\ queue' = Tail(queue) /\ timers' = timers \cup {one}
        /\ nextEvent' = [nextEvent EXCEPT ![r] = n]
        /\ nextEventEvent' = [nextEventEvent EXCEPT ![r] = Fresh]
        /\ UNCHANGED <<loaded, started, running, checkRaidsEvent, size, loads, late, undefined>>
    BY <1>1 DEF executeRaidEvent
  <2>3. nextEvent'[r] = n /\ nextEventEvent'[r] = Fresh
    BY <1>1, <2>1, <2>2 DEF RaidsTypeOK
  <2> QED BY <2>1, <2>2, <2>3
<1>3. ev \in Run /\ ev \in Current /\ ev \in Due' /\ ev.kind = "event" /\ ev # Check /\ Current' = Current
  <2>1. ev \in Run /\ ev \in Current /\ ev.kind = "event" /\ ev # Check
    BY <1>1, <1>2 DEF Event, Run, Current, Check
  <2>2. ev \in Due' /\ Current' = Current
    BY <1>1, <1>2, RaidsAssumption DEF Event, Due, Current
  <2> QED BY <2>1, <2>2
<1>4. /\ one \notin timers /\ one.id = Fresh /\ one.run = ev
      /\ one \in [id : Nat \ {0}, run : Run]
  BY <1>2, <1>3, ArmedIsNew
<1>5. Fresh \in Nat /\ Fresh # checkRaidsEvent /\ \A t \in timers : t.id # Fresh
  BY <1>2, FreshIds
<1> HIDE DEF r, n, ev, one
<1>6. \A S : Waiting(S)' = Count(timers, Tail(queue), S) + One(ev, S)
  <2> TAKE S
  <2>1. Count(timers \cup {one}, Tail(queue), S) = Count(timers, Tail(queue), S) + One(ev, S)
    <3>1. ASSUME NEW q \in Seq(Run)
          PROVE  Count(timers \cup {one}, q, S) = Count(timers, q, S) + One(ev, S)
      BY <1>2, <1>4, CountArmed
    <3> QED BY <1>1, <3>1
  <2>2. Count(timers', queue', S) = Count(timers, Tail(queue), S) + One(ev, S)
    BY <1>2, <2>1
  <2> QED BY <2>2 DEF Waiting, Count, Timers, Places
<1>7. RaidsTypeOK'
  BY <1>1, <1>2, <1>4, <1>5, FS_AddElement DEF RaidsTypeOK
<1>8. (IdsApart /\ CheckFits)'
  BY <1>2, <1>4, <1>5 DEF RaidsInv, IdsApart, CheckFits
<1>9. EventFits'
  BY <1>1, <1>2, <1>3, <1>4 DEF EventFits, r
<1>10. PostedFits'
  BY <1>1, <1>2 DEF PostedFits
<1>11. OneCurrent'
  <2>1. Waiting(Current)' = 1
    BY <1>1, <1>3, <1>6 DEF One
  <2> QED BY <1>1, <1>2, <2>1, RaidsAssumption DEF OneCurrent, r
<1>12. Resting'
  BY <1>2 DEF RaidsInv, Resting, r, RaidsTypeOK
<1>13. ChecksFit'
  <2>1. Waiting({Check})' = Count(timers, Tail(queue), {Check}) + 0
    BY <1>3, <1>6 DEF One
  <2>2. Count(timers, Tail(queue), {Check}) = Count(timers, queue, {Check}) - 0
    BY <1>1, <1>2, CountDone DEF One
  <2>3. Count(timers, queue, {Check}) \in Nat
    BY <1>1, <1>2, CountType
  <2>4. Waiting({Check})' = Waiting({Check})
    BY <2>1, <2>2, <2>3, WaitingIsCount
  <2>5. (\A k \in DOMAIN queue' : queue'[k] # Check) => (\A k \in DOMAIN queue : queue[k] # Check)
    BY <1>1, <1>2, TailHas
  <2> QED BY <1>2, <2>4, <2>5 DEF RaidsInv, ChecksFit
<1> QED BY <1>7, <1>8, <1>9, <1>10, <1>11, <1>12, <1>13 DEF RaidsInv

\* A raid that ends leaves no event behind.
LEMMA EndKeeps ==
    ASSUME RaidsInv, endRaid
    PROVE  RaidsInv'
<1>1. /\ running \in Raid /\ Head(queue).raid = running /\ Head(queue) # Check
      /\ queue \in Seq(Run) /\ queue # <<>> /\ Tail(queue) \in Seq(Run)
      /\ Count(timers, Tail(queue), Current) = 0
      /\ \A t \in timers : t.run.kind = "event" => t.run.forced /\ t.run.load < loads
      /\ \A k \in DOMAIN Tail(queue) :
            Tail(queue)[k].kind = "event" => Tail(queue)[k].load < loads
  BY RunningAlone DEF endRaid
<1>2. /\ RaidsTypeOK /\ IsFiniteSet(timers) /\ queue' = Tail(queue)
      /\ nextEvent' = [nextEvent EXCEPT ![running] = 0] /\ running' = NoRaid
      /\ UNCHANGED <<loaded, started, checkRaidsEvent, size, nextEventEvent, timers,
                     loads, late, undefined>>
  BY <1>1 DEF RaidsInv, RaidsTypeOK, endRaid, resetRaid
<1>3. RaidsTypeOK' /\ Current' = Current
  BY <1>1, <1>2 DEF RaidsTypeOK, Current
<1>4. (IdsApart /\ CheckFits /\ EventFits /\ PostedFits)'
  BY <1>1, <1>2 DEF RaidsInv, IdsApart, CheckFits, EventFits, PostedFits
<1>5. OneCurrent'
  <2>1. Waiting(Current)' = 0
    BY <1>1, <1>2, <1>3 DEF Waiting, Count, Timers, Places
  <2> QED BY <1>2, <2>1 DEF OneCurrent
<1>6. Resting'
  BY <1>1, <1>2 DEF RaidsInv, Resting, RaidsTypeOK
<1>7. ChecksFit'
  <2>1. Count(timers, Tail(queue), {Check}) = Count(timers, queue, {Check}) - 0
    BY <1>1, <1>2, CountDone DEF One
  <2>2. Count(timers, queue, {Check}) \in Nat
    BY <1>1, <1>2, CountType
  <2>3. Waiting({Check})' = Waiting({Check})
    <3>1. Waiting({Check})' = Count(timers', queue', {Check})
      BY WaitingIsCount
    <3> QED BY <1>2, <2>1, <2>2, <3>1, WaitingIsCount
  <2>4. (\A k \in DOMAIN queue' : queue'[k] # Check) => (\A k \in DOMAIN queue : queue[k] # Check)
    BY <1>1, <1>2, TailHas
  <2> QED BY <1>2, <2>3, <2>4 DEF RaidsInv, ChecksFit
<1> QED BY <1>3, <1>4, <1>5, <1>6, <1>7 DEF RaidsInv

\* A reload stops every event but the forced ones, and the check unless it is with the
\* dispatcher; what is left belongs to raids that are no more.
LEMMA ReloadKeeps ==
    ASSUME RaidsInv, reload
    PROVE  RaidsInv'
<1> DEFINE rest == timers \ Stopped
           new == Armed(Fresh, Check)
           N == Count(timers, queue, {Check})
           left == Count(rest, queue, {Check})
<1>1. /\ RaidsTypeOK /\ IsFiniteSet(timers) /\ queue \in Seq(Run) /\ loads \in Nat /\ late \in Nat
      /\ loads' = loads + 1 /\ queue' = queue /\ undefined' = undefined
      /\ running' = NoRaid
      /\ nextEvent' = [r \in Raid |-> 0] /\ nextEventEvent' = [r \in Raid |-> 0]
      /\ loaded' \in BOOLEAN /\ started' = loaded'
  BY DEF RaidsInv, RaidsTypeOK, reload, loadFromXml, startup
<1>2. size' \in [Raid -> Sizes \cup {0}]
  BY DEF reload, loadFromXml
<1>3. \/ loaded' /\ checkRaidsEvent' = Fresh /\ timers' = rest \cup {new}
      \/ ~loaded' /\ checkRaidsEvent' = 0 /\ timers' = rest
  BY <1>1 DEF reload, startup
<1>4. late' = IF \E k \in DOMAIN queue : queue[k] = Check THEN late + 1 ELSE late
  BY <1>1 DEF reload
<1>5. /\ new \notin timers /\ new.id = Fresh /\ new.run = Check
      /\ new \in [id : Nat \ {0}, run : Run] /\ Fresh \in Nat
      /\ \A t \in timers : t.id # Fresh /\ t.id # 0
  BY <1>1, CheckIsRun, ArmedIsNew, FreshIds DEF RaidsTypeOK
<1> HIDE DEF new
<1>6. rest \subseteq timers /\ IsFiniteSet(rest) /\ new \notin rest
  BY <1>1, <1>5, FS_Subset
<1>7. \A t \in rest : t.run.kind = "event" => t.run.forced /\ t.run.load < loads'
  <2> TAKE t \in rest
  <2> HAVE t.run.kind = "event"
  <2>1. t \in timers /\ t.id # checkRaidsEvent /\ \A r \in Raid : t.id # nextEventEvent[r]
    BY DEF Stopped
  <2>2. CASE t.run \in Due /\ (t.run.forced \/ t.id = nextEventEvent[running])
    <3>1. running \in Raid /\ t.run.load = loads
      BY <1>1, <2>2 DEF Due, Event, RaidsTypeOK
    <3> QED BY <1>1, <2>1, <2>2, <3>1
  <2>3. CASE t.run.forced /\ t.run.load < loads
    <3>1. t.run.load \in Nat
      BY <1>1, <2>1, <2>3 DEF RaidsTypeOK, Run
    <3> QED BY <1>1, <2>3, <3>1
  <2> QED BY <2>1, <2>2, <2>3 DEF RaidsInv, EventFits
<1>8. \A k \in DOMAIN queue : queue[k].kind = "event" => queue[k].load < loads'
  <2> TAKE k \in DOMAIN queue
  <2> HAVE queue[k].kind = "event"
  <2>1. queue[k] \in Run
    BY <1>1
  <2>2. queue[k] \in Due => queue[k].load = loads
    BY <1>1 DEF Due, Event
  <2>3. queue[k].load \in Nat
    BY <2>1, CheckIsRun DEF Run
  <2> QED BY <1>1, <2>2, <2>3 DEF RaidsInv, PostedFits
<1>9. N \in Nat /\ left \in Nat /\ left <= N /\ N <= 1 + late
  <2>1. left <= N /\ left \in Nat /\ N \in Nat
    BY <1>1, <1>6, CountFewer, CountType
  <2>2. Waiting({Check}) = N
    BY WaitingIsCount
  <2> QED BY <2>1, <2>2 DEF RaidsInv, ChecksFit
<1>10. (\A k \in DOMAIN queue : queue[k] # Check) => left <= late
  <2> HAVE \A k \in DOMAIN queue : queue[k] # Check
  <2>1. CASE \E t \in timers : t.id = checkRaidsEvent
    <3>1. PICK t \in timers : t.id = checkRaidsEvent
      BY <2>1
    <3>2. t.run = Check
      BY <3>1 DEF RaidsInv, CheckFits
    <3>3. Count(timers \ {t}, queue, {Check}) = N - 1
      <4>1. Count(timers \ {t}, queue, {Check}) = N - One(t.run, {Check})
        BY <1>1, CountStopped
      <4> QED BY <3>2, <4>1 DEF One
    <3>4. rest \in SUBSET (timers \ {t}) /\ IsFiniteSet(timers \ {t})
      BY <1>1, <3>1, FS_RemoveElement DEF Stopped
    <3>5. left <= Count(timers \ {t}, queue, {Check})
      BY <1>1, <3>4, CountFewer
    <3> QED BY <1>1, <1>9, <3>3, <3>5
  <2>2. CASE \A t \in timers : t.id # checkRaidsEvent
    <3>1. N <= late
      BY <2>2, WaitingIsCount DEF RaidsInv, ChecksFit
    <3> QED BY <1>1, <1>9, <3>1
  <2> QED BY <2>1, <2>2
<1>11. left <= late'
  BY <1>1, <1>4, <1>9, <1>10
<1> HIDE DEF rest, left, N
<1>12. IsFiniteSet(timers')
  BY <1>3, <1>6, FS_AddElement
<1>13. RaidsTypeOK'
  <2>1. late' \in Nat /\ loads' \in Nat
    BY <1>1, <1>4
  <2>2. timers' \subseteq [id : Nat \ {0}, run : Run] /\ checkRaidsEvent' \in Nat
    BY <1>1, <1>3, <1>5, <1>6 DEF RaidsTypeOK
  <2>3. nextEvent' \in [Raid -> Nat] /\ nextEventEvent' \in [Raid -> Nat]
    BY <1>1
  <2> QED BY <1>1, <1>2, <1>12, <2>1, <2>2, <2>3 DEF RaidsTypeOK
<1>14. (IdsApart /\ CheckFits)'
  BY <1>3, <1>5, <1>6 DEF RaidsInv, IdsApart, CheckFits
<1>15. (EventFits /\ PostedFits /\ Resting)'
  <2>1. EventFits'
    BY <1>3, <1>5, <1>7, CheckIsRun DEF EventFits
  <2>2. PostedFits'
    BY <1>1, <1>8 DEF PostedFits
  <2>3. Resting'
    BY <1>1 DEF Resting
  <2> QED BY <2>1, <2>2, <2>3
<1>16. OneCurrent'
  <2>1. \A t \in timers' : t.run.kind = "event" => t.run.load < loads'
    BY <1>3, <1>5, <1>7, CheckIsRun
  <2>2. \A run \in Current' : run.kind = "event" /\ run.load = loads' /\ loads' \in Nat
    BY <1>1 DEF Current
  <2>3. Timers(timers', Current') = {}
    BY <2>1, <2>2 DEF Timers
  <2>4. Places(queue', Current') = {}
    BY <1>1, <1>8, <2>2 DEF Places
  <2>5. Count(timers', queue', Current') = 0
    BY <1>1, <1>12, <2>3, <2>4, CountType
  <2>6. Waiting(Current)' = 0
    BY <2>5 DEF Waiting, Count, Timers, Places
  <2> QED BY <1>1, <2>6 DEF OneCurrent
<1>17. ChecksFit'
  <2> DEFINE w == Waiting({Check})'
  <2>1. late' \in Nat /\ left \in Nat
    BY <1>1, <1>4, <1>9
  <2>5. \A a, b \in Nat : a <= b => a <= 1 + b /\ a + 1 <= 1 + b /\ a + 1 > 0
    OBVIOUS
  <2>6. left <= late' /\ left <= 1 + late' /\ left + 1 <= 1 + late' /\ left + 1 > 0
    BY <1>11, <2>1, <2>5
  <2>2. w = Count(timers', queue', {Check})
    BY WaitingIsCount
  <2>3. CASE loaded' /\ checkRaidsEvent' = Fresh /\ timers' = rest \cup {new}
    <3>1. Count(rest \cup {new}, queue, {Check}) = left + 1
      <4>1. Count(rest \cup {new}, queue, {Check}) = Count(rest, queue, {Check}) + One(new.run, {Check})
        BY <1>1, <1>6, CountArmed
      <4> QED BY <1>5, <4>1 DEF One, left
    <3>2. w \in Nat /\ w = left + 1
      BY <1>1, <2>1, <2>2, <2>3, <3>1
    <3>3. new \in timers' /\ new.id = checkRaidsEvent'
      BY <1>5, <2>3
    <3> HIDE DEF w
    <3>4. w > 0 /\ w <= 1 + late'
      BY <2>6, <3>2
    <3> USE DEF w
    <3>5. ~(\A t \in timers' : t.id # checkRaidsEvent')
      BY <3>3
    <3> QED BY <3>4, <3>5 DEF ChecksFit
  <2>4. CASE ~loaded' /\ checkRaidsEvent' = 0 /\ timers' = rest
    <3>1. w \in Nat /\ w = left
      BY <1>1, <2>1, <2>2, <2>4 DEF left
    <3> HIDE DEF w
    <3>2. w <= late' /\ w <= 1 + late'
      BY <2>6, <3>1
    <3> USE DEF w
    <3>3. ~started'
      BY <1>1, <2>4
    <3> QED BY <3>2, <3>3 DEF ChecksFit
  <2> QED BY <1>3, <2>3, <2>4
<1> QED BY <1>13, <1>14, <1>15, <1>16, <1>17 DEF RaidsInv

-----------------------------------------------------------------------------
(* The theorems.                                                           *)

\* The executed event of a deleted raid changes nothing that RaidsInv speaks of, nor does
\* a step of others.
LEMMA RestKeeps ==
    ASSUME RaidsInv, executeDeleted \/ UNCHANGED allRaidVars
    PROVE  RaidsInv'
<1>1. UNCHANGED <<loaded, started, running, checkRaidsEvent, size, nextEvent, nextEventEvent,
                  timers, queue, loads, late>> /\ undefined' \in BOOLEAN
  BY DEF executeDeleted, allRaidVars, raidVars, RaidsInv, RaidsTypeOK
<1>2. RaidsTypeOK'
  BY <1>1 DEF RaidsInv, RaidsTypeOK
<1>3. Current' = Current /\ Due' = Due /\ Waiting(Current)' = Waiting(Current)
      /\ Waiting({Check})' = Waiting({Check})
  BY <1>1 DEF Current, Due, Event, Waiting
<1>4. (IdsApart /\ CheckFits /\ EventFits /\ PostedFits)'
  BY <1>1, <1>3 DEF RaidsInv, IdsApart, CheckFits, EventFits, PostedFits
<1>5. (OneCurrent /\ Resting /\ ChecksFit)'
  BY <1>1, <1>3 DEF RaidsInv, OneCurrent, Resting, ChecksFit
<1> QED BY <1>2, <1>4, <1>5 DEF RaidsInv

\* The inductive invariant holds whatever starts, ends, fails or is reloaded.
THEOREM RaidsInvariant == RaidsSpec => []RaidsInv
<1>1. RaidsInit => RaidsInv
  BY RaidsInitInv
<1>2. ASSUME RaidsInv, [RaidsNext]_allRaidVars
      PROVE  RaidsInv'
  <2>1. ASSUME NEW t \in timers, Expire(t) PROVE RaidsInv'
    BY <1>2, <2>1, ExpireKeeps
  <2>2. CASE checkRaids
    BY <1>2, <2>2, CheckKeeps
  <2>3. ASSUME NEW r \in Raid, startRaid(r) PROVE RaidsInv'
    BY <1>2, <2>3, StartKeeps
  <2>4. CASE executeRaidEvent
    BY <1>2, <2>4, ExecuteKeeps
  <2>5. CASE endRaid
    BY <1>2, <2>5, EndKeeps
  <2>6. CASE executeDeleted \/ UNCHANGED allRaidVars
    BY <1>2, <2>6, RestKeeps
  <2>7. ASSUME NEW r \in Raid, forceRaid(r) PROVE RaidsInv'
    BY <1>2, <2>7, ForceKeeps
  <2>8. CASE reload
    BY <1>2, <2>8, ReloadKeeps
  <2> QED BY <1>2, <2>1, <2>2, <2>3, <2>4, <2>5, <2>6, <2>7, <2>8 DEF RaidsNext, Dispatch
<1> QED BY <1>1, <1>2, PTL DEF RaidsSpec

\* At most one raid runs, exactly its next event waits, no event but a forced or a
\* handed-over one outlives a reload (raids.cpp:187-209, 319-335), and the checks go on.
THEOREM RaidsStayInOrder == RaidsSpec => []EventsInOrder
<1>1. ASSUME RaidsInv
      PROVE  EventsInOrder
  <2>1. Timers(timers, Due) = Timers(timers, Current) /\ Places(queue, Due) = Places(queue, Current)
    <3>1. Due \subseteq Current
      BY <1>1, DueIsCurrent DEF RaidsInv
    <3>2. \A t \in timers : t.run \in Current => t.run \in Due
      BY <1>1 DEF RaidsInv, RaidsTypeOK, EventFits, Current
    <3>3. \A k \in DOMAIN queue : queue[k] \in Current => queue[k] \in Due
      BY <1>1 DEF RaidsInv, RaidsTypeOK, PostedFits, Current
    <3> QED BY <3>1, <3>2, <3>3 DEF Timers, Places
  <2>2. Waiting(Due) = Waiting(Current)
    BY <2>1, Zenon DEF Waiting, Timers, Places
  <2>3. OneRaidAtATime
    <3>1. running # NoRaid /\ size[running] > 0 => Waiting(Due) = 1
      BY <1>1, <2>2 DEF RaidsInv, OneCurrent
    <3>2. /\ \A t \in timers : t.run.kind = "event" =>
                t.run \in Due \/ (t.run.forced /\ t.run.load < loads)
          /\ \A k \in DOMAIN queue : queue[k].kind = "event" =>
                queue[k] \in Due \/ queue[k].load < loads
      BY <1>1 DEF RaidsInv, EventFits, PostedFits
    <3> QED BY <3>1, <3>2 DEF OneRaidAtATime
  <2>4. ChecksGoOn
    BY <1>1 DEF RaidsInv, ChecksFit, ChecksGoOn
  <2> QED BY <2>3, <2>4 DEF EventsInOrder
<1> QED BY <1>1, RaidsInvariant, PTL

\* Type correctness: ids are positive, and only finitely many events are ever pending.
THEOREM RaidsTypes == RaidsSpec => []RaidsTypeOK
<1>1. RaidsInv => RaidsTypeOK
  BY DEF RaidsInv
<1> QED BY <1>1, RaidsInvariant, PTL

-----------------------------------------------------------------------------
(* PARTIES.                                                                *)

-----------------------------------------------------------------------------
(* Rosters are sequences without repetition.                               *)

Distinct(s) == \A m, n \in DOMAIN s : s[m] = s[n] => m = n

\* std::find and erase take exactly one player off a roster.
LEMMA WithoutRemoves ==
    ASSUME NEW s \in Seq(Player), NEW p \in Player, Distinct(s)
    PROVE  /\ Without(s, p) \in Seq(Player)
           /\ Distinct(Without(s, p))
           /\ Elems(Without(s, p)) = Elems(s) \ {p}
<1>1. CASE p \notin Elems(s)
  BY <1>1 DEF Without
<1>2. CASE p \in Elems(s)
  <2>1. PICK n \in DOMAIN s : s[n] = p
    BY <1>2 DEF Elems
  <2>2. \A k \in DOMAIN s : s[k] = p <=> k = n
    BY <2>1 DEF Distinct
  <2>3. n = CHOOSE k \in DOMAIN s : s[k] = p /\ \A l \in 1 .. k - 1 : s[l] # p
    BY <2>2
  <2> DEFINE t == SubSeq(s, 1, n - 1) \o SubSeq(s, n + 1, Len(s))
  <2>4. Without(s, p) = t
    BY <1>2, <2>3 DEF Without
  <2>5. /\ t \in Seq(Player) /\ Len(t) = Len(s) - 1
        /\ \A k \in 1 .. Len(s) - 1 : t[k] = IF k < n THEN s[k] ELSE s[k + 1]
    <3> DEFINE u == SubSeq(s, 1, n - 1)
               v == SubSeq(s, n + 1, Len(s))
    <3>1. /\ u \in Seq(Player) /\ Len(u) = n - 1
          /\ \A k \in 1 .. n - 1 : u[k] = s[k]
      BY SubSeqProperties
    <3>2. /\ v \in Seq(Player) /\ Len(v) = Len(s) - n
          /\ \A k \in 1 .. Len(s) - n : v[k] = s[n + k]
      BY SubSeqProperties
    <3> HIDE DEF u, v
    <3>3. /\ u \o v \in Seq(Player) /\ Len(u \o v) = Len(s) - 1
          /\ \A k \in 1 .. Len(s) - 1 : (u \o v)[k] = IF k < n THEN u[k] ELSE v[k - (n - 1)]
      <4>1. Len(s) \in Nat /\ n \in 1 .. Len(s)
        OBVIOUS
      <4>2. /\ u \o v \in Seq(Player) /\ Len(u \o v) = Len(u) + Len(v)
            /\ \A k \in 1 .. Len(u) + Len(v) :
                  (u \o v)[k] = IF k <= Len(u) THEN u[k] ELSE v[k - Len(u)]
        BY <3>1, <3>2, ConcatProperties
      <4>3. Len(u) + Len(v) = Len(s) - 1
        BY <3>1, <3>2, <4>1
      <4>4. \A k \in 1 .. Len(s) - 1 : (k <= Len(u)) <=> (k < n)
        BY <3>1, <4>1
      <4> QED BY <3>1, <4>2, <4>3, <4>4
    <3>4. ASSUME NEW k \in 1 .. Len(s) - 1
          PROVE  (u \o v)[k] = IF k < n THEN s[k] ELSE s[k + 1]
      <4>1. Len(s) \in Nat /\ n \in 1 .. Len(s)
        OBVIOUS
      <4>2. CASE k < n
        <5>1. k \in 1 .. n - 1
          BY <4>1, <4>2
        <5> QED BY <3>1, <3>3, <4>2, <5>1
      <4>3. CASE ~(k < n)
        <5>1. /\ k - (n - 1) \in 1 .. Len(s) - n
              /\ n + (k - (n - 1)) = k + 1
          BY <4>1, <4>3
        <5>2. v[k - (n - 1)] = s[k + 1]
          BY <3>2, <5>1
        <5> QED BY <3>3, <4>3, <5>2
      <4> QED BY <4>2, <4>3
    <3> QED BY <3>3, <3>4 DEF u, v
  <2> HIDE DEF t
  <2>6. Distinct(t)
    <3> DEFINE m(k) == IF k < n THEN k ELSE k + 1
    <3>1. \A k \in 1 .. Len(s) - 1 : m(k) \in DOMAIN s /\ t[k] = s[m(k)]
      BY <2>5
    <3>2. \A i, j \in 1 .. Len(s) - 1 : m(i) = m(j) => i = j
      OBVIOUS
    <3> HIDE DEF m
    <3>3. DOMAIN t = 1 .. Len(s) - 1
      BY <2>5
    <3> QED BY <3>1, <3>2, <3>3 DEF Distinct
  <2>7. Elems(t) \subseteq Elems(s) \ {p}
    BY <2>2, <2>5 DEF Elems
  <2>8. ASSUME NEW q \in Elems(s), q # p PROVE q \in Elems(t)
    <3>1. PICK k \in DOMAIN s : s[k] = q
      BY DEF Elems
    <3>2. k # n
      BY <2>8, <2>1, <3>1
    <3>3. CASE k < n
      <4>1. k \in DOMAIN t /\ t[k] = q
        BY <2>5, <3>1, <3>3
      <4> QED BY <4>1 DEF Elems
    <3>4. CASE k > n
      <4>1. k - 1 \in DOMAIN t /\ t[k - 1] = q
        BY <2>5, <3>1, <3>4
      <4> QED BY <4>1 DEF Elems
    <3> QED BY <3>2, <3>3, <3>4
  <2> QED BY <2>4, <2>5, <2>6, <2>7, <2>8
<1> QED BY <1>1, <1>2

\* push_back of one who is not on it.
LEMMA AppendAdds ==
    ASSUME NEW s \in Seq(Player), NEW p \in Player, Distinct(s), p \notin Elems(s)
    PROVE  /\ Append(s, p) \in Seq(Player) /\ Append(s, p) # <<>>
           /\ Distinct(Append(s, p))
           /\ Elems(Append(s, p)) = Elems(s) \cup {p}
<1>1. /\ Append(s, p) \in Seq(Player) /\ Len(Append(s, p)) = Len(s) + 1
      /\ \A k \in 1 .. Len(s) : Append(s, p)[k] = s[k]
      /\ Append(s, p)[Len(s) + 1] = p
  OBVIOUS
<1>2. Distinct(Append(s, p))
  BY <1>1 DEF Distinct, Elems
<1>3. Elems(Append(s, p)) = Elems(s) \cup {p}
  BY <1>1 DEF Elems
<1> QED BY <1>1, <1>2, <1>3

\* insert at the front of one who is not on it.
LEMMA FrontAdds ==
    ASSUME NEW s \in Seq(Player), NEW p \in Player, Distinct(s), p \notin Elems(s)
    PROVE  /\ <<p>> \o s \in Seq(Player) /\ <<p>> \o s # <<>>
           /\ Distinct(<<p>> \o s)
           /\ Elems(<<p>> \o s) = Elems(s) \cup {p}
<1>1. /\ <<p>> \o s \in Seq(Player) /\ Len(<<p>> \o s) = Len(s) + 1
      /\ \A k \in 1 .. Len(s) : (<<p>> \o s)[k + 1] = s[k]
      /\ (<<p>> \o s)[1] = p
  OBVIOUS
<1> DEFINE t == <<p>> \o s
<1>a. \A k \in 1 .. Len(t) : k # 1 => k - 1 \in 1 .. Len(s) /\ t[k] = s[k - 1]
  BY <1>1
<1> HIDE DEF t
<1>2. Distinct(t)
  BY <1>1, <1>a DEF Distinct, Elems, t
<1>3. Elems(t) = Elems(s) \cup {p}
  <2>1. Elems(t) \subseteq Elems(s) \cup {p}
    BY <1>1, <1>a DEF Elems, t
  <2>2. p \in Elems(t)
    BY <1>1 DEF Elems, t
  <2>3. ASSUME NEW k \in DOMAIN s PROVE s[k] \in Elems(t)
    <3>1. k + 1 \in DOMAIN t /\ t[k + 1] = s[k]
      BY <1>1 DEF t
    <3> QED BY <3>1 DEF Elems
  <2> QED BY <2>1, <2>2, <2>3 DEF Elems
<1> QED BY <1>1, <1>2, <1>3 DEF t

-----------------------------------------------------------------------------
(* One record.                                                             *)

\* The roster of RostersSound, but for a party that is about to disband.
Sound(r) ==
    /\ r.leader \notin Elems(r.members) \cup r.invited
    /\ Elems(r.members) \cap r.invited = {}
    /\ Distinct(r.members)

Private(r) == r.chat \subseteq Mates(r)

Fits(r, w) == r.active /\ ~r.stale => (r.enabled <=> CanEnable(r, w))

Good(r, w) == r \in Record /\ Sound(r) /\ Private(r) /\ Fits(r, w)

SameLists(r, u) ==
    /\ u.leader = r.leader /\ u.members = r.members
    /\ u.invited = r.invited /\ u.chat = r.chat

\* updateSharedExperience makes the verdict current and changes no list.
LEMMA UpdateIsCurrent ==
    ASSUME NEW r \in Record, NEW w \in [Player -> Spot], Sound(r), Private(r)
    PROVE  Good(Update(r, w), w) /\ SameLists(r, Update(r, w))
<1>1. CASE ~r.active
  <2>1. Update(r, w) = r
    BY <1>1 DEF Update
  <2> QED BY <1>1, <2>1 DEF Good, Fits, SameLists
<1>2. CASE r.active
  <2> DEFINE u == [r EXCEPT !.enabled = CanEnable(r, w), !.stale = FALSE]
  <2>1. Update(r, w) = u
    BY <1>2 DEF Update
  <2>2. CanEnable(r, w) \in BOOLEAN
    BY DEF CanEnable
  <2>3. u \in Record
    BY <2>2 DEF Record
  <2>4. /\ SameLists(r, u) /\ u.points = r.points
        /\ u.enabled = CanEnable(r, w)
    BY DEF Record, SameLists
  <2>5. CanEnable(u, w) = CanEnable(r, w)
    BY <2>4 DEF SameLists, CanEnable, CanUse, Mates
  <2> HIDE DEF u
  <2>6. Sound(u) /\ Private(u)
    BY <2>4 DEF SameLists, Sound, Private, Mates
  <2>7. Fits(u, w)
    BY <2>4, <2>5 DEF Fits
  <2> QED BY <2>1, <2>3, <2>4, <2>6, <2>7 DEF Good
<1> QED BY <1>1, <1>2

\* passPartyLeadership moves nobody in or out.
LEMMA PassKeepsMates ==
    ASSUME NEW r, NEW w \in [Player -> Spot], Good(r, w),
           NEW p \in Elems(r.members)
    PROVE  LET u == Pass(r, w, p)
           IN  /\ Good(u, w) /\ Mates(u) = Mates(r) /\ u.leader = p
               /\ u.invited = r.invited /\ u.members # <<>>
               /\ r.leader \in Elems(u.members)
<1> DEFINE m == <<r.leader>> \o Without(r.members, p)
           v == [r EXCEPT !.leader = p, !.members = m]
<1>1. p \in Player /\ r.leader \in Player /\ r.members \in Seq(Player)
  BY DEF Good, Record, Elems
<1>2. /\ Without(r.members, p) \in Seq(Player)
      /\ Distinct(Without(r.members, p))
      /\ Elems(Without(r.members, p)) = Elems(r.members) \ {p}
  BY <1>1, WithoutRemoves DEF Good, Sound
<1>3. r.leader \notin Elems(r.members)
  BY DEF Good, Sound
<1>4. /\ m \in Seq(Player) /\ m # <<>> /\ Distinct(m)
      /\ Elems(m) = (Elems(r.members) \ {p}) \cup {r.leader}
  BY <1>1, <1>2, <1>3, FrontAdds
<1> HIDE DEF m
<1>5. /\ v \in Record /\ v.leader = p /\ v.members = m
      /\ v.invited = r.invited /\ v.chat = r.chat
  BY <1>1, <1>4 DEF Good, Record
<1>6. Mates(v) = Mates(r)
  BY <1>3, <1>4, <1>5 DEF Mates
<1>7. Sound(v) /\ Private(v)
  BY <1>3, <1>4, <1>5, <1>6 DEF Sound, Private, Good
<1> HIDE DEF v
<1>8. Good(Update(v, w), w) /\ SameLists(v, Update(v, w))
  BY <1>5, <1>7, UpdateIsCurrent
<1>9. Pass(r, w, p) = Update(v, w)
  BY DEF Pass, v, m
<1> QED BY <1>3, <1>4, <1>5, <1>6, <1>8, <1>9 DEF SameLists, Mates

\* clearPlayerPoints keeps a record good and changes no list.
LEMMA ClearKeeps ==
    ASSUME NEW r, NEW w \in [Player -> Spot], Good(r, w), NEW p \in Player
    PROVE  Good(ClearPoints(r, w, p), w) /\ SameLists(r, ClearPoints(r, w, p))
<1> DEFINE v == [r EXCEPT !.points[p] = "none"]
<1>1. v \in Record /\ SameLists(r, v)
  BY DEF Good, Record, Points, SameLists
<1>2. Sound(v) /\ Private(v)
  BY <1>1 DEF Good, Sound, Private, SameLists, Mates
<1> HIDE DEF v
<1>3. Good(Update(v, w), w) /\ SameLists(v, Update(v, w))
  BY <1>1, <1>2, UpdateIsCurrent
<1>4. CASE r.points[p] = "none"
  BY <1>4 DEF ClearPoints, SameLists
<1>5. CASE r.points[p] # "none"
  <2>1. ClearPoints(r, w, p) = Update(v, w)
    BY <1>5 DEF ClearPoints, v
  <2> QED BY <2>1, <1>1, <1>3 DEF SameLists
<1> QED BY <1>4, <1>5

\* leaveParty takes one out, unless he leads a party that ends with him.
LEMMA LeaveTakesOut ==
    ASSUME NEW r, NEW w \in [Player -> Spot], Good(r, w), NEW p \in Mates(r)
    PROVE  LET u == Leave(r, w, p)
           IN  /\ Good(u, w) /\ u.invited = r.invited
               /\ IF Heirless(r, p) THEN Mates(u) = Mates(r)
                                    ELSE Mates(u) = Mates(r) \ {p}
<1> DEFINE led == IF r.leader = p /\ ~Heirless(r, p)
                  THEN Pass(r, w, Head(r.members)) ELSE r
           v == [led EXCEPT !.members = Without(@, p), !.invited = @ \ {p},
                            !.chat = @ \ {p}]
<1>1. p \in Player
  BY DEF Good, Record, Mates, Elems
<1>2. /\ Good(led, w) /\ Mates(led) = Mates(r) /\ led.invited = r.invited
      /\ led.leader = p <=> Heirless(r, p)
  <2>1. CASE r.leader = p /\ ~Heirless(r, p)
    <3>1. r.members \in Seq(Player) /\ r.members # <<>>
      BY <2>1 DEF Good, Record, Heirless
    <3>2. Head(r.members) \in Elems(r.members)
      BY <3>1 DEF Elems
    <3>3. Head(r.members) # p
      BY <2>1, <3>2 DEF Good, Sound
    <3> QED BY <2>1, <3>2, <3>3, PassKeepsMates
  <2>2. CASE ~(r.leader = p /\ ~Heirless(r, p))
    BY <2>2 DEF Heirless
  <2> QED BY <2>1, <2>2
<1> HIDE DEF led
<1>3. /\ Without(led.members, p) \in Seq(Player)
      /\ Distinct(Without(led.members, p))
      /\ Elems(Without(led.members, p)) = Elems(led.members) \ {p}
  BY <1>1, <1>2, WithoutRemoves DEF Good, Record, Sound
<1>4. /\ v \in Record /\ v.leader = led.leader
      /\ v.members = Without(led.members, p)
      /\ v.invited = led.invited \ {p} /\ v.chat = led.chat \ {p}
  BY <1>2, <1>3 DEF Good, Record
<1>5. p \notin r.invited
  BY DEF Good, Sound, Mates
<1>6. IF Heirless(r, p) THEN Mates(v) = Mates(r) ELSE Mates(v) = Mates(r) \ {p}
  BY <1>2, <1>3, <1>4 DEF Mates, Good, Sound
<1>7. Sound(v) /\ Private(v)
  BY <1>2, <1>3, <1>4, <1>6 DEF Sound, Private, Good, Mates
<1> HIDE DEF v
<1>8. Good(Update(v, w), w) /\ SameLists(v, Update(v, w))
  BY <1>4, <1>7, UpdateIsCurrent
<1> DEFINE u == ClearPoints(Update(v, w), w, p)
<1>9. Good(u, w) /\ SameLists(Update(v, w), u)
  BY <1>1, <1>8, ClearKeeps
<1>10. Leave(r, w, p) = u
  BY DEF Leave, led, v
<1>11. Mates(u) = Mates(v) /\ u.invited = v.invited
  BY <1>8, <1>9 DEF SameLists, Mates
<1> HIDE DEF u
<1> QED BY <1>2, <1>4, <1>5, <1>6, <1>9, <1>10, <1>11

-----------------------------------------------------------------------------
(* The invariant.                                                          *)

\* Members, leader and those asked are in the game.
Present(r, here) == Mates(r) \cup r.invited \subseteq here

Kept(r, w, here) == Good(r, w) /\ Present(r, here) /\ ~Deserted(r)

\* The pointers pty and inv of the players mirror the lists of recs.
Mirrors(pty, inv, recs) ==
    \A p \in Player, x \in PartyId :
        /\ (pty[p] = x) <=> (x \in DOMAIN recs /\ p \in Mates(recs[x]))
        /\ x \in inv[p] <=> (x \in DOMAIN recs /\ p \in recs[x].invited)

PartyInv ==
    /\ PartyTypeOK
    /\ Mirrors(party, invitations, parties)
    /\ \A x \in DOMAIN parties : Kept(parties[x], at, online)

\* Settle mends what the handler left behind in the parties that end.
LEMMA SettleMends ==
    ASSUME NEW next, NEW ended, NEW pty, NEW inv,
           online' \subseteq Player, at' \in [Player -> Spot],
           DOMAIN next \subseteq PartyId, ended \subseteq DOMAIN next,
           pty \in [Player -> PartyId \cup {NoParty}],
           inv \in [Player -> SUBSET PartyId],
           \A x \in DOMAIN next : Good(next[x], at'),
           \A x \in DOMAIN next \ ended :
               Present(next[x], online') /\ ~Deserted(next[x]),
           \A p \in Player, x \in PartyId :
               pty[p] = x => x \in DOMAIN next /\ p \in Mates(next[x]),
           \A p \in Player : \A x \in DOMAIN next :
               p \in Mates(next[x]) => pty[p] = x \/ (pty[p] = NoParty /\ x \in ended),
           \A p \in Player, x \in PartyId :
               x \in inv[p] <=> (x \in DOMAIN next /\ p \in next[x].invited),
           Settle(next, ended, pty, inv)
    PROVE  PartyInv'
<1>1. /\ DOMAIN parties' = DOMAIN next \ ended
      /\ \A x \in DOMAIN next \ ended : parties'[x] = next[x]
  BY DEF Settle
<1>2. party' = [p \in Player |->
          IF \E x \in ended : p \in Mates(next[x]) THEN NoParty ELSE pty[p]]
  BY DEF Settle
<1>3. invitations' = [p \in Player |->
          inv[p] \ {x \in ended : p \in next[x].invited}]
  BY DEF Settle
<1>4. PartyTypeOK'
  BY <1>1, <1>2, <1>3 DEF PartyTypeOK, Good
<1>5. \A x \in DOMAIN parties' : Kept(parties'[x], at', online')
  BY <1>1 DEF Kept
<1>6. ASSUME NEW p \in Player, NEW x \in PartyId
      PROVE  /\ (party'[p] = x) <=> (x \in DOMAIN parties' /\ p \in Mates(parties'[x]))
             /\ x \in invitations'[p] <=> (x \in DOMAIN parties' /\ p \in parties'[x].invited)
  <2>1. x # NoParty
    BY PartyConstants
  <2>2. (party'[p] = x) => (x \in DOMAIN parties' /\ p \in Mates(parties'[x]))
    BY <1>1, <1>2, <2>1
  <2>3. x \in DOMAIN parties' /\ p \in Mates(parties'[x]) => party'[p] = x
    BY <1>1, <1>2, <2>1, PartyConstants
  <2>4. x \in invitations'[p] <=> (x \in DOMAIN parties' /\ p \in parties'[x].invited)
    BY <1>1, <1>3
  <2> QED BY <2>2, <2>3, <2>4
<1> QED BY <1>4, <1>5, <1>6 DEF PartyInv, Mirrors

\* A change of one party's record that leaves its lists of players alone.
LEMMA OwnKeeps ==
    ASSUME PartyInv, NEW x \in DOMAIN parties, NEW r,
           at' \in [Player -> Spot], Good(r, at'),
           Mates(r) = Mates(parties[x]), r.invited = parties[x].invited,
           r.members = <<>> => parties[x].members = <<>>,
           parties' = [parties EXCEPT ![x] = r],
           \A y \in DOMAIN parties \ {x} : Good(parties[y], at'),
           UNCHANGED <<online, party, invitations>>
    PROVE  PartyInv'
<1>1. PartyTypeOK'
  BY DEF PartyInv, PartyTypeOK, Good
<1>2. Mirrors(party, invitations, parties)'
  BY DEF PartyInv, Mirrors
<1>3. ASSUME NEW y \in DOMAIN parties' PROVE Kept(parties[y], at, online)'
  BY DEF PartyInv, Kept, Present, Deserted
<1> QED BY <1>1, <1>2, <1>3 DEF PartyInv

\* A verdict depends on the positions of the party's own players only.
LEMMA ElsewhereIsGood ==
    ASSUME PartyInv, NEW x \in DOMAIN parties, NEW p \in Player, NEW s \in Spot,
           p \notin Mates(parties[x])
    PROVE  Good(parties[x], [at EXCEPT ![p] = s])
<1>1. Good(parties[x], at) /\ at \in [Player -> Spot] /\ parties[x] \in Record
  BY DEF PartyInv, Kept, PartyTypeOK
<1>2. \A q \in Mates(parties[x]) :
         /\ q \in Player
         /\ [at EXCEPT ![p] = s][q] = at[q]
         /\ [at EXCEPT ![p] = s][parties[x].leader] = at[parties[x].leader]
  BY <1>1 DEF Mates, Elems, Record
<1>3. CanEnable(parties[x], [at EXCEPT ![p] = s]) <=> CanEnable(parties[x], at)
  BY <1>2 DEF CanEnable, CanUse
<1> QED BY <1>1, <1>3 DEF Good, Fits

\* p leaves his party; cur are the records by then, which may have lost
\* invitations, and asked the other parties that end.
LEMMA DepartureKeeps ==
    ASSUME PartyInv, NEW p \in Player, party[p] # NoParty, at' = at, online' \subseteq Player,
           NEW cur, DOMAIN cur = DOMAIN parties,
           NEW asked \in SUBSET DOMAIN parties,
           NEW inv \in [Player -> SUBSET PartyId],
           \A x \in DOMAIN parties : /\ Good(cur[x], at)
                                     /\ Mates(cur[x]) = Mates(parties[x])
                                     /\ Mates(cur[x]) \ {p} \subseteq online'
                                     /\ cur[x].invited \subseteq online',
           \A x \in DOMAIN parties \ asked : ~Deserted(cur[x]),
           \A q \in Player, x \in PartyId :
               x \in inv[q] <=> (x \in DOMAIN cur /\ q \in cur[x].invited),
           Settle(LeftBy(cur, p), asked \cup Ends(cur, p),
                  [party EXCEPT ![p] = NoParty], inv)
    PROVE  PartyInv'
<1> DEFINE z == party[p]
           next == LeftBy(cur, p)
           ended == asked \cup Ends(cur, p)
           pty == [party EXCEPT ![p] = NoParty]
<1>t. /\ at \in [Player -> Spot]
      /\ party \in [Player -> PartyId \cup {NoParty}]
      /\ DOMAIN parties \subseteq PartyId
  BY DEF PartyInv, PartyTypeOK
<1>m. Mirrors(party, invitations, parties)
  BY DEF PartyInv
<1>1. z \in DOMAIN parties /\ z \in PartyId /\ p \in Mates(cur[z])
  BY <1>t, <1>m DEF Mirrors
<1>2. /\ DOMAIN next = DOMAIN parties
      /\ next[z] = Leave(cur[z], at, p)
      /\ \A x \in DOMAIN parties : x # z => next[x] = cur[x]
  BY <1>1 DEF LeftBy
<1>3. /\ Good(next[z], at) /\ next[z].invited = cur[z].invited
      /\ IF Heirless(cur[z], p) THEN Mates(next[z]) = Mates(cur[z])
                                ELSE Mates(next[z]) = Mates(cur[z]) \ {p}
  BY <1>t, <1>1, <1>2, LeaveTakesOut
<1>4. /\ Ends(cur, p) \subseteq {z}
      /\ z \notin Ends(cur, p) => ~Heirless(cur[z], p) /\ ~Deserted(next[z])
  BY DEF Ends
<1> HIDE DEF next, z
<1>5. \A x \in DOMAIN next : Good(next[x], at')
  BY <1>2, <1>3
<1>6. ended \subseteq DOMAIN next
  BY <1>1, <1>2, <1>4
<1>7. \A x \in DOMAIN next \ ended : Present(next[x], online') /\ ~Deserted(next[x])
  <2>1. \A x \in DOMAIN parties : x # z => p \notin Mates(cur[x])
    BY <1>m, <1>t DEF Mirrors, z
  <2> QED BY <1>1, <1>2, <1>3, <1>4, <2>1 DEF Present
<1>8. pty \in [Player -> PartyId \cup {NoParty}]
  BY <1>t
<1>9. \A q \in Player, x \in PartyId : pty[q] = x => x \in DOMAIN next /\ q \in Mates(next[x])
  <2> SUFFICES ASSUME NEW q \in Player, NEW x \in PartyId, pty[q] = x
               PROVE  x \in DOMAIN next /\ q \in Mates(next[x])
    OBVIOUS
  <2>1. q # p /\ party[q] = x
    BY <1>t, PartyConstants
  <2>2. x \in DOMAIN parties /\ q \in Mates(cur[x])
    BY <1>m, <2>1 DEF Mirrors
  <2> QED BY <1>2, <1>3, <2>1, <2>2
<1>10. \A q \in Player : \A x \in DOMAIN next :
          q \in Mates(next[x]) => pty[q] = x \/ (pty[q] = NoParty /\ x \in ended)
  <2> SUFFICES ASSUME NEW q \in Player, NEW x \in DOMAIN next, q \in Mates(next[x])
               PROVE  pty[q] = x \/ (pty[q] = NoParty /\ x \in ended)
    OBVIOUS
  <2>1. q \in Mates(cur[x]) /\ party[q] = x
    BY <1>m, <1>t, <1>2, <1>3 DEF Mirrors
  <2>2. CASE q # p
    BY <1>t, <2>1, <2>2
  <2>3. CASE q = p
    <3>1. x = z
      BY <2>1, <2>3 DEF z
    <3>2. Heirless(cur[z], p)
      BY <1>3, <2>3, <3>1
    <3> QED BY <1>4, <1>t, <2>3, <3>1, <3>2
  <2> QED BY <2>2, <2>3
<1>11. \A q \in Player, x \in PartyId :
          x \in inv[q] <=> (x \in DOMAIN next /\ q \in next[x].invited)
  BY <1>2, <1>3
<1>12. Settle(next, ended, pty, inv)
  BY DEF next
<1> HIDE DEF ended, pty
<1>13. at' \in [Player -> Spot] /\ DOMAIN next \subseteq PartyId
  BY <1>t, <1>2
<1> QED
  BY <1>5, <1>6, <1>7, <1>8, <1>9, <1>10, <1>11, <1>12, <1>13, SettleMends

-----------------------------------------------------------------------------
\* The lists and the pointers agree and every record is sound, for any number
\* of players, parties and places.
THEOREM PartyInvariant == PartySpec => []PartyInv
<1>1. PartyInit => PartyInv
  <2> SUFFICES ASSUME PartyInit PROVE PartyInv
    OBVIOUS
  <2>1. DOMAIN parties = {}
    BY DEF PartyInit
  <2>2. PartyTypeOK
    BY <2>1 DEF PartyInit, PartyTypeOK
  <2> QED BY <2>1, <2>2, PartyConstants DEF PartyInit, PartyInv, Mirrors
<1>2. PartyInv /\ [PartyNext]_partyVars => PartyInv'
  <2> SUFFICES ASSUME PartyInv, [PartyNext]_partyVars PROVE PartyInv'
    OBVIOUS
  <2> USE DEF SameLists
  <2>t. /\ online \subseteq Player /\ at \in [Player -> Spot]
        /\ party \in [Player -> PartyId \cup {NoParty}]
        /\ invitations \in [Player -> SUBSET PartyId]
        /\ DOMAIN parties \subseteq PartyId
        /\ \A x \in DOMAIN parties : parties[x] \in Record
    BY DEF PartyInv, PartyTypeOK
  <2>k. \A x \in DOMAIN parties : Kept(parties[x], at, online)
    BY DEF PartyInv
  <2>m. Mirrors(party, invitations, parties)
    BY DEF PartyInv
  \* Who is in a party finds himself in its record.
  <2>own. ASSUME NEW p \in Player, party[p] # NoParty
          PROVE  /\ party[p] \in DOMAIN parties
                 /\ p \in Mates(parties[party[p]])
                 /\ Good(parties[party[p]], at)
    BY <2>own, <2>t, <2>k, <2>m DEF Mirrors, Kept
  <2>1. ASSUME NEW p \in Player, NEW q \in Player, PlayerInviteToParty(p, q)
        PROVE  PartyInv'
    <3>1. PICK x \in PartyId :
             /\ \/ /\ party[p] = NoParty /\ x \notin DOMAIN parties
                   /\ parties' = [y \in DOMAIN parties \cup {x} |->
                                    IF y = x THEN NewParty(p, q) ELSE parties[y]]
                \/ /\ x = party[p] /\ Leads(p) /\ q \notin parties[x].invited
                   /\ parties' = [parties EXCEPT ![x].invited = @ \cup {q}]
             /\ party' = [party EXCEPT ![p] = x]
             /\ invitations' = [invitations EXCEPT ![q] = @ \cup {x}]
      BY <2>1 DEF PlayerInviteToParty
    <3>2. /\ UNCHANGED <<online, at>> /\ p # q /\ party[q] = NoParty
          /\ p \in online /\ q \in online
      BY <2>1 DEF PlayerInviteToParty, MayInvite
    <3>3. CASE /\ party[p] = NoParty /\ x \notin DOMAIN parties
               /\ parties' = [y \in DOMAIN parties \cup {x} |->
                                IF y = x THEN NewParty(p, q) ELSE parties[y]]
      <4> DEFINE r == NewParty(p, q)
      <4>1. /\ r \in Record /\ r.leader = p /\ r.members = <<>>
            /\ r.invited = {q} /\ r.chat = {} /\ r.active = FALSE
        BY DEF NewParty, Record, Points
      <4>2. Mates(r) = {p} /\ Elems(r.members) = {}
        BY <4>1 DEF Mates, Elems
      <4> HIDE DEF r
      <4>3. Kept(r, at', online')
        BY <4>1, <4>2, <3>2 DEF Kept, Good, Sound, Distinct, Private, Fits,
                                Present, Deserted
      <4>4. /\ DOMAIN parties' = DOMAIN parties \cup {x}
            /\ parties'[x] = r
            /\ \A y \in DOMAIN parties : parties'[y] = parties[y]
        BY <3>3 DEF r
      <4>5. PartyTypeOK'
        BY <2>t, <3>1, <3>2, <4>1, <4>4 DEF PartyTypeOK
      <4>6. \A y \in DOMAIN parties' : Kept(parties'[y], at', online')
        BY <2>k, <3>2, <4>3, <4>4
      <4>7. Mirrors(party', invitations', parties')
        BY <2>t, <2>m, <3>1, <3>3, <4>1, <4>2, <4>4, PartyConstants DEF Mirrors
      <4> QED BY <4>5, <4>6, <4>7 DEF PartyInv
    <3>4. CASE /\ x = party[p] /\ Leads(p) /\ q \notin parties[x].invited
               /\ parties' = [parties EXCEPT ![x].invited = @ \cup {q}]
      <4> DEFINE r == [parties[x] EXCEPT !.invited = @ \cup {q}]
      <4>1. x \in DOMAIN parties /\ Good(parties[x], at)
        BY <2>own, <3>4 DEF Leads
      <4>2. q \notin Mates(parties[x])
        BY <2>m, <3>2, <4>1, PartyConstants DEF Mirrors
      <4>3. /\ r \in Record /\ r.leader = parties[x].leader
            /\ r.members = parties[x].members /\ r.chat = parties[x].chat
            /\ r.invited = parties[x].invited \cup {q}
            /\ r.active = parties[x].active /\ r.stale = parties[x].stale
            /\ r.enabled = parties[x].enabled /\ r.points = parties[x].points
        BY <4>1 DEF Good, Record
      <4>4. parties' = [parties EXCEPT ![x] = r]
        BY <3>4, <4>1
      <4> HIDE DEF r
      <4>5. Mates(r) = Mates(parties[x]) /\ (CanEnable(r, at) <=> CanEnable(parties[x], at))
        BY <4>3 DEF Mates, CanEnable, CanUse
      <4>6. Kept(r, at', online')
        BY <2>k, <3>2, <4>1, <4>2, <4>3, <4>5
           DEF Kept, Good, Sound, Private, Fits, Present, Deserted, Mates
      <4>7. PartyTypeOK'
        BY <2>t, <3>1, <3>2, <4>1, <4>3, <4>4 DEF PartyTypeOK
      <4>8. \A y \in DOMAIN parties' : Kept(parties'[y], at', online')
        BY <2>k, <3>2, <4>1, <4>4, <4>6
      <4>9. Mirrors(party', invitations', parties')
        <5>1. party' = party
          BY <2>t, <3>1, <3>4
        <5>2. \A o \in Player, y \in PartyId :
                 y \in invitations'[o] <=> (y \in invitations[o] \/ (y = x /\ o = q))
          BY <2>t, <3>1
        <5>3. /\ DOMAIN parties' = DOMAIN parties /\ parties'[x] = r
              /\ \A y \in DOMAIN parties : y # x => parties'[y] = parties[y]
          BY <4>1, <4>4
        <5>4. \A o \in Player, y \in PartyId :
                 (party'[o] = y) <=> (y \in DOMAIN parties' /\ o \in Mates(parties'[y]))
          BY <2>m, <4>5, <5>1, <5>3 DEF Mirrors
        <5>5. \A o \in Player, y \in PartyId :
                 y \in invitations'[o] <=> (y \in DOMAIN parties' /\ o \in parties'[y].invited)
          BY <2>m, <4>1, <4>3, <5>2, <5>3 DEF Mirrors
        <5> QED BY <5>4, <5>5 DEF Mirrors
      <4> QED BY <4>7, <4>8, <4>9 DEF PartyInv
    <3> QED BY <3>1, <3>3, <3>4
  <2>2. ASSUME NEW p \in Player, NEW l \in Player, PlayerJoinParty(p, l)
        PROVE  PartyInv'
    <3> DEFINE x == party[l]
               m == Append(parties[x].members, p)
               v == [parties[x] EXCEPT !.members = m, !.invited = @ \ {p}]
               r == Update(v, at)
    <3>1. /\ party[l] # NoParty /\ p \in parties[x].invited /\ party[p] = NoParty
          /\ p \in online
          /\ party' = [party EXCEPT ![p] = x]
          /\ invitations' = [invitations EXCEPT ![p] = @ \ {x}]
          /\ UNCHANGED <<online, at>>
      BY <2>2 DEF PlayerJoinParty, IsInviting, Leads
    <3>2. x \in DOMAIN parties /\ Kept(parties[x], at, online) /\ x \in PartyId
      BY <2>own, <2>k, <2>t, <3>1
    <3>3. parties[x] \in Record /\ Sound(parties[x]) /\ Private(parties[x])
      BY <3>2 DEF Kept, Good
    <3>4. /\ m \in Seq(Player) /\ m # <<>> /\ Distinct(m)
          /\ Elems(m) = Elems(parties[x].members) \cup {p}
      <4>1. p \notin Elems(parties[x].members) /\ parties[x].members \in Seq(Player)
        BY <3>1, <3>3 DEF Sound, Record
      <4> QED BY <3>3, <4>1, AppendAdds DEF Sound
    <3> HIDE DEF m
    <3>5. /\ v \in Record /\ v.members = m /\ v.leader = parties[x].leader
          /\ v.chat = parties[x].chat /\ v.invited = parties[x].invited \ {p}
      BY <3>3, <3>4 DEF Record
    <3>6. Mates(v) = Mates(parties[x]) \cup {p}
      BY <3>4, <3>5 DEF Mates
    <3>7. Sound(v) /\ Private(v)
      BY <3>1, <3>3, <3>4, <3>5, <3>6 DEF Sound, Private
    <3> HIDE DEF v
    <3>8. /\ Good(r, at) /\ r.members # <<>> /\ Mates(r) = Mates(v)
          /\ r.invited = v.invited
      <4>1. Good(r, at) /\ SameLists(v, r)
        BY <2>t, <3>5, <3>7, UpdateIsCurrent
      <4> QED BY <3>4, <3>5, <4>1 DEF Mates
    <3>9. parties' = [parties EXCEPT ![x] = r]
      <4>1. parties' = [parties EXCEPT ![x] = Joined(@, at, p)]
        BY <2>2 DEF PlayerJoinParty
      <4>2. Joined(parties[x], at, p) = r
        BY DEF Joined, v, m
      <4> HIDE DEF x, r
      <4> QED BY <4>1, <4>2
    <3> HIDE DEF r, x
    <3>10. PartyTypeOK'
      BY <2>t, <3>1, <3>2, <3>8, <3>9 DEF PartyTypeOK, Good
    <3>11. Kept(r, at', online')
      BY <3>1, <3>2, <3>5, <3>6, <3>8 DEF Kept, Present, Deserted
    <3>12. \A y \in DOMAIN parties' : Kept(parties'[y], at', online')
      BY <2>k, <3>1, <3>2, <3>9, <3>11
    <3>13. Mirrors(party', invitations', parties')
      BY <2>t, <2>m, <3>1, <3>2, <3>5, <3>6, <3>8, <3>9, PartyConstants DEF Mirrors
    <3> QED BY <3>10, <3>12, <3>13 DEF PartyInv
  <2>3. ASSUME NEW l \in Player, NEW q \in Player, PlayerRevokePartyInvitation(l, q)
        PROVE  PartyInv'
    <3> DEFINE x == party[l]
               r == [parties[x] EXCEPT !.invited = @ \ {q}]
               next == [parties EXCEPT ![x].invited = @ \ {q}]
               ended == {y \in {x} : Deserted(next[y])}
               inv == [invitations EXCEPT ![q] = @ \ {x}]
    <3>1. /\ party[l] # NoParty /\ q \in parties[x].invited
          /\ Settle(next, ended, party, inv)
          /\ UNCHANGED <<online, at>>
      BY <2>3 DEF PlayerRevokePartyInvitation, IsInviting, Leads
    <3>2. x \in DOMAIN parties /\ Kept(parties[x], at, online) /\ x \in PartyId
      BY <2>own, <2>k, <2>t, <3>1
    <3>3. /\ r \in Record /\ r.leader = parties[x].leader
          /\ r.members = parties[x].members /\ r.chat = parties[x].chat
          /\ r.invited = parties[x].invited \ {q}
          /\ r.active = parties[x].active /\ r.stale = parties[x].stale
          /\ r.enabled = parties[x].enabled /\ r.points = parties[x].points
      BY <3>2 DEF Kept, Good, Record
    <3>4. DOMAIN next = DOMAIN parties /\ next[x] = r
          /\ \A y \in DOMAIN parties : y # x => next[y] = parties[y]
      BY <3>2
    <3> HIDE DEF r, next
    <3>5. Mates(r) = Mates(parties[x]) /\ (CanEnable(r, at) <=> CanEnable(parties[x], at))
      BY <3>3 DEF Mates, CanEnable, CanUse
    <3>6. Good(r, at) /\ Present(r, online)
      BY <3>2, <3>3, <3>5 DEF Kept, Good, Sound, Private, Fits, Present
    <3> HIDE DEF x
    <3>7. \A y \in DOMAIN next : Good(next[y], at')
      BY <2>k, <3>1, <3>4, <3>6 DEF Kept
    <3>8. ended \subseteq DOMAIN next
      BY <3>2, <3>4
    <3>9. \A y \in DOMAIN next \ ended : Present(next[y], online') /\ ~Deserted(next[y])
      BY <2>k, <3>1, <3>4, <3>6 DEF Kept
    <3>10. \A p \in Player, y \in PartyId :
              party[p] = y => y \in DOMAIN next /\ p \in Mates(next[y])
      BY <2>m, <3>4, <3>5 DEF Mirrors
    <3>11. \A p \in Player : \A y \in DOMAIN next :
              p \in Mates(next[y]) => party[p] = y \/ (party[p] = NoParty /\ y \in ended)
      BY <2>m, <2>t, <3>4, <3>5 DEF Mirrors
    <3>12. \A p \in Player, y \in PartyId :
              y \in inv[p] <=> (y \in DOMAIN next /\ p \in next[y].invited)
      BY <2>m, <2>t, <3>2, <3>3, <3>4 DEF Mirrors
    <3>13. inv \in [Player -> SUBSET PartyId] /\ DOMAIN next \subseteq PartyId
      BY <2>t, <3>4
    <3> HIDE DEF inv, ended
    <3>14. online' \subseteq Player /\ at' \in [Player -> Spot]
      BY <2>t, <3>1
    <3> QED
      BY <2>t, <3>1, <3>7, <3>8, <3>9, <3>10, <3>11, <3>12, <3>13, <3>14, SettleMends
  <2>4. ASSUME NEW l \in Player, NEW q \in Player, PlayerPassPartyLeadership(l, q)
        PROVE  PartyInv'
    <3> DEFINE x == party[l]
               r == Pass(parties[x], at, q)
    <3>1. /\ party[l] # NoParty /\ q \in Elems(parties[x].members)
          /\ parties' = [parties EXCEPT ![x] = Pass(@, at, q)]
          /\ UNCHANGED <<online, at, party, invitations>>
      BY <2>4 DEF PlayerPassPartyLeadership, Leads
    <3>2. x \in DOMAIN parties /\ Good(parties[x], at)
      BY <2>own, <3>1
    <3>3. /\ Good(r, at) /\ Mates(r) = Mates(parties[x])
          /\ r.invited = parties[x].invited /\ r.members # <<>>
      BY <2>t, <3>1, <3>2, PassKeepsMates
    <3>4. parties' = [parties EXCEPT ![x] = r]
      BY <3>1, <3>2
    <3>5. \A y \in DOMAIN parties \ {x} : Good(parties[y], at')
      BY <2>k, <3>1 DEF Kept
    <3> HIDE DEF r, x
    <3> QED BY <2>t, <3>1, <3>2, <3>3, <3>4, <3>5, OwnKeeps
  <2>5. ASSUME NEW p \in Player, PlayerLeaveParty(p) PROVE PartyInv'
    <3>1. /\ party[p] # NoParty
          /\ Settle(LeftBy(parties, p), {} \cup Ends(parties, p),
                    [party EXCEPT ![p] = NoParty], invitations)
          /\ UNCHANGED <<online, at>>
      BY <2>5 DEF PlayerLeaveParty
    <3>2. \A x \in DOMAIN parties : /\ Good(parties[x], at)
                                    /\ Mates(parties[x]) \ {p} \subseteq online'
                                    /\ parties[x].invited \subseteq online'
                                    /\ ~Deserted(parties[x])
      BY <2>k, <3>1 DEF Kept, Present
    <3>3. \A q \in Player, x \in PartyId :
             x \in invitations[q] <=> (x \in DOMAIN parties /\ q \in parties[x].invited)
      BY <2>m DEF Mirrors
    <3> QED BY <2>t, <3>1, <3>2, <3>3, DepartureKeeps
  <2>6. ASSUME NEW p \in Player, Disappear(p) PROVE PartyInv'
    <3> DEFINE cur == Declined(p)
               asked == {x \in invitations[p] : Deserted(cur[x])}
               inv == [invitations EXCEPT ![p] = {}]
    <3>1. online' = online \ {p} /\ at' = at
      BY <2>6 DEF Disappear
    <3>2. /\ DOMAIN cur = DOMAIN parties
          /\ \A x \in DOMAIN parties :
                cur[x] = IF x \in invitations[p]
                         THEN [parties[x] EXCEPT !.invited = @ \ {p}] ELSE parties[x]
      BY DEF Declined
    <3> HIDE DEF cur
    <3>3. ASSUME NEW x \in DOMAIN parties
          PROVE  /\ Good(cur[x], at) /\ Mates(cur[x]) = Mates(parties[x])
                 /\ cur[x].invited = parties[x].invited \ {p}
                 /\ x \notin asked => ~Deserted(cur[x])
      <4>1. Kept(parties[x], at, online)
        BY <2>k
      <4>2. CASE x \in invitations[p]
        <5>1. cur[x] = [parties[x] EXCEPT !.invited = @ \ {p}]
          BY <3>2, <4>2
        <5>2. /\ cur[x] \in Record /\ cur[x].leader = parties[x].leader
              /\ cur[x].members = parties[x].members /\ cur[x].chat = parties[x].chat
              /\ cur[x].invited = parties[x].invited \ {p}
              /\ cur[x].active = parties[x].active /\ cur[x].stale = parties[x].stale
              /\ cur[x].enabled = parties[x].enabled /\ cur[x].points = parties[x].points
          BY <4>1, <5>1 DEF Kept, Good, Record
        <5>3. /\ Mates(cur[x]) = Mates(parties[x])
              /\ CanEnable(cur[x], at) <=> CanEnable(parties[x], at)
          BY <5>2 DEF Mates, CanEnable, CanUse
        <5>4. Good(cur[x], at)
          BY <4>1, <5>2, <5>3 DEF Kept, Good, Sound, Private, Fits
        <5> QED BY <4>2, <5>2, <5>3, <5>4
      <4>3. CASE x \notin invitations[p]
        <5>1. p \notin parties[x].invited
          BY <2>m, <2>t, <4>3 DEF Mirrors
        <5> QED BY <3>2, <4>1, <4>3, <5>1 DEF Kept
      <4> QED BY <4>2, <4>3
    <3>4. /\ inv \in [Player -> SUBSET PartyId]
          /\ \A q \in Player, x \in PartyId :
                x \in inv[q] <=> (x \in DOMAIN cur /\ q \in cur[x].invited)
      BY <2>t, <2>m, <3>2, <3>3 DEF Mirrors
    <3>5. asked \in SUBSET DOMAIN parties
      BY <2>t, <2>m DEF Mirrors
    <3>6. \A x \in DOMAIN parties : /\ Mates(cur[x]) \ {p} \subseteq online'
                                    /\ cur[x].invited \subseteq online'
      BY <2>k, <3>1, <3>3 DEF Kept, Present
    <3>7. CASE party[p] # NoParty
      <4>1. Settle(LeftBy(cur, p), asked \cup Ends(cur, p),
                   [party EXCEPT ![p] = NoParty], inv)
        BY <2>6, <3>7 DEF Disappear, cur
      <4> HIDE DEF asked, inv
      <4>2. online' \subseteq Player
        BY <2>t, <3>1
      <4>3. \A x \in DOMAIN parties : /\ Good(cur[x], at)
                                      /\ Mates(cur[x]) = Mates(parties[x])
                                      /\ Mates(cur[x]) \ {p} \subseteq online'
                                      /\ cur[x].invited \subseteq online'
        BY <3>3, <3>6
      <4>4. \A x \in DOMAIN parties \ asked : ~Deserted(cur[x])
        BY <3>3
      <4>5. DOMAIN cur = DOMAIN parties
        BY <3>2
      <4> QED
        BY <3>1, <3>4, <3>5, <3>7, <4>1, <4>2, <4>3, <4>4, <4>5, DepartureKeeps
    <3>8. CASE party[p] = NoParty
      <4>1. Settle(cur, asked, party, inv)
        BY <2>6, <3>8 DEF Disappear, cur
      <4>2. \A x \in DOMAIN parties : p \notin Mates(cur[x])
        BY <2>m, <2>t, <3>3, <3>8, PartyConstants DEF Mirrors
      <4>3. \A x \in DOMAIN cur : Good(cur[x], at')
        BY <3>1, <3>2, <3>3
      <4>4. \A x \in DOMAIN cur \ asked : Present(cur[x], online') /\ ~Deserted(cur[x])
        BY <3>2, <3>3, <3>6, <4>2 DEF Present
      <4>5. \A q \in Player, x \in PartyId :
               party[q] = x => x \in DOMAIN cur /\ q \in Mates(cur[x])
        BY <2>m, <3>2, <3>3 DEF Mirrors
      <4>6. \A q \in Player : \A x \in DOMAIN cur :
               q \in Mates(cur[x]) => party[q] = x \/ (party[q] = NoParty /\ x \in asked)
        BY <2>m, <2>t, <3>2, <3>3 DEF Mirrors
      <4> HIDE DEF asked, inv
      <4>7. /\ online' \subseteq Player /\ at' \in [Player -> Spot]
            /\ DOMAIN cur \subseteq PartyId /\ asked \subseteq DOMAIN cur
        BY <2>t, <3>1, <3>2, <3>5
      <4> QED
        BY <2>t, <3>4, <4>1, <4>3, <4>4, <4>5, <4>6, <4>7, SettleMends
    <3> QED BY <3>7, <3>8
  <2>7. ASSUME NEW p \in Player, NEW s \in Spot, Appear(p, s) PROVE PartyInv'
    <3>1. /\ p \notin online /\ online' = online \cup {p}
          /\ at' = [at EXCEPT ![p] = s]
          /\ party' = [party EXCEPT ![p] = NoParty]
          /\ invitations' = [invitations EXCEPT ![p] = {}]
          /\ parties' = parties
      BY <2>7 DEF Appear
    <3>2. \A x \in DOMAIN parties : p \notin Mates(parties[x]) /\ p \notin parties[x].invited
      BY <2>k, <3>1 DEF Kept, Present
    <3>3. \A x \in DOMAIN parties' : Kept(parties'[x], at', online')
      BY <2>k, <3>1, <3>2, ElsewhereIsGood DEF Kept, Present
    <3>4. PartyTypeOK'
      BY <2>t, <3>1 DEF PartyTypeOK
    <3>5. Mirrors(party', invitations', parties')
      BY <2>t, <2>m, <3>1, <3>2, PartyConstants DEF Mirrors
    <3> QED BY <3>3, <3>4, <3>5 DEF PartyInv
  <2>8. ASSUME NEW p \in Player, NEW s \in Spot, Move(p, s) PROVE PartyInv'
    <3>1. /\ at' = [at EXCEPT ![p] = s] /\ at' \in [Player -> Spot]
          /\ UNCHANGED <<online, party, invitations>>
      BY <2>8, <2>t DEF Move
    <3>2. \A x \in DOMAIN parties : x # party[p] => Good(parties[x], at')
      <4> SUFFICES ASSUME NEW x \in DOMAIN parties, x # party[p]
                   PROVE  Good(parties[x], at')
        OBVIOUS
      <4>1. p \notin Mates(parties[x])
        BY <2>m, <2>t DEF Mirrors
      <4> QED BY <3>1, <4>1, ElsewhereIsGood
    <3>3. CASE party[p] = NoParty
      <4>1. parties' = parties
        BY <2>8, <3>3 DEF Move
      <4>2. \A x \in DOMAIN parties' : Kept(parties'[x], at', online')
        BY <2>k, <2>t, <3>1, <3>2, <3>3, <4>1, PartyConstants DEF Kept
      <4>3. PartyTypeOK' /\ Mirrors(party', invitations', parties')
        BY <2>t, <2>m, <3>1, <4>1 DEF PartyTypeOK, Mirrors
      <4> QED BY <4>2, <4>3 DEF PartyInv
    <3>4. CASE party[p] # NoParty
      <4> DEFINE x == party[p]
                 r == Update(parties[x], at')
      <4>1. parties' = [parties EXCEPT ![x] = r]
        BY <2>8, <3>4 DEF Move, ChangeOwn
      <4>2. x \in DOMAIN parties /\ Good(parties[x], at)
        BY <2>own, <3>4
      <4>3. Good(r, at') /\ SameLists(parties[x], r)
        BY <3>1, <4>2, UpdateIsCurrent DEF Good
      <4>4. Mates(r) = Mates(parties[x])
        BY <4>3 DEF Mates
      <4>5. \A y \in DOMAIN parties \ {x} : Good(parties[y], at')
        BY <3>2
      <4> HIDE DEF r, x
      <4> QED BY <3>1, <4>1, <4>2, <4>3, <4>4, <4>5, OwnKeeps
    <3> QED BY <3>3, <3>4
  \* The record of p's own party changes, and no list of players in it.
  <2>9. ASSUME NEW p \in Player, party[p] # NoParty, NEW r, Good(r, at),
               Mates(r) = Mates(parties[party[p]]),
               r.invited = parties[party[p]].invited,
               r.members = parties[party[p]].members,
               ChangeOwn(p, r), UNCHANGED <<online, at, party, invitations>>
        PROVE  PartyInv'
    <3>1. party[p] \in DOMAIN parties
      BY <2>own, <2>9
    <3>2. \A y \in DOMAIN parties \ {party[p]} : Good(parties[y], at')
      BY <2>k, <2>9 DEF Kept
    <3>3. parties' = [parties EXCEPT ![party[p]] = r]
      BY <2>9 DEF ChangeOwn
    <3>4. at' \in [Player -> Spot] /\ Good(r, at')
      BY <2>t, <2>9
    <3> QED BY <2>9, <3>1, <3>2, <3>3, <3>4, OwnKeeps
  <2>10. ASSUME NEW p \in Player, AddPlayerPoints(p) PROVE PartyInv'
    <3> DEFINE x == parties[party[p]]
               v == [x EXCEPT !.points[p] = "recent"]
               r == Booked(x, p)
    <3>1. /\ party[p] # NoParty /\ ChangeOwn(p, r)
          /\ UNCHANGED <<online, at, party, invitations>>
      BY <2>10 DEF AddPlayerPoints
    <3>2. Good(x, at)
      BY <2>own, <3>1
    <3>3. v \in Record /\ SameLists(x, v)
      BY <3>2 DEF Good, Record, Points
    <3>4. Sound(v) /\ Private(v)
      BY <3>2, <3>3 DEF Good, Sound, Private, Mates
    <3> HIDE DEF v
    <3>5. Good(Update(v, at), at) /\ SameLists(v, Update(v, at))
      BY <2>t, <3>3, <3>4, UpdateIsCurrent
    <3>6. r = Update(v, at)
      BY DEF Booked, v
    <3>7. Good(r, at) /\ SameLists(x, r) /\ Mates(r) = Mates(x)
      BY <3>3, <3>5, <3>6 DEF Mates
    <3> HIDE DEF r
    <3> QED BY <2>9, <3>1, <3>7
  <2>11. ASSUME NEW p \in Player, IdleStatus(p) PROVE PartyInv'
    <3> DEFINE x == parties[party[p]]
               r == ClearPoints(x, at, p)
    <3>1. /\ party[p] # NoParty /\ ChangeOwn(p, r)
          /\ UNCHANGED <<online, at, party, invitations>>
      BY <2>11 DEF IdleStatus
    <3>2. Good(r, at) /\ SameLists(x, r)
      BY <2>own, <2>t, <3>1, ClearKeeps
    <3>3. Mates(r) = Mates(x)
      BY <3>2 DEF Mates
    <3> HIDE DEF r
    <3> QED BY <2>9, <3>1, <3>2, <3>3
  <2>12. ASSUME NEW p \in Player, PointsExpire(p) PROVE PartyInv'
    <3> DEFINE x == parties[party[p]]
               r == [x EXCEPT !.points[p] = "old", !.stale = x.active]
    <3>1. /\ party[p] # NoParty /\ ChangeOwn(p, r)
          /\ UNCHANGED <<online, at, party, invitations>>
      BY <2>12 DEF PointsExpire
    <3>2. Good(x, at)
      BY <2>own, <3>1
    <3>3. /\ r \in Record /\ SameLists(x, r)
          /\ r.active = x.active /\ r.stale = x.active
      BY <3>2 DEF Good, Record, Points
    <3> HIDE DEF r
    <3>4. Good(r, at) /\ Mates(r) = Mates(x)
      BY <3>2, <3>3 DEF Good, Sound, Private, Fits, Mates
    <3> QED BY <2>9, <3>1, <3>3, <3>4
  <2>13. ASSUME NEW p \in Player, NEW on \in BOOLEAN, SetSharedExperience(p, on)
         PROVE  PartyInv'
    <3> DEFINE x == parties[party[p]]
               r == [x EXCEPT !.active = on, !.stale = on]
    <3>1. /\ party[p] # NoParty /\ ChangeOwn(p, r)
          /\ UNCHANGED <<online, at, party, invitations>>
      BY <2>13 DEF SetSharedExperience, Leads
    <3>2. Good(x, at)
      BY <2>own, <3>1
    <3>3. /\ r \in Record /\ SameLists(x, r) /\ r.active = on /\ r.stale = on
      BY <3>2 DEF Good, Record
    <3> HIDE DEF r
    <3>4. Good(r, at) /\ Mates(r) = Mates(x)
      BY <3>2, <3>3 DEF Good, Sound, Private, Fits, Mates
    <3> QED BY <2>9, <3>1, <3>3, <3>4
  <2>14. ASSUME NEW p \in Player, NEW c \in SUBSET Mates(parties[party[p]]),
                party[p] # NoParty,
                parties' = [parties EXCEPT ![party[p]].chat = c],
                UNCHANGED <<online, at, party, invitations>>
         PROVE  PartyInv'
    <3> DEFINE x == parties[party[p]]
               r == [x EXCEPT !.chat = c]
    <3>1. party[p] \in DOMAIN parties /\ Good(x, at)
      BY <2>own, <2>14
    <3>2. c \subseteq Player
      BY <3>1 DEF Good, Record, Mates, Elems
    <3>3. /\ r \in Record /\ r.chat = c /\ r.leader = x.leader
          /\ r.members = x.members /\ r.invited = x.invited
          /\ r.active = x.active /\ r.stale = x.stale
          /\ r.enabled = x.enabled /\ r.points = x.points
      BY <3>1, <3>2 DEF Good, Record
    <3>4. ChangeOwn(p, r)
      BY <2>14, <3>1 DEF ChangeOwn
    <3> HIDE DEF r
    <3>5. Mates(r) = Mates(x) /\ (CanEnable(r, at) <=> CanEnable(x, at))
      BY <3>3 DEF Mates, CanEnable, CanUse
    <3>6. Good(r, at)
      BY <3>1, <3>3, <3>5 DEF Good, Sound, Private, Fits
    <3> QED BY <2>9, <2>14, <3>3, <3>4, <3>5, <3>6
  <2>15. ASSUME NEW p \in Player, OpenChannel(p) PROVE PartyInv'
    <3>1. /\ party[p] # NoParty
          /\ parties' = [parties EXCEPT ![party[p]].chat = @ \cup {p}]
          /\ UNCHANGED <<online, at, party, invitations>>
      BY <2>15 DEF OpenChannel
    <3>2. parties[party[p]].chat \cup {p} \subseteq Mates(parties[party[p]])
      BY <2>own, <3>1 DEF Good, Private
    <3> QED BY <2>14, <3>1, <3>2
  <2>16. ASSUME NEW p \in Player, CloseChannel(p) PROVE PartyInv'
    <3>1. /\ party[p] # NoParty
          /\ parties' = [parties EXCEPT ![party[p]].chat = @ \ {p}]
          /\ UNCHANGED <<online, at, party, invitations>>
      BY <2>16 DEF CloseChannel
    <3>2. parties[party[p]].chat \ {p} \subseteq Mates(parties[party[p]])
      BY <2>own, <3>1 DEF Good, Private
    <3> QED BY <2>14, <3>1, <3>2
  <2>17. CASE UNCHANGED partyVars
    BY <2>17 DEF PartyInv, PartyTypeOK, Mirrors, partyVars
  <2> QED
    BY <2>1, <2>2, <2>3, <2>4, <2>5, <2>6, <2>7, <2>8, <2>10, <2>11, <2>12,
       <2>13, <2>15, <2>16, <2>17 DEF PartyNext
<1> QED BY <1>1, <1>2, PTL DEF PartySpec

\* The lists of parties and the pointers of players mirror each other.
THEOREM PointersMirrorLists == PartySpec => []LinksAgree
<1>1. PartyInv => LinksAgree
  BY DEF PartyInv, Mirrors, Kept, Present, LinksAgree
<1> QED BY <1>1, PartyInvariant, PTL

\* Nobody is twice on a roster, and deserted parties are gone.
THEOREM RostersAreSound == PartySpec => []RostersSound
<1>1. PartyInv => RostersSound
  BY DEF PartyInv, Kept, Good, Sound, Distinct, RostersSound
<1> QED BY <1>1, PartyInvariant, PTL

\* Nobody hears the channel of a party he is not in.
THEOREM ChannelsArePrivate == PartySpec => []ChatIsPrivate
<1>1. PartyInv => ChatIsPrivate
  BY DEF PartyInv, Kept, Good, Private, ChatIsPrivate
<1> QED BY <1>1, PartyInvariant, PTL

\* The cached verdict on sharing is never outdated by anything the code follows.
THEOREM VerdictIsCurrent == PartySpec => []SharingIsCurrent
<1>1. PartyInv => SharingIsCurrent
  BY DEF PartyInv, Kept, Good, Fits, SharingIsCurrent
<1> QED BY <1>1, PartyInvariant, PTL

\* Every pointer, list and record keeps its type.
THEOREM PartyTypes == PartySpec => []PartyTypeOK
<1>1. PartyInv => PartyTypeOK
  BY DEF PartyInv
<1> QED BY <1>1, PartyInvariant, PTL

=============================================================================
