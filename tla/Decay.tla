------------------------------- MODULE Decay -------------------------------
(***************************************************************************)
(* Items that decay: Game::startDecay, Game::internalDecayItem,            *)
(* Game::checkDecay and Game::cleanup (game.cpp), with what transformItem  *)
(* and Item::setID do to an item that may be waiting on the wheel.         *)
(*                                                                         *)
(* The wheel decayItems has one bucket per turn of checkDecay. An item     *)
(* that starts to decay is put on the list toDecayItems; the next cleanup  *)
(* moves it to the bucket of the turn its duration is used up in.          *)
(* ToReleaseThings holds what the next cleanup gives a reference back for. *)
(* A node of any of the three lists is a Listing: entry says which item it *)
(* points to, place which list it is in. The order inside a list is left   *)
(* out: checkDecay treats the items of a bucket one by one, and each touches*)
(* nothing but itself.                                                     *)
(*                                                                         *)
(* An item is the address of an Item object. Time is counted in turns:     *)
(* checkDecay arms itself again for one interval later each time it runs.  *)
(***************************************************************************)
EXTENDS Integers, FiniteSets

CONSTANTS
  Items,          \* addresses of Item objects
  NoItem,         \* the null pointer
  Listings,       \* nodes of the three lists
  Types,          \* item types
  Never, Vanish,  \* decayTo of a type: -1 and 0
  Info,           \* what items.xml says of each type
  Interval,       \* EVENT_DECAYINTERVAL
  Buckets,        \* EVENT_DECAY_BUCKETS
  Made(_)         \* the durations an item of a type is made or loaded with

ASSUME SizesAssumption == /\ Interval \in Nat \ {0}
                          /\ Buckets \in Nat \ {0, 1}
                          /\ IsFiniteSet(Listings)
                          /\ NoItem \notin Items
                          /\ Types \cap {Never, Vanish} = {} /\ Never # Vanish

\* A type has a time if and only if it decays, it decays to another type than
\* itself, and a type that stops the clock does not decay: so items.xml has it.
ASSUME InfoAssumption ==
  /\ Info \in [Types -> [decayTo: Types \cup {Never, Vanish}, decayTime: Nat,
                         stopTime: BOOLEAN, kind: STRING, onTop: BOOLEAN,
                         equipTo: Types \cup {Never}, deEquipTo: Types \cup {Never}]]
  /\ \A t \in Types :
       /\ Info[t].decayTime = 0 <=> Info[t].decayTo = Never
       /\ Info[t].stopTime => Info[t].decayTo = Never
       /\ Info[t].decayTo # t
       /\ Info[t].decayTo \in Types => ~Info[Info[t].decayTo].stopTime
  /\ \A t \in Types : Made(t) \subseteq Nat

\* The places of a listing that are not buckets.
Spare == -1       \* not in use
Joining == -2     \* in toDecayItems
Freeing == -3     \* in ToReleaseThings

NoTime == -1      \* the item has no duration attribute
NoTurn == -1      \* checkDecay is not running

VARIABLES
  type,           \* of each item; Never: there is no object at this address
  inWorld,        \* the item has a parent (isRemoved is false)
  duration,       \* the attribute, or NoTime
  decaying,       \* the item's state is DECAYING_TRUE
  useCount,       \* references to the object
  entry, place,   \* the nodes of the three lists
  last,           \* last_bucket
  turning,        \* the bucket checkDecay walks over, or NoTurn
  seen,           \* the listings of it that it left behind
  starting,       \* startDecay is about to be called with this item
  full, age       \* what is observed: the duration an item started with (NoTime:
                  \* not since it was transformed, or listed twice) and the turns since

object == <<type, inWorld, duration, decaying, useCount>>
lists == <<entry, place>>
clock == <<last, turning, seen>>
observed == <<full, age>>
decayVars == <<type, inWorld, duration, decaying, useCount, entry, place, last, turning, seen,
          starting, full, age>>

BucketSet == 0 .. Buckets - 1

DecayTypeOK ==
  /\ type \in [Items -> Types \cup {Never}]
  /\ inWorld \in [Items -> BOOLEAN]
  /\ duration \in [Items -> Nat \cup {NoTime}]
  /\ decaying \in [Items -> BOOLEAN]
  /\ useCount \in [Items -> Nat]
  /\ entry \in [Listings -> Items \cup {NoItem}]
  /\ place \in [Listings -> BucketSet \cup {Spare, Joining, Freeing}]
  /\ \A l \in Listings : place[l] # Spare => entry[l] \in Items
  /\ last \in BucketSet
  /\ turning \in BucketSet \cup {NoTurn}
  /\ seen \subseteq Listings
  /\ starting \in Items \cup {NoItem}
  /\ full \in [Items -> Nat \cup {NoTime}]
  /\ age \in [Items -> Nat]

DecayInit ==
  /\ type = [i \in Items |-> Never]
  /\ inWorld = [i \in Items |-> FALSE]
  /\ duration = [i \in Items |-> NoTime]
  /\ decaying = [i \in Items |-> FALSE]
  /\ useCount = [i \in Items |-> 0]
  /\ entry = [l \in Listings |-> NoItem]
  /\ place = [l \in Listings |-> Spare]
  /\ last = 0
  /\ turning = NoTurn
  /\ seen = {}
  /\ starting = NoItem
  /\ full = [i \in Items |-> NoTime]
  /\ age = [i \in Items |-> 0]

-----------------------------------------------------------------------------
(* Items and listings *)

Exists(i) == type[i] # Never

\* Item::getDuration: an absent attribute reads as zero.
GetDuration(i) == IF duration[i] = NoTime THEN 0 ELSE duration[i]

\* Item::canDecay
CanDecay(i) == inWorld[i] /\ type[i] \in Types /\ Info[type[i]].decayTo # Never

FullTime(t) == Info[t].decayTime * Interval

ListingsOf(i) == {l \in Listings : entry[l] = i /\ place[l] # Spare}

\* In toDecayItems or on the wheel.
Waits(l) == place[l] \in BucketSet \cup {Joining}

\* A node for one more entry of a list. The pool is what bounds the model.
HasSpare == \E l \in Listings : place[l] = Spare
SpareOne == CHOOSE l \in Listings : place[l] = Spare

\* Less than half an interval: as good as over.
IsOver(d) == d <= (Interval - 1) \div 2
\* Not beyond the reach of the wheel.
IsShort(d) == d <= Interval * (Buckets - 1) + (Interval - 1) \div 2
Rounded(d) == (d + Interval \div 2) \div Interval

\* Nothing else of the game runs inside a handler.
Idle == starting = NoItem /\ turning = NoTurn

\* The bound of the model: a handler is only begun where it finds an address, and a node
\* for the old object and for the new, for each of n items it may come to.
Roomy(n) == /\ Cardinality({i \in Items : ~Exists(i)}) >= n
            /\ Cardinality({l \in Listings : place[l] = Spare}) >= 2 * n
InUse == Cardinality({i \in Items : inWorld[i]})

-----------------------------------------------------------------------------
(* Game::transformItem, in its three forms *)

\* Item::setID gives the full time, unless the clock was only stopped.
Renews(i, t) == FullTime(t) > 0 /\ (~Info[type[i]].stopTime \/ duration[i] = NoTime)

\* Item::setID takes the attributes away from a type that has no use for them.
Strips(t) == FullTime(t) = 0 /\ ~Info[t].stopTime /\ Info[t].decayTo = Never

\* Types of one kind: the object stays and changes its id.
ChangeInPlace(i, t) ==
  /\ Info[type[i]].kind = Info[t].kind /\ Info[type[i]].onTop = Info[t].onTop
  /\ type' = [type EXCEPT ![i] = t]
  /\ duration' = [duration EXCEPT ![i] = IF Renews(i, t) THEN FullTime(t)
                                         ELSE IF Strips(t) THEN NoTime ELSE @]
  /\ decaying' = [decaying EXCEPT ![i] = @ /\ ~Renews(i, t) /\ ~Strips(t)]
  /\ UNCHANGED <<inWorld, useCount>>

\* Otherwise a new object j takes its place. Where an item comes to lie on top of a
\* tile, or no longer does, the attributes are copied, but for the duration.
ReplaceBy(i, j, t) ==
  /\ ~(Info[type[i]].kind = Info[t].kind /\ Info[type[i]].onTop = Info[t].onTop)
  /\ ~Exists(j) /\ type' = [type EXCEPT ![j] = t]
  /\ inWorld' = [inWorld EXCEPT ![i] = FALSE, ![j] = TRUE]
  /\ duration' = [duration EXCEPT ![j] =
                    IF Info[type[i]].onTop # Info[t].onTop \/ FullTime(t) = 0 THEN NoTime
                    ELSE FullTime(t)]
  /\ decaying' = [decaying EXCEPT ![j] = FALSE]
  /\ useCount' = [useCount EXCEPT ![j] = 1]

\* Item i becomes an item of type t at address new; done are the listings given to
\* FreeThing by the caller.
Transform(i, t, new, done) ==
  \/ /\ new = i
     /\ ChangeInPlace(i, t)
     /\ place' = [l \in Listings |-> IF l \in done THEN Freeing ELSE place[l]]
     /\ UNCHANGED entry
  \/ /\ HasSpare
     /\ ReplaceBy(i, new, t)
     /\ place' = [l \in Listings |-> IF l \in done \cup {SpareOne} THEN Freeing ELSE place[l]]
     /\ entry' = [entry EXCEPT ![SpareOne] = i]

\* Game::internalRemoveItem
RemoveItem(i, done) ==
  /\ HasSpare
  /\ inWorld' = [inWorld EXCEPT ![i] = FALSE]
  /\ place' = [l \in Listings |-> IF l \in done \cup {SpareOne} THEN Freeing ELSE place[l]]
  /\ entry' = [entry EXCEPT ![SpareOne] = i]
  /\ UNCHANGED <<type, duration, decaying, useCount>>

\* Game::internalDecayItem: startDecay is called with what the item became.
DecayItem(i, done) ==
  IF Info[type[i]].decayTo = Vanish
  THEN RemoveItem(i, done) /\ starting' = NoItem
  ELSE \E new \in Items : Transform(i, Info[type[i]].decayTo, new, done) /\ starting' = new

Forget(i) == full' = [full EXCEPT ![i] = NoTime] /\ age' = [age EXCEPT ![i] = 0]

-----------------------------------------------------------------------------
(* What the rest of the game does to items *)

\* An item is made, or loaded with what is left of its duration. Most callers start its
\* decay at once, a script may not.
NewItem(i, t, d, starts) ==
  /\ Idle
  /\ ~Exists(i) /\ Roomy(InUse + 2)
  /\ d \in Made(t)
  /\ type' = [type EXCEPT ![i] = t]
  /\ inWorld' = [inWorld EXCEPT ![i] = TRUE]
  /\ duration' = [duration EXCEPT ![i] = IF d = 0 THEN NoTime ELSE d]
  /\ decaying' = [decaying EXCEPT ![i] = FALSE]
  /\ useCount' = [useCount EXCEPT ![i] = 1]
  /\ starting' = IF starts THEN i ELSE NoItem
  /\ Forget(i)
  /\ UNCHANGED <<lists, clock>>

\* A script starts the decay of an item (doDecayItem).
ScriptDecay(i) ==
  /\ Idle /\ inWorld[i] /\ Roomy(InUse + 1)
  /\ starting' = i
  /\ UNCHANGED <<object, lists, clock, observed>>

\* An item is used up, eaten, swept away.
Remove(i) ==
  /\ Idle /\ inWorld[i]
  /\ RemoveItem(i, {})
  /\ Forget(i)
  /\ UNCHANGED <<starting, clock>>

\* MoveEvent::EquipItem: what the item became starts to decay.
Equip(i, new) ==
  /\ Idle /\ inWorld[i] /\ Info[type[i]].equipTo # Never /\ Roomy(InUse + 1)
  /\ Transform(i, Info[type[i]].equipTo, new, {})
  /\ starting' = new
  /\ Forget(i)
  /\ UNCHANGED clock

\* MoveEvent::DeEquipItem: startDecay is called with the item as it was.
DeEquip(i, new) ==
  /\ Idle /\ inWorld[i] /\ Info[type[i]].deEquipTo # Never /\ Roomy(InUse + 1)
  /\ Transform(i, Info[type[i]].deEquipTo, new, {})
  /\ starting' = i
  /\ Forget(i)
  /\ UNCHANGED clock

\* A script transforms an item (doTransformItem); ScriptDecay may follow.
ScriptTransform(i, t, new) ==
  /\ Idle /\ inWorld[i] /\ type[i] # t /\ Roomy(InUse + 1)
  /\ Transform(i, t, new, {})
  /\ Forget(i)
  /\ UNCHANGED <<starting, clock>>

-----------------------------------------------------------------------------
(* Game::startDecay *)

StartRefused ==
  /\ starting # NoItem
  /\ ~CanDecay(starting) \/ decaying[starting]
  /\ starting' = NoItem
  /\ UNCHANGED <<object, lists, clock, observed>>

X_StartListed ==
  /\ starting # NoItem /\ CanDecay(starting) /\ ~decaying[starting]
  /\ ~IsOver(GetDuration(starting))
  /\ HasSpare
  /\ decaying' = [decaying EXCEPT ![starting] = TRUE]
  /\ entry' = [entry EXCEPT ![SpareOne] = starting]
  /\ place' = [place EXCEPT ![SpareOne] = Joining]
  /\ full' = [full EXCEPT ![starting] =
                IF \E l \in ListingsOf(starting) : Waits(l) THEN NoTime ELSE GetDuration(starting)]
  /\ age' = [age EXCEPT ![starting] = 0]
  /\ starting' = NoItem
  /\ UNCHANGED <<type, inWorld, duration, useCount, clock>>

StartListed ==
  /\ starting # NoItem /\ CanDecay(starting) /\ ~decaying[starting]
  /\ ~IsOver(GetDuration(starting))
  /\ HasSpare
  /\ useCount' = [useCount EXCEPT ![starting] = @ + 1]
  /\ decaying' = [decaying EXCEPT ![starting] = TRUE]
  /\ entry' = [entry EXCEPT ![SpareOne] = starting]
  /\ place' = [place EXCEPT ![SpareOne] = Joining]
  /\ full' = [full EXCEPT ![starting] =
                IF \E l \in ListingsOf(starting) : Waits(l) THEN NoTime ELSE GetDuration(starting)]
  /\ age' = [age EXCEPT ![starting] = 0]
  /\ starting' = NoItem
  /\ UNCHANGED <<type, inWorld, duration, clock>>

StartOver ==
  /\ starting # NoItem /\ CanDecay(starting) /\ ~decaying[starting]
  /\ IsOver(GetDuration(starting))
  /\ DecayItem(starting, {})
  /\ Forget(starting)
  /\ UNCHANGED clock

-----------------------------------------------------------------------------
(* Game::checkDecay and Game::cleanup *)

BeginTurn ==
  /\ Idle
  /\ turning' = (last + 1) % Buckets
  /\ seen' = {}
  /\ UNCHANGED <<object, lists, last, starting, observed>>

\* The duration is charged for a whole turn of the wheel.
Left(i) == IF GetDuration(i) > Interval * Buckets
           THEN GetDuration(i) - Interval * Buckets ELSE 0

Charged(i) == [duration EXCEPT ![i] = Left(i)]

InTurn(l) == turning # NoTurn /\ starting = NoItem /\ place[l] = turning /\ l \notin seen

X_VisitLost(l) ==
  /\ InTurn(l)
  /\ ~CanDecay(entry[l])
  /\ duration' = Charged(entry[l])
  /\ place' = [place EXCEPT ![l] = Freeing]
  /\ Forget(entry[l])
  /\ UNCHANGED <<type, inWorld, decaying, useCount, entry, clock, starting>>

\* The item was removed, or is of a type that does not decay.
VisitLost(l) ==
  /\ InTurn(l)
  /\ ~CanDecay(entry[l])
  /\ duration' = Charged(entry[l])
  /\ decaying' = [decaying EXCEPT ![entry[l]] = FALSE]
  /\ place' = [place EXCEPT ![l] = Freeing]
  /\ Forget(entry[l])
  /\ UNCHANGED <<type, inWorld, useCount, entry, clock, starting>>

\* Its time is over. The duration it is charged for goes with its old type.
VisitOver(l) ==
  /\ InTurn(l)
  /\ CanDecay(entry[l]) /\ IsOver(Left(entry[l]))
  /\ DecayItem(entry[l], {l})
  /\ Forget(entry[l])
  /\ UNCHANGED clock

\* It has less than a turn of the wheel left.
NewBucket(d) == (turning + Rounded(d)) % Buckets

VisitShort(l) ==
  /\ InTurn(l)
  /\ CanDecay(entry[l]) /\ ~IsOver(Left(entry[l])) /\ IsShort(Left(entry[l]))
  /\ duration' = Charged(entry[l])
  /\ place' = [place EXCEPT ![l] = NewBucket(Left(entry[l]))]
  /\ UNCHANGED <<type, inWorld, decaying, useCount, entry, clock, starting, observed>>

\* It stays where it is.
VisitLong(l) ==
  /\ InTurn(l)
  /\ CanDecay(entry[l]) /\ ~IsShort(Left(entry[l]))
  /\ duration' = Charged(entry[l])
  /\ seen' = seen \cup {l}
  /\ UNCHANGED <<type, inWorld, decaying, useCount, lists, last, turning, starting, observed>>

X_FirstBucket(base, d) == (base + Rounded(d)) % Buckets

\* The bucket cleanup puts an item in, base being the last one checked.
FirstBucket(base, d) ==
  IF IsShort(d) THEN (base + 1 + Rounded(d)) % Buckets ELSE base

Released(i) == Cardinality({l \in Listings : entry[l] = i /\ place[l] = Freeing})

\* Thing::releaseThing2 deletes the object with its last reference.
LosesLast(i) == Released(i) > 0 /\ useCount[i] <= Released(i)

\* Game::cleanup, when the last bucket checked is base.
CleanUp(base) ==
  /\ useCount' = [i \in Items |-> IF LosesLast(i) THEN 0 ELSE useCount[i] - Released(i)]
  /\ type' = [i \in Items |-> IF LosesLast(i) THEN Never ELSE type[i]]
  /\ inWorld' = [i \in Items |-> ~LosesLast(i) /\ inWorld[i]]
  /\ duration' = [i \in Items |-> IF LosesLast(i) THEN NoTime ELSE duration[i]]
  /\ decaying' = [i \in Items |-> ~LosesLast(i) /\ decaying[i]]
  /\ place' = [l \in Listings |->
                IF place[l] = Freeing THEN Spare
                ELSE IF place[l] = Joining THEN FirstBucket(base, GetDuration(entry[l]))
                ELSE place[l]]
  /\ entry' = [l \in Listings |-> IF place[l] \in {Freeing, Spare} THEN NoItem ELSE entry[l]]

EndTurn ==
  /\ turning # NoTurn /\ starting = NoItem
  /\ \A l \in Listings : ~InTurn(l)
  /\ last' = turning
  /\ CleanUp(turning)
  /\ turning' = NoTurn /\ seen' = {}
  /\ age' = [i \in Items |-> IF full[i] = NoTime THEN 0 ELSE age[i] + 1]
  /\ UNCHANGED <<starting, full>>

\* cleanup also runs after each round of checkCreatures, and elsewhere.
OtherCleanUp ==
  /\ Idle
  /\ CleanUp(last)
  /\ UNCHANGED <<clock, starting, observed>>

-----------------------------------------------------------------------------

DecayNext ==
  \/ \E i \in Items, t \in Types : \E d \in Made(t), starts \in BOOLEAN : NewItem(i, t, d, starts)
  \/ \E i \in Items : ScriptDecay(i) \/ Remove(i)
  \/ \E i, new \in Items : Equip(i, new) \/ DeEquip(i, new)
  \/ \E i, new \in Items, t \in Types : ScriptTransform(i, t, new)
  \/ StartRefused \/ StartListed \/ StartOver
  \/ BeginTurn \/ EndTurn \/ OtherCleanUp
  \/ \E l \in Listings : VisitLost(l) \/ VisitOver(l) \/ VisitShort(l) \/ VisitLong(l)

DecaySpec == DecayInit /\ [][DecayNext]_decayVars

-----------------------------------------------------------------------------
(* Properties *)

\* The references of an object are the one of its place in the world and one for each
\* list that points to it, so that no list ever points to an object that was deleted:
\* what FreeThing gives back, startDecay or the creation of the item had taken.
RefsExact ==
  \A i \in Items :
    /\ useCount[i] = (IF inWorld[i] THEN 1 ELSE 0) + Cardinality(ListingsOf(i))
    /\ Exists(i) <=> useCount[i] > 0

\* An item that says it is decaying is on the wheel or about to be: otherwise startDecay
\* would refuse it for ever, and it would never decay.
DecayingIsListed ==
  \A i \in Items : decaying[i] /\ inWorld[i] => \E l \in ListingsOf(i) : Waits(l)

\* The time of an item that started once, and was not transformed since, is over close to
\* its duration, however often the wheel goes round: not before a half and not after one
\* and a half intervals where the wheel reaches that far, not before one and a half and
\* not after a half where the item stays on it for more than a round.
ComesDue(i) == \E l \in Listings : /\ entry[l] = i /\ InTurn(l) /\ CanDecay(i)
                                   /\ place'[l] = Freeing

OnTime(i) ==
  /\ IsShort(full[i]) => /\ 2 * age[i] * Interval >= 2 * full[i] - Interval
                         /\ 2 * age[i] * Interval <= 2 * full[i] + 3 * Interval
  /\ ~IsShort(full[i]) => /\ 2 * age[i] * Interval >= 2 * full[i] - 3 * Interval
                          /\ 2 * age[i] * Interval <= 2 * full[i] + Interval

DecaysOnTime == [][\A i \in Items : full[i] # NoTime /\ ComesDue(i) => OnTime(i)]_decayVars
=============================================================================
