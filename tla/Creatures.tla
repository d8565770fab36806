----------------------------- MODULE Creatures -----------------------------
(***************************************************************************)
(* Players, monsters and their summons: who sees, attacks and follows whom *)
(* (creature.cpp, monster.cpp), who is awake, how creatures are placed and *)
(* removed and die (game.cpp), the list of creatures that checkCreatures   *)
(* goes through, and one block of a spawn (spawn.cpp).                     *)
(*                                                                         *)
(* What happens to a creature is told to its spectators by hooks.  They    *)
(* keep the target lists, wake and put to sleep, and drop the raw pointers *)
(* attackedCreature, followCreature and master, which hold no reference.   *)
(*                                                                         *)
(* A creature object exists while somebody holds it: the world, the check  *)
(* list, a target list, the spawn, or the list of things to release; its   *)
(* address is used again after that.                                       *)
(***************************************************************************)
EXTENDS Naturals, FiniteSets

CONSTANTS
    Player, Monster,   \* addresses of the objects of the two classes
    Nobody,            \* the NULL pointer
    Place,
    Sees,              \* pairs of places within a viewport (canSee on one floor)
    Afar,              \* pairs of places more than 30 tiles or 2 floors apart
    Home,              \* the place of the spawn's block
    Roaming,           \* the places its monster may be at without being despawned
    MaxSummons,        \* how many summons a caster may have, 2 in the code
    MaxVector          \* a bound: how many creatures a check vector may hold

Creature == Player \cup Monster

ASSUME CreatureConstants ==
    /\ Player \cap Monster = {} /\ Nobody \notin Creature
    /\ Sees \subseteq Place \X Place /\ Afar \subseteq Place \X Place
    /\ \A a \in Place : <<a, a>> \in Sees
    /\ \A v \in Sees : <<v[2], v[1]>> \in Sees
    /\ Home \in Place /\ Roaming \subseteq Place
    /\ MaxSummons \in Nat /\ MaxVector \in Nat

VARIABLES
    life,      \* "alive", "dying" (no health left, still in the world) or "gone"
    pos,
    master,
    attacked,  \* attackedCreature
    follow,    \* followCreature
    targets,   \* targetList of each monster
    idle,      \* isIdle
    inRange,   \* isMasterInRange
    listed,    \* the creatures in a check vector
    checked,   \* creatureCheck: those of them not about to leave it
    turn,      \* the creatures the turn of checkCreatures has yet to visit
    pending,   \* ToReleaseThings: a reference of these goes at the next cleanup
    block,     \* the monster spawnedMap has for the block
    armed      \* a checkSpawn event is scheduled

aims == <<attacked, follow>>
minds == <<targets, idle, inRange>>
spawnVars == <<block, armed>>
vars == <<life, pos, master, aims, minds, listed, checked, turn, pending, spawnVars>>

InWorld == {c \in Creature : life[c] # "gone"}
View(a, b) == <<a, b>> \in Sees
Watchers(places) == {o \in InWorld : \E a \in places : View(pos[o], a)}
Summons(c) == {s \in Monster : master[s] = c}

\* Nothing refers to the object any more: its memory may be used for another.
Unused(c) ==
    /\ life[c] = "gone" /\ c \notin listed \cup pending /\ block # c
    /\ \A m \in Monster : c \notin targets[m]

\* Monster::isOpponent, with the masters ms.
Opponent(m, x, ms) ==
    IF ms[m] \in Player THEN x # ms[m]
    ELSE x \in Player \/ ms[x] \in Player

\* A variant: the list is weeded and not filled.
X_Surveyed(m, at, seen, ms) == {x \in targets[m] \cap seen : View(at, pos[x])}

\* The targets of m at a place after updateTargetList, among the creatures in seen.
Surveyed(m, at, seen, ms) ==
    LET inView == {x \in seen \ {m} : View(at, pos[x])}
    IN  {x \in inView : Opponent(m, x, ms) \/ (x \in targets[m] /\ life[x] = "alive")}

-----------------------------------------------------------------------------
(* Sleeping and waking.  The operators below read life', master' and       *)
(* inRange', which an action sets first.                                   *)

\* A variant: who is still in a vector, about to leave it, is not marked again.
X_Check(on, off) ==
    /\ checked' = {c \in (on \ listed) \cup (checked \ off) : life'[c] # "gone"}
    /\ listed' = listed \cup on

\* Game::addCreatureCheck for those in on, removeCreatureCheck for those in off.
Check(on, off) ==
    /\ checked' = {c \in on \cup (checked \ off) : life'[c] # "gone"}
    /\ listed' = listed \cup on

\* The verdict of Monster::updateIdleStatus for a monster with the targets tg[m].  A
\* summon's master is a spectator as well: early, if the summon's hook ran first.
MayRest(m, tg, heard, early) ==
    LET mm == master'[m] IN
    \/ mm = Nobody /\ tg[m] = {}
    \/ mm # Nobody /\ ~inRange'[m]
    \/ mm \in Monster /\ IF early \/ mm \notin heard THEN idle[mm] ELSE tg[mm] = {}

\* Monster::setIdle(false) does nothing for a monster without health.
Wakeable(m) == life'[m] = "alive"

\* The monsters in heard run updateIdleStatus with the target lists tg, those in hurt
\* were woken by changeHealth, those in added were put on the check list.
Settle(heard, tg, hurt, added) ==
    LET able == {m \in heard : Wakeable(m)}
        gone == {m \in Monster : life'[m] = "gone"}
    IN  \E early \in {FALSE, \E m \in able : master'[m] \in able} :
        LET asleep == {m \in able : MayRest(m, tg, able, early)}
        IN  /\ idle' = [m \in Monster |->
                          IF m \in asleep \cup gone THEN TRUE
                          ELSE IF m \in able \cup hurt THEN FALSE ELSE idle[m]]
            /\ targets' = [m \in Monster |-> IF m \in asleep \cup gone THEN {} ELSE tg[m]]
            /\ Check((able \ asleep) \cup hurt \cup added, asleep)

-----------------------------------------------------------------------------
(* Aims.                                                                   *)

\* setAttackedCreature(NULL) for those in who, which goes on to their summons.
Disarmed(att, who, ms) ==
    [o \in Creature |-> IF o \in who \/ ms[o] \in who THEN Nobody ELSE att[o]]

\* A variant: the summons are not asked what they see.
X_Commanded(att, who, x, at) ==
    [o \in Creature |-> IF o \in who \/ master[o] \in who THEN x ELSE att[o]]

\* setAttackedCreature(x) for those in who: their summons attack x too if they see it,
\* and nobody else if they do not.  at is where everybody is.
Commanded(att, who, x, at) ==
    [o \in Creature |-> IF o \in who THEN x
                        ELSE IF master[o] \notin who THEN att[o]
                        ELSE IF View(at[o], at[x]) THEN x ELSE Nobody]

\* Things to release: everything goes at the end of a turn of checkCreatures.
Release(R) == pending' = IF turn # {} /\ turn' = {} THEN {} ELSE pending \cup R

-----------------------------------------------------------------------------
(* Placing and removing.                                                   *)

\* Game::placeCreature: c appears at a place, the summon of m if m is a creature.
Appear(c, at, m) ==
    LET ms    == [master EXCEPT ![c] = m]
        seers == Watchers({at})
        mine  == {x \in seers : Opponent(c, x, ms)}
        tg    == [o \in Monster |->
                    IF o = c THEN mine
                    ELSE IF o \in seers /\ Opponent(o, c, ms) THEN targets[o] \cup {c}
                    ELSE targets[o]]
    IN  /\ life' = [life EXCEPT ![c] = "alive"]
        /\ pos' = [pos EXCEPT ![c] = at]
        /\ master' = ms
        /\ inRange' = [o \in Monster |-> IF o = c THEN m # Nobody /\ View(at, pos[m])
                                         ELSE inRange[o]]
        /\ Settle((seers \cup {c}) \cap Monster, tg, {}, {c})

\* Monster::onCreatureLeave: what is left of m's targets when those in R go.
Remaining(m, R, ms) ==
    targets[m] \ {x \in R : View(pos[m], pos[x]) /\ Opponent(m, x, ms)}

\* A variant: only the spawn's own check arms the next.
X_Rearmed(R) == armed

\* Spawn::startSpawnCheck, called by a monster of the spawn that is removed.
Rearmed(R) == armed \/ block \in R

\* Game::removeCreature for those in R, a creature and its summons.  Before, the
\* masters had been changed to ms, and those in hurt had lost their last health.
Vanish(R, ms, hurt) ==
    LET lost(aim) == {o \in InWorld : aim[o] \in R /\ View(pos[o], pos[aim[o]])}
        tg == [m \in Monster |-> IF m \in InWorld THEN Remaining(m, R, ms) ELSE {}]
    IN  /\ life' = [c \in Creature |-> IF c \in R THEN "gone"
                                       ELSE IF c \in hurt THEN "dying" ELSE life[c]]
        /\ pos' = [c \in Creature |-> IF c \in R THEN Home ELSE pos[c]]
        /\ master' = [c \in Creature |-> IF c \in R THEN Nobody ELSE ms[c]]
        /\ attacked' = Disarmed(attacked, lost(attacked) \cup R \cup hurt, ms)
        /\ follow' = [o \in Creature |-> IF o \in lost(follow) \cup R THEN Nobody
                                         ELSE follow[o]]
        /\ inRange' = [m \in Monster |-> m \notin R /\ inRange[m]]
        /\ Settle({m \in Monster \ R : tg[m] = {} /\ targets[m] # {}}, tg,
                  {s \in hurt : life[s] = "alive"}, {})
        /\ armed' = Rearmed(R)
        /\ Release(R)
        /\ UNCHANGED block

\* Creature::destroySummons, for the masters that remain.
Freed(c) == [s \in Creature |-> IF master[s] = c THEN Nobody ELSE master[s]]

\* Monster::die kills the summons, a player's are removed with him.
Die(c) == IF c \in Player THEN Vanish({c} \cup Summons(c), master, {})
          ELSE Vanish({c}, Freed(c), Summons(c))

-----------------------------------------------------------------------------
(* Handlers of the game, each one task of the dispatcher.                  *)

\* No turn of checkCreatures is under way; it is one task.
Between == turn = {} /\ turn' = turn

Quiet == UNCHANGED <<spawnVars, pending>>

\* A player enters the game.
Login(p, at) ==
    /\ Between /\ Unused(p)
    /\ Appear(p, at, Nobody)
    /\ UNCHANGED aims /\ Quiet

\* A logout or a kick, and whatever a script removes.
RemoveCreature(c) ==
    /\ Between /\ c \in InWorld
    /\ Vanish({c} \cup Summons(c), master, {})

\* The monsters that may pick c when they see it move and follow nobody yet.
Keen(c, to, told, R) ==
    {m \in told \ (R \cup {c}) : /\ m \in Monster /\ master[m] = Nobody
                                 /\ follow[m] \in R \cup {Nobody}
                                 /\ View(pos[m], to) /\ Opponent(m, c, master)}

\* A creature walks, is pushed or teleported: Tile::moveCreature and the hooks
\* onCreatureMove.  Summons left too far behind are removed.  isTarget may refuse c for
\* what is left out (protection zones, invisibility), so that not all the keen hunt it.
Move(c, to) ==
    LET R    == {s \in Summons(c) : <<pos[s], to>> \in Afar}
        at   == [pos EXCEPT ![c] = to]
        told == Watchers({pos[c], to})
        lost(aim) == {o \in InWorld : \/ aim[o] \in R /\ View(pos[o], pos[aim[o]])
                                      \/ /\ o \in told /\ aim[o] # Nobody
                                         /\ c \in {o, aim[o]}
                                         /\ ~View(at[o], at[aim[o]])}
        enters(m) == ~View(pos[m], pos[c]) /\ View(pos[m], to) /\ Opponent(m, c, master)
        leaves(m) == ~View(pos[m], to)
        tg == [m \in Monster |->
                 IF m = c THEN Surveyed(c, to, InWorld \ R, master)
                 ELSE IF m \notin InWorld THEN {}
                 ELSE IF leaves(m) THEN Remaining(m, R \cup {c}, master)
                 ELSE Remaining(m, R, master) \cup (IF enters(m) THEN {c} ELSE {})]
    IN  /\ Between /\ c \in InWorld /\ to # pos[c]
        /\ life' = [x \in Creature |-> IF x \in R THEN "gone" ELSE life[x]]
        /\ pos' = [x \in Creature |-> IF x \in R THEN Home ELSE at[x]]
        /\ master' = [x \in Creature |-> IF x \in R THEN Nobody ELSE master[x]]
        /\ inRange' = [m \in Monster |->
             IF m = c THEN master[c] # Nobody /\ View(to, pos[master[c]])
             ELSE IF m \in R THEN FALSE
             ELSE IF m \in told /\ master[m] = c THEN View(pos[m], to) ELSE inRange[m]]
        /\ Settle({m \in Monster : m \in told \/ (tg[m] = {} /\ targets[m] # {})},
                  tg, {}, {})
        /\ \E hunters \in SUBSET {m \in Keen(c, to, told, R) : c \in targets'[m]} :
             /\ attacked' = Commanded(Disarmed(attacked, lost(attacked) \cup R, master),
                                      hunters, c, at)
             /\ follow' = [o \in Creature |->
                             IF o \in hunters THEN c
                             ELSE IF o \in lost(follow) \cup R THEN Nobody ELSE follow[o]]
        /\ Release(R)
        /\ UNCHANGED spawnVars

\* Damage, or anything else that calls changeHealth: it wakes a monster first.
Hit(c, fatal) ==
    /\ Between /\ life[c] = "alive" /\ (fatal \/ c \in Monster)
    /\ life' = [life EXCEPT ![c] = IF fatal THEN "dying" ELSE @]
    /\ idle' = [m \in Monster |-> m # c /\ idle[m]]
    /\ IF c \in Monster THEN Check({c}, {}) ELSE UNCHANGED <<listed, checked>>
    /\ UNCHANGED <<pos, master, aims, targets, inRange>> /\ Quiet

\* playerSetAttackedCreature: the chase mode decides whether p follows x as well.
AttackCreature(p, x) ==
    /\ Between /\ {p, x} \subseteq InWorld /\ p # x
    /\ IF View(pos[p], pos[x])
       THEN /\ attacked' = Commanded(attacked, {p}, x, pos)
            /\ \E y \in {x, Nobody} : follow' = [follow EXCEPT ![p] = y]
       ELSE /\ attacked' = [attacked EXCEPT ![p] = Nobody]
            /\ UNCHANGED follow
    /\ UNCHANGED <<life, pos, master, minds, listed, checked>> /\ Quiet

\* playerFollowCreature; playerSetAttackedCreature for no creature, as Nobody.
FollowCreature(p, x) ==
    /\ Between /\ p \in InWorld /\ x \in (InWorld \ {p}) \cup {Nobody}
    /\ attacked' = Disarmed(attacked, {p}, master)
    /\ follow' = [follow EXCEPT ![p] = IF x = Nobody THEN x
                                       ELSE IF View(pos[p], pos[x]) THEN x ELSE Nobody]
    /\ UNCHANGED <<life, pos, master, minds, listed, checked>> /\ Quiet

\* Monster::challengeCreature: a monster of the wild is made to attack x.
Challenge(m, x) ==
    /\ Between /\ m \in InWorld /\ master[m] = Nobody
    /\ x \in targets[m] \cap InWorld /\ View(pos[m], pos[x])
    /\ attacked' = Commanded(attacked, {m}, x, pos)
    /\ follow' = [follow EXCEPT ![m] = x]
    /\ UNCHANGED <<life, pos, master, minds, listed, checked>> /\ Quiet

\* A player summons m, or a script does for him.
CastSummon(p, m) ==
    /\ Between /\ p \in InWorld /\ Unused(m)
    /\ Cardinality(Summons(p)) < MaxSummons
    /\ Appear(m, pos[p], p)
    /\ UNCHANGED aims /\ Quiet

\* Monster::convinceCreature: m leaves its spawn or its old master and goes with p, its
\* own summons die, and everybody around looks about anew.
Convince(p, m) ==
    LET ms   == [Freed(m) EXCEPT ![m] = p]
        told == Watchers({pos[m], pos[p]}) \cup {m}
    IN  /\ Between /\ {p, m} \subseteq InWorld /\ master[m] # p
        /\ View(pos[p], pos[m]) /\ Cardinality(Summons(p)) < MaxSummons
        /\ life' = [c \in Creature |-> IF c \in Summons(m) THEN "dying" ELSE life[c]]
        /\ master' = ms
        /\ attacked' = Disarmed(attacked, {m} \cup Summons(m), master)
        /\ follow' = [follow EXCEPT ![m] = Nobody]
        /\ inRange' = [inRange EXCEPT ![m] = TRUE]
        /\ Settle(told \cap Monster,
                  [o \in Monster |-> IF o \in told THEN Surveyed(o, pos[o], InWorld, ms)
                                     ELSE targets[o]],
                  {s \in Summons(m) : life[s] = "alive"}, {})
        /\ block' = IF block = m THEN Nobody ELSE block
        /\ armed' = (armed \/ block = m)
        /\ UNCHANGED <<pos, pending>>

-----------------------------------------------------------------------------
(* Spawn.                                                                  *)

\* Spawn::checkSpawn: the monster that is gone makes room for another, which comes when
\* its time is up and no player sees the place.
CheckSpawn ==
    /\ Between /\ armed
    /\ \/ /\ block \in InWorld
          /\ armed' = FALSE
          /\ UNCHANGED <<life, pos, master, aims, minds, listed, checked, block>>
       \/ /\ block \notin InWorld
          /\ block' = Nobody /\ armed' = TRUE
          /\ UNCHANGED <<life, pos, master, aims, minds, listed, checked>>
       \/ \E m \in Monster :
            /\ block \notin InWorld /\ Unused(m)
            /\ Watchers({Home}) \cap Player = {}
            /\ Appear(m, Home, Nobody)
            /\ block' = m /\ armed' = FALSE
            /\ UNCHANGED aims
    /\ UNCHANGED pending

-----------------------------------------------------------------------------
(* Game::checkCreatures: a turn visits the creatures of one of the ten     *)
(* vectors, and ends with a cleanup.  Which vector a creature is in is     *)
(* chosen at random.                                                       *)

BeginTurn(S) ==
    /\ turn = {} /\ S # {} /\ S \subseteq listed /\ Cardinality(S) <= MaxVector
    /\ turn' = S
    /\ UNCHANGED <<life, pos, master, aims, minds, listed, checked, pending, spawnVars>>

Visits(c) == c \in turn /\ turn' = turn \ {c}

\* c leaves the list.
Unlist(c) ==
    /\ Visits(c) /\ c \notin checked
    /\ listed' = listed \ {c}
    /\ Release({c})
    /\ UNCHANGED <<life, pos, master, aims, minds, checked, spawnVars>>

\* Creature::onDie.
Bury(c) == Visits(c) /\ c \in checked /\ life[c] = "dying" /\ Die(c)

Thinks(c) == Visits(c) /\ c \in checked /\ life[c] = "alive"

\* Creature::onThink: c may find that it does not see x any more, which it aims at.
LosesSight(c, x) ==
    /\ attacked' = IF attacked[c] = x THEN Disarmed(attacked, {c}, master) ELSE attacked
    /\ follow' = IF follow[c] = x \/ (c \in Player /\ attacked[c] = x)
                 THEN [follow EXCEPT ![c] = Nobody] ELSE follow

PlayerThinks(p) ==
    /\ Thinks(p)
    /\ \/ UNCHANGED aims
       \/ \E x \in {attacked[p], follow[p]} : LosesSight(p, x)
    /\ Release({})
    /\ UNCHANGED <<life, pos, master, minds, listed, checked, spawnVars>>

Despawn(m) ==
    /\ Thinks(m) /\ block = m /\ pos[m] \notin Roaming
    /\ Vanish({m} \cup Summons(m), master, {})

Stays(m) == Thinks(m) /\ ~(block = m /\ pos[m] \notin Roaming)

\* isTarget and membership of the target list, as selectTarget asks for them.
Selectable(m) == {x \in targets'[m] \cap InWorld : View(pos[m], pos[x])}

\* What an awake summon does about its aims in Monster::onThink.
FollowOrders(m) ==
    LET mm == master[m]  a == attacked[m]  f == follow[m]
        heed(x) == follow' = [follow EXCEPT ![m] = IF View(pos[m], pos[x]) THEN x ELSE Nobody]
    IN  IF a = Nobody
        THEN IF attacked[mm] # Nobody
             THEN \/ UNCHANGED aims
                  \/ /\ attacked[mm] \in Selectable(m)
                     /\ attacked' = [attacked EXCEPT ![m] = attacked[mm]]
                     /\ heed(attacked[mm])
             ELSE IF mm # f THEN heed(mm) /\ UNCHANGED attacked ELSE UNCHANGED aims
        ELSE /\ UNCHANGED attacked
             /\ IF a = m THEN follow' = [follow EXCEPT ![m] = Nobody]
                ELSE IF f # a THEN heed(a) ELSE UNCHANGED follow

\* What an awake monster of the wild does: searchTarget, which may find nobody.
Hunt(m) ==
    \/ UNCHANGED aims
    \/ \E x \in Selectable(m) : /\ attacked' = Commanded(attacked, {m}, x, pos)
                                /\ follow' = [follow EXCEPT ![m] = x]

\* Monster::onThink.  A summon that finds no path drops whom it follows from its targets.
MonsterThinks(m) ==
    /\ Stays(m)
    /\ UNCHANGED <<life, pos, master, inRange, spawnVars>>
    /\ \E hopeless \in {{}, IF master[m] = Nobody THEN {} ELSE {follow[m]} \ {Nobody}} :
         /\ Settle({m}, [targets EXCEPT ![m] = @ \ hopeless], {}, {})
    /\ \/ \E x \in {attacked[m], follow[m]} \ {master[m]} : LosesSight(m, x)
       \/ IF idle'[m] THEN UNCHANGED aims
          ELSE IF master[m] # Nobody THEN FollowOrders(m) ELSE Hunt(m)
    /\ Release({})

\* Monster::onThinkDefense: a monster of the wild in a fight summons another.
Reinforce(m, s) ==
    /\ Stays(m) /\ master[m] = Nobody /\ targets[m] # {} /\ attacked[m] # Nobody
    /\ Unused(s)
    /\ Appear(s, pos[m], m)
    /\ Release({})
    /\ UNCHANGED <<aims, spawnVars>>

\* Game::checkDecay ends with a cleanup as well.
CleanUp ==
    /\ Between /\ pending # {}
    /\ pending' = {}
    /\ UNCHANGED <<life, pos, master, aims, minds, listed, checked, spawnVars>>

-----------------------------------------------------------------------------
(* Specification.  Spawn::startup places the first monster without hooks.  *)

Init ==
    /\ \E m \in Monster :
         /\ block = m
         /\ life = [c \in Creature |-> IF c = m THEN "alive" ELSE "gone"]
    /\ pos = [c \in Creature |-> Home]
    /\ master = [c \in Creature |-> Nobody]
    /\ attacked = master /\ follow = master
    /\ targets = [m \in Monster |-> {}]
    /\ idle = [m \in Monster |-> TRUE]
    /\ inRange = [m \in Monster |-> FALSE]
    /\ listed = {} /\ checked = {} /\ turn = {} /\ pending = {}
    /\ armed = FALSE

Turn ==
    \/ \E c \in Creature : Unlist(c) \/ Bury(c)
    \/ \E p \in Player : PlayerThinks(p)
    \/ \E m \in Monster : Despawn(m) \/ MonsterThinks(m)
    \/ \E m, s \in Monster : Reinforce(m, s)

Next ==
    \/ \E p \in Player, at \in Place : Login(p, at)
    \/ \E c \in Creature : RemoveCreature(c)
    \/ \E c \in Creature, to \in Place : Move(c, to)
    \/ \E c \in Creature, fatal \in BOOLEAN : Hit(c, fatal)
    \/ \E p \in Player, x \in Creature : AttackCreature(p, x)
    \/ \E p \in Player, x \in Creature \cup {Nobody} : FollowCreature(p, x)
    \/ \E m \in Monster, x \in Creature : Challenge(m, x)
    \/ \E p \in Player, m \in Monster : CastSummon(p, m) \/ Convince(p, m)
    \/ CheckSpawn
    \/ \E S \in SUBSET Creature : BeginTurn(S)
    \/ Turn
    \/ CleanUp

Spec == Init /\ [][Next]_vars

-----------------------------------------------------------------------------
(* Properties.                                                             *)

TypeOK ==
    /\ life \in [Creature -> {"alive", "dying", "gone"}]
    /\ pos \in [Creature -> Place]
    /\ {master, attacked, follow} \subseteq [Creature -> Creature \cup {Nobody}]
    /\ targets \in [Monster -> SUBSET Creature]
    /\ {idle, inRange} \subseteq [Monster -> BOOLEAN]
    /\ checked \subseteq listed /\ turn \subseteq listed
    /\ listed \cup pending \subseteq Creature
    /\ block \in Monster \cup {Nobody} /\ armed \in BOOLEAN

\* What a creature in the world points to is good: whom it attacks or follows is in the
\* world and in sight, a summon's master is in the world and no summon itself, and whoever
\* is on a monster's target list is in the world, and in sight unless it is the monster's
\* own master.  So no hook may be missed on any way out of sight.
PointersAreGood ==
    \A c \in InWorld :
       /\ \A x \in {attacked[c], follow[c]} \ {Nobody} :
             x \in InWorld /\ View(pos[c], pos[x])
       /\ master[c] # Nobody => master[c] \in InWorld /\ master[master[c]] = Nobody
       /\ c \in Monster => \A x \in targets[c] :
             x \in InWorld /\ (x # master[c] => View(pos[c], pos[x]))

\* A living monster of the wild has every living player and player's summon it sees
\* among its targets, and is awake and on the check list when there is one.
WildSeeFoes ==
    \A m \in Monster : life[m] = "alive" /\ master[m] = Nobody =>
       LET foes == {x \in Creature \ {m} : /\ life[x] = "alive" /\ View(pos[m], pos[x])
                                           /\ Opponent(m, x, master)}
       IN  foes \subseteq targets[m] /\ (foes # {} => ~idle[m] /\ m \in checked)

\* Whoever has no health left is on the check list, where it dies, asleep or not before.
DyingAreChecked == \A c \in Creature : life[c] = "dying" => c \in checked

\* A block whose monster is gone, by whatever way, is looked at again.
BlockIsWatched == block \notin InWorld => armed

=============================================================================
