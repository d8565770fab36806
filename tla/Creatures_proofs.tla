-------------------------- MODULE Creatures_proofs --------------------------
(***************************************************************************)
(* For any creatures and places and any symmetric sight: the pointers and  *)
(* target lists of creatures stay good, monsters of the wild know and      *)
(* watch the foes they see, whoever has no health left is on the check     *)
(* list, and a block without a monster is looked at again.                 *)
(*                                                                         *)
(* The four are proved as one inductive invariant: who is a foe depends on *)
(* masters, the pointers are dropped by those who saw what is removed, a   *)
(* removed creature is taken off the lists of its opponents only, and a    *)
(* dying creature that was asleep relies on being woken before.            *)
(***************************************************************************)
EXTENDS Creatures, TLAPS

\* TypeOK without what only the turns and the spawn know.
Types ==
    /\ life \in [Creature -> {"alive", "dying", "gone"}]
    /\ pos \in [Creature -> Place]
    /\ master \in [Creature -> Creature \cup {Nobody}]
    /\ attacked \in [Creature -> Creature \cup {Nobody}]
    /\ follow \in [Creature -> Creature \cup {Nobody}]
    /\ targets \in [Monster -> SUBSET Creature]
    /\ idle \in [Monster -> BOOLEAN]
    /\ inRange \in [Monster -> BOOLEAN]
    /\ checked \subseteq listed /\ listed \subseteq Creature

\* Players stay on the check list, and nobody is on it who is gone.
ChecksMatch ==
    /\ \A p \in Player : life[p] # "gone" => p \in checked
    /\ \A c \in checked : life[c] # "gone"
\* Players have no master.
PlayersAreFree == \A p \in Player : master[p] = Nobody
\* Who enters the world again brings no old pointers.
GoneAreBlank == \A c \in Creature : life[c] = "gone" =>
                   master[c] = Nobody /\ attacked[c] = Nobody /\ follow[c] = Nobody

\* The part of PointersAreGood about aims and masters.
AimsGood ==
    \A c \in InWorld :
       /\ \A x \in {attacked[c], follow[c]} \ {Nobody} :
             x \in InWorld /\ View(pos[c], pos[x])
       /\ master[c] # Nobody => master[c] \in InWorld /\ master[master[c]] = Nobody

\* Why m may have x on its list: a foe in sight, or the player whose summon m became.
\* onCreatureLeave does not take off the second, but he does not go without m.
MayList(m, x) ==
    /\ x \in InWorld
    /\ \/ Opponent(m, x, master) /\ View(pos[m], pos[x])
       \/ x \in Player /\ x = master[m]

TargetsGood ==
    \A m \in Monster : /\ targets[m] # {} => m \in InWorld
                       /\ \A x \in targets[m] : MayList(m, x)

WorldInv ==
    /\ Types /\ ChecksMatch /\ PlayersAreFree /\ GoneAreBlank
    /\ AimsGood /\ TargetsGood /\ WildSeeFoes /\ DyingAreChecked

\* The monster of a block is nobody's summon, so that the hooks that remove summons left
\* behind need not look after the spawn.
RestInv ==
    /\ turn \subseteq listed /\ pending \subseteq Creature
    /\ block \in Monster \cup {Nobody} /\ armed \in BOOLEAN
    /\ block \in Monster => master[block] = Nobody
    /\ BlockIsWatched

Inv == WorldInv /\ RestInv

-----------------------------------------------------------------------------
(* What every wave of updateIdleStatus gives.                              *)

\* setIdle and the check list keep to their types, and nobody leaves a check vector.
LEMMA SettleTypes ==
    ASSUME Types, life' \in [Creature -> {"alive", "dying", "gone"}],
           NEW STATE heard, NEW STATE tg, NEW STATE hurt, NEW STATE added,
           heard \subseteq Monster, hurt \subseteq Creature, added \subseteq Creature,
           tg \in [Monster -> SUBSET Creature],
           Settle(heard, tg, hurt, added)
    PROVE  /\ targets' \in [Monster -> SUBSET Creature]
           /\ idle' \in [Monster -> BOOLEAN]
           /\ checked' \subseteq listed' /\ listed' \subseteq Creature
           /\ listed \subseteq listed'
BY DEF Types, Settle, Check, Wakeable, Creature

\* Nobody without health leaves the check list, and no player does but by going.
LEMMA SettleChecked ==
    ASSUME NEW STATE heard, NEW STATE tg, NEW STATE hurt, NEW STATE added,
           heard \subseteq Monster,
           Settle(heard, tg, hurt, added),
           CreatureConstants
    PROVE  /\ \A c \in checked \cup hurt \cup added : life'[c] = "dying" => c \in checked'
           /\ \A p \in Player : p \in checked \cup added /\ life'[p] # "gone" => p \in checked'
           /\ \A c \in checked' : life'[c] # "gone"
BY DEF Settle, Check, Wakeable, CreatureConstants

\* A living monster without a master that has targets keeps them, and is awake afterwards
\* if it was told or had been awake.
LEMMA SettleWakes ==
    ASSUME NEW STATE heard, NEW STATE tg, NEW STATE hurt, NEW STATE added,
           heard \subseteq Monster,
           Settle(heard, tg, hurt, added),
           CreatureConstants, NEW m \in Monster, life'[m] = "alive", master'[m] = Nobody, tg[m] # {}
    PROVE  /\ targets'[m] = tg[m]
           /\ m \in heard \/ (~idle[m] /\ m \in checked) => ~idle'[m] /\ m \in checked'
<1> DEFINE able == {x \in heard : Wakeable(x)}
<1>1. PICK early \in {FALSE, \E x \in able : master'[x] \in able} :
         LET asleep == {x \in able : MayRest(x, tg, able, early)}
             gone == {x \in Monster : life'[x] = "gone"}
         IN  /\ idle' = [x \in Monster |->
                          IF x \in asleep \cup gone THEN TRUE
                          ELSE IF x \in able \cup hurt THEN FALSE ELSE idle[x]]
             /\ targets' = [x \in Monster |-> IF x \in asleep \cup gone THEN {} ELSE tg[x]]
             /\ Check((able \ asleep) \cup hurt \cup added, asleep)
  BY DEF Settle
<1>2. ~MayRest(m, tg, able, early)
  BY DEF MayRest, CreatureConstants, Creature
<1>3. m \in heard => m \in able
  BY DEF Wakeable
<1> HIDE DEF able
<1> QED
  BY <1>1, <1>2, <1>3 DEF Check

\* Settling empties target lists and adds nobody, so that TargetsGood is a matter of tg.
LEMMA SettleTargets ==
    ASSUME NEW STATE heard, NEW STATE tg, NEW STATE hurt, NEW STATE added,
           heard \subseteq Monster,
           Settle(heard, tg, hurt, added),
           \A m \in Monster : m \in InWorld' => \A x \in tg[m] : MayList(m, x)'
    PROVE  TargetsGood'
<1> SUFFICES ASSUME NEW m \in Monster, NEW x \in targets'[m]
             PROVE  m \in InWorld' /\ MayList(m, x)'
  BY DEF TargetsGood
<1>1. life'[m] # "gone" /\ x \in tg[m]
  BY DEF Settle
<1> QED
  BY <1>1 DEF InWorld, Creature

-----------------------------------------------------------------------------
(* The handlers that change the world.                                     *)

\* placeCreature, of a player, a monster of the spawn or a summon.
LEMMA AppearKeeps ==
    ASSUME CreatureConstants, WorldInv,
           NEW c \in Creature, NEW at \in Place, NEW m \in Creature \cup {Nobody},
           Unused(c), Appear(c, at, m), UNCHANGED aims,
           m # Nobody => c \in Monster /\ m \in InWorld /\ master[m] = Nobody
    PROVE  WorldInv' /\ listed \subseteq listed' /\ InWorld \subseteq InWorld'
<1> USE DEF WorldInv
<1> DEFINE ms == [master EXCEPT ![c] = m]
           seers == Watchers({at})
           mine == {x \in seers : Opponent(c, x, ms)}
           tg == [o \in Monster |->
                    IF o = c THEN mine
                    ELSE IF o \in seers /\ Opponent(o, c, ms) THEN targets[o] \cup {c}
                    ELSE targets[o]]
           heard == (seers \cup {c}) \cap Monster
<1>1. /\ life' = [life EXCEPT ![c] = "alive"]
      /\ pos' = [pos EXCEPT ![c] = at]
      /\ master' = ms
      /\ inRange' = [o \in Monster |-> IF o = c THEN m # Nobody /\ View(at, pos[m])
                                       ELSE inRange[o]]
      /\ Settle(heard, tg, {}, {c})
  BY DEF Appear
<1>2. /\ life' \in [Creature -> {"alive", "dying", "gone"}]
      /\ pos' \in [Creature -> Place]
      /\ master' \in [Creature -> Creature \cup {Nobody}]
      /\ attacked' \in [Creature -> Creature \cup {Nobody}]
      /\ follow' \in [Creature -> Creature \cup {Nobody}]
      /\ inRange' \in [Monster -> BOOLEAN]
  BY <1>1 DEF Types, aims, View
<1>3. tg \in [Monster -> SUBSET Creature] /\ heard \subseteq Monster
  BY DEF Types, Watchers, InWorld, Creature
<1>4. \A x \in InWorld \cup {c} : life'[x] # "gone" /\ x \in InWorld'
  BY <1>1 DEF InWorld, Types
<1>5. c \notin InWorld /\ \A o \in Monster : c \notin targets[o]
  BY DEF Unused, InWorld
<1>6. \A o \in InWorld : /\ life'[o] = life[o] /\ pos'[o] = pos[o] /\ master'[o] = master[o]
                          /\ o # c
  BY <1>1, <1>5 DEF InWorld, Types
<1>7. \A o \in InWorld' : o \in InWorld \/ o = c
  BY <1>1 DEF InWorld, Types
<1>8. c \in heard \/ c \in Player
  BY DEF Creature
<1>9. AimsGood'
  <2> SUFFICES ASSUME NEW o \in InWorld'
               PROVE  /\ \A x \in {attacked'[o], follow'[o]} \ {Nobody} :
                            x \in InWorld' /\ View(pos'[o], pos'[x])
                      /\ master'[o] # Nobody => /\ master'[o] \in InWorld'
                                                /\ master'[master'[o]] = Nobody
    BY DEF AimsGood, View
  <2>1. CASE o = c
    BY <2>1, <1>1, <1>4, <1>6 DEF GoneAreBlank, Unused, aims, Types
  <2>2. CASE o # c
    BY <2>2, <1>4, <1>6, <1>7 DEF AimsGood, aims
  <2> QED
    BY <2>1, <2>2
<1>15. ASSUME NEW o \in Monster, o \in InWorld', NEW x \in tg[o]
       PROVE  MayList(o, x)'
  <2>1. CASE o = c
    <3>1. x \in InWorld /\ View(pos[x], at) /\ Opponent(c, x, ms)
      BY <1>15, <2>1 DEF Watchers
    <3>2. View(at, pos[x])
      BY <3>1 DEF View, CreatureConstants
    <3> QED
      BY <1>1, <1>4, <1>6, <2>1, <3>1, <3>2 DEF MayList, Opponent, View, Types
  <2>2. CASE o # c /\ x = c /\ x \notin targets[o]
    <3>1. o \in InWorld /\ View(pos[o], at) /\ Opponent(o, c, ms)
      BY <1>15, <2>2 DEF Watchers
    <3> QED
      BY <1>1, <1>4, <1>6, <2>2, <3>1 DEF MayList, Opponent, View, Types
  <2>3. CASE o # c /\ x \in targets[o]
    <3>1. o \in InWorld /\ MayList(o, x)
      BY <2>3 DEF TargetsGood
    <3> QED
      BY <1>4, <1>6, <3>1 DEF MayList, Opponent, View
  <2> QED
    BY <1>15, <2>1, <2>2, <2>3
<1> HIDE DEF tg, heard
<1>16. TargetsGood'
  BY <1>1, <1>3, <1>15, SettleTargets
<1>10. /\ targets' \in [Monster -> SUBSET Creature]
      /\ idle' \in [Monster -> BOOLEAN]
      /\ checked' \subseteq listed' /\ listed' \subseteq Creature
      /\ listed \subseteq listed'
  BY <1>1, <1>2, <1>3, SettleTypes
<1>11. ChecksMatch'
  BY <1>1, <1>3, SettleChecked DEF ChecksMatch, Types, Creature
<1>12. DyingAreChecked'
  BY <1>1, <1>3, SettleChecked DEF DyingAreChecked, Types
<1>13. PlayersAreFree' /\ GoneAreBlank'
  BY <1>1 DEF PlayersAreFree, GoneAreBlank, Types, CreatureConstants, aims, Creature
<1>14. WildSeeFoes'
  <2> SUFFICES ASSUME NEW o \in Monster, life'[o] = "alive", master'[o] = Nobody,
                      NEW x \in Creature \ {o}, life'[x] = "alive",
                      View(pos'[o], pos'[x]), Opponent(o, x, master')
               PROVE  x \in targets'[o] /\ ~idle'[o] /\ o \in checked'
    BY DEF WildSeeFoes, View, Opponent
  <2>0. /\ \A a, b \in Place : View(a, b) => View(b, a)
        /\ x \in InWorld' /\ o \in InWorld' /\ o \in Creature
    BY DEF View, CreatureConstants, InWorld, Creature
  <2>1. o = c => x \in tg[o] /\ (o \in heard \/ (~idle[o] /\ o \in checked))
    <3> HAVE o = c
    <3>1. x \in InWorld /\ View(pos[x], at) /\ Opponent(c, x, ms)
      BY <2>0, <1>1, <1>2, <1>6, <1>7 DEF Types
    <3> QED
      BY <3>1 DEF tg, heard, Watchers, InWorld
  <2>2. o # c /\ x = c => x \in tg[o] /\ (o \in heard \/ (~idle[o] /\ o \in checked))
    BY <2>0, <1>1, <1>6, <1>7 DEF tg, heard, Watchers, Types
  <2>3. o # c /\ x # c => x \in tg[o] /\ (o \in heard \/ (~idle[o] /\ o \in checked))
    <3> HAVE o # c /\ x # c
    <3>1. x \in targets[o] /\ ~idle[o] /\ o \in checked
      BY <2>0, <1>6, <1>7 DEF WildSeeFoes, Opponent
    <3> QED
      BY <3>1 DEF tg
  <2> QED
    BY <1>1, <1>3, <2>1, <2>2, <2>3, SettleWakes
<1> QED
  BY <1>2, <1>10, <1>11, <1>12, <1>13, <1>9, <1>14, <1>16, <1>4 DEF Types

\* With the masters ms, whoever lost his master was a monster's summon and is in hurt.
SummonsFreed(ms, hurt) ==
    \A s \in Creature : \/ ms[s] = master[s]
                        \/ ms[s] = Nobody /\ s \in hurt /\ master[s] \in Monster

\* removeCreature of R, when the masters that remain have not been removed and whoever
\* lost his master was killed.
LEMMA VanishKeeps ==
    ASSUME CreatureConstants, Inv,
           NEW R \in SUBSET InWorld, NEW hurt \in SUBSET (InWorld \cap Monster),
           NEW ms \in [Creature -> Creature \cup {Nobody}],
           SummonsFreed(ms, hurt),
           \A s \in Creature \ R : ms[s] \notin R,
           Vanish(R, ms, hurt), turn' \subseteq turn
    PROVE  Inv'
<1> USE DEF Inv, WorldInv, SummonsFreed
<1> DEFINE lost(aim) == {o \in InWorld : aim[o] \in R /\ View(pos[o], pos[aim[o]])}
           tg == [m \in Monster |-> IF m \in InWorld THEN Remaining(m, R, ms) ELSE {}]
           heard == {m \in Monster \ R : tg[m] = {} /\ targets[m] # {}}
           woken == {s \in hurt : life[s] = "alive"}
<1>1. /\ life' = [c \in Creature |-> IF c \in R THEN "gone"
                                     ELSE IF c \in hurt THEN "dying" ELSE life[c]]
      /\ pos' = [c \in Creature |-> IF c \in R THEN Home ELSE pos[c]]
      /\ master' = [c \in Creature |-> IF c \in R THEN Nobody ELSE ms[c]]
      /\ attacked' = Disarmed(attacked, lost(attacked) \cup R \cup hurt, ms)
      /\ follow' = [o \in Creature |-> IF o \in lost(follow) \cup R THEN Nobody
                                       ELSE follow[o]]
      /\ inRange' = [m \in Monster |-> m \notin R /\ inRange[m]]
      /\ Settle(heard, tg, woken, {})
  BY DEF Vanish
<1>2. /\ life' \in [Creature -> {"alive", "dying", "gone"}]
      /\ pos' \in [Creature -> Place]
      /\ master' \in [Creature -> Creature \cup {Nobody}]
      /\ attacked' \in [Creature -> Creature \cup {Nobody}]
      /\ follow' \in [Creature -> Creature \cup {Nobody}]
      /\ inRange' \in [Monster -> BOOLEAN]
  BY <1>1 DEF Types, Disarmed, CreatureConstants
<1>3. tg \in [Monster -> SUBSET Creature] /\ heard \subseteq Monster
      /\ woken \subseteq Creature
  BY DEF Types, Remaining, InWorld, Creature
<1>4. \A o \in InWorld' :
         /\ o \in InWorld /\ o \notin R /\ pos'[o] = pos[o] /\ master'[o] = ms[o]
         /\ life'[o] = "alive" => o \notin hurt /\ life[o] = "alive" /\ ms[o] = master[o]
  BY <1>1, <1>2 DEF InWorld
<1>5. PlayersAreFree' /\ GoneAreBlank'
  BY <1>1, <1>2 DEF PlayersAreFree, GoneAreBlank, Types, CreatureConstants, Creature, InWorld, Disarmed
<1>6. AimsGood'
  <2> SUFFICES ASSUME NEW o \in InWorld'
               PROVE  /\ \A x \in {attacked'[o], follow'[o]} \ {Nobody} :
                            x \in InWorld' /\ View(pos'[o], pos'[x])
                      /\ master'[o] # Nobody => /\ master'[o] \in InWorld'
                                                /\ master'[master'[o]] = Nobody
    BY DEF AimsGood, View
  <2>1. \A x \in InWorld \ R : x \in InWorld' /\ pos'[x] = pos[x] /\ master'[x] = ms[x]
    BY <1>1, <1>2 DEF InWorld
  <2>2. \A x \in {attacked'[o], follow'[o]} \ {Nobody} : x \in InWorld \ R /\ View(pos[o], pos[x])
    BY <1>1, <1>4 DEF AimsGood, Disarmed, InWorld
  <2>3. master'[o] # Nobody => /\ master'[o] \in InWorld \ R
                               /\ master[master'[o]] = Nobody
    BY <1>4 DEF AimsGood, InWorld
  <2> QED
    BY <1>4, <2>1, <2>2, <2>3 DEF InWorld
<1>7. ASSUME NEW o \in Monster, life'[o] = "alive", master'[o] = Nobody,
             NEW x \in Creature \ {o}, life'[x] = "alive",
             View(pos'[o], pos'[x]), Opponent(o, x, master')
      PROVE  x \in tg[o] /\ ~idle[o] /\ o \in checked
  <2>1. x \in InWorld' /\ o \in InWorld'
    BY <1>7 DEF InWorld, Creature
  <2>2. x \in targets[o] /\ ~idle[o] /\ o \in checked
    BY <1>4, <1>7, <2>1 DEF WildSeeFoes, Opponent
  <2> QED
    BY <1>4, <2>1, <2>2 DEF Remaining
<1>13. ASSUME NEW o \in Monster, o \in InWorld', NEW x \in tg[o]
       PROVE  MayList(o, x)'
  <2>1. /\ o \in InWorld \ R /\ x \in targets[o] /\ MayList(o, x)
        /\ ~(x \in R /\ View(pos[o], pos[x]) /\ Opponent(o, x, ms))
    BY <1>4, <1>13 DEF TargetsGood, Remaining
  <2>2. /\ Opponent(o, x, ms) <=> Opponent(o, x, master)
        /\ x \in Player => (x = ms[o] <=> x = master[o])
    BY <2>1 DEF MayList, Opponent, InWorld, CreatureConstants, Creature
  <2>3. x \in InWorld \ R
    BY <2>1, <2>2 DEF MayList, InWorld
  <2>4. x \in InWorld' /\ pos'[x] = pos[x] /\ master'[x] = ms[x]
    BY <1>1, <1>2, <2>3 DEF InWorld
  <2> QED
    BY <1>4, <1>13, <2>1, <2>2, <2>4 DEF MayList, Opponent, View
<1> HIDE DEF tg, heard, woken
<1>14. TargetsGood'
  BY <1>1, <1>3, <1>13, SettleTargets
<1>8. /\ targets' \in [Monster -> SUBSET Creature]
      /\ idle' \in [Monster -> BOOLEAN]
      /\ checked' \subseteq listed' /\ listed' \subseteq Creature
      /\ listed \subseteq listed'
  BY <1>1, <1>2, <1>3, SettleTypes
<1>9. ChecksMatch'
  BY <1>1, <1>2, <1>3, <1>4, SettleChecked DEF ChecksMatch, InWorld, Creature
<1>10. DyingAreChecked'
  <2>1. ASSUME NEW c \in Creature, life'[c] = "dying"
        PROVE  c \in checked \cup woken
    BY <2>1, <1>1 DEF DyingAreChecked, InWorld, woken, Types
  <2> QED
    BY <1>1, <1>3, <2>1, SettleChecked DEF DyingAreChecked
<1>11. WildSeeFoes'
  <2> SUFFICES ASSUME NEW o \in Monster, life'[o] = "alive", master'[o] = Nobody,
                      NEW x \in Creature \ {o}, life'[x] = "alive",
                      View(pos'[o], pos'[x]), Opponent(o, x, master')
               PROVE  x \in targets'[o] /\ ~idle'[o] /\ o \in checked'
    BY DEF WildSeeFoes, View, Opponent
  <2>1. x \in tg[o] /\ ~idle[o] /\ o \in checked
    BY <1>7
  <2>2. Settle(heard, tg, woken, {}) /\ heard \subseteq Monster
    BY <1>1, <1>3
  <2> QED
    BY <2>1, <2>2, SettleWakes
<1>12. RestInv'
  BY <1>1, <1>2, <1>8 DEF RestInv, BlockIsWatched, InWorld, Vanish, Release, Rearmed, Creature
<1> QED
  BY <1>2, <1>5, <1>6, <1>8, <1>9, <1>10, <1>11, <1>12, <1>14 DEF Types

\* Tile::moveCreature with the summons that are left behind.
LEMMA MoveKeeps ==
    ASSUME CreatureConstants, Inv, NEW c \in Creature, NEW to \in Place, Move(c, to)
    PROVE  Inv'
<1> USE DEF Inv, WorldInv
<1> DEFINE R == {s \in Summons(c) : <<pos[s], to>> \in Afar}
           at == [pos EXCEPT ![c] = to]
           told == Watchers({pos[c], to})
           lost(aim) == {o \in InWorld : \/ aim[o] \in R /\ View(pos[o], pos[aim[o]])
                                         \/ /\ o \in told /\ aim[o] # Nobody
                                            /\ c \in {o, aim[o]}
                                            /\ ~View(at[o], at[aim[o]])}
           enters(m) == ~View(pos[m], pos[c]) /\ View(pos[m], to) /\ Opponent(m, c, master)
           leaves(m) == ~View(pos[m], to)
           tg == [m \in Monster |->
                    IF m = c THEN Surveyed(c, to, InWorld \ R, master)
                    ELSE IF m \notin InWorld THEN {}
                    ELSE IF leaves(m) THEN Remaining(m, R \cup {c}, master)
                    ELSE Remaining(m, R, master) \cup (IF enters(m) THEN {c} ELSE {})]
           heard == {m \in Monster : m \in told \/ (tg[m] = {} /\ targets[m] # {})}
<1>1. /\ c \in InWorld
      /\ life' = [x \in Creature |-> IF x \in R THEN "gone" ELSE life[x]]
      /\ pos' = [x \in Creature |-> IF x \in R THEN Home ELSE at[x]]
      /\ master' = [x \in Creature |-> IF x \in R THEN Nobody ELSE master[x]]
      /\ inRange' = [m \in Monster |->
             IF m = c THEN master[c] # Nobody /\ View(to, pos[master[c]])
             ELSE IF m \in R THEN FALSE
             ELSE IF m \in told /\ master[m] = c THEN View(pos[m], to) ELSE inRange[m]]
  BY DEF Move
<1>2. Settle(heard, tg, {}, {})
  BY DEF Move
<1>3. PICK hunters \in SUBSET Keen(c, to, told, R) :
         /\ attacked' = Commanded(Disarmed(attacked, lost(attacked) \cup R, master),
                                  hunters, c, at)
         /\ follow' = [o \in Creature |->
                         IF o \in hunters THEN c
                         ELSE IF o \in lost(follow) \cup R THEN Nobody ELSE follow[o]]
  BY DEF Move
<1>4. /\ R \subseteq InWorld /\ c \notin R
      /\ \A s \in R : master[s] = c
      /\ hunters \subseteq InWorld \ (R \cup {c})
      /\ \A m \in hunters : View(pos[m], to)
  BY <1>1 DEF Summons, AimsGood, GoneAreBlank, InWorld, Keen, Watchers,
              CreatureConstants, Creature
<1>5. /\ life' \in [Creature -> {"alive", "dying", "gone"}]
      /\ pos' \in [Creature -> Place]
      /\ master' \in [Creature -> Creature \cup {Nobody}]
      /\ attacked' \in [Creature -> Creature \cup {Nobody}]
      /\ follow' \in [Creature -> Creature \cup {Nobody}]
      /\ inRange' \in [Monster -> BOOLEAN]
  <2>1. /\ life' \in [Creature -> {"alive", "dying", "gone"}]
        /\ pos' \in [Creature -> Place]
        /\ master' \in [Creature -> Creature \cup {Nobody}]
    BY <1>1 DEF Types, CreatureConstants
  <2>2. inRange' \in [Monster -> BOOLEAN]
    <3>1. ASSUME NEW m \in Monster PROVE inRange'[m] \in BOOLEAN
      <4>1. inRange[m] \in BOOLEAN
        BY DEF Types
      <4>2. CASE m = c
        BY <1>1, <4>2 DEF View
      <4>3. CASE m # c /\ m \notin R /\ m \in told /\ master[m] = c
        <5>1. m \notin R /\ m # c
          BY <4>3
        <5>2. inRange'[m] = View(pos[m], to)
          BY <1>1, <4>3, <5>1
        <5> QED
          BY <5>2 DEF View
      <4>4. CASE m # c /\ (m \in R \/ ~(m \in told /\ master[m] = c))
        BY <1>1, <4>1, <4>4
      <4> QED
        BY <4>2, <4>3, <4>4
    <3> QED
      BY <1>1, <3>1
  <2>3. follow' \in [Creature -> Creature \cup {Nobody}]
    BY <1>3 DEF Types
  <2>4. Disarmed(attacked, lost(attacked) \cup R, master) \in [Creature -> Creature \cup {Nobody}]
    BY DEF Types, Disarmed
  <2>5. attacked' \in [Creature -> Creature \cup {Nobody}]
    BY <1>3, <2>4 DEF Commanded
  <2> QED
    BY <2>1, <2>2, <2>3, <2>5
<1>6. tg \in [Monster -> SUBSET Creature] /\ heard \subseteq Monster
  BY DEF Types, Remaining, Surveyed, InWorld, Creature
<1>7. \A o \in InWorld' :
         o \in InWorld \ R /\ pos'[o] = at[o] /\ master'[o] = master[o] /\ life'[o] = life[o]
  BY <1>1, <1>5 DEF InWorld
<1>8. \A x \in InWorld \ R : x \in InWorld' /\ pos'[x] = at[x] /\ master'[x] = master[x]
  BY <1>1, <1>5 DEF InWorld
<1>9. PlayersAreFree' /\ GoneAreBlank'
  <2>1. \A o \in Creature : o \notin InWorld => o \notin hunters /\ master[o] = Nobody
    BY <1>4 DEF GoneAreBlank, InWorld
  <2>2. ASSUME NEW o \in Creature, life'[o] = "gone"
        PROVE  master'[o] = Nobody /\ attacked'[o] = Nobody /\ follow'[o] = Nobody
    <3>1. o \in R \/ o \notin InWorld
      BY <1>1, <2>2 DEF InWorld
    <3>2. CASE o \in R
      BY <1>1, <1>3, <1>4, <3>2 DEF Commanded, Disarmed
    <3>3. CASE o \notin R /\ o \notin InWorld
      BY <1>1, <1>3, <1>4, <2>1, <3>3 DEF Commanded, Disarmed, GoneAreBlank, InWorld, CreatureConstants
    <3> QED
      BY <3>1, <3>2, <3>3
  <2> QED
    BY <1>1, <2>2 DEF PlayersAreFree, GoneAreBlank, Creature
<1>10. AimsGood'
  <2> SUFFICES ASSUME NEW o \in InWorld'
               PROVE  /\ \A x \in {attacked'[o], follow'[o]} \ {Nobody} :
                            x \in InWorld' /\ View(pos'[o], pos'[x])
                      /\ master'[o] # Nobody => /\ master'[o] \in InWorld'
                                                /\ master'[master'[o]] = Nobody
    BY DEF AimsGood, View
  <2>1. o \in InWorld \ R /\ o \in Creature
    BY <1>7 DEF InWorld
  <2>2. master'[o] # Nobody => /\ master'[o] \in InWorld \ R
                               /\ master[master'[o]] = Nobody
    <3>1. master[o] # Nobody => master[o] \in InWorld /\ master[master[o]] = Nobody
      BY <2>1 DEF AimsGood
    <3>2. \A s \in R : master[s] # Nobody
      BY <1>4 DEF CreatureConstants
    <3> QED
      BY <1>7, <3>1, <3>2
  <2>3. ASSUME NEW aim \in [Creature -> Creature \cup {Nobody}], o \notin lost(aim),
               aim[o] # Nobody, aim[o] \in InWorld, View(pos[o], pos[aim[o]])
        PROVE  aim[o] \in InWorld \ R /\ View(at[o], at[aim[o]])
    <3>1. aim[o] \notin R
      BY <2>1, <2>3
    <3>2. CASE c \in {o, aim[o]}
      BY <1>1, <2>1, <2>3, <3>1, <3>2 DEF Watchers, View, CreatureConstants, Types
    <3>3. CASE c \notin {o, aim[o]}
      BY <2>1, <2>3, <3>3 DEF Types, InWorld
    <3> QED
      BY <2>3, <3>1, <3>2, <3>3
  <2>4. follow'[o] # Nobody => follow'[o] \in InWorld \ R /\ View(at[o], at[follow'[o]])
    <3>1. CASE o \in hunters
      BY <1>1, <1>3, <1>4, <2>1, <3>1 DEF Types
    <3>2. CASE o \notin hunters /\ follow'[o] # Nobody
      <4>1. o \notin lost(follow) /\ follow'[o] = follow[o]
        BY <1>3, <2>1, <3>2
      <4>2. follow[o] \in InWorld /\ View(pos[o], pos[follow[o]])
        BY <2>1, <3>2, <4>1 DEF AimsGood
      <4> QED
        BY <2>3, <3>2, <4>1, <4>2 DEF Types
    <3> QED
      BY <3>1, <3>2
  <2>5. attacked'[o] # Nobody => attacked'[o] \in InWorld \ R /\ View(at[o], at[attacked'[o]])
    <3>1. CASE o \in hunters
      BY <1>1, <1>3, <1>4, <2>1, <3>1 DEF Commanded, Types
    <3>2. CASE o \notin hunters /\ master[o] \in hunters
      BY <1>1, <1>3, <1>4, <2>1, <3>2 DEF Commanded
    <3>3. CASE o \notin hunters /\ master[o] \notin hunters /\ attacked'[o] # Nobody
      <4>1. attacked'[o] = Disarmed(attacked, lost(attacked) \cup R, master)[o]
        BY <1>3, <2>1, <3>3 DEF Commanded
      <4>2. o \notin lost(attacked) /\ attacked'[o] = attacked[o]
        BY <2>1, <3>3, <4>1 DEF Disarmed
      <4>3. attacked[o] \in InWorld /\ View(pos[o], pos[attacked[o]])
        BY <2>1, <3>3, <4>2 DEF AimsGood
      <4> QED
        BY <2>3, <3>3, <4>2, <4>3 DEF Types
    <3> QED
      BY <3>1, <3>2, <3>3
  <2>6. master'[o] # Nobody => master'[o] \in InWorld' /\ master'[master'[o]] = Nobody
    BY <1>8, <2>2
  <2>7. follow'[o] # Nobody => follow'[o] \in InWorld' /\ View(pos'[o], pos'[follow'[o]])
    BY <1>7, <1>8, <2>4
  <2>8. attacked'[o] # Nobody => attacked'[o] \in InWorld' /\ View(pos'[o], pos'[attacked'[o]])
    BY <1>7, <1>8, <2>5
  <2> QED
    BY <2>6, <2>7, <2>8
<1>11. ASSUME NEW o \in Monster, life'[o] = "alive", master'[o] = Nobody,
              NEW x \in Creature \ {o}, life'[x] = "alive",
              View(pos'[o], pos'[x]), Opponent(o, x, master')
       PROVE  x \in tg[o] /\ (o \in heard \/ (~idle[o] /\ o \in checked))
  <2>1. x \in InWorld' /\ o \in InWorld'
    BY <1>11 DEF InWorld, Creature
  <2>2. /\ {o, x} \subseteq InWorld \ R /\ View(at[o], at[x]) /\ Opponent(o, x, master)
        /\ life[o] = "alive" /\ life[x] = "alive" /\ master[o] = Nobody
    BY <1>7, <1>11, <2>1 DEF Opponent
  <2>3. CASE o = c
    <3>1. x \in Surveyed(c, to, InWorld \ R, master) /\ c \in told
      BY <1>1, <2>2, <2>3 DEF Surveyed, Watchers, View, CreatureConstants, Types
    <3> QED
      BY <2>3, <3>1
  <2>4. CASE x = c
    <3>1. o # c /\ View(pos[o], to) /\ o \in told
      BY <1>1, <2>2, <2>4 DEF Watchers, Types
    <3>2. CASE View(pos[o], pos[c])
      <4>1. c \in targets[o]
        BY <2>2, <2>4, <3>2 DEF WildSeeFoes
      <4> QED
        BY <1>4, <2>2, <2>4, <3>1, <4>1 DEF Remaining
    <3>3. CASE ~View(pos[o], pos[c])
      BY <2>2, <2>4, <3>1, <3>3
    <3> QED
      BY <3>2, <3>3
  <2>5. CASE o # c /\ x # c
    <3>1. x \in targets[o] /\ ~idle[o] /\ o \in checked
      BY <2>2, <2>5 DEF WildSeeFoes, Types
    <3> QED
      BY <2>2, <2>5, <3>1 DEF Remaining
  <2> QED
    BY <2>3, <2>4, <2>5
<1>17. ASSUME NEW o \in Monster, o \in InWorld', NEW x \in tg[o]
       PROVE  MayList(o, x)'
  <2>0. o \in InWorld \ R /\ pos'[o] = at[o] /\ master'[o] = master[o]
    BY <1>7, <1>17
  <2>1. CASE o = c
    <3>1. /\ x \in InWorld \ R /\ x # c /\ View(to, pos[x])
          /\ Opponent(c, x, master) \/ x \in targets[c]
      BY <1>17, <2>1 DEF Surveyed
    <3>2. Opponent(c, x, master) \/ (x \in Player /\ x = master[c])
      BY <2>1, <3>1 DEF TargetsGood, MayList
    <3>3. at[c] = to /\ at[x] = pos[x]
      BY <1>1, <3>1 DEF Types, InWorld
    <3> QED
      BY <1>8, <2>0, <2>1, <3>1, <3>2, <3>3 DEF MayList, Opponent, View
  <2>2. CASE o # c /\ x \in targets[o]
    <3>1. MayList(o, x) /\ at[o] = pos[o]
      BY <2>0, <2>2 DEF TargetsGood, Types, InWorld
    <3>2. x \in Player \/ x \notin R
      <4>1. CASE leaves(o)
        BY <1>17, <2>0, <2>2, <3>1, <4>1 DEF Remaining, MayList
      <4>2. CASE ~leaves(o)
        BY <1>4, <1>17, <2>0, <2>2, <3>1, <4>2 DEF Remaining, MayList
      <4> QED
        BY <4>1, <4>2
    <3>3. x \in InWorld \ R
      BY <1>4, <3>1, <3>2 DEF MayList, PlayersAreFree, CreatureConstants
    <3>4. x = c => View(pos[o], to) \/ (x \in Player /\ x = master[o])
      BY <1>17, <2>0, <2>2, <3>1 DEF Remaining, MayList
    <3>5. at[x] = IF x = c THEN to ELSE pos[x]
      BY <1>1, <3>3 DEF Types, InWorld
    <3> QED
      BY <1>8, <2>0, <3>1, <3>3, <3>4, <3>5 DEF MayList, Opponent, View
  <2>3. CASE o # c /\ x \notin targets[o]
    <3>1. x = c /\ View(pos[o], to) /\ Opponent(o, c, master)
      BY <1>17, <2>0, <2>3 DEF Remaining
    <3>2. at[c] = to /\ at[o] = pos[o]
      BY <1>1, <2>0, <2>3 DEF Types, InWorld
    <3> QED
      BY <1>1, <1>4, <1>8, <2>0, <3>1, <3>2 DEF MayList, Opponent, View
  <2> QED
    BY <2>1, <2>2, <2>3
<1> HIDE DEF tg, heard
<1>18. TargetsGood'
  BY <1>2, <1>6, <1>17, SettleTargets
<1>12. /\ targets' \in [Monster -> SUBSET Creature]
       /\ idle' \in [Monster -> BOOLEAN]
       /\ checked' \subseteq listed' /\ listed' \subseteq Creature
       /\ listed \subseteq listed'
  BY <1>2, <1>5, <1>6, SettleTypes
<1>13. ChecksMatch'
  BY <1>1, <1>2, <1>5, <1>6, <1>7, SettleChecked DEF ChecksMatch, InWorld, Creature
<1>14. DyingAreChecked'
  BY <1>1, <1>2, <1>5, <1>6, SettleChecked DEF DyingAreChecked
<1>15. WildSeeFoes'
  <2> SUFFICES ASSUME NEW o \in Monster, life'[o] = "alive", master'[o] = Nobody,
                      NEW x \in Creature \ {o}, life'[x] = "alive",
                      View(pos'[o], pos'[x]), Opponent(o, x, master')
               PROVE  x \in targets'[o] /\ ~idle'[o] /\ o \in checked'
    BY DEF WildSeeFoes, View, Opponent
  <2>1. x \in tg[o] /\ (o \in heard \/ (~idle[o] /\ o \in checked))
    BY <1>11
  <2> QED
    BY <1>2, <1>6, <2>1, SettleWakes
<1>16. RestInv'
  <2>1. turn' = turn /\ UNCHANGED <<block, armed>> /\ pending' \subseteq pending \cup R
    BY DEF Move, Between, Release, spawnVars
  <2>2. turn' \subseteq listed' /\ pending' \subseteq Creature
    <3>1. turn \subseteq listed /\ pending \subseteq Creature
      BY DEF RestInv
    <3>2. R \subseteq Creature
      BY <1>4 DEF InWorld
    <3>3. turn \subseteq listed'
      BY <1>12, <3>1
    <3> QED
      BY <2>1, <3>1, <3>2, <3>3
  <2>3. block \in Monster => master'[block] = Nobody /\ block \notin R
    BY <1>1, <1>4 DEF RestInv, Creature
  <2>4. BlockIsWatched'
    BY <1>8, <2>1, <2>3 DEF RestInv, BlockIsWatched, InWorld, Creature
  <2> QED
    BY <2>1, <2>2, <2>3, <2>4 DEF RestInv
<1> QED
  BY <1>5, <1>9, <1>10, <1>12, <1>13, <1>14, <1>15, <1>16, <1>18 DEF Types

\* convinceCreature.
LEMMA ConvinceKeeps ==
    ASSUME CreatureConstants, Inv, NEW p \in Player, NEW m \in Monster, Convince(p, m)
    PROVE  Inv'
<1> USE DEF Inv, WorldInv
<1> DEFINE ms == [Freed(m) EXCEPT ![m] = p]
           told == Watchers({pos[m], pos[p]}) \cup {m}
           heard == told \cap Monster
           tg == [o \in Monster |-> IF o \in told THEN Surveyed(o, pos[o], InWorld, ms)
                                   ELSE targets[o]]
           woken == {s \in Summons(m) : life[s] = "alive"}
<1>1. /\ {p, m} \subseteq InWorld /\ master[m] # p
      /\ life' = [c \in Creature |-> IF c \in Summons(m) THEN "dying" ELSE life[c]]
      /\ master' = ms
      /\ attacked' = Disarmed(attacked, {m} \cup Summons(m), master)
      /\ follow' = [follow EXCEPT ![m] = Nobody]
      /\ inRange' = [inRange EXCEPT ![m] = TRUE]
      /\ Settle(heard, tg, woken, {})
      /\ UNCHANGED pos
  BY DEF Convince
<1>2. /\ life' \in [Creature -> {"alive", "dying", "gone"}]
      /\ pos' \in [Creature -> Place]
      /\ master' \in [Creature -> Creature \cup {Nobody}]
      /\ attacked' \in [Creature -> Creature \cup {Nobody}]
      /\ follow' \in [Creature -> Creature \cup {Nobody}]
      /\ inRange' \in [Monster -> BOOLEAN]
  BY <1>1 DEF Types, Disarmed, Freed, Creature
<1>3. /\ tg \in [Monster -> SUBSET Creature] /\ heard \subseteq Monster
      /\ woken \subseteq Creature
  BY DEF Types, Surveyed, Summons, InWorld, Creature
<1>4. /\ \A s \in Summons(m) : s \in InWorld \cap Monster /\ s # m
      /\ InWorld' = InWorld
  BY <1>1, <1>2 DEF Summons, GoneAreBlank, AimsGood, CreatureConstants, InWorld, Creature
<1>5. \A o \in Creature : master'[o] = IF o = m THEN p ELSE IF master[o] = m THEN Nobody ELSE master[o]
  BY <1>1 DEF Freed
<1>6. PlayersAreFree' /\ GoneAreBlank'
  BY <1>1, <1>4, <1>5 DEF PlayersAreFree, GoneAreBlank, InWorld, Creature, CreatureConstants, Disarmed, Types
<1>7. AimsGood'
  BY <1>1, <1>4, <1>5 DEF AimsGood, PlayersAreFree, InWorld, Creature, CreatureConstants, Disarmed, View, Types
<1>8. ASSUME NEW o \in Monster, life'[o] = "alive", master'[o] = Nobody,
             NEW x \in Creature \ {o}, life'[x] = "alive",
             View(pos'[o], pos'[x]), Opponent(o, x, master')
      PROVE  x \in tg[o] /\ (o \in heard \/ (~idle[o] /\ o \in checked))
  <2>1. {o, x} \subseteq InWorld /\ View(pos[o], pos[x])
    BY <1>1, <1>8 DEF InWorld, Creature
  <2>2. CASE o \in told
    BY <1>1, <1>8, <2>1, <2>2 DEF Surveyed
  <2>3. CASE o \notin told
    <3>1. x # m
      BY <2>1, <2>3 DEF Watchers
    <3>2. /\ life[o] = "alive" /\ life[x] = "alive"
          /\ master[o] = Nobody /\ master'[x] = master[x]
      <4>1. o \notin Summons(m) /\ x \notin Summons(m)
        BY <1>1, <1>8 DEF Creature
      <4>2. master[o] # m /\ master[x] # m
        BY <4>1 DEF Summons, PlayersAreFree, CreatureConstants, Creature
      <4> QED
        BY <1>1, <1>5, <1>8, <2>3, <3>1, <4>1, <4>2 DEF Creature
    <3>3. x \in targets[o] /\ ~idle[o] /\ o \in checked
      BY <1>8, <2>1, <3>2 DEF WildSeeFoes, Opponent
    <3> QED
      BY <2>3, <3>3
  <2> QED
    BY <2>2, <2>3
<1>14. ASSUME NEW o \in Monster, o \in InWorld', NEW x \in tg[o]
       PROVE  MayList(o, x)'
  <2>1. ASSUME x \in targets[o], o = m => View(pos[o], pos[x])
        PROVE  MayList(o, x)'
    <3>1. MayList(o, x)
      BY <2>1 DEF TargetsGood
    <3>2. o = m => Opponent(o, x, ms) \/ (x \in Player /\ x = ms[o])
      BY <1>1, <1>5 DEF Opponent, Creature
    <3>3. o # m => /\ Opponent(o, x, master) => Opponent(o, x, ms)
                   /\ x \in Player /\ x = master[o] => x = ms[o]
      BY <1>1, <1>5, <3>1 DEF Opponent, MayList, InWorld, CreatureConstants, Creature
    <3> QED
      BY <1>1, <1>4, <2>1, <3>1, <3>2, <3>3 DEF MayList, Opponent, View
  <2>2. CASE o \in told
    <3>1. x \in InWorld /\ View(pos[o], pos[x]) /\ (Opponent(o, x, ms) \/ x \in targets[o])
      BY <1>14, <2>2 DEF Surveyed
    <3>2. CASE Opponent(o, x, ms)
      BY <1>1, <1>4, <3>1, <3>2 DEF MayList, Opponent, View
    <3> QED
      BY <2>1, <3>1, <3>2
  <2>3. CASE o \notin told
    BY <1>14, <2>1, <2>3
  <2> QED
    BY <2>2, <2>3
<1> HIDE DEF tg, heard, woken
<1>15. TargetsGood'
  BY <1>1, <1>3, <1>14, SettleTargets
<1>9. /\ targets' \in [Monster -> SUBSET Creature]
      /\ idle' \in [Monster -> BOOLEAN]
      /\ checked' \subseteq listed' /\ listed' \subseteq Creature
      /\ listed \subseteq listed'
  BY <1>1, <1>2, <1>3, SettleTypes
<1>10. ChecksMatch'
  BY <1>1, <1>2, <1>3, <1>4, SettleChecked DEF ChecksMatch, InWorld, Creature
<1>11. DyingAreChecked'
  <2>1. ASSUME NEW c \in Creature, life'[c] = "dying"
        PROVE  c \in checked \cup woken
    BY <2>1, <1>1, <1>4 DEF DyingAreChecked, InWorld, woken, Types, Summons
  <2> QED
    BY <1>1, <1>3, <2>1, SettleChecked DEF DyingAreChecked
<1>12. WildSeeFoes'
  <2> SUFFICES ASSUME NEW o \in Monster, life'[o] = "alive", master'[o] = Nobody,
                      NEW x \in Creature \ {o}, life'[x] = "alive",
                      View(pos'[o], pos'[x]), Opponent(o, x, master')
               PROVE  x \in targets'[o] /\ ~idle'[o] /\ o \in checked'
    BY DEF WildSeeFoes, View, Opponent
  <2>1. x \in tg[o] /\ (o \in heard \/ (~idle[o] /\ o \in checked))
    BY <1>8
  <2>2. Settle(heard, tg, woken, {}) /\ heard \subseteq Monster
    BY <1>1, <1>3
  <2> QED
    BY <2>1, <2>2, SettleWakes
<1>13. RestInv'
  BY <1>2, <1>4, <1>5, <1>9 DEF RestInv, BlockIsWatched, Convince, Between, Creature, CreatureConstants
<1> QED
  BY <1>2, <1>6, <1>7, <1>9, <1>10, <1>11, <1>12, <1>13, <1>15 DEF Types

\* A creature goes with its summons.
LEMMA RemoveKeeps ==
    ASSUME CreatureConstants, Inv, NEW c \in InWorld, turn' \subseteq turn,
           Vanish({c} \cup Summons(c), master, {})
    PROVE  Inv'
<1>1. \A s \in Creature : master[s] # Nobody =>
         s \in InWorld \cap Monster /\ master[master[s]] = Nobody
  BY DEF Inv, WorldInv, GoneAreBlank, AimsGood, PlayersAreFree, InWorld, Creature
<1>2. {c} \cup Summons(c) \in SUBSET InWorld
  BY <1>1 DEF Summons, InWorld, CreatureConstants, Creature
<1>3. \A s \in Creature \ ({c} \cup Summons(c)) : master[s] \notin {c} \cup Summons(c)
  BY <1>1 DEF Summons, InWorld, CreatureConstants, Creature
<1>4. master \in [Creature -> Creature \cup {Nobody}]
  BY DEF Inv, WorldInv, Types
<1>5. SummonsFreed(master, {})
  BY DEF SummonsFreed
<1> QED
  BY <1>2, <1>3, <1>4, <1>5, VanishKeeps

\* A monster dies and kills its summons.
LEMMA DieKeeps ==
    ASSUME CreatureConstants, Inv, NEW c \in InWorld, turn' \subseteq turn, Die(c)
    PROVE  Inv'
<1>1. CASE c \in Player
  BY <1>1, RemoveKeeps DEF Die
<1>2. CASE c \notin Player
  <2>1. \A s \in Creature : master[s] # Nobody =>
           s \in InWorld \cap Monster /\ master[master[s]] = Nobody
    BY DEF Inv, WorldInv, GoneAreBlank, AimsGood, PlayersAreFree, InWorld, Creature
  <2>2. Summons(c) \in SUBSET (InWorld \cap Monster) /\ {c} \in SUBSET InWorld
    BY <2>1 DEF Summons, InWorld, CreatureConstants, Creature
  <2>3. Freed(c) \in [Creature -> Creature \cup {Nobody}]
    BY DEF Inv, WorldInv, Freed, Types
  <2>4. SummonsFreed(Freed(c), Summons(c))
    BY <1>2, <2>1 DEF SummonsFreed, Freed, Summons, InWorld, CreatureConstants, Creature
  <2>5. \A s \in Creature \ {c} : Freed(c)[s] \notin {c}
    BY DEF Freed, InWorld, CreatureConstants
  <2>6. Vanish({c}, Freed(c), Summons(c))
    BY <1>2 DEF Die
  <2> QED
    BY <2>2, <2>3, <2>4, <2>5, <2>6, VanishKeeps
<1> QED
  BY <1>1, <1>2

\* What an action that changes no more of the world than aims has to show.
LEMMA AimsStayGood ==
    ASSUME WorldInv, UNCHANGED <<life, pos, master>>,
           \A o \in Creature : \A x \in {attacked'[o], follow'[o]} \ {Nobody, attacked[o], follow[o]} :
               {o, x} \subseteq InWorld /\ View(pos[o], pos[x])
    PROVE  /\ InWorld' = InWorld
           /\ AimsGood' /\ GoneAreBlank' /\ PlayersAreFree'
<1> USE DEF WorldInv
<1>1. InWorld' = InWorld
  BY DEF InWorld
<1>2. GoneAreBlank' /\ PlayersAreFree'
  BY DEF GoneAreBlank, InWorld, PlayersAreFree
<1>3. AimsGood'
  BY <1>1 DEF AimsGood, View, InWorld
<1> QED
  BY <1>1, <1>2, <1>3

\* The same for an action that changes no more than aims, turn and pending.
LEMMA AimsKeep ==
    ASSUME Inv,
           UNCHANGED <<life, pos, master, minds, listed, checked, spawnVars>>,
           pending' \subseteq pending, turn' \subseteq listed,
           attacked' \in [Creature -> Creature \cup {Nobody}],
           follow' \in [Creature -> Creature \cup {Nobody}],
           \A o \in Creature : \A x \in {attacked'[o], follow'[o]} \ {Nobody, attacked[o], follow[o]} :
               {o, x} \subseteq InWorld /\ View(pos[o], pos[x])
    PROVE  Inv'
<1> USE DEF Inv, WorldInv, minds, spawnVars
<1>1. Types' /\ ChecksMatch' /\ DyingAreChecked'
  BY DEF Types, ChecksMatch, DyingAreChecked
<1>2. /\ InWorld' = InWorld
      /\ AimsGood' /\ GoneAreBlank' /\ PlayersAreFree'
  BY AimsStayGood
<1>3. WildSeeFoes' /\ TargetsGood'
  BY <1>2 DEF WildSeeFoes, TargetsGood, MayList, View, Opponent
<1>4. RestInv'
  BY <1>2 DEF RestInv, BlockIsWatched
<1> QED
  BY <1>1, <1>2, <1>3, <1>4

-----------------------------------------------------------------------------
\* Every step of the game keeps the whole invariant.
THEOREM CreaturesInvariant == Spec => []Inv
<1> USE CreatureConstants
<1>1. Init => Inv
  <2> SUFFICES ASSUME Init PROVE Inv
    OBVIOUS
  <2>1. PICK m \in Monster :
           /\ block = m
           /\ life = [c \in Creature |-> IF c = m THEN "alive" ELSE "gone"]
    BY DEF Init
  <2>2. /\ pos = [c \in Creature |-> Home]
        /\ master = [c \in Creature |-> Nobody]
        /\ attacked = master /\ follow = master
        /\ targets = [o \in Monster |-> {}]
        /\ idle = [o \in Monster |-> TRUE]
        /\ inRange = [o \in Monster |-> FALSE]
        /\ listed = {} /\ checked = {} /\ turn = {} /\ pending = {} /\ armed = FALSE
    BY DEF Init
  <2>3. InWorld = {m} /\ \A c \in Creature : life[c] \in {"alive", "gone"}
    BY <2>1 DEF InWorld, Creature
  <2>4. Types
    BY <2>1, <2>2 DEF Types, CreatureConstants
  <2>5. ChecksMatch /\ PlayersAreFree /\ GoneAreBlank /\ DyingAreChecked
    BY <2>1, <2>2 DEF ChecksMatch, PlayersAreFree, GoneAreBlank, DyingAreChecked,
                      Creature, CreatureConstants
  <2>6. AimsGood /\ TargetsGood /\ WildSeeFoes
    BY <2>1, <2>2, <2>3 DEF AimsGood, TargetsGood, WildSeeFoes, Creature
  <2>7. RestInv
    BY <2>1, <2>2, <2>3 DEF RestInv, BlockIsWatched, Creature
  <2> QED
    BY <2>4, <2>5, <2>6, <2>7 DEF Inv, WorldInv
<1>2. Inv /\ [Next]_vars => Inv'
  <2> SUFFICES ASSUME Inv, [Next]_vars PROVE Inv'
    OBVIOUS
  <2> USE DEF Inv, WorldInv
  <2>1. ASSUME NEW p \in Player, NEW at \in Place, Login(p, at) PROVE Inv'
    <3>1. Inv /\ Unused(p) /\ Appear(p, at, Nobody) /\ UNCHANGED aims /\ p \in Creature
      BY <2>1 DEF Login, Creature
    <3>2. WorldInv' /\ listed \subseteq listed' /\ InWorld \subseteq InWorld'
      BY <3>1, AppearKeeps
    <3> QED
      BY <2>1, <3>1, <3>2 DEF Login, RestInv, BlockIsWatched, Quiet, spawnVars, Between, Appear
  <2>2. ASSUME NEW c \in Creature, RemoveCreature(c) PROVE Inv'
    BY <2>2, RemoveKeeps DEF RemoveCreature, Between
  <2>3. ASSUME NEW c \in Creature, NEW to \in Place, Move(c, to) PROVE Inv'
    BY <2>3, MoveKeeps
  <2>4. ASSUME NEW c \in Creature, NEW fatal \in BOOLEAN, Hit(c, fatal) PROVE Inv'
    <3>1. /\ life' = [life EXCEPT ![c] = IF fatal THEN "dying" ELSE @]
          /\ life[c] = "alive" /\ (fatal \/ c \in Monster)
          /\ idle' = [m \in Monster |-> m # c /\ idle[m]]
          /\ UNCHANGED <<pos, master, attacked, follow, targets, inRange, turn, block, armed, pending>>
      BY <2>4 DEF Hit, Between, Quiet, aims, spawnVars
    <3>2. /\ checked \subseteq checked' /\ listed \subseteq listed' /\ checked' \subseteq listed'
          /\ listed' \subseteq Creature /\ (c \in Monster => c \in checked')
          /\ checked' \subseteq checked \cup {c}
      <4>1. CASE c \in Monster
        <5>1. Check({c}, {}) /\ life'[c] # "gone"
          BY <2>4, <3>1, <4>1 DEF Hit, Types
        <5> QED
          BY <3>1, <4>1, <5>1 DEF Check, ChecksMatch, Types, Creature
      <4>2. CASE c \notin Monster
        BY <2>4, <4>2 DEF Hit, Types
      <4> QED
        BY <4>1, <4>2
    <3>3. InWorld' = InWorld
      BY <3>1 DEF InWorld, Types
    <3>4. Types'
      BY <3>1, <3>2 DEF Types
    <3>5. ChecksMatch' /\ PlayersAreFree' /\ DyingAreChecked'
      BY <3>1, <3>2 DEF ChecksMatch, PlayersAreFree, DyingAreChecked, Types, Creature
    <3>6. GoneAreBlank' /\ AimsGood' /\ TargetsGood'
      BY <3>1, <3>3 DEF GoneAreBlank, AimsGood, TargetsGood, MayList, Opponent, View, Types
    <3>7. WildSeeFoes'
      <4> SUFFICES ASSUME NEW o \in Monster, life'[o] = "alive", master'[o] = Nobody,
                          NEW x \in Creature \ {o}, life'[x] = "alive",
                          View(pos'[o], pos'[x]), Opponent(o, x, master')
                   PROVE  x \in targets'[o] /\ ~idle'[o] /\ o \in checked'
        BY DEF WildSeeFoes, View, Opponent
      <4>1. /\ life[o] = "alive" /\ life[x] = "alive" /\ master[o] = Nobody
            /\ View(pos[o], pos[x]) /\ Opponent(o, x, master)
        BY <3>1 DEF Types, Creature
      <4>2. x \in targets[o] /\ ~idle[o] /\ o \in checked
        BY <4>1 DEF WildSeeFoes
      <4> QED
        BY <3>1, <3>2, <4>2
    <3>8. RestInv'
      BY <3>1, <3>2, <3>3 DEF RestInv, BlockIsWatched
    <3> QED
      BY <3>4, <3>5, <3>6, <3>7, <3>8
  <2>5. ASSUME NEW p \in Player, NEW x \in Creature, AttackCreature(p, x) PROVE Inv'
    <3>1. /\ UNCHANGED <<life, pos, master, minds, listed, checked, spawnVars>>
          /\ pending' \subseteq pending /\ turn' \subseteq listed /\ {p, x} \subseteq InWorld
      BY <2>5 DEF AttackCreature, Quiet, Between, RestInv
    <3>2. CASE View(pos[p], pos[x])
      <4>1. /\ attacked' = Commanded(attacked, {p}, x, pos)
            /\ \E y \in {x, Nobody} : follow' = [follow EXCEPT ![p] = y]
        BY <2>5, <3>2 DEF AttackCreature
      <4>2. \A o \in Creature : master[o] = p => o \in InWorld
        BY DEF GoneAreBlank, InWorld, CreatureConstants, Creature
      <4> QED
        BY <3>1, <3>2, <4>1, <4>2, AimsKeep DEF Commanded, Types, InWorld
    <3>3. CASE ~View(pos[p], pos[x])
      <4>1. attacked' = [attacked EXCEPT ![p] = Nobody] /\ follow' = follow
        BY <2>5, <3>3 DEF AttackCreature
      <4> QED
        BY <3>1, <4>1, AimsKeep DEF Types
    <3> QED
      BY <3>2, <3>3
  <2>6. ASSUME NEW p \in Player, NEW x \in Creature \cup {Nobody}, FollowCreature(p, x) PROVE Inv'
    <3>1. /\ UNCHANGED <<life, pos, master, minds, listed, checked, spawnVars>>
          /\ pending' \subseteq pending /\ turn' \subseteq listed
          /\ p \in InWorld /\ x \in InWorld \cup {Nobody}
          /\ attacked' = Disarmed(attacked, {p}, master)
          /\ follow' = [follow EXCEPT ![p] = IF x = Nobody THEN x
                                           ELSE IF View(pos[p], pos[x]) THEN x ELSE Nobody]
      BY <2>6 DEF FollowCreature, Quiet, Between, RestInv
    <3> QED
      BY <3>1, AimsKeep DEF Disarmed, Types, InWorld
  <2>7. ASSUME NEW m \in Monster, NEW x \in Creature, Challenge(m, x) PROVE Inv'
    <3>1. /\ UNCHANGED <<life, pos, master, minds, listed, checked, spawnVars>>
          /\ pending' \subseteq pending /\ turn' \subseteq listed
          /\ {m, x} \subseteq InWorld /\ View(pos[m], pos[x])
          /\ attacked' = Commanded(attacked, {m}, x, pos)
          /\ follow' = [follow EXCEPT ![m] = x]
      BY <2>7 DEF Challenge, Quiet, Between, RestInv
    <3>2. \A o \in Creature : master[o] = m => o \in InWorld
      BY DEF GoneAreBlank, InWorld, CreatureConstants, Creature
    <3> QED
      BY <3>1, <3>2, AimsKeep DEF Commanded, Types, InWorld
  <2>8. ASSUME NEW p \in Player, NEW m \in Monster, CastSummon(p, m) PROVE Inv'
    <3>1. Unused(m) /\ Appear(m, pos[p], p) /\ UNCHANGED aims /\ p \in InWorld
      BY <2>8 DEF CastSummon
    <3>2. m \in Creature /\ p \in Creature /\ pos[p] \in Place /\ master[p] = Nobody
      BY DEF Creature, Types, PlayersAreFree
    <3>3. WorldInv' /\ listed \subseteq listed' /\ InWorld \subseteq InWorld'
      BY <3>1, <3>2, AppearKeeps
    <3> QED
      BY <2>8, <3>1, <3>3 DEF CastSummon, RestInv, BlockIsWatched, Quiet, spawnVars, Between, Unused, Appear
  <2>9. ASSUME NEW p \in Player, NEW m \in Monster, Convince(p, m) PROVE Inv'
    BY <2>9, ConvinceKeeps
  <2>10. CASE CheckSpawn
    <3>1. pending' = pending /\ turn' = turn
      BY <2>10 DEF CheckSpawn, Between
    <3>2. CASE /\ UNCHANGED <<life, pos, master, aims, minds, listed, checked>>
               /\ \/ block \in InWorld /\ armed' = FALSE /\ block' = block
                  \/ block' = Nobody /\ armed' = TRUE
      <4>1. InWorld' = InWorld
        BY <3>2 DEF InWorld
      <4>2. Types' /\ ChecksMatch' /\ PlayersAreFree' /\ DyingAreChecked' /\ GoneAreBlank'
        BY <3>2 DEF Types, ChecksMatch, PlayersAreFree, DyingAreChecked, GoneAreBlank, aims, minds
      <4>3. AimsGood' /\ TargetsGood' /\ WildSeeFoes'
        BY <3>2, <4>1 DEF AimsGood, TargetsGood, MayList, WildSeeFoes, View, Opponent, aims, minds
      <4>4. RestInv'
        BY <3>1, <3>2, <4>1 DEF RestInv, BlockIsWatched, CreatureConstants, Creature
      <4> QED
        BY <4>2, <4>3, <4>4
    <3>3. ASSUME NEW m \in Monster, Unused(m), Appear(m, Home, Nobody), UNCHANGED aims,
                 block' = m, armed' = FALSE
          PROVE  Inv'
      <4>1. m \in Creature /\ Home \in Place
        BY DEF Creature, CreatureConstants
      <4>2. WorldInv' /\ listed \subseteq listed' /\ InWorld \subseteq InWorld'
        BY <3>3, <4>1, AppearKeeps
      <4>3. life' = [life EXCEPT ![m] = "alive"] /\ master' = [master EXCEPT ![m] = Nobody]
        BY <3>3 DEF Appear
      <4> QED
        BY <3>1, <3>3, <4>1, <4>2, <4>3 DEF RestInv, BlockIsWatched, InWorld, Types
    <3> QED
      BY <2>10, <3>2, <3>3 DEF CheckSpawn
  <2>11. ASSUME NEW S \in SUBSET Creature, BeginTurn(S) PROVE Inv'
    BY <2>11, AimsKeep DEF BeginTurn, aims, RestInv, Types
  <2>12. ASSUME NEW c \in Creature, Unlist(c) PROVE Inv'
    <3>1. /\ UNCHANGED <<life, pos, master, aims, minds, checked, spawnVars>>
          /\ c \notin checked /\ listed' = listed \ {c} /\ turn' = turn \ {c}
          /\ pending' \subseteq pending \cup {c}
      BY <2>12 DEF Unlist, Visits, Release
    <3>2. InWorld' = InWorld
      BY <3>1 DEF InWorld
    <3>3. Types' /\ ChecksMatch' /\ PlayersAreFree' /\ DyingAreChecked' /\ GoneAreBlank'
      BY <3>1 DEF Types, ChecksMatch, PlayersAreFree, DyingAreChecked, GoneAreBlank, aims, minds
    <3>4. AimsGood' /\ TargetsGood' /\ WildSeeFoes'
      BY <3>1, <3>2 DEF AimsGood, TargetsGood, MayList, WildSeeFoes, View, Opponent, aims, minds
    <3>5. RestInv'
      BY <3>1, <3>2 DEF RestInv, BlockIsWatched, spawnVars
    <3> QED
      BY <3>3, <3>4, <3>5
  <2>13. ASSUME NEW c \in Creature, Bury(c) PROVE Inv'
    BY <2>13, DieKeeps DEF Bury, Visits, InWorld
  <2>14. ASSUME NEW p \in Player, PlayerThinks(p) PROVE Inv'
    <3>1. /\ UNCHANGED <<life, pos, master, minds, listed, checked, spawnVars>>
          /\ pending' \subseteq pending /\ turn' \subseteq listed
      BY <2>14 DEF PlayerThinks, Thinks, Visits, Release, RestInv
    <3>2. UNCHANGED aims \/ \E x \in {attacked[p], follow[p]} : LosesSight(p, x)
      BY <2>14 DEF PlayerThinks
    <3> QED
      BY <3>1, <3>2, AimsKeep DEF LosesSight, Disarmed, aims, Types
  <2>15. ASSUME NEW m \in Monster, Despawn(m) PROVE Inv'
    BY <2>15, RemoveKeeps DEF Despawn, Thinks, Visits, InWorld, Creature
  <2>16. ASSUME NEW m \in Monster, MonsterThinks(m) PROVE Inv'
    <3>1. /\ m \in InWorld /\ UNCHANGED <<life, pos, master, inRange, block, armed>>
          /\ turn' \subseteq turn /\ pending' \subseteq pending
      BY <2>16 DEF MonsterThinks, Stays, Thinks, Visits, Release, spawnVars, InWorld, Creature
    <3>2. PICK hopeless \in SUBSET Creature :
            /\ hopeless # {} => master[m] # Nobody
            /\ Settle({m}, [targets EXCEPT ![m] = @ \ hopeless], {}, {})
      <4>1. PICK hopeless \in {{}, IF master[m] = Nobody THEN {} ELSE {follow[m]} \ {Nobody}} :
               Settle({m}, [targets EXCEPT ![m] = @ \ hopeless], {}, {})
        BY <2>16 DEF MonsterThinks
      <4>2. hopeless \in SUBSET Creature /\ (hopeless # {} => master[m] # Nobody)
        BY DEF Types, Creature
      <4> QED
        BY <4>1, <4>2
    <3> DEFINE tg == [targets EXCEPT ![m] = @ \ hopeless]
    <3>3. tg \in [Monster -> SUBSET Creature] /\ Settle({m}, tg, {}, {})
      BY <3>2 DEF Types
    <3>4. /\ attacked' \in [Creature -> Creature \cup {Nobody}]
          /\ follow' \in [Creature -> Creature \cup {Nobody}]
          /\ \A o \in Creature :
               \A x \in {attacked'[o], follow'[o]} \ {Nobody, attacked[o], follow[o]} :
                  {o, x} \subseteq InWorld /\ View(pos[o], pos[x])
      <4>1. CASE \E x \in {attacked[m], follow[m]} : LosesSight(m, x)
        <5>1. attacked' \in {attacked, Disarmed(attacked, {m}, master)}
          BY <4>1 DEF LosesSight
        <5>2. follow' \in {follow, [follow EXCEPT ![m] = Nobody]}
          BY <4>1 DEF LosesSight
        <5>3. /\ attacked' \in [Creature -> Creature \cup {Nobody}]
              /\ \A o \in Creature : attacked'[o] \in {attacked[o], Nobody}
          BY <5>1 DEF Disarmed, Types
        <5>4. /\ follow' \in [Creature -> Creature \cup {Nobody}]
              /\ \A o \in Creature : follow'[o] \in {follow[o], Nobody}
          BY <5>2 DEF Types
        <5> QED
          BY <5>3, <5>4
      <4>2. CASE UNCHANGED aims
        BY <4>2 DEF aims, Types
      <4>3. CASE Hunt(m) /\ ~UNCHANGED aims
        <5>1. PICK x \in Selectable(m) : /\ attacked' = Commanded(attacked, {m}, x, pos)
                                         /\ follow' = [follow EXCEPT ![m] = x]
          BY <4>3 DEF Hunt
        <5>2. \A o \in Creature : master[o] = m => o \in InWorld
          BY DEF GoneAreBlank, InWorld, CreatureConstants, Creature
        <5> QED
          BY <3>1, <5>1, <5>2 DEF Selectable, Commanded, Types, InWorld
      <4>4. CASE FollowOrders(m) /\ master[m] # Nobody
        <5>1. /\ master[m] \in InWorld
              /\ attacked[m] # Nobody => attacked[m] \in InWorld
          BY <3>1, <4>4 DEF AimsGood
        <5>2. \/ attacked' = attacked
              \/ /\ attacked[master[m]] \in InWorld
                 /\ View(pos[m], pos[attacked[master[m]]])
                 /\ attacked' = [attacked EXCEPT ![m] = attacked[master[m]]]
          BY <4>4 DEF FollowOrders, Selectable, aims
        <5>3. \/ follow' = follow
              \/ follow' = [follow EXCEPT ![m] = Nobody]
              \/ \E x \in InWorld : View(pos[m], pos[x]) /\ follow' = [follow EXCEPT ![m] = x]
          BY <4>4, <5>1 DEF FollowOrders, Selectable, aims
        <5>4. attacked' \in [Creature -> Creature \cup {Nobody}]
          BY <5>2 DEF Types, InWorld
        <5>5. follow' \in [Creature -> Creature \cup {Nobody}]
          BY <5>3 DEF Types, InWorld
        <5>6. \A o \in Creature : \A x \in {attacked'[o]} \ {Nobody, attacked[o], follow[o]} :
                 {o, x} \subseteq InWorld /\ View(pos[o], pos[x])
          BY <3>1, <5>2 DEF Types
        <5>7. \A o \in Creature : \A x \in {follow'[o]} \ {Nobody, attacked[o], follow[o]} :
                 {o, x} \subseteq InWorld /\ View(pos[o], pos[x])
          BY <3>1, <5>3 DEF Types
        <5> QED
          BY <5>4, <5>5, <5>6, <5>7
      <4> QED
        BY <2>16, <4>1, <4>2, <4>3, <4>4 DEF MonsterThinks
    <3>5. /\ InWorld' = InWorld
          /\ AimsGood' /\ GoneAreBlank' /\ PlayersAreFree'
      BY <3>1, <3>4, AimsStayGood
    <3>6. ASSUME NEW o \in Monster, life'[o] = "alive", master'[o] = Nobody,
                 NEW x \in Creature \ {o}, life'[x] = "alive",
                 View(pos'[o], pos'[x]), Opponent(o, x, master')
          PROVE  x \in tg[o] /\ ~idle[o] /\ o \in checked
      <4>1. x \in targets[o] /\ ~idle[o] /\ o \in checked
        BY <3>1, <3>6 DEF WildSeeFoes
      <4> QED
        BY <3>1, <3>2, <3>6, <4>1 DEF Types
    <3>12. ASSUME NEW o \in Monster, NEW x \in tg[o]
           PROVE  MayList(o, x)'
      BY <3>1, <3>5 DEF TargetsGood, MayList, View, Opponent, Types
    <3> HIDE DEF tg
    <3>13. TargetsGood'
      BY <3>3, <3>12, SettleTargets
    <3>7. /\ targets' \in [Monster -> SUBSET Creature]
          /\ idle' \in [Monster -> BOOLEAN]
          /\ checked' \subseteq listed' /\ listed' \subseteq Creature
          /\ listed \subseteq listed'
      BY <3>1, <3>3, SettleTypes DEF Types
    <3>8. ChecksMatch' /\ DyingAreChecked'
      BY <3>1, <3>3, SettleChecked DEF ChecksMatch, DyingAreChecked
    <3>9. WildSeeFoes'
      <4> SUFFICES ASSUME NEW o \in Monster, life'[o] = "alive", master'[o] = Nobody,
                          NEW x \in Creature \ {o}, life'[x] = "alive",
                          View(pos'[o], pos'[x]), Opponent(o, x, master')
                   PROVE  x \in targets'[o] /\ ~idle'[o] /\ o \in checked'
        BY DEF WildSeeFoes, View, Opponent
      <4>1. x \in tg[o] /\ ~idle[o] /\ o \in checked
        BY <3>6
      <4> QED
        BY <3>3, <4>1, SettleWakes
    <3>10. RestInv'
      BY <3>1, <3>5, <3>7 DEF RestInv, BlockIsWatched
    <3>11. Types'
      BY <3>1, <3>4, <3>7 DEF Types
    <3> QED
      BY <3>5, <3>8, <3>9, <3>10, <3>11, <3>13
  <2>17. ASSUME NEW m \in Monster, NEW s \in Monster, Reinforce(m, s) PROVE Inv'
    <3>1. Unused(s) /\ Appear(s, pos[m], m) /\ UNCHANGED aims /\ m \in InWorld
      BY <2>17 DEF Reinforce, Stays, Thinks, InWorld, Creature
    <3>2. m \in Creature /\ s \in Creature /\ pos[m] \in Place /\ master[m] = Nobody
      BY <2>17 DEF Creature, Types, Reinforce
    <3>3. WorldInv' /\ listed \subseteq listed' /\ InWorld \subseteq InWorld'
      BY <3>1, <3>2, AppearKeeps
    <3>4. turn' \subseteq turn /\ pending' \subseteq pending /\ UNCHANGED <<block, armed>>
      BY <2>17 DEF Reinforce, Stays, Thinks, Visits, Release, spawnVars
    <3>5. master' = [master EXCEPT ![s] = m] /\ s # block
      BY <3>1 DEF Unused, Appear
    <3> QED
      BY <3>3, <3>4, <3>5 DEF RestInv, BlockIsWatched, Creature, Types
  <2>18. CASE CleanUp
    BY <2>18, AimsKeep DEF CleanUp, Between, aims, RestInv, Types
  <2>19. CASE UNCHANGED vars
    BY <2>19, AimsKeep DEF vars, aims, RestInv, Types
  <2> QED
    BY <2>1, <2>2, <2>3, <2>4, <2>5, <2>6, <2>7, <2>8, <2>9, <2>10, <2>11, <2>12,
       <2>13, <2>14, <2>15, <2>16, <2>17, <2>18, <2>19 DEF Next, Turn
<1> QED
  BY <1>1, <1>2, PTL DEF Spec

\* Whom a creature attacks or follows is in the world and in its sight, so is whoever is on
\* a monster's target list but its own master, who is in the world at least, and a master
\* is in the world and no summon, whatever is removed, moved, convinced or killed.
THEOREM AimsStayInSight == Spec => []PointersAreGood
<1>1. Inv => PointersAreGood
  BY DEF Inv, WorldInv, AimsGood, TargetsGood, MayList, PointersAreGood
<1> QED
  BY <1>1, CreaturesInvariant, PTL

\* No living monster of the wild sleeps, or misses whom it should hunt, in sight of a foe.
THEOREM NoFoeIsMissed == Spec => []WildSeeFoes
BY CreaturesInvariant, PTL DEF Inv, WorldInv

\* checkCreatures will find everybody who has no health left.
THEOREM NoDeathIsMissed == Spec => []DyingAreChecked
BY CreaturesInvariant, PTL DEF Inv, WorldInv

\* However the monster of a block goes, a checkSpawn is scheduled.
THEOREM SpawnGoesOn == Spec => []BlockIsWatched
BY CreaturesInvariant, PTL DEF Inv, RestInv

\* Everything keeps its type.
THEOREM CreatureTypes == Spec => []TypeOK
<1>1. Inv => TypeOK
  BY DEF Inv, WorldInv, RestInv, Types, TypeOK
<1> QED
  BY <1>1, CreaturesInvariant, PTL

=============================================================================
