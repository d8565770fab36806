------------------------------ MODULE WaitList ------------------------------
(***************************************************************************)
(* The waiting list of a full server (src/source/waitlist.cpp), as         *)
(* ProtocolGame::login asks it (src/source/protocolgame.cpp).  A player    *)
(* who finds no room is told his place, disconnected, and expected to try  *)
(* again; his entry lapses when he does not.                               *)
(*                                                                         *)
(* A player stands for the name, account and address an entry is found by. *)
(* Time is abstracted: the timeout of an entry may pass at any moment.     *)
(***************************************************************************)
EXTENDS Integers, FiniteSets, Sequences, SequencesExt

CONSTANTS
    Applicant,    \* the players who want to enter, now or later
    Premium,      \* the players with a premium account
    Privileged,   \* the players with PlayerFlag_CanAlwaysLogin
    MaxPlayers    \* ConfigManager::MAX_PLAYERS

ASSUME WaitListConstants ==
    /\ Premium \subseteq Applicant
    /\ Privileged \subseteq Applicant
    /\ IsFiniteSet(Applicant)
    /\ MaxPlayers \in Nat

VARIABLES
    online,     \* the players in the game, counted by Status
    waitList,   \* WaitingList::waitList
    place       \* the place a player was last told, 0 when he was let in

waitVars == <<online, waitList, place>>

-----------------------------------------------------------------------------
Wait == [who: Applicant, timedOut: BOOLEAN]

WaitTypeOK ==
    /\ online \subseteq Applicant
    /\ waitList \in Seq(Wait) /\ Len(waitList) <= Cardinality(Applicant)
    /\ place \in [Applicant -> Int]

PlayersOnline == Cardinality(online)

\* The slot of p's entry, 0 when there is none.
FindClient(list, p) ==
    LET entries == {i \in DOMAIN list: list[i].who = p}
    IN  IF entries = {} THEN 0 ELSE Min(entries)

\* -1 is what a player without an entry is told.
GetClientSlot(list, p) ==
    IF FindClient(list, p) = 0 THEN -1 ELSE FindClient(list, p)

\* What stays is the entries that have not timed out, in the order they had.
CleanUpList(list) ==
    LET stay == {i \in DOMAIN list: ~list[i].timedOut}
        Nth(n) == CHOOSE i \in stay: Cardinality({j \in stay: j <= i}) = n
    IN  [n \in 1 .. Cardinality(stay) |-> list[Nth(n)]]

\* A premium player goes before the first player who is not, and is forgotten
\* when there is none; everybody else goes to the end.
Enlisted_First(list, p) == InsertAt(list, 1, [who |-> p, timedOut |-> FALSE])
Enlisted(list, p) ==
    LET wait == [who |-> p, timedOut |-> FALSE]
        others == {i \in DOMAIN list: list[i].who \notin Premium}
    IN  IF p \notin Premium THEN Append(list, wait)
        ELSE IF others # {} THEN InsertAt(list, Min(others), wait)
        ELSE list

-----------------------------------------------------------------------------
\* clientLogin says yes: the login goes on, and may still fail (a character
\* that does not load, no tile to stand on), the entry being gone by then.
Admit(p, list) ==
    /\ waitList' = list
    /\ place' = [place EXCEPT ![p] = 0]
    /\ \/ online' = online \cup {p}
       \/ UNCHANGED online

TurnAway(p, list) ==
    /\ waitList' = list
    /\ place' = [place EXCEPT ![p] = GetClientSlot(list, p)]
    /\ UNCHANGED online

\* No list and enough room, or no need of either.
LetIn_PassList(p) == p \in Privileged \/ PlayersOnline < MaxPlayers
LetIn(p) == p \in Privileged \/ (waitList = <<>> /\ PlayersOnline < MaxPlayers)

\* There is room for p and for everybody ahead of him.
MayEnter_OneMore(slot) == PlayersOnline + slot <= MaxPlayers + 1
MayEnter(slot) == PlayersOnline + slot <= MaxPlayers

ClientLogin(p) ==
    /\ p \notin online
    /\ LET list == CleanUpList(waitList)
           slot == FindClient(list, p)
       IN  \/ /\ LetIn(p)
              /\ Admit(p, waitList)
           \/ /\ ~LetIn(p) /\ slot # 0 /\ MayEnter(slot)
              /\ Admit(p, RemoveAt(list, slot))
           \/ /\ ~LetIn(p) /\ slot # 0 /\ ~MayEnter(slot)
              /\ TurnAway(p, [list EXCEPT ![slot].timedOut = FALSE])
           \/ /\ ~LetIn(p) /\ slot = 0
              /\ TurnAway(p, Enlisted(list, p))

Logout(p) ==
    /\ p \in online
    /\ online' = online \ {p}
    /\ UNCHANGED <<waitList, place>>

\* The timeout of an entry passes.
TimeOut(i) ==
    /\ ~waitList[i].timedOut
    /\ waitList' = [waitList EXCEPT ![i].timedOut = TRUE]
    /\ UNCHANGED <<online, place>>

WaitInit ==
    /\ online = {}
    /\ waitList = <<>>
    /\ place = [p \in Applicant |-> 0]

WaitNext ==
    \/ \E p \in Applicant: ClientLogin(p)
    \/ \E p \in Applicant: Logout(p)
    \/ \E i \in DOMAIN waitList: TimeOut(i)

WaitSpec == WaitInit /\ [][WaitNext]_waitVars

-----------------------------------------------------------------------------
\* p's entry is on the list and has not timed out.
Holds(list, p) == \E i \in DOMAIN list: list[i].who = p /\ ~list[i].timedOut

\* A player without the privilege enters a server that has room for him, and
\* leaves room for everybody who is ahead of him on the list; while somebody
\* waits only players on the list come in.
RoomIsKept ==
    [][\A p \in (online' \ online) \ Privileged:
          /\ PlayersOnline < MaxPlayers
          /\ waitList # <<>> => Holds(waitList, p)
          /\ \A i \in DOMAIN waitList':
                FindClient(waitList, waitList'[i].who) < FindClient(waitList, p)
                   => PlayersOnline' + i <= MaxPlayers]_waitVars

\* A place only gets better, but for a premium player who comes in before one
\* who is not.
NobodyPushedBack ==
    [][\A i \in DOMAIN waitList, j \in DOMAIN waitList':
          /\ waitList[i].who = waitList'[j].who
          /\ ~waitList[i].timedOut
          /\ i < j
          => /\ waitList[i].who \notin Premium
             /\ \E k \in 1 .. j - 1: /\ waitList'[k].who \in Premium
                                     /\ ~Holds(waitList, waitList'[k].who)]_waitVars

=============================================================================
