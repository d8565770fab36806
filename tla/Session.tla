------------------------------ MODULE Session ------------------------------
(***************************************************************************)
(* How clients come to characters and leave them (src/source/              *)
(* protocolgame.cpp, with the parts of protocol.cpp, connection.cpp,       *)
(* game.cpp and player.cpp it relies on).                                  *)
(*                                                                         *)
(* A client is a connection with its ProtocolGame; it logs in once, so the *)
(* Player object a login creates is named after the client that created    *)
(* it.  A character in the game is taken over by the next client that logs *)
(* in with its name: the old client is disconnected, and a second later    *)
(* the new one is connected, unless somebody was faster.                   *)
(*                                                                         *)
(* Network threads post tasks, the scheduler posts its events when they    *)
(* are due, and one dispatcher runs the tasks first come, first served.    *)
(***************************************************************************)
EXTENDS Integers, FiniteSets, Sequences, SequencesExt

CONSTANTS
    Client,
    Name,       \* the names of the characters
    NoClient,   \* the NULL protocol pointer
    NoPlayer    \* the NULL player pointer

ASSUME SessionConstants ==
    /\ NoClient \notin Client
    /\ NoPlayer \notin Client
    /\ IsFiniteSet(Client) /\ Name # {}

VARIABLES
    queue,       \* the dispatcher's tasks
    timers,      \* the scheduler's events, soonest first
    connection,  \* m_connectionState as the protocol knows it
    player,      \* ProtocolGame::player
    accepting,   \* ProtocolGame::m_acceptPackets
    refCount,    \* Protocol::m_refCount
    deleted,     \* the protocols that were deleted
    object,      \* the Player object of a login: none, loaded, placed, removed
    name,        \* its name
    client,      \* Player::client
    connecting,  \* Player::isConnecting
    useCount,    \* Thing::useCount of the Player object, but for the check list
    held         \* the players whom a fight, a tile or a script keeps in the game

protocolVars == <<connection, player, accepting, refCount, deleted>>
playerVars == <<object, name, client, connecting, useCount>>
vars == <<queue, timers, protocolVars, playerVars, held>>

-----------------------------------------------------------------------------
Player == Client

Task ==
    [kind: {"login"}, by: Client, name: Name]
       \cup [kind: {"connect"}, by: Client, to: Player]
       \cup [kind: {"logout", "close", "release"}, by: Client]

TypeOK ==
    /\ queue \in Seq(Task)
    /\ timers \in Seq(Task)
    /\ connection \in [Client -> {"unused", "open", "closing", "closed"}]
    /\ player \in [Client -> Player \cup {NoPlayer}]
    /\ accepting \in [Client -> BOOLEAN]
    /\ refCount \in [Client -> 0..1]
    /\ deleted \subseteq Client
    /\ object \in [Player -> {"none", "loaded", "placed", "removed"}]
    /\ name \in [Player -> Name]
    /\ client \in [Player -> Client \cup {NoClient}]
    /\ connecting \in [Player -> BOOLEAN]
    /\ useCount \in [Player -> 0 .. Cardinality(Client) + 1]
    /\ held \subseteq Player

Placed == {p \in Player: object[p] = "placed"}

-----------------------------------------------------------------------------
\* closeConnection: an open connection posts its closing.  A protocol that was
\* released has no connection.  rest are the tasks that wait otherwise.
CloseConnection(c, rest) ==
    IF c # NoClient /\ connection[c] = "open"
    THEN /\ connection' = [connection EXCEPT ![c] = "closing"]
         /\ queue' = Append(rest, [kind |-> "close", by |-> c])
    ELSE /\ UNCHANGED connection
         /\ queue' = rest

\* The game forgets p and frees its reference.
RemoveCreature(p) ==
    /\ object' = [object EXCEPT ![p] = "removed"]
    /\ useCount' = [useCount EXCEPT ![p] = @ - 1]

\* ProtocolGame::logout once nothing stands in its way; rest as above.
LogOut(c, rest) ==
    /\ CloseConnection(c, rest)
    /\ IF object[player[c]] = "placed"
       THEN RemoveCreature(player[c])
       ELSE UNCHANGED <<object, useCount>>

-----------------------------------------------------------------------------
\* The network: a connection whose first packet names a character.
FirstPacket(c, n) ==
    /\ connection[c] = "unused"
    /\ connection' = [connection EXCEPT ![c] = "open"]
    /\ queue' = Append(queue, [kind |-> "login", by |-> c, name |-> n])
    /\ UNCHANGED <<timers, player, accepting, refCount, deleted, playerVars, held>>

\* A logout packet; one of them waits at a time.
LogoutPacket(c) ==
    LET logout == [kind |-> "logout", by |-> c]
    IN  /\ connection[c] = "open" /\ accepting[c] /\ player[c] # NoPlayer
        /\ \A i \in DOMAIN queue: queue[i] # logout
        /\ queue' = Append(queue, logout)
        /\ UNCHANGED <<timers, protocolVars, playerVars, held>>

\* The other side hangs up, or a read or write fails or takes too long.
HangUp(c) ==
    /\ connection[c] = "open"
    /\ CloseConnection(c, queue)
    /\ UNCHANGED <<timers, player, accepting, refCount, deleted, playerVars, held>>

\* The scheduler posts the event that is due first.
Expire ==
    /\ timers # <<>>
    /\ queue' = Append(queue, Head(timers))
    /\ timers' = Tail(timers)
    /\ UNCHANGED <<protocolVars, playerVars, held>>

-----------------------------------------------------------------------------
\* The dispatcher runs the first task.
First(kind) == queue # <<>> /\ Head(queue).kind = kind

\* disconnectClient, with the reason.
Refuse_StayOpen(c) == queue' = Tail(queue) /\ UNCHANGED connection
Refuse(c) == CloseConnection(c, Tail(queue))

\* Nobody of that name is in the game: a new object, which is either refused
\* (a ban, a closed or full server, a character that does not load, no tile)
\* or placed.
LoginNew(c, n) ==
    /\ player' = [player EXCEPT ![c] = c]
    /\ client' = [client EXCEPT ![c] = c]
    /\ name' = [name EXCEPT ![c] = n]
    /\ \/ /\ object' = [object EXCEPT ![c] = "loaded"]
          /\ useCount' = [useCount EXCEPT ![c] = 1]
          /\ Refuse(c)
          /\ UNCHANGED accepting
       \/ /\ object' = [object EXCEPT ![c] = "placed"]
          /\ useCount' = [useCount EXCEPT ![c] = 2]
          /\ accepting' = [accepting EXCEPT ![c] = TRUE]
          /\ queue' = Tail(queue)
          /\ UNCHANGED connection
    /\ UNCHANGED <<timers, connecting, refCount, deleted>>

AddRef_None(c) == refCount
AddRef(c) == [refCount EXCEPT ![c] = @ + 1]

\* The character has a client: it is disconnected, and the connect event takes
\* a reference on the protocol that waits for it.
TakeOver(c, p) ==
    /\ CloseConnection(client[p], Tail(queue))
    /\ connecting' = [connecting EXCEPT ![p] = TRUE]
    /\ refCount' = AddRef(c)
    /\ timers' = Append(timers, [kind |-> "connect", by |-> c, to |-> p])
    /\ UNCHANGED <<player, accepting, deleted, object, name, client, useCount>>

\* Only a player in the game who has no client is connected.
MayConnect_Anybody(p) == p \in Placed
MayConnect(p) == p \in Placed /\ client[p] = NoClient

Connected_Still(p) == connecting
Connected(p) == [connecting EXCEPT ![p] = FALSE]

\* The tail of ProtocolGame::connect.
Attach(c, p) ==
    /\ player' = [player EXCEPT ![c] = p]
    /\ useCount' = [useCount EXCEPT ![p] = @ + 1]
    /\ connecting' = Connected(p)
    /\ client' = [client EXCEPT ![p] = c]
    /\ accepting' = [accepting EXCEPT ![c] = TRUE]
    /\ queue' = Tail(queue)
    /\ UNCHANGED <<connection, object, name>>

RunLogin ==
    /\ First("login")
    /\ LET c == Head(queue).by
           n == Head(queue).name
       IN  \/ /\ \A p \in Placed: name[p] # n
              /\ LoginNew(c, n)
           \/ \E p \in Placed:
                 /\ name[p] = n /\ client[p] # NoClient
                 /\ TakeOver(c, p)
           \/ \E p \in Placed:
                 /\ name[p] = n /\ client[p] = NoClient
                 /\ Attach(c, p)
                 /\ UNCHANGED <<timers, refCount, deleted>>
    /\ UNCHANGED held

\* ProtocolGame::connect: the character is gone, or somebody was faster.
RunConnect ==
    /\ First("connect")
    /\ LET c == Head(queue).by
           p == Head(queue).to
       IN  /\ refCount' = [refCount EXCEPT ![c] = @ - 1]
           /\ \/ /\ MayConnect(p)
                 /\ Attach(c, p)
              \/ /\ ~MayConnect(p)
                 /\ Refuse(c)
                 /\ UNCHANGED <<player, accepting, playerVars>>
    /\ UNCHANGED <<timers, deleted, held>>

\* Logging out of the game is refused to a player in a fight, on some tiles
\* and by scripts, but not to one who was removed already.
RunLogout ==
    /\ First("logout")
    /\ LET c == Head(queue).by
           p == player[c]
       IN  \/ /\ p = NoPlayer \/ p \in Placed \cap held
              /\ queue' = Tail(queue)
              /\ UNCHANGED <<connection, object, useCount>>
           \/ /\ p # NoPlayer /\ p \notin Placed \cap held
              /\ LogOut(c, Tail(queue))
    /\ UNCHANGED <<timers, player, accepting, refCount, deleted, name, client,
                   connecting, held>>

\* The players' clients when c is released.
Released(c) == [p \in Player |->
                  IF p = player[c] /\ client[p] = c THEN NoClient ELSE client[p]]

\* releaseProtocol: the player loses its client; the protocol is deleted when
\* nobody refers to it, and this runs again a tick later otherwise.  A tick is
\* the shortest delay there is, so an event that comes later is due later.
ReleaseProtocol(c) ==
    /\ client' = Released(c)
    /\ IF refCount[c] > 0
       THEN /\ \E i \in 1 .. Len(timers) + 1:
                  timers' = InsertAt(timers, i, [kind |-> "release", by |-> c])
            /\ UNCHANGED <<player, deleted, useCount>>
       ELSE /\ deleted' = deleted \cup {c}
            /\ player' = [player EXCEPT ![c] = NoPlayer]
            /\ useCount' = [p \in Player |->
                              IF p = player[c] THEN useCount[p] - 1 ELSE useCount[p]]
            /\ UNCHANGED timers

RunClose ==
    /\ First("close")
    /\ LET c == Head(queue).by
       IN  /\ connection' = [connection EXCEPT ![c] = "closed"]
           /\ ReleaseProtocol(c)
    /\ queue' = Tail(queue)
    /\ UNCHANGED <<accepting, refCount, object, name, connecting, held>>

RunRelease ==
    /\ First("release")
    /\ ReleaseProtocol(Head(queue).by)
    /\ queue' = Tail(queue)
    /\ UNCHANGED <<connection, accepting, refCount, object, name, connecting, held>>

-----------------------------------------------------------------------------
\* Other tasks of the dispatcher, in between.

\* onThink removes a player without a client.
Think(p) ==
    /\ p \in Placed
    /\ client[p] = NoClient /\ p \notin held /\ ~connecting[p]
    /\ RemoveCreature(p)
    /\ UNCHANGED <<queue, timers, protocolVars, name, client, connecting, held>>

\* Kicked for being idle, for not answering pings or by a gamemaster.
KickPlayer(p) ==
    /\ p \in Placed
    /\ IF client[p] # NoClient
       THEN LogOut(client[p], queue)
       ELSE RemoveCreature(p) /\ UNCHANGED <<queue, connection>>
    /\ UNCHANGED <<timers, player, accepting, refCount, deleted, name, client,
                   connecting, held>>

\* Death removes a player whose client stays.
Die(p) ==
    /\ p \in Placed
    /\ RemoveCreature(p)
    /\ UNCHANGED <<queue, timers, protocolVars, name, client, connecting, held>>

\* Fights begin and end, players step on tiles where they may not log out.
Hold(p) ==
    /\ p \in Placed
    /\ held' = IF p \in held THEN held \ {p} ELSE held \cup {p}
    /\ UNCHANGED <<queue, timers, protocolVars, playerVars>>

-----------------------------------------------------------------------------
Init ==
    /\ queue = <<>>
    /\ timers = <<>>
    /\ connection = [c \in Client |-> "unused"]
    /\ player = [c \in Client |-> NoPlayer]
    /\ accepting = [c \in Client |-> FALSE]
    /\ refCount = [c \in Client |-> 0]
    /\ deleted = {}
    /\ object = [p \in Player |-> "none"]
    /\ name = [p \in Player |-> CHOOSE n \in Name: TRUE]
    /\ client = [p \in Player |-> NoClient]
    /\ connecting = [p \in Player |-> FALSE]
    /\ useCount = [p \in Player |-> 0]
    /\ held = {}

Dispatch == RunLogin \/ RunConnect \/ RunLogout \/ RunClose \/ RunRelease

Next ==
    \/ \E c \in Client, n \in Name: FirstPacket(c, n)
    \/ \E c \in Client: LogoutPacket(c) \/ HangUp(c)
    \/ Expire
    \/ Dispatch
    \/ \E p \in Player: Think(p) \/ KickPlayer(p) \/ Die(p) \/ Hold(p)

\* The threads of the dispatcher and the scheduler run, and the check of all
\* creatures comes round to everybody.  A tick takes time: a protocol that is
\* released again and again is some time due after the events that waited.
Fairness ==
    /\ WF_vars(Dispatch)
    /\ SF_vars(RunRelease /\ timers' = Append(timers, Head(queue)))
    /\ WF_vars(Expire)
    /\ \A p \in Player: WF_vars(Think(p))

Spec == Init /\ [][Next]_vars /\ Fairness

-----------------------------------------------------------------------------
Tasks == {queue[i]: i \in DOMAIN queue} \cup {timers[i]: i \in DOMAIN timers}

\* A client and its player point at each other; a client whose packets are
\* accepted is the one its player has, so no two drive one character; and no
\* character is in the game twice.
LinksAgree ==
    /\ \A p \in Player: client[p] # NoClient => player[client[p]] = p
    /\ \A c \in Client:
          connection[c] = "open" /\ accepting[c] =>
             player[c] # NoPlayer /\ client[player[c]] = c
    /\ \A p, q \in Placed: p # q => name[p] # name[q]

\* No task of a protocol and no player refers to a protocol that was deleted,
\* and the use count of a player is the number of those who use it.
NothingDangles ==
    /\ \A t \in Tasks: t.by \notin deleted
    /\ \A p \in Player: client[p] \notin deleted
    /\ \A p \in Player:
          useCount[p] = Cardinality({c \in Client: player[c] = p})
                        + (IF p \in Placed THEN 1 ELSE 0)

\* Every login ends: its client drives a character or is disconnected.
LoginAnswered ==
    \A c \in Client:
       connection[c] = "open" ~> connection[c] # "open" \/ accepting[c]

\* A character without a client does not stay in the game, unless something
\* holds it there or another client comes.
OrphansGo ==
    \A p \in Player:
       p \in Placed /\ client[p] = NoClient
          ~> p \notin Placed \/ client[p] # NoClient \/ p \in held
=============================================================================
