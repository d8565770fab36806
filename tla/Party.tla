------------------------------- MODULE Party -------------------------------
(***************************************************************************)
(* Parties (src/source/party.cpp, the party handlers of game.cpp and the   *)
(* party hooks of player.cpp).  A Party object and the players refer to    *)
(* each other by pointers in four lists; the object deletes itself when    *)
(* nobody but its leader is left.  Sharing experience is a cached verdict  *)
(* about levels, distances and recent fights that must be taken anew       *)
(* whenever one of them changes.                                           *)
(*                                                                         *)
(* Levels and positions are one thing here: members can share when they    *)
(* are in the same place as the leader.                                    *)
(***************************************************************************)
EXTENDS Naturals, Sequences

CONSTANTS
    Player,
    PartyId,   \* the addresses a Party can be allocated at
    NoParty,   \* the NULL party pointer
    Spot       \* where a player can be, for canUseSharedExperience

ASSUME PartyConstants ==
    /\ NoParty \notin PartyId
    /\ Player # {} /\ Spot # {}

VARIABLES
    online,      \* the players in the game
    at,          \* where every player is
    party,       \* Player::party
    invitations, \* Player::invitePartyList
    parties      \* the Party objects that exist, by their address

partyVars == <<online, at, party, invitations, parties>>

-----------------------------------------------------------------------------
Points == {"none", "recent", "old"}  \* Party::pointMap, with the age of ticks

Record == [leader: Player, members: Seq(Player), invited: SUBSET Player,
           active: BOOLEAN, enabled: BOOLEAN, points: [Player -> Points],
           chat: SUBSET Player, \* the users of the party's channel
           stale: BOOLEAN]      \* history: enabled was not computed since ...

PartyTypeOK ==
    /\ online \subseteq Player
    /\ at \in [Player -> Spot]
    /\ party \in [Player -> PartyId \cup {NoParty}]
    /\ invitations \in [Player -> SUBSET PartyId]
    /\ DOMAIN parties \subseteq PartyId
    /\ \A x \in DOMAIN parties : parties[x] \in Record

Elems(s) == {s[n] : n \in DOMAIN s}

\* std::find and erase: s without the first p on it
Without(s, p) ==
    IF p \notin Elems(s) THEN s
    ELSE LET n == CHOOSE k \in DOMAIN s :
                     s[k] = p /\ \A l \in 1 .. k - 1 : s[l] # p
         IN  SubSeq(s, 1, n - 1) \o SubSeq(s, n + 1, Len(s))

Mates(r) == {r.leader} \cup Elems(r.members)

PartyInit ==
    /\ online = Player
    /\ at \in [Player -> Spot]
    /\ party = [p \in Player |-> NoParty]
    /\ invitations = [p \in Player |-> {}]
    /\ parties = [x \in {} |-> {}]

-----------------------------------------------------------------------------
(* What happens to one Party object; w is where the players are.           *)

CanUse(r, w, p) ==
    r.members # <<>> /\ w[p] = w[r.leader] /\ r.points[p] = "recent"

CanEnable(r, w) == r.members # <<>> /\ \A p \in Mates(r) : CanUse(r, w, p)

\* updateSharedExperience
Update(r, w) ==
    IF r.active
    THEN [r EXCEPT !.enabled = CanEnable(r, w), !.stale = FALSE]
    ELSE r

\* passPartyLeadership: the old leader becomes the first of the members.
Pass(r, w, p) ==
    Update([r EXCEPT !.leader = p,
                     !.members = <<r.leader>> \o Without(r.members, p)], w)

\* joinParty
Joined(r, w, p) ==
    Update([r EXCEPT !.members = Append(@, p), !.invited = @ \ {p}], w)

\* disbandParty(): nobody left, and nobody asked
Deserted(r) == r.members = <<>> /\ r.invited = {}

\* The leader who leaves has nobody to lead the party after him, or a single
\* member and nobody invited.
Heirless(r, p) ==
    /\ r.leader = p
    /\ r.members = <<>> \/ (Len(r.members) = 1 /\ r.invited = {})

\* clearPlayerPoints
ClearPoints(r, w, p) ==
    IF r.points[p] = "none" THEN r
    ELSE Update([r EXCEPT !.points[p] = "none"], w)

\* Variant: the sharing is not looked at again when a member is gone.
Leave_NoUpdate(r, w, p) ==
    LET led == IF r.leader = p /\ ~Heirless(r, p)
               THEN Pass(r, w, Head(r.members)) ELSE r IN
    [led EXCEPT !.members = Without(@, p), !.invited = @ \ {p},
                !.chat = @ \ {p}, !.points[p] = "none"]

\* Variant: the channel keeps the one who leaves.
Leave_KeepChannel(r, w, p) ==
    LET led == IF r.leader = p /\ ~Heirless(r, p)
               THEN Pass(r, w, Head(r.members)) ELSE r
        left == [led EXCEPT !.members = Without(@, p), !.invited = @ \ {p}] IN
    ClearPoints(Update(left, w), w, p)

\* leaveParty, up to the question whether the party goes on
Leave(r, w, p) ==
    LET led == IF r.leader = p /\ ~Heirless(r, p)
               THEN Pass(r, w, Head(r.members)) ELSE r
        left == [led EXCEPT !.members = Without(@, p), !.invited = @ \ {p},
                            !.chat = @ \ {p}] IN
    ClearPoints(Update(left, w), w, p)

-----------------------------------------------------------------------------
(* The handlers.                                                           *)

\* Variant: disband forgets the players who were invited.
Settle_KeepInvitations(next, ended, pty, inv) ==
    /\ parties' = [x \in DOMAIN next \ ended |-> next[x]]
    /\ party' = [p \in Player |->
          IF \E x \in ended : p \in Mates(next[x]) THEN NoParty ELSE pty[p]]
    /\ invitations' = inv

\* The objects become next, but for those that disband: disband() clears the
\* pointers of everybody it finds in the lists and deletes the object.
Settle(next, ended, pty, inv) ==
    /\ parties' = [x \in DOMAIN next \ ended |-> next[x]]
    /\ party' = [p \in Player |->
          IF \E x \in ended : p \in Mates(next[x]) THEN NoParty ELSE pty[p]]
    /\ invitations' = [p \in Player |->
          inv[p] \ {x \in ended : p \in next[x].invited}]

Leads(p) == party[p] # NoParty /\ parties[party[p]].leader = p

\* Player::isInviting
IsInviting(p, q) == Leads(p) /\ q \in parties[party[p]].invited

NewParty(p, q) ==
    [leader |-> p, members |-> <<>>, invited |-> {q}, active |-> FALSE,
     enabled |-> FALSE, points |-> [r \in Player |-> "none"], chat |-> {},
     stale |-> FALSE]

MayInvite(p, q) == p # q /\ ~IsInviting(q, p) /\ party[q] = NoParty

\* playerInviteToParty: the first invitation founds the party.
PlayerInviteToParty(p, q) ==
    /\ {p, q} \subseteq online /\ MayInvite(p, q)
    /\ \E x \in PartyId :
          /\ \/ /\ party[p] = NoParty /\ x \notin DOMAIN parties
                /\ parties' = [y \in DOMAIN parties \cup {x} |->
                                 IF y = x THEN NewParty(p, q) ELSE parties[y]]
             \/ /\ x = party[p] /\ Leads(p) /\ q \notin parties[x].invited
                /\ parties' = [parties EXCEPT ![x].invited = @ \cup {q}]
          /\ party' = [party EXCEPT ![p] = x]
          /\ invitations' = [invitations EXCEPT ![q] = @ \cup {x}]
    /\ UNCHANGED <<online, at>>

\* playerJoinParty
PlayerJoinParty(p, l) ==
    /\ {p, l} \subseteq online
    /\ IsInviting(l, p) /\ party[p] = NoParty
    /\ LET x == party[l] IN
       /\ parties' = [parties EXCEPT ![x] = Joined(@, at, p)]
       /\ party' = [party EXCEPT ![p] = x]
       /\ invitations' = [invitations EXCEPT ![p] = @ \ {x}]
    /\ UNCHANGED <<online, at>>

\* playerRevokePartyInvitation, revokeInvitation, removeInvite
PlayerRevokePartyInvitation(l, q) ==
    /\ {l, q} \subseteq online /\ IsInviting(l, q)
    /\ LET x == party[l]
           next == [parties EXCEPT ![x].invited = @ \ {q}] IN
       Settle(next, {y \in {x} : Deserted(next[y])}, party,
              [invitations EXCEPT ![q] = @ \ {x}])
    /\ UNCHANGED <<online, at>>

\* playerPassPartyLeadership
PlayerPassPartyLeadership(l, q) ==
    /\ {l, q} \subseteq online /\ Leads(l) /\ party[q] = party[l]
    /\ q # l /\ q \in Elems(parties[party[l]].members)
    /\ parties' = [parties EXCEPT ![party[l]] = Pass(@, at, q)]
    /\ UNCHANGED <<online, at, party, invitations>>

\* leaveParty of p with the records cur: the record of his party afterwards,
\* and whether it disbands
LeftBy(cur, p) == [cur EXCEPT ![party[p]] = Leave(@, at, p)]
Ends(cur, p) ==
    {x \in {party[p]} : Heirless(cur[x], p) \/ Deserted(LeftBy(cur, p)[x])}

\* playerLeaveParty, of a player who is not in a fight
PlayerLeaveParty(p) ==
    /\ p \in online /\ party[p] # NoParty
    /\ p \in Mates(parties[party[p]])
    /\ Settle(LeftBy(parties, p), Ends(parties, p),
              [party EXCEPT ![p] = NoParty], invitations)
    /\ UNCHANGED <<online, at>>

\* Variant: the one who logs out stays on the lists of those who asked him.
Declined_Keep(p) == parties

\* clearPartyInvitations: off the list of every party that asked him
Declined(p) ==
    [x \in DOMAIN parties |-> IF x \in invitations[p]
                              THEN [parties[x] EXCEPT !.invited = @ \ {p}]
                              ELSE parties[x]]

\* Player::onCreatureDisappear: a logout, a kick or a death, also in a fight
Disappear(p) ==
    /\ p \in online
    /\ online' = online \ {p}
    /\ LET cur == Declined(p)
           asked == {x \in invitations[p] : Deserted(cur[x])}
           inv == [invitations EXCEPT ![p] = {}]
           pty == [party EXCEPT ![p] = NoParty] IN
       IF party[p] = NoParty THEN Settle(cur, asked, party, inv)
       ELSE Settle(LeftBy(cur, p), asked \cup Ends(cur, p), pty, inv)
    /\ UNCHANGED at

\* The player comes back as a new Player object.
Appear(p, s) ==
    /\ p \notin online
    /\ online' = online \cup {p}
    /\ at' = [at EXCEPT ![p] = s]
    /\ party' = [party EXCEPT ![p] = NoParty]
    /\ invitations' = [invitations EXCEPT ![p] = {}]
    /\ UNCHANGED parties

-----------------------------------------------------------------------------
(* Shared experience and the party's channel.                              *)

ChangeOwn(p, r) == parties' = [parties EXCEPT ![party[p]] = r]

\* onCreatureMove and the level change of onGainExperience: the position (or
\* level) changes, then the party of the player is asked to look again.
Move(p, s) ==
    /\ p \in online /\ s # at[p]
    /\ at' = [at EXCEPT ![p] = s]
    /\ IF party[p] = NoParty THEN UNCHANGED parties
       ELSE ChangeOwn(p, Update(parties[party[p]], at'))
    /\ UNCHANGED <<online, party, invitations>>

Booked(r, p) == Update([r EXCEPT !.points[p] = "recent"], at)

\* addPlayerHealedMember, addPlayerDamageMonster
AddPlayerPoints(p) ==
    /\ p \in online /\ party[p] # NoParty
    /\ ChangeOwn(p, Booked(parties[party[p]], p))
    /\ UNCHANGED <<online, at, party, invitations>>

\* onIdleStatus
IdleStatus(p) ==
    /\ p \in online /\ party[p] # NoParty
    /\ ChangeOwn(p, ClearPoints(parties[party[p]], at, p))
    /\ UNCHANGED <<online, at, party, invitations>>

\* IN_FIGHT_DURATION goes by; nobody tells the party.
PointsExpire(p) ==
    /\ p \in online /\ party[p] # NoParty
    /\ LET r == parties[party[p]] IN
       /\ r.points[p] = "recent"
       /\ ChangeOwn(p, [r EXCEPT !.points[p] = "old", !.stale = r.active])
    /\ UNCHANGED <<online, at, party, invitations>>

\* setSharedExperience, from the !share command of the leader: enabled is
\* left as it was when the sharing was last active.
SetSharedExperience(p, on) ==
    /\ p \in online /\ Leads(p)
    /\ LET r == parties[party[p]] IN
       /\ r.active # on
       /\ ChangeOwn(p, [r EXCEPT !.active = on, !.stale = on])
    /\ UNCHANGED <<online, at, party, invitations>>

\* playerOpenChannel and playerCloseChannel of CHANNEL_PARTY, which
\* playerRequestChannels created
OpenChannel(p) ==
    /\ p \in online /\ party[p] # NoParty
    /\ parties' = [parties EXCEPT ![party[p]].chat = @ \cup {p}]
    /\ UNCHANGED <<online, at, party, invitations>>

CloseChannel(p) ==
    /\ p \in online /\ party[p] # NoParty
    /\ parties' = [parties EXCEPT ![party[p]].chat = @ \ {p}]
    /\ UNCHANGED <<online, at, party, invitations>>

PartyNext ==
    \/ \E p, q \in Player :
          \/ PlayerInviteToParty(p, q)
          \/ PlayerJoinParty(p, q)
          \/ PlayerRevokePartyInvitation(p, q)
          \/ PlayerPassPartyLeadership(p, q)
    \/ \E p \in Player, s \in Spot : Move(p, s) \/ Appear(p, s)
    \/ \E p \in Player, on \in BOOLEAN : SetSharedExperience(p, on)
    \/ \E p \in Player :
          \/ PlayerLeaveParty(p) \/ Disappear(p)
          \/ AddPlayerPoints(p) \/ IdleStatus(p) \/ PointsExpire(p)
          \/ OpenChannel(p) \/ CloseChannel(p)

PartySpec == PartyInit /\ [][PartyNext]_partyVars

-----------------------------------------------------------------------------
(* Properties.                                                             *)

\* The lists of the parties and the pointers of the players mirror each other,
\* so that no pointer outlives its party and no list names a player who left.
LinksAgree ==
    /\ \A p \in Player, x \in PartyId :
          /\ (party[p] = x) <=> (x \in DOMAIN parties /\ p \in Mates(parties[x]))
          /\ x \in invitations[p] <=>
                (x \in DOMAIN parties /\ p \in parties[x].invited)
    /\ \A x \in DOMAIN parties :
          Mates(parties[x]) \cup parties[x].invited \subseteq online

\* Nobody is twice in a party, nobody is asked to join the one he is in, and a
\* party that is left without members and invitations is gone.
RostersSound ==
    \A x \in DOMAIN parties : LET r == parties[x] IN
        /\ r.leader \notin Elems(r.members) \cup r.invited
        /\ Elems(r.members) \cap r.invited = {}
        /\ \A m, n \in DOMAIN r.members : r.members[m] = r.members[n] => m = n
        /\ ~Deserted(r)

\* Whoever hears the channel of a party is in it: leaving, dying and disbanding
\* take everybody concerned out of the channel.
ChatIsPrivate == \A x \in DOMAIN parties : parties[x].chat \subseteq Mates(parties[x])

\* While sharing is active the cached verdict is the one the members' levels,
\* positions and fights give, whatever order they move, join, leave and fight
\* in, but for two events the code does not follow: points that grow old and
\* the activation itself.
SharingIsCurrent ==
    \A x \in DOMAIN parties : LET r == parties[x] IN
        r.active /\ ~r.stale => (r.enabled <=> CanEnable(r, at))

\* onGainExperience hands the experience to shareExperience, with its bonus.
SharesExperience(r) == r.active /\ r.enabled

\* The comment in canUseSharedExperience: no bonus on shared experience if there
\* is no one in the party, when the invitation is not accepted.
NoBonusAlone ==
    \A x \in DOMAIN parties :
        SharesExperience(parties[x]) => parties[x].members # <<>>

=============================================================================
