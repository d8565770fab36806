SPECIFICATION PartySpec
CONSTANTS
    a = a
    b = b
    c = c
    x1 = x1
    x2 = x2
    NoParty = NoParty
    Player <- MCPlayer
    PartyId <- MCPartyId
    Spot <- TwoSpots
SYMMETRY PartySymmetry
INVARIANTS
    LinksAgree
    ChatIsPrivate
    SharingIsCurrent
