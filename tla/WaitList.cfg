SPECIFICATION WaitSpec
CONSTANTS
    p1 = p1
    p2 = p2
    f1 = f1
    f2 = f2
    gm = gm
    Applicant <- MCApplicant
    Premium <- MCPremium
    Privileged <- MCPrivileged
    MaxPlayers = 2
SYMMETRY WaitListSymmetry
PROPERTIES
    RoomIsKept
    NobodyPushedBack
