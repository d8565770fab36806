SPECIFICATION Spec
CONSTANTS
    c1 = c1
    c2 = c2
    c3 = c3
    n1 = n1
    NoClient = NoClient
    NoPlayer = NoPlayer
    Client <- ThreeClients
    Name <- OneName
INVARIANTS
    LinksAgree
    NothingDangles
PROPERTIES
    LoginAnswered
    OrphansGo
CHECK_DEADLOCK FALSE
