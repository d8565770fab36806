SPECIFICATION Spec
CONSTANTS
    a = a
    b = b
    c = c
    box = box
    bag = bag
    coin = coin
    NoPlayer = NoPlayer
    NoItem = NoItem
    Gone = Gone
    Player <- MCPlayer
    Item <- MCItem
    Container <- MCContainer
    Tile <- MCTile
SYMMETRY TradeSymmetry
VIEW TradeView
INVARIANTS
    PartnersAgree
    RegisterMatchesOffers
    OfferInReach
PROPERTIES
    ImplementsBarter
    OfferUntouched
    SwapIsComplete
