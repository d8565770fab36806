SPECIFICATION Spec
CONSTANTS
    a = a
    b = b
    bag = bag
    box = box
    c1 = c1
    c2 = c2
    axe = axe
    NoThing = NoThing
    Nowhere = Nowhere
    Player <- TwoPlayers
    Tile <- MCTile
    Container = {bag, box}
    Stack = {c1, c2}
    Gear = {axe}
    TwoHanded = {axe}
    Room <- MCRoom
    Heft <- MCHeft
    Strength <- MCStrength
    MaxStack = 2
    MaxAmount = 2
    MaxBags = 3
    MaxDepth = 0
    TileLimit = 0
    AutoStack = TRUE
    Window = {0}
    Perishable = {bag, c1, c2}
    Curious = {a}
    MaxPieces = 3
SYMMETRY StorageSymmetry
INVARIANTS BooksAgree LimitsHold WindowsInReach NothingLost
