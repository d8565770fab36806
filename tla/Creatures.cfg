SPECIFICATION Spec
CONSTANTS
    p1 = p1
    m1 = m1
    m2 = m2
    Nobody = Nobody
    Player <- OnePlayer
    Monster <- TwoMonsters
    Place <- MCPlace
    Sees <- MCSees
    Afar <- MCAfar
    Home = 1
    Roaming <- MCRoaming
    MaxSummons = 1
    MaxVector = 2
SYMMETRY CreatureSymmetry
VIEW CreatureView
INVARIANTS PointersAreGood WildSeeFoes DyingAreChecked BlockIsWatched
