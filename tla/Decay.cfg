CONSTANTS
  i1 = i1
  i2 = i2
  i3 = i3
  ringOff = ringOff
  ringOn = ringOn
  corpse = corpse
  bones = bones
  puddle = puddle
  stain = stain
  NoItem = NoItem
  Never = Never
  Vanish = Vanish
  Items <- MCItems
  Types <- MCTypes
  Info <- MCInfo
  Made <- MCMade
  Listings = {1, 2, 3, 4, 5}
  Interval = 4
  Buckets = 4
SYMMETRY Addresses
SPECIFICATION DecaySpec
INVARIANTS RefsExact DecayingIsListed
PROPERTY DecaysOnTime
