SPECIFICATION RaidsSpec
CONSTANTS
    r1 = r1
    r2 = r2
    NoRaid = NoRaid
    Raid <- MCRaid
    Sizes = {0, 2}
    MaxLoads = 2
INVARIANTS
    EventsInOrder
PROPERTIES
    RaidsEnd
CHECK_DEADLOCK FALSE
