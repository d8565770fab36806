SPECIFICATION SchedSpec
CONSTANTS
    e1 = e1
    e2 = e2
    e3 = e3
    NoEvent = NoEvent
    Event <- MCEvent
    Delay <- MCDelay
    MinTicks = 1
    MaxEventId = 2
    MaxTime = 3
INVARIANTS
    NoOversleep
    StopHonoured
PROPERTY ImplementsTimer
SYMMETRY EventSymmetry
CHECK_DEADLOCK FALSE
