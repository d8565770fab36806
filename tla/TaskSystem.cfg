SPECIFICATION FairSpec
CONSTANTS
    e1 = e1
    j1 = j1
    NoEvent = NoEvent
    NoTask = NoTask
    NoOne = NoOne
    ShutdownTask = ShutdownTask
    Event <- MCEvent
    Job <- MCJob
    Task <- MCTask
    Delay <- MCDelay
    MinTicks = 1
    MaxEventId = 2
    MaxTime = 2
INVARIANTS
    NoUseAfterFree
PROPERTIES
    AcceptedTasksEnd
    ArmedEventsRun
    ShutdownEnds
CHECK_DEADLOCK FALSE
