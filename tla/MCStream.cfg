SPECIFICATION FairSpec
CONSTANTS
    MaxEvents = 2
    MaxBuffers = 3
    MaxReads = 1
    MaxVariables = 1
    NoEvent = NoEvent
INVARIANTS
    NoLostWakeup
    NothingDangles
    BuffersConsumed
PROPERTIES
    PhaseCalledOnce
    PhaseResumes
    PhaseEndsClean
    BuffersInOrder
CHECK_DEADLOCK FALSE
