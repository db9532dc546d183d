SPECIFICATION FairSpec
CONSTANTS
    MaxEvents = 2
    MaxDetached = 1
    MaxVariables = 1
    MaxRedirects = 2
INVARIANTS
    NoLostWakeup
    NothingDangles
    ContextPresent
PROPERTIES
    CalledOnce
    RequestEnds
CHECK_DEADLOCK FALSE
