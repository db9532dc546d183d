SPECIFICATION FairSpec
CONSTANTS
    MaxEvents = 5
    MaxScripts = 2
INVARIANTS
    TypeOK
    EventsConsistent
    QueuesOrdered
    NeverStuck
    PromptOnlyWhenIdle
PROPERTIES
    ImplementsPromise
    KeepsPromise
CHECK_DEADLOCK FALSE
