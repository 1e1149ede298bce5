SPECIFICATION FairSpec
CONSTANTS
    Producers = {p1, p2}
    MaxLives = 2
    MaxPuts = 4
INVARIANTS TypeOK NoUseAfterDestroy
PROPERTIES ImplementsQueue MessagesHandled DeinitEnds
CHECK_DEADLOCK FALSE
