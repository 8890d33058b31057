SPECIFICATION FairSpec
CONSTANTS
    Slots = {1, 2}
    MaxDepth = 1
    MaxAttempts = 1
    MaxInbound = 2
    MaxEvents = 2
INVARIANTS TypeOK DebounceConsistent HumanKeepsTheFloor
PROPERTIES NoMessageSkipped NeverLeftWaiting
CHECK_DEADLOCK FALSE
