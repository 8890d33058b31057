SPECIFICATION Spec
CONSTANTS
    tag = tag  status = status
    None = None
    Ids <- Two
    Contacts = {ana}
    Triggers = {tag}
    Keyed = {}
    Rules <- Two
    TriggerOf <- OnTag
    Emits <- Silent
    Pollers = {p1}
    MaxDepth = 1
    MaxAttempts = 2
    MaxFaults = 0
    MaxSwitches = 0
    LockMayLapse = FALSE
INVARIANTS NoSecondMutation
CHECK_DEADLOCK FALSE
