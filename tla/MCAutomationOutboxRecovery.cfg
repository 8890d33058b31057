SPECIFICATION Spec
CONSTANTS
    tag = tag  status = status
    None = None
    Ids <- One
    Contacts = {ana}
    Triggers = {tag}
    Keyed = {}
    Rules <- One
    TriggerOf <- Sole
    Emits <- Nothing
    Pollers = {p1}
    MaxDepth = 1
    MaxAttempts = 1
    MaxFaults = 1
    MaxSwitches = 0
    LockMayLapse = FALSE
PROPERTIES PushRequeues
CHECK_DEADLOCK FALSE
