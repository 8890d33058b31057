SPECIFICATION FairSpec
CONSTANTS
    tag = tag  status = status
    None = None
    Ids <- Two
    Contacts = {ana}
    Triggers = {tag}
    Keyed = {}
    Rules <- One
    TriggerOf <- Sole
    Emits <- Nothing
    Pollers = {p1}
    MaxDepth = 1
    MaxAttempts = 2
    MaxFaults = 1
    MaxSwitches = 0
    LockMayLapse = FALSE
PROPERTIES DeliverySpec EventIsHandled
CHECK_DEADLOCK FALSE
