SPECIFICATION Spec
CONSTANTS
    tag = tag  status = status
    None = None
    Ids <- Two
    Contacts = {ana}
    Triggers = {tag, status}
    Keyed = {tag}
    Rules <- Two
    TriggerOf <- OnBoth
    Emits <- Back
    Pollers = {p1, p2}
    MaxDepth = 1
    MaxAttempts = 1
    MaxFaults = 0
    MaxSwitches = 1
    LockMayLapse = FALSE
SYMMETRY Replicas
INVARIANTS TypeOK ContactSerialized
PROPERTIES DeliverySpec
CHECK_DEADLOCK FALSE
