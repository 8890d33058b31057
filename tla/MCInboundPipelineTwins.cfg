SPECIFICATION Spec
CONSTANTS
    m1 = m1  m2 = m2  w1 = w1  w2 = w2  w3 = w3  alice = alice
    None = None
    Webhooks = {w1, w2, w3}
    Messages = {m1, m2}
    Carries <- Redelivered
    Contacts = {alice}
    Sender <- FromAlice
    Echoes = {}
    Conversations <- Ids
    Official = FALSE
    HasActiveBot = TRUE
    MaxAttempts = 2
    MaxCrashes = 0
    MaxOps = 1
    ManualReopen = FALSE
    TransferClosed = FALSE
    LockMayLapse = FALSE
    ClaimMayThrow = FALSE
    ReleaseMayFail = FALSE
    Unrecorded = {}
    MarkMayFail = FALSE
    BoundaryMayRace = FALSE
INVARIANTS NoDuplicates
CHECK_DEADLOCK FALSE
