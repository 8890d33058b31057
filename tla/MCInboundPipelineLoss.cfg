SPECIFICATION Spec
CONSTANTS
    m1 = m1  m2 = m2  w1 = w1  w2 = w2  w3 = w3  alice = alice
    None = None
    Webhooks = {w1, w2}
    Messages = {m1}
    Carries <- Twice
    Contacts = {alice}
    Sender <- OneFromAlice
    Echoes = {}
    Conversations <- Ids
    Official = TRUE
    HasActiveBot = TRUE
    MaxAttempts = 2
    MaxCrashes = 1
    MaxOps = 1
    ManualReopen = FALSE
    TransferClosed = TRUE
    LockMayLapse = FALSE
    ClaimMayThrow = FALSE
    ReleaseMayFail = FALSE
    Unrecorded = {}
    MarkMayFail = FALSE
    BoundaryMayRace = FALSE
INVARIANTS NoSilentLoss
CHECK_DEADLOCK FALSE
