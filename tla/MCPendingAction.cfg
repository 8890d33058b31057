SPECIFICATION FairSpec
CONSTANTS
    skill = skill  move1 = move1  move2 = move2  chat = chat
    None = None
    Actions = {skill, move1, move2}
    Transfers = {move1, move2}
    ConvOf <- OneChat
    Conversations = {chat}
    Requests = {r1, r2}
    Racing = {}
    MaxCrashes = 1
INVARIANTS TypeOK RefusedIsNotCarriedOut CalledOncePerApproval PausedUntilDecided
PROPERTIES ApprovedIsAttempted
CHECK_DEADLOCK FALSE
