SPECIFICATION Spec
CONSTANTS
    skill = skill  move1 = move1  move2 = move2  chat = chat
    None = None
    Actions = {skill}
    Transfers = {}
    ConvOf <- SkillInChat
    Conversations = {chat}
    Requests = {r1, r2}
    Racing = {}
    MaxCrashes = 0
INVARIANTS FailureReturnsToPending
CHECK_DEADLOCK FALSE
