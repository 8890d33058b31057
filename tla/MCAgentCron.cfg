SPECIFICATION CronSpec
CONSTANTS
    Crons = {a, b}
    Hands = {h1, h2}
    MaxAsked = 1
    MaxEdits = 0
    NoCron = NoCron
INVARIANTS NoDoubleFire
CHECK_DEADLOCK FALSE
