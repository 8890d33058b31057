SPECIFICATION Spec
CONSTANTS
    Msgs = {m1}
    Workers = {1, 2}
    MaxTries = 2
    MaxFaults = 1
    MaxHooks = 2
    Recipients = {r1, r2}
    Clicks = {c1, c2}
    Runners = {1, 2}
    Instances = {i1, i2}
    Crons = {a, b}
    Hands = {h1, h2}
    MaxAsked = 1
    MaxEdits = 1
    NoCron = NoCron
    Reminders = {r1}
    Ringers = {1, 2}
    Period = 2
    LastHour = 3
    MaxSnoozes = 1
    NoReminder = NoReminder
INVARIANTS TypeOK SentOnceIsOneRow EchoRaceDoesNotResend FailedIsNotSent OneMessageEach CancelStops PublishedOnce CalendarIsTrue RungOnceEach
PROPERTIES StatusNeverRegresses QueuedSettles CampaignSettles PostSettles EsteiraEnds
CHECK_DEADLOCK FALSE
