-------------------------- MODULE InboundPipeline --------------------------
(***************************************************************************)
(* From a provider's webhook to a stored message and an AI dispatch:       *)
(* webhook-gateway.controller.ts, inbound-message.processor.ts, and the    *)
(* idempotency, contact-resolver and conversation-resolver services it     *)
(* awaits.  One channel; a job of the BullMQ queue `inbound-messages` is a *)
(* pair <<webhook, message>>, and every await of the processor that other  *)
(* workers can observe is an action of its own.                            *)
(***************************************************************************)
EXTENDS Naturals, FiniteSets

CONSTANTS
    Webhooks,        \* deliveries of the provider, redeliveries included
    Messages,        \* external message ids
    Carries,         \* [Webhooks -> SUBSET Messages]: what a payload holds
    Contacts,        \* external contact ids of the channel
    Sender,          \* [Messages -> Contacts]
    Echoes,          \* messages the provider echoes back (isEcho)
    Conversations,   \* ids of conversation rows, 1..n
    Official,        \* the channel is WHATSAPP_OFFICIAL: 24h window
    HasActiveBot,    \* an active chatbot flow is linked to the channel
    MaxAttempts,     \* BullMQ `attempts` of a process-inbound job
    MaxCrashes,      \* bound: restarts of the worker process
    MaxOps,          \* bound: requests made by operators
    ManualReopen,    \* operators may reopen a CLOSED conversation
    TransferClosed,  \* a conversation may be CLOSED when it is moved to a department
    LockMayLapse,    \* a lock's TTL may end while its holder still works
    ClaimMayThrow,   \* the SET NX of the claim may fail with an error
    ReleaseMayFail,  \* the DEL of releaseClaim may fail (its catch is silent)
    Unrecorded,      \* deliveries whose webhook_events row could not be written
    MarkMayFail,     \* an update of webhook_events may fail (it is swallowed)
    BoundaryMayRace, \* a 24h boundary may pass under a worker's hands
    None

Jobs == {j \in Webhooks \X Messages : j[2] \in Carries[j[1]]}
msg(j) == j[2]
contactOf(j) == Sender[msg(j)]

ASSUME InboundAssumption ==
    /\ Carries \in [Webhooks -> SUBSET Messages]
    /\ Sender \in [Messages -> Contacts]
    /\ Echoes \subseteq Messages
    /\ Unrecorded \subseteq Webhooks
    /\ Conversations \subseteq Nat \ {0}
    /\ MaxAttempts \in Nat \ {0}
    /\ MaxCrashes \in {0, 1}  \* BullMQ fails a job that stalls a second time
    /\ MaxOps \in Nat
    /\ {Official, HasActiveBot, ManualReopen, TransferClosed, LockMayLapse,
        ClaimMayThrow, ReleaseMayFail, MarkMayFail, BoundaryMayRace} \subseteq BOOLEAN
    /\ None \notin Conversations \union Jobs \union Contacts

VARIABLES
    delivered,   \* webhooks the controller has received
    event,       \* webhook_events row: its status, "NONE" when not recorded
    queue,       \* BullMQ state of each job
    attempts,    \* attempts a job has used
    pc,          \* where its worker stands in process()
    conv,        \* the conversation its worker has resolved or read
    seen,        \* the status its worker read from that conversation
    claims,      \* idemp:* keys in Redis
    locks,       \* lock:* keys in Redis, per kind and contact
    contacts,    \* contact rows
    row,         \* conversation rows
    clock,       \* orders the closedAt stamps
    stored,      \* message rows, (conversation, external id)
    dispatched,  \* how often a message reached the end of process()
    crashes, ops,
    asked,       \* requests of operators between their read and their write
    orphaned,    \* history: messages whose worker died holding their claim
    blind        \* history: contacts whose CLOSED conversation was written blindly

redisVars == <<claims, locks>>
dbVars == <<event, contacts, row, clock, stored>>
workVars == <<queue, attempts, pc, conv, seen>>
history == <<orphaned, blind>>
vars == <<delivered, dbVars, redisVars, workVars, dispatched, crashes, ops, asked, history>>

-----------------------------------------------------------------------------
OpenStates == {"PENDING", "OPEN", "BOT", "WAITING"}
Statuses == OpenStates \union {"CLOSED"}

ValidTransitions ==
    {<<"PENDING", "OPEN">>, <<"PENDING", "BOT">>,
     <<"BOT", "PENDING">>, <<"BOT", "CLOSED">>,
     <<"OPEN", "WAITING">>, <<"OPEN", "CLOSED">>,
     <<"WAITING", "OPEN">>, <<"WAITING", "CLOSED">>,
     <<"CLOSED", "OPEN">>, <<"CLOSED", "PENDING">>}

\* closedAt: 0 is 24 hours ago or more, 1 is about to be, later stamps are
\* recent.  window: the last inbound message of the conversation is recent,
\* about to be 24 hours old, or older.
Windows == {"fresh", "ageing", "expired"}
ConvRow == [contact : Contacts, status : Statuses, closedAt : Nat, window : Windows]
Absent == [contact |-> None, status |-> "absent", closedAt |-> 0, window |-> "fresh"]

LockKeys == {"contact", "conv"} \X Contacts

\* An operator's request: the status it has read and the one it will write.
Requests == [n : 1..MaxOps, conv : Conversations, from : Statuses, to : Statuses]

\* Where a worker that won the claim can stand.
Holding == {"contactLock", "contactCreate", "conv", "touch",
            "convLock", "convDecide", "convClosed", "rotate", "reopen", "create",
            "persist", "bot", "finish"}
InContactLock == {"contactCreate"}
InConvLock == {"convDecide", "convClosed", "rotate", "reopen", "create"}

TypeOK ==
    /\ delivered \subseteq Webhooks
    /\ event \in [Webhooks -> {"NONE", "RECEIVED", "PROCESSED", "FAILED"}]
    /\ queue \in [Jobs -> {"absent", "waiting", "active", "completed", "failed"}]
    /\ attempts \in [Jobs -> 0..MaxAttempts]
    /\ pc \in [Jobs -> Holding \union {"idle"}]
    /\ conv \in [Jobs -> Conversations \union {None}]
    /\ seen \in [Jobs -> Statuses \union {None}]
    /\ claims \subseteq Messages
    /\ locks \in [LockKeys -> Jobs \union {None}]
    /\ contacts \subseteq Contacts
    /\ row \in [Conversations -> ConvRow \union {Absent}]
    /\ clock \in Nat
    /\ stored \subseteq Conversations \X Messages
    /\ dispatched \in [Messages -> Nat]
    /\ crashes \in 0..MaxCrashes
    /\ orphaned \subseteq Messages
    /\ blind \subseteq Contacts
    /\ ops \in 0..MaxOps
    /\ asked \subseteq Requests

exists(c) == row[c].status # "absent"
isOpen(c) == row[c].status \in OpenStates
openOf(k) == {c \in Conversations : row[c].contact = k /\ isOpen(c)}
closedOf(k) == {c \in Conversations : row[c].contact = k /\ row[c].status = "CLOSED"}

\* ORDER BY closedAt DESC, first row.
lastClosed(k) ==
    {c \in closedOf(k) : \A d \in closedOf(k) : row[d].closedAt <= row[c].closedAt}

shouldRotate(c) == Official /\ row[c].window = "expired"

\* The row a database would hand out next.
isFresh(c) == ~exists(c) /\ \A d \in Conversations : ~exists(d) => c <= d

-----------------------------------------------------------------------------
\* A contact has at most one conversation behind it: open, closed within the
\* last 24 hours (closedAt = 1) or earlier (closedAt = 0).
PriorRow ==
    {r \in [contact : Contacts, status : Statuses, closedAt : {0, 1}, window : Windows] :
        r.status # "CLOSED" => r.closedAt = 0}

Init ==
    /\ delivered = {}
    /\ event = [w \in Webhooks |-> "NONE"]
    /\ queue = [j \in Jobs |-> "absent"]
    /\ attempts = [j \in Jobs |-> 0]
    /\ pc = [j \in Jobs |-> "idle"]
    /\ conv = [j \in Jobs |-> None]
    /\ seen = [j \in Jobs |-> None]
    /\ claims = {}
    /\ locks = [l \in LockKeys |-> None]
    /\ row \in [Conversations -> PriorRow \union {Absent}]
    /\ \A c, d \in Conversations :
          /\ exists(c) /\ exists(d) /\ row[c].contact = row[d].contact => c = d
          /\ exists(c) /\ d < c => exists(d)
    /\ contacts \in SUBSET Contacts
    /\ \A c \in Conversations : exists(c) => row[c].contact \in contacts
    /\ clock = 1
    /\ stored = {}
    /\ dispatched = [m \in Messages |-> 0]
    /\ crashes = 0
    /\ orphaned = {}
    /\ blind = {}
    /\ ops = 0
    /\ asked = {}

-----------------------------------------------------------------------------
\* webhook-gateway.controller.ts.  record() may fail: its catch yields null
\* and the messages are enqueued without an event.  An add that throws ends the
\* loop with a 500 (a job that is never enqueued): the provider sends the
\* payload again, as another delivery.
Record(w) ==
    /\ w \notin delivered
    /\ delivered' = delivered \union {w}
    /\ event' = IF w \in Unrecorded THEN event ELSE [event EXCEPT ![w] = "RECEIVED"]
    /\ UNCHANGED <<contacts, row, clock, stored, redisVars, workVars,
                   dispatched, crashes, ops, asked, history>>

Enqueue(j) ==
    /\ j[1] \in delivered
    /\ queue[j] = "absent"
    /\ queue' = [queue EXCEPT ![j] = "waiting"]
    /\ UNCHANGED <<delivered, dbVars, redisVars, attempts, pc, conv, seen,
                   dispatched, crashes, ops, asked, history>>

-----------------------------------------------------------------------------
\* inbound-message.processor.ts, process().

Goto(j, label) == pc' = [pc EXCEPT ![j] = label]
Lock(kind, j) == locks[<<kind, contactOf(j)>>]
Acquire(kind, j) == locks' = [locks EXCEPT ![<<kind, contactOf(j)>>] = j]

\* The Lua script deletes the key only when it holds the caller's token.
Release(j) == locks' = [l \in LockKeys |-> IF locks[l] = j THEN None ELSE locks[l]]

\* markProcessed and markFailed swallow a database error.
Mark(j, status) ==
    \/ event' = IF event[j[1]] = "NONE" THEN event ELSE [event EXCEPT ![j[1]] = status]
    \/ MarkMayFail /\ UNCHANGED event

\* The worker hands the job back to BullMQ.
Leave(j, state) ==
    /\ queue' = [queue EXCEPT ![j] = state]
    /\ pc' = [pc EXCEPT ![j] = "idle"]
    /\ conv' = [conv EXCEPT ![j] = None]
    /\ seen' = [seen EXCEPT ![j] = None]

\* Mutation: SET EX without NX, every worker wins.
claimWithoutNX(j) ==
    /\ queue[j] = "waiting"
    /\ claims' = claims \union {msg(j)}
    /\ queue' = [queue EXCEPT ![j] = "active"]
    /\ Goto(j, IF contactOf(j) \in contacts THEN "conv" ELSE "contactLock")
    /\ UNCHANGED <<delivered, dbVars, locks, attempts, conv, seen,
                   dispatched, crashes, ops, asked, history>>

\* A worker takes the job: SET NX EX, then the contact resolver's fast path.
\* Contacts are never deleted here, so the two awaits are one step.
claimProcessing(j) ==
    /\ queue[j] = "waiting"
    /\ msg(j) \notin claims
    /\ claims' = claims \union {msg(j)}
    /\ queue' = [queue EXCEPT ![j] = "active"]
    /\ Goto(j, IF contactOf(j) \in contacts THEN "conv" ELSE "contactLock")
    /\ UNCHANGED <<delivered, dbVars, locks, attempts, conv, seen,
                   dispatched, crashes, ops, asked, history>>

SkipDuplicate(j) ==
    /\ queue[j] = "waiting"
    /\ msg(j) \in claims
    /\ Mark(j, "PROCESSED")
    /\ Leave(j, "completed")
    /\ UNCHANGED <<delivered, contacts, row, clock, stored, redisVars, attempts,
                   dispatched, crashes, ops, asked, history>>

LockContact(j) ==
    /\ pc[j] = "contactLock"
    /\ Lock("contact", j) = None
    /\ Acquire("contact", j)
    /\ Goto(j, "contactCreate")
    /\ UNCHANGED <<delivered, dbVars, claims, queue, attempts, conv, seen,
                   dispatched, crashes, ops, asked, history>>

\* Re-check, then create; (channelId, externalId) is unique, so the loser of a
\* race throws (Fail).
CreateContact(j) ==
    /\ pc[j] = "contactCreate"
    /\ contacts' = contacts \union {contactOf(j)}
    /\ Release(j)
    /\ Goto(j, "conv")
    /\ UNCHANGED <<delivered, event, row, clock, stored, claims, queue, attempts,
                   conv, seen, dispatched, crashes, ops, asked, history>>

\* touchOpen writes only for a conversation that was read WAITING.
Reuse(j, c) ==
    /\ conv' = [conv EXCEPT ![j] = c]
    /\ seen' = [seen EXCEPT ![j] = row[c].status]
    /\ Goto(j, IF row[c].status = "WAITING" THEN "touch" ELSE "persist")

FindOpen(j) ==
    /\ pc[j] = "conv"
    /\ \/ \E c \in openOf(contactOf(j)) : ~shouldRotate(c) /\ Reuse(j, c)
       \/ /\ \/ openOf(contactOf(j)) = {}
             \/ \E c \in openOf(contactOf(j)) : shouldRotate(c)
          /\ Goto(j, "convLock")
          /\ UNCHANGED <<conv, seen>>
    /\ UNCHANGED <<delivered, dbVars, redisVars, queue, attempts,
                   dispatched, crashes, ops, asked, history>>

LockConversation(j) ==
    /\ pc[j] = "convLock"
    /\ Lock("conv", j) = None
    /\ Acquire("conv", j)
    /\ Goto(j, "convDecide")
    /\ UNCHANGED <<delivered, dbVars, claims, queue, attempts, conv, seen,
                   dispatched, crashes, ops, asked, history>>

\* The callback of withLock: reuse, rotate, reopen or create.
Pick(j, label, c) ==
    /\ Goto(j, label)
    /\ conv' = [conv EXCEPT ![j] = c]
    /\ UNCHANGED <<seen, locks>>

\* Mutation: the 24 hour comparison turned round.
reopenableSwapped(c) == row[c].closedAt = 0 /\ ~shouldRotate(c)

\* hoursSinceClosed < 24 && !windowExpired
reopenable(c) == row[c].closedAt > 0 /\ ~shouldRotate(c)

\* Mutation: create at once, without reading again under the lock.
DecideWithoutRecheck(j) ==
    /\ pc[j] = "convDecide"
    /\ Pick(j, "create", None)
    /\ UNCHANGED <<delivered, dbVars, claims, queue, attempts,
                   dispatched, crashes, ops, asked, history>>

DecideUnderLock(j) ==
    /\ pc[j] = "convDecide"
    /\ LET k == contactOf(j) IN
       \/ \E c \in openOf(k) : shouldRotate(c) /\ Pick(j, "rotate", c)
       \/ \E c \in openOf(k) :
             /\ ~shouldRotate(c)
             /\ Reuse(j, c)
             /\ IF row[c].status = "WAITING" THEN UNCHANGED locks ELSE Release(j)
       \/ openOf(k) = {} /\ Pick(j, "convClosed", None)
    /\ UNCHANGED <<delivered, dbVars, claims, queue, attempts,
                   dispatched, crashes, ops, asked, history>>

\* findOpen found none.  The search for the last closed conversation is a second
\* query: whoever opens a conversation between the two is seen by neither.
FindLastClosed(j) ==
    /\ pc[j] = "convClosed"
    /\ LET k == contactOf(j) IN
       \/ \E c \in lastClosed(k) : reopenable(c) /\ Pick(j, "reopen", c)
       \/ (\A c \in lastClosed(k) : ~reopenable(c)) /\ Pick(j, "create", None)
    /\ UNCHANGED <<delivered, dbVars, claims, queue, attempts,
                   dispatched, crashes, ops, asked, history>>

\* History: a write that opens conversation c without seeing that it was closed,
\* while another worker stands between the two queries.
betweenQueries(k) == \E i \in Jobs : pc[i] = "convClosed" /\ contactOf(i) = k
Blinded(c) == blind' = blind \union {row[c].contact}
OpensUnseen(c) ==
    IF row[c].status = "CLOSED" /\ betweenQueries(row[c].contact)
    THEN Blinded(c) ELSE UNCHANGED blind

\* touchOpen: the update is not conditional on the status still being WAITING.
touchOpen(j) ==
    /\ pc[j] = "touch"
    /\ row' = [row EXCEPT ![conv[j]].status = "OPEN"]
    /\ OpensUnseen(conv[j])
    /\ seen' = [seen EXCEPT ![j] = "OPEN"]
    /\ Release(j)
    /\ Goto(j, "persist")
    /\ UNCHANGED <<delivered, event, contacts, clock, stored, claims, queue,
                   attempts, conv, dispatched, crashes, ops, asked, orphaned>>

closeForExpiredWindow(j) ==
    /\ pc[j] = "rotate"
    /\ row' = [row EXCEPT ![conv[j]].status = "CLOSED",
                          ![conv[j]].closedAt = clock + 1]
    /\ clock' = clock + 1
    /\ Goto(j, "create")
    /\ UNCHANGED <<delivered, event, contacts, stored, redisVars, queue, attempts,
                   conv, seen, dispatched, crashes, ops, asked, history>>

ReopenClosed(j) ==
    /\ pc[j] = "reopen"
    /\ row' = [row EXCEPT ![conv[j]].status = "PENDING", ![conv[j]].closedAt = 0]
    /\ seen' = [seen EXCEPT ![j] = "PENDING"]
    /\ Release(j)
    /\ Goto(j, "persist")
    /\ UNCHANGED <<delivered, event, contacts, clock, stored, claims, queue,
                   attempts, conv, dispatched, crashes, ops, asked, history>>

createNew(j) ==
    /\ pc[j] = "create"
    /\ \E c \in Conversations :
          /\ isFresh(c)
          /\ row' = [row EXCEPT ![c] = [contact |-> contactOf(j), status |-> "PENDING",
                                        closedAt |-> 0, window |-> "fresh"]]
          /\ conv' = [conv EXCEPT ![j] = c]
    /\ seen' = [seen EXCEPT ![j] = "PENDING"]
    /\ Release(j)
    /\ Goto(j, "persist")
    /\ UNCHANGED <<delivered, event, contacts, clock, stored, claims, queue,
                   attempts, dispatched, crashes, ops, asked, history>>

\* seen is the status the resolver returned.
routesToBot(j) ==
    HasActiveBot /\ msg(j) \notin Echoes /\ seen[j] \in {"BOT", "PENDING"}

\* One transaction: upsertMessage and, for a new customer message, the outbox
\* event.  A row that is already there is merged and emits nothing.
PersistMessage(j) ==
    /\ pc[j] = "persist"
    /\ stored' = stored \union {<<conv[j], msg(j)>>}
    /\ row' = IF msg(j) \in Echoes \/ <<conv[j], msg(j)>> \in stored THEN row
              ELSE [row EXCEPT ![conv[j]].window = "fresh"]
    /\ Goto(j, IF routesToBot(j) THEN "bot" ELSE "finish")
    /\ UNCHANGED <<delivered, event, contacts, clock, redisVars, queue, attempts,
                   conv, seen, dispatched, crashes, ops, asked, history>>

\* PENDING becomes BOT without looking at the status the row has by now.
RouteToBot(j) ==
    /\ pc[j] = "bot"
    /\ IF seen[j] = "PENDING"
       THEN row' = [row EXCEPT ![conv[j]].status = "BOT"] /\ OpensUnseen(conv[j])
       ELSE UNCHANGED <<row, blind>>
    /\ Goto(j, "finish")
    /\ UNCHANGED <<delivered, event, contacts, clock, stored, redisVars, queue,
                   attempts, conv, seen, dispatched, crashes, ops, asked, orphaned>>

\* chatbotQueue.add, markProcessed, the watchdog and the detached AI dispatch.
Finish(j) ==
    /\ pc[j] = "finish"
    /\ Mark(j, "PROCESSED")
    /\ dispatched' = [dispatched EXCEPT ![msg(j)] = @ + 1]
    /\ Leave(j, "completed")
    /\ UNCHANGED <<delivered, contacts, row, clock, stored, redisVars, attempts,
                   crashes, ops, asked, history>>

\* An await that may throw: every one but those of Finish, where only
\* chatbotQueue.add does.  A lock wait throws after its 5 seconds.
canThrow(j) ==
    \/ pc[j] \in Holding \ {"finish"}
    \/ pc[j] = "finish" /\ routesToBot(j)
    \/ queue[j] = "waiting" /\ ClaimMayThrow

\* Mutation: the key is written again instead of deleted, as it once was.
rewriteClaim(j) == claims' = claims \union {msg(j)}

\* The key is deleted whoever set it.
releaseClaim(j) ==
    \/ claims' = claims \ {msg(j)}
    \/ ReleaseMayFail /\ UNCHANGED claims

\* Mutation: one retry too many.
FailOneMore(j) ==
    /\ canThrow(j)
    /\ Mark(j, "FAILED")
    /\ releaseClaim(j)
    /\ Release(j)
    /\ attempts' = [attempts EXCEPT ![j] = @ + 1]
    /\ Leave(j, IF attempts[j] < MaxAttempts THEN "waiting" ELSE "failed")
    /\ UNCHANGED <<delivered, contacts, row, clock, stored, dispatched, crashes, ops, asked, history>>

\* The catch block, and BullMQ's retry or its failed set.
Fail(j) ==
    /\ canThrow(j)
    /\ Mark(j, "FAILED")
    /\ releaseClaim(j)
    /\ Release(j)
    /\ attempts' = [attempts EXCEPT ![j] = @ + 1]
    /\ Leave(j, IF attempts[j] + 1 < MaxAttempts THEN "waiting" ELSE "failed")
    /\ UNCHANGED <<delivered, contacts, row, clock, stored, dispatched, crashes, ops, asked, history>>

-----------------------------------------------------------------------------
\* conversation-fsm.service.ts, transition() and assign(), called by an operator:
\* the read with its check, and the transaction that writes, whatever the status
\* is by then.
readStatus(c, to) ==
    /\ ops < MaxOps
    /\ <<row[c].status, to>> \in ValidTransitions
    /\ row[c].status = "CLOSED" => ManualReopen
    /\ ops' = ops + 1
    /\ asked' = asked \union
          {[n |-> ops + 1, conv |-> c, from |-> row[c].status, to |-> to]}
    /\ UNCHANGED <<delivered, dbVars, redisVars, workVars, dispatched, crashes, history>>

writeStatus(r) ==
    /\ asked' = asked \ {r}
    /\ row' = [row EXCEPT
                 ![r.conv].status = r.to,
                 ![r.conv].closedAt = IF r.to = "CLOSED" THEN clock + 1
                                      ELSE IF r.from = "CLOSED" THEN 0 ELSE @]
    /\ clock' = IF r.to = "CLOSED" THEN clock + 1 ELSE clock
    /\ IF row[r.conv].status = "CLOSED" /\ r.from # "CLOSED"
       THEN Blinded(r.conv) ELSE UNCHANGED blind
    /\ UNCHANGED <<delivered, event, contacts, stored, redisVars, workVars,
                   dispatched, crashes, ops, orphaned>>

transition == \E r \in asked : writeStatus(r)

\* An operator moves a conversation to another department, and the detached
\* dispatch one that no agent handles to the default one: PENDING is written
\* without a look at the status.
transferToDepartment(c) ==
    /\ ops < MaxOps
    /\ exists(c)
    /\ row[c].status = "CLOSED" => TransferClosed
    /\ ops' = ops + 1
    /\ row' = [row EXCEPT ![c].status = "PENDING"]
    /\ IF row[c].status = "CLOSED" THEN Blinded(c) ELSE UNCHANGED blind
    /\ UNCHANGED <<delivered, event, contacts, clock, stored, redisVars, workVars,
                   dispatched, crashes, asked, orphaned>>

\* The worker process dies.  BullMQ finds its active jobs stalled and puts them
\* back; the Redis keys stay until their TTL: 24 hours for a claim, which is
\* beyond the horizon of a behaviour, 10 seconds for a lock (Lapse).
Crash ==
    /\ crashes < MaxCrashes
    /\ \E j \in Jobs : queue[j] = "active"
    /\ crashes' = crashes + 1
    /\ orphaned' = orphaned \union {msg(j) : j \in {i \in Jobs : queue[i] = "active"}}
    /\ queue' = [j \in Jobs |-> IF queue[j] = "active" THEN "waiting" ELSE queue[j]]
    /\ pc' = [j \in Jobs |-> "idle"]
    /\ conv' = [j \in Jobs |-> None]
    /\ seen' = [j \in Jobs |-> None]
    /\ UNCHANGED <<delivered, dbVars, redisVars, attempts, dispatched, ops, asked, blind>>

inside(l) ==
    pc[locks[l]] \in (IF l[1] = "contact" THEN InContactLock ELSE InConvLock \union {"touch"})

Lapse(l) ==
    /\ locks[l] # None
    /\ LockMayLapse \/ ~inside(l)
    /\ locks' = [locks EXCEPT ![l] = None]
    /\ UNCHANGED <<delivered, dbVars, claims, workVars, dispatched, crashes, ops, asked, history>>

\* A 24 hour boundary that was near at the start passes, between two readings
\* of Date.now(): shouldRotate or hoursSinceClosed now answers otherwise.
DayPasses(c) ==
    /\ BoundaryMayRace \/ \A j \in Jobs : conv[j] # c
    /\ \/ /\ row[c].window = "ageing"
          /\ row' = [row EXCEPT ![c].window = "expired"]
       \/ /\ row[c].closedAt = 1
          /\ row' = [row EXCEPT ![c].closedAt = 0]
    /\ UNCHANGED <<delivered, event, contacts, clock, stored, redisVars, workVars,
                   dispatched, crashes, ops, asked, history>>

-----------------------------------------------------------------------------
Work(j) ==
    \/ claimProcessing(j) \/ SkipDuplicate(j)
    \/ LockContact(j) \/ CreateContact(j)
    \/ FindOpen(j) \/ LockConversation(j) \/ DecideUnderLock(j) \/ FindLastClosed(j)
    \/ touchOpen(j) \/ closeForExpiredWindow(j) \/ ReopenClosed(j) \/ createNew(j)
    \/ PersistMessage(j) \/ RouteToBot(j) \/ Finish(j)

Next ==
    \/ \E w \in Webhooks : Record(w)
    \/ \E j \in Jobs : Enqueue(j) \/ Work(j) \/ Fail(j)
    \/ \E c \in Conversations, to \in Statuses : readStatus(c, to)
    \/ transition
    \/ \E c \in Conversations : transferToDepartment(c)
    \/ \E c \in Conversations : DayPasses(c)
    \/ \E l \in LockKeys : Lapse(l)
    \/ Crash

Spec == Init /\ [][Next]_vars

\* Workers and Redis run on; providers, operators and failures owe nothing.
Fairness ==
    /\ WF_vars(\E j \in Jobs : Work(j))
    /\ WF_vars(\E l \in LockKeys : Lapse(l))

FairSpec == Spec /\ Fairness

-----------------------------------------------------------------------------
jobsOf(m) == {j \in Jobs : msg(j) = m /\ queue[j] # "absent"}
settled(m) == jobsOf(m) # {} /\ \A j \in jobsOf(m) : queue[j] \in {"completed", "failed"}

\* A claim in Redis is backed: its message was dispatched, or a worker that is
\* past claimProcessing still holds it, or a crash took that worker.  A claim
\* that outlives its worker turns every redelivery away for 24 hours (the catch
\* block's releaseClaim).
ClaimBacked ==
    \A m \in claims \ orphaned :
        \/ dispatched[m] > 0
        \/ \E j \in Jobs : msg(j) = m /\ pc[j] \in Holding

Visible(m) ==
    \/ dispatched[m] > 0
    \/ \E j \in jobsOf(m) : queue[j] = "failed" /\ event[j[1]] # "PROCESSED"

\* No silent loss but to a crash: once nothing works on a message any more, it
\* was stored and dispatched, or one of its jobs is in BullMQ's failed set and
\* the webhook event that brought it does not read PROCESSED.
LossIsVisible == \A m \in Messages \ orphaned : settled(m) => Visible(m)

\* The same without the exception: webhook-events.service.ts calls the events
\* the source of truth from which any processing failure can be replayed.
NoSilentLoss == \A m \in Messages : settled(m) => Visible(m)

\* The lock and its re-check: fast-path reuse, rotation, reopening and creation
\* by concurrent workers, with operators in between, never leave a contact with two
\* open conversations, but for the contacts one of whose CLOSED conversations was
\* written by somebody who had not seen it closed: an operator or the default
\* sector, or a worker on the fast path or routing to the bot whose write fell
\* between the two queries of another worker under the lock.
OneOpenConversation ==
    \A c, d \in Conversations :
        /\ isOpen(c) /\ isOpen(d) /\ row[c].contact = row[d].contact
        /\ row[c].contact \notin blind
        => c = d

\* The same without the exception: "serialise to prevent duplicates", says
\* conversation-resolver.service.ts of its lock.
NoDuplicates ==
    \A c, d \in Conversations :
        isOpen(c) /\ isOpen(d) /\ row[c].contact = row[d].contact => c = d

\* A customer message lives in one conversation, whatever retries, redeliveries
\* and closings come between: one row is one MESSAGE_RECEIVED event.  With the same
\* exception: of two open conversations a retry may resolve to the other.
OneRowPerMessage ==
    \A x, y \in stored : x[2] = y[2] /\ Sender[x[2]] \notin blind => x = y

\* The claim is exclusive: a redelivered message is not dispatched to the AI
\* a second time.
DispatchedOnce == \A m \in Messages : dispatched[m] <= 1

\* A message that was enqueued is dispatched in the end, or one of its jobs
\* runs out of attempts, or a crash orphaned its claim.
EnqueuedIsHandled ==
    \A m \in Messages :
        (\E j \in jobsOf(m) : queue[j] = "waiting")
            ~> (Visible(m) \/ m \in orphaned)
=============================================================================
