-------------------------------- MODULE Outbound --------------------------------
(***************************************************************************)
(* The messages the system sends: the row a request or a campaign creates, *)
(* the job that hands it to the provider, the provider's echo of it (which *)
(* the inbound pipeline stores as a row of its own when it comes first)    *)
(* and the provider's status webhooks, which the inbound queue works on    *)
(* with several workers.  Each send the provider accepts has its own       *)
(* external id, which the answer may leave out; <<m, k>> is the id of the  *)
(* k-th one of message m and the row its echo created, <<m, 0>> is the row *)
(* of message m itself.  An id is unique within a conversation, and the    *)
(* echo's row may come to stand in another one than the message.           *)
(***************************************************************************)
EXTENDS Naturals, FiniteSets

CONSTANTS
    Msgs,        \* messages of one conversation
    Workers,     \* numbers: status jobs in flight
    MaxTries,    \* attempts of the job send-outbound
    MaxFaults,   \* bound: crashes, errors of the database and of Redis, echoes gone astray
    MaxHooks     \* bound: status webhooks

ASSUME OutboundAssumption ==
    Workers \subseteq Nat /\ MaxTries \in Nat \ {0} /\ MaxFaults \in Nat /\ MaxHooks \in Nat

VARIABLES
    status,      \* the rows' status, "none" if there is no such row
    ext,         \* the send whose answer the row of a message bears, 0 for none
    elsewhere,   \* rows of echoes that stand in another conversation
    nameless,    \* messages of a kind whose answer has no id: externalId is null
    known,       \* ids in Redis: an echo was claimed, or markProcessed ran
    job, tries,  \* the job and its failed attempts
    held,        \* status jobs between their read and their write
    sends,       \* history: sends of the message the provider accepted
    troubled,    \* history: an attempt was cut off after the provider had it
    unmarked,    \* history: an error that left the row as it was
    raced,       \* history: rows that two status jobs had in hand at a time
    faults, hooks

rows == <<status, ext, elsewhere>>
sender == <<job, tries>>
past == <<sends, nameless, troubled, unmarked>>
bounds == <<faults, hooks>>
outboundVars == <<rows, known, sender, held, past, raced, bounds>>

\* Every attempt may be accepted, and so may one that a crash repeats.
MaxSends == MaxTries + MaxFaults
Rows == Msgs \X (0..MaxSends)
Own(m) == <<m, 0>>
Latest(m) == <<m, sends[m]>>
Statuses == {"QUEUED", "SENT", "DELIVERED", "READ", "FAILED"}
Free == [rows |-> {}, write |-> "SENT"]

OutboundTypeOK ==
    /\ status \in [Rows -> Statuses \union {"none"}]
    /\ ext \in [Msgs -> 0..MaxSends]
    /\ elsewhere \subseteq Rows /\ nameless \subseteq Msgs
    /\ known \subseteq Rows
    /\ job \in [Msgs -> {"none", "lost", "waiting", "accepted", "merging",
                         "marking", "throwing", "completed", "failed"}]
    /\ tries \in [Msgs -> 0..MaxTries]
    /\ held \in [Workers -> [rows : SUBSET Rows, write : Statuses]]
    /\ sends \in [Msgs -> 0..MaxSends]
    /\ troubled \subseteq Msgs /\ unmarked \subseteq Msgs /\ raced \subseteq Rows
    /\ faults \in 0..MaxFaults /\ hooks \in 0..MaxHooks

OutboundInit ==
    /\ status = [r \in Rows |-> "none"] /\ ext = [m \in Msgs |-> 0]
    /\ elsewhere = {} /\ nameless = {} /\ known = {}
    /\ job = [m \in Msgs |-> "none"] /\ tries = [m \in Msgs |-> 0]
    /\ held = [w \in Workers |-> Free]
    /\ sends = [m \in Msgs |-> 0] /\ troubled = {} /\ unmarked = {} /\ raced = {}
    /\ faults = 0 /\ hooks = 0

-----------------------------------------------------------------------------
fault == faults < MaxFaults /\ faults' = faults + 1 /\ UNCHANGED hooks

\* messages.service.ts send() and the campaign's loop: the row, then the job.
queue(m) ==
    /\ job[m] = "none"
    /\ status' = [status EXCEPT ![Own(m)] = "QUEUED"]
    /\ nameless' \in {nameless, nameless \union {m}}
    /\ \/ job' = [job EXCEPT ![m] = "waiting"] /\ UNCHANGED bounds
       \/ job' = [job EXCEPT ![m] = "lost"] /\ fault
    /\ UNCHANGED <<ext, elsewhere, known, tries, held, sends, troubled, unmarked, raced>>

\* outbound-message.processor.ts
goesOn(m, to) == job' = [job EXCEPT ![m] = to] /\ UNCHANGED tries

attemptFails(m) ==
    /\ tries' = [tries EXCEPT ![m] = @ + 1]
    /\ job' = [job EXCEPT ![m] = IF tries'[m] < MaxTries THEN "waiting" ELSE "failed"]

\* The channel's read throws before the try block: the row is left as it is.  The
\* signature, Instagram's window and the typing swallow their errors.
prepareFails(m) ==
    /\ job[m] = "waiting" /\ attemptFails(m) /\ fault
    /\ unmarked' = unmarked \union {m}
    /\ UNCHANGED <<rows, known, held, sends, nameless, troubled, raced>>

sendMessage(m) ==
    /\ job[m] = "waiting" /\ goesOn(m, "accepted")
    /\ sends' = [sends EXCEPT ![m] = @ + 1]
    /\ UNCHANGED <<rows, known, held, nameless, troubled, unmarked, raced, bounds>>

\* The provider refuses, or took the message and the answer was lost.
sendFails(m) ==
    /\ job[m] = "waiting" /\ goesOn(m, "throwing")
    /\ \/ UNCHANGED <<sends, troubled>>
       \/ sends' = [sends EXCEPT ![m] = @ + 1] /\ troubled' = troubled \union {m}
    /\ UNCHANGED <<rows, known, held, nameless, unmarked, raced, bounds>>

\* What throws between here and the end does so after the provider had it.
breaksOff(m) ==
    /\ job[m] \in {"accepted", "merging", "marking"} /\ goesOn(m, "throwing") /\ fault
    /\ troubled' = troubled \union {m}
    /\ UNCHANGED <<rows, known, held, sends, nameless, unmarked, raced>>

exists(r) == status[r] # "none"

\* The answer has an id, and the echo has not carried it to another conversation.
matched(m) == m \notin nameless /\ Latest(m) \notin elsewhere
taken(m) == matched(m) /\ exists(Latest(m))

\* Mutation: the unique index that the echo occupies is an error like any other.
persistOrThrow(m) ==
    /\ job[m] = "accepted"
    /\ IF ~exists(Own(m)) \/ taken(m)
       THEN goesOn(m, "throwing") /\ UNCHANGED <<status, ext>>
       ELSE /\ status' = [status EXCEPT ![Own(m)] = "SENT"]
            /\ ext' = [ext EXCEPT ![m] = sends[m]]
            /\ goesOn(m, "marking")
    /\ UNCHANGED <<elsewhere, known, held, past, raced, bounds>>

\* Status and externalId; the row may be gone (P2025), its id taken in its
\* conversation (P2002).
persist(m) ==
    /\ job[m] = "accepted"
    /\ \/ ~exists(Own(m)) /\ goesOn(m, "throwing") /\ UNCHANGED <<status, ext>>
       \/ exists(Own(m)) /\ taken(m) /\ goesOn(m, "merging") /\ UNCHANGED <<status, ext>>
       \/ /\ exists(Own(m)) /\ ~taken(m)
          /\ status' = [status EXCEPT ![Own(m)] = "SENT"]
          /\ ext' = [ext EXCEPT ![m] = sends[m]]
          /\ goesOn(m, "marking")
    /\ UNCHANGED <<elsewhere, known, held, past, raced, bounds>>

\* Mutation: the echo's row gets the content, the placeholder stays.
mergeAndKeep(m) ==
    /\ job[m] = "merging" /\ goesOn(m, "marking")
    /\ UNCHANGED <<rows, known, held, past, raced, bounds>>

\* The echo's row stands for the message, the placeholder goes; an error of the
\* deletion is swallowed.
merge(m) ==
    /\ job[m] = "merging" /\ goesOn(m, "marking")
    /\ \/ /\ status' = [status EXCEPT ![Own(m)] = "none"]
          /\ ext' = [ext EXCEPT ![m] = 0]
          /\ UNCHANGED <<unmarked, bounds>>
       \/ fault /\ unmarked' = unmarked \union {m} /\ UNCHANGED <<status, ext>>
    /\ UNCHANGED <<elsewhere, known, held, sends, nameless, troubled, raced>>

markProcessed(m) ==
    /\ job[m] = "marking" /\ goesOn(m, "completed")
    /\ known' = IF m \in nameless THEN known ELSE known \union {Latest(m)}
    /\ UNCHANGED <<rows, held, past, raced, bounds>>

\* Mutation: the row is left as it is.
failSilently(m) ==
    /\ job[m] = "throwing" /\ attemptFails(m)
    /\ UNCHANGED <<rows, known, held, past, raced, bounds>>

\* Mutation: one attempt too many.
failOnceMore(m) ==
    /\ job[m] = "throwing"
    /\ status' = IF exists(Own(m)) THEN [status EXCEPT ![Own(m)] = "FAILED"] ELSE status
    /\ tries' = [tries EXCEPT ![m] = @ + 1]
    /\ job' = [job EXCEPT ![m] = IF tries[m] < MaxTries THEN "waiting" ELSE "failed"]
    /\ UNCHANGED <<ext, elsewhere, known, held, past, raced, bounds>>

\* The catch block; its own update throws, too, when the row was merged away.
fail(m) ==
    /\ job[m] = "throwing" /\ attemptFails(m)
    /\ \/ /\ status' = IF exists(Own(m)) THEN [status EXCEPT ![Own(m)] = "FAILED"] ELSE status
          /\ UNCHANGED <<unmarked, bounds>>
       \/ fault /\ unmarked' = unmarked \union {m} /\ UNCHANGED status
    /\ UNCHANGED <<ext, elsewhere, known, held, sends, nameless, troubled, raced>>

\* The process dies: BullMQ finds the job stalled and queues it again.
crash(m) ==
    /\ job[m] \in {"accepted", "merging", "marking", "throwing"}
    /\ goesOn(m, "waiting") /\ fault
    /\ troubled' = IF job[m] = "throwing" THEN troubled ELSE troubled \union {m}
    /\ UNCHANGED <<rows, known, held, sends, nameless, unmarked, raced>>

-----------------------------------------------------------------------------
\* inbound-message.processor.ts.  The rows that bear an id.
bearing(r) ==
    {x \in {Own(r[1])} : ext[r[1]] = r[2] /\ r[1] \notin nameless} \union {x \in {r} : exists(x)}

issued(m) == {m} \X (1..sends[m])

\* The echo of a send: known to Redis, or merged without a change of status, or
\* stored as a row.  The resolver may pick another conversation of the contact: a
\* campaign writes to a closed one, an official window ends, an operator closes.
echo(r) ==
    /\ r \notin known
    /\ known' = known \union {r}
    /\ \/ /\ status' = IF bearing(r) = {} THEN [status EXCEPT ![r] = "SENT"] ELSE status
          /\ UNCHANGED <<elsewhere, bounds>>
       \/ /\ fault
          /\ status' = [status EXCEPT ![r] = "SENT"]
          /\ elsewhere' = elsewhere \union {r}
    /\ UNCHANGED <<ext, sender, held, past, raced>>

order(s) == CASE s = "none" -> 0 [] s = "QUEUED" -> 0 [] s = "SENT" -> 1
              [] s = "DELIVERED" -> 2 [] s = "READ" -> 3 [] s = "FAILED" -> 4

\* Mutation: the latest webhook wins.
latestStatus(current, next) == next

maxStatus(current, next) ==
    IF current = "READ" \/ order(next) < order(current) THEN current ELSE next

inHand == UNION {held[w].rows : w \in Workers}

\* The first free worker has read rows and decided what it will write to them.
takes(w, rs, s) ==
    /\ held[w] = Free /\ \A v \in Workers : v < w => held[v] # Free
    /\ hooks < MaxHooks /\ hooks' = hooks + 1
    /\ held' = [held EXCEPT ![w] = [rows |-> rs, write |-> s]]
    /\ raced' = raced \union (rs \cap inHand)
    /\ UNCHANGED <<rows, known, sender, past, faults>>

\* A status for an id that no row bears yet is dropped; of two that bear it one is
\* found.
processStatus(w, r, next) ==
    \E row \in bearing(r) : takes(w, {row}, maxStatus(status[row], next))

\* Instagram's watermark: whatever was sent until then.
nth(r) == IF r[2] = 0 THEN ext[r[1]] ELSE r[2]

processInstagramReadWatermark(w) ==
    \E upTo \in [Msgs -> 0..MaxSends] :
        LET rs == {r \in Rows : status[r] \in {"SENT", "DELIVERED"} /\ nth(r) <= upTo[r[1]]}
        IN rs # {} /\ takes(w, rs, "READ")

\* The update by id; one that is gone makes the job fail and start again.
writeStatus(w) ==
    /\ held[w] # Free
    /\ status' = [r \in Rows |-> IF r \in held[w].rows /\ exists(r)
                                 THEN held[w].write ELSE status[r]]
    /\ held' = [held EXCEPT ![w] = Free]
    /\ UNCHANGED <<ext, elsewhere, known, sender, past, raced, bounds>>

Send(m) == sendMessage(m) \/ persist(m) \/ merge(m) \/ markProcessed(m) \/ fail(m)

Hook(w) == \/ processInstagramReadWatermark(w) \/ writeStatus(w)
           \/ \E m \in Msgs : \E r \in issued(m) :
                \E s \in {"SENT", "DELIVERED", "READ", "FAILED"} : processStatus(w, r, s)

OutboundNext ==
    \/ \E m \in Msgs : \/ queue(m) \/ Send(m) \/ prepareFails(m) \/ sendFails(m)
                       \/ breaksOff(m) \/ crash(m)
                       \/ \E r \in issued(m) : echo(r)
    \/ \E w \in Workers : Hook(w)

OutboundSpec == OutboundInit /\ [][OutboundNext]_outboundVars

\* Workers work and the provider answers; nobody owes a request, an error, an
\* echo or a status.
OutboundFairness == \A m \in Msgs : WF_outboundVars(Send(m))

-----------------------------------------------------------------------------
\* Properties.

rowsOf(m) == {r \in {m} \X (0..MaxSends) : exists(r)}

\* "a single source-of-truth" (outbound-message.processor.ts:92-94): whenever the
\* echo comes, before, during or after the job, a message whose job completed
\* undisturbed is no longer QUEUED; it stands in one row, and every later echo of
\* it is a duplicate, but for two cases in which the index cannot help: the answer
\* had no id, or the echo's row stands in another conversation.
SentOnceIsOneRow ==
    \A m \in Msgs : job[m] = "completed" /\ m \notin troubled \union unmarked =>
        /\ status[Own(m)] # "QUEUED"
        /\ matched(m) => \E r \in rowsOf(m) : rowsOf(m) = {r} /\ Latest(m) \in known

\* An echo that wins the race is no reason to send again: the customer gets a
\* message twice only after an attempt that was cut off once the provider had it.
EchoRaceDoesNotResend ==
    \A m \in Msgs : sends[m] > 1 => m \in troubled

\* What FAILED tells the operator: a job that failed without being cut off sent
\* nothing, and its row says so unless an error left the row as it was.
FailedIsNotSent ==
    \A m \in Msgs : job[m] = "failed" /\ m \notin troubled =>
        sends[m] = 0 /\ (m \in unmarked \/ status[Own(m)] = "FAILED")

\* "Never regress status" (inbound-message.processor.ts:971), by whichever of
\* sender, echo, webhook and watermark: it holds of every row that no two status
\* jobs had in hand at a time, of a message that was not sent again.
StatusNeverRegresses ==
    [][\A m \in Msgs : \A r \in {m} \X (0..MaxSends) :
          \/ m \in troubled \/ r \in raced
          \/ status'[r] = "none"
          \/ order(status'[r]) >= order(status[r]) /\ (status[r] = "READ" => status'[r] = "READ")
          \/ r = Own(m) /\ status[r] = "FAILED" /\ ext[m] = 0]_outboundVars

\* A row does not stay QUEUED: it is sent, merged or marked FAILED, unless its
\* job was never added or an error left it as it was.
QueuedSettles ==
    \A m \in Msgs : status[Own(m)] = "QUEUED" ~>
        status[Own(m)] # "QUEUED" \/ job[m] = "lost" \/ m \in unmarked
=============================================================================
