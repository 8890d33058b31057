-------------------------- MODULE AutomationOutbox --------------------------
(***************************************************************************)
(* The automation engine's transactional outbox: domain transactions write *)
(* outbox_events rows (outbox.service.ts), pollers lease them and push     *)
(* BullMQ jobs (outbox-poller.service.ts), workers run the matching rules  *)
(* under a lock per contact (automation-event.processor.ts,                *)
(* automation-executor.service.ts).  Rules may emit events of their own.   *)
(***************************************************************************)
EXTENDS Naturals, FiniteSets

CONSTANTS
    Ids,          \* outbox rows, 1..n in creation order
    Contacts,
    Triggers,
    Keyed,        \* triggers whose dedupKey names contact and tag only
    Rules,        \* automations, numbered in the order execute() visits them
    TriggerOf,    \* [Rules -> Triggers]
    Emits,        \* [Rules -> Triggers \union {None}]
    Pollers,      \* API replicas
    MaxDepth,     \* MAX_CASCADE_DEPTH
    MaxAttempts,  \* BullMQ `attempts` of an automation-event job
    MaxFaults,    \* bound: crashes and errors of Redis or the database
    MaxSwitches,  \* bound: rules paused and changes of organization.automationsEnabled
    LockMayLapse, \* the 30 seconds of a contact lock may end too early
    None

ASSUME OutboxAssumption ==
    /\ Ids \subseteq Nat /\ Rules \subseteq Nat
    /\ Keyed \subseteq Triggers
    /\ TriggerOf \in [Rules -> Triggers]
    /\ Emits \in [Rules -> Triggers \union {None}]
    /\ MaxDepth \in Nat /\ MaxAttempts \in Nat \ {0}
    /\ MaxFaults \in Nat /\ MaxSwitches \in Nat
    /\ LockMayLapse \in BOOLEAN
    /\ None \notin Ids \union Pollers \union Triggers \union Contacts

VARIABLES
    row,       \* outbox_events rows
    batch,     \* what a poller's tick has claimed and not yet pushed
    failing,   \* the event whose push threw, before its lease is released
    job,       \* BullMQ job with jobId = row id
    attempts,
    wpc,       \* where the worker of a job stands
    todo,      \* rules its execute() has still to visit
    locks,     \* contact locks in Redis
    enabled,   \* rules that are enabled
    orgOn,     \* organization.automationsEnabled
    ran,       \* history: how often a rule's actions ran for an event, up to 2
    skipped,   \* history: rules refused for an event (rate limit, actor)
    faults, switches

workVars == <<job, attempts, wpc, todo>>
histVars == <<ran, skipped>>
envVars == <<enabled, orgOn, faults, switches>>
vars == <<row, batch, failing, workVars, locks, envVars, histVars>>

Live == {"waiting", "active"}
Rows == [status : {"PENDING", "PROCESSING", "PROCESSED"}, leasedBy : Pollers \union {None},
         expired : BOOLEAN, trigger : Triggers, contact : Contacts, depth : 0..MaxDepth,
         loaded : SUBSET Rules]
Absent == [status |-> "absent", leasedBy |-> None, expired |-> FALSE, trigger |-> None,
           contact |-> None, depth |-> 0, loaded |-> {}]

TypeOK ==
    /\ row \in [Ids -> Rows \union {Absent}]
    /\ batch \in [Pollers -> SUBSET Ids]
    /\ failing \in [Pollers -> Ids \union {None}]
    /\ job \in [Ids -> Live \union {"none", "completed", "failed"}]
    /\ attempts \in [Ids -> 0..MaxAttempts]
    /\ wpc \in [Ids -> {"idle", "rule", "run", "close", "done"}]
    /\ \A i \in Ids : wpc[i] # "idle" => job[i] = "active"
    /\ todo \in [Ids -> SUBSET Rules]
    /\ locks \in [Contacts -> Ids \union {None}]
    /\ enabled \subseteq Rules
    /\ orgOn \in BOOLEAN
    /\ ran \in [Ids -> [Rules -> 0..2]]
    /\ skipped \in [Ids -> SUBSET Rules]
    /\ faults \in 0..MaxFaults
    /\ switches \in 0..MaxSwitches

exists(i) == row[i].status # "absent"
isFresh(i) == ~exists(i) /\ \A k \in Ids : ~exists(k) => i <= k

Init ==
    /\ row = [i \in Ids |-> Absent]
    /\ batch = [p \in Pollers |-> {}]
    /\ failing = [p \in Pollers |-> None]
    /\ job = [i \in Ids |-> "none"]
    /\ attempts = [i \in Ids |-> 0]
    /\ wpc = [i \in Ids |-> "idle"]
    /\ todo = [i \in Ids |-> {}]
    /\ locks = [c \in Contacts |-> None]
    /\ enabled = Rules
    /\ orgOn = TRUE
    /\ ran = [i \in Ids |-> [r \in Rules |-> 0]]
    /\ skipped = [i \in Ids |-> {}]
    /\ faults = 0
    /\ switches = 0

-----------------------------------------------------------------------------
\* outbox.service.ts, enqueue(): the unique dedupKey swallows a second event.
isDuplicate(t, c) ==
    t \in Keyed /\ \E k \in Ids : exists(k) /\ row[k].trigger = t /\ row[k].contact = c

\* Before an execution has looked, any rule may be owed (`loaded`).
newRow(t, c, d) ==
    [status |-> "PENDING", leasedBy |-> None, expired |-> FALSE,
     trigger |-> t, contact |-> c, depth |-> d, loaded |-> Rules]

\* The row table after enqueue; a pool that is used up drops the event.
enqueue(rows, t, c, d) ==
    IF t = None \/ isDuplicate(t, c) \/ \A k \in Ids : exists(k) THEN rows
    ELSE [k \in Ids |-> IF isFresh(k) THEN newRow(t, c, d) ELSE rows[k]]

\* A domain transaction commits with its event.
Commit(t, c) ==
    /\ enqueue(row, t, c, 0) # row
    /\ row' = enqueue(row, t, c, 0)
    /\ UNCHANGED <<batch, failing, workVars, locks, envVars, histVars>>

-----------------------------------------------------------------------------
\* outbox-poller.service.ts, tick().

\* Mutation: expired leases are not looked at.
candidatesPending == {i \in Ids : row[i].status = "PENDING"}

\* SELECT ... FOR UPDATE SKIP LOCKED and the update are one transaction.
candidates == {i \in Ids : \/ row[i].status = "PENDING"
                           \/ row[i].status = "PROCESSING" /\ row[i].expired}

claimBatch(p) ==
    /\ batch[p] = {} /\ failing[p] = None
    /\ candidates # {}
    /\ batch' = [batch EXCEPT ![p] = candidates]
    /\ row' = [i \in Ids |->
                 IF i \in candidates
                 THEN [row[i] EXCEPT !.status = "PROCESSING", !.leasedBy = p, !.expired = FALSE]
                 ELSE row[i]]
    /\ UNCHANGED <<failing, workVars, locks, envVars, histVars>>

\* Mutation: the row is settled as soon as its job is in the queue.
pushAndSettle(p) ==
    /\ batch[p] # {} /\ failing[p] = None
    /\ \E i \in batch[p] :
       /\ job' = IF job[i] = "none" THEN [job EXCEPT ![i] = "waiting"] ELSE job
       /\ row' = [row EXCEPT ![i].status = "PROCESSED"]
       /\ batch' = [batch EXCEPT ![p] = @ \ {i}]
    /\ UNCHANGED <<failing, attempts, wpc, todo, locks, envVars, histVars>>

\* The rows come in no order.  queue.add with jobId = event.id: BullMQ ignores
\* it while a job of that id exists, finished and retained jobs included.
push(p) ==
    /\ batch[p] # {} /\ failing[p] = None
    /\ \E i \in batch[p] :
       /\ job' = IF job[i] = "none" THEN [job EXCEPT ![i] = "waiting"] ELSE job
       /\ batch' = [batch EXCEPT ![p] = @ \ {i}]
    /\ UNCHANGED <<row, failing, attempts, wpc, todo, locks, envVars, histVars>>

\* The add throws, with or without having reached Redis.
pushThrows(p) ==
    /\ batch[p] # {} /\ failing[p] = None
    /\ faults < MaxFaults /\ faults' = faults + 1
    /\ \E i \in batch[p] :
       /\ \/ UNCHANGED job
          \/ job[i] = "none" /\ job' = [job EXCEPT ![i] = "waiting"]
       /\ failing' = [failing EXCEPT ![p] = i]
       /\ batch' = [batch EXCEPT ![p] = @ \ {i}]
    /\ UNCHANGED <<row, attempts, wpc, todo, locks, enabled, orgOn, switches, histVars>>

\* The catch block: back to PENDING where leasedBy is still this poller.
releaseLease(p) ==
    /\ failing[p] # None
    /\ LET i == failing[p] IN
       row' = IF row[i].leasedBy # p THEN row
              ELSE [row EXCEPT ![i].status = "PENDING", ![i].leasedBy = None,
                               ![i].expired = FALSE]
    /\ failing' = [failing EXCEPT ![p] = None]
    /\ UNCHANGED <<batch, workVars, locks, envVars, histVars>>

\* 60 seconds pass.
LeaseExpires(i) ==
    /\ row[i].status = "PROCESSING" /\ ~row[i].expired
    /\ row' = [row EXCEPT ![i].expired = TRUE]
    /\ UNCHANGED <<batch, failing, workVars, locks, envVars, histVars>>

\* Retention ends: an hour after completion, a day after failure.
Evict(i) ==
    /\ job[i] \in {"completed", "failed"}
    /\ job' = [job EXCEPT ![i] = "none"]
    /\ attempts' = [attempts EXCEPT ![i] = 0]
    /\ UNCHANGED <<row, batch, failing, wpc, todo, locks, envVars, histVars>>

-----------------------------------------------------------------------------
\* automation-event.processor.ts and automation-executor.service.ts.
next(S) == CHOOSE i \in S : \A k \in S : i <= k

Goto(i, label) == wpc' = [wpc EXCEPT ![i] = label]
contact(i) == row[i].contact

\* Nothing is loaded for an organization that is switched off nor at the
\* cascade cap.  The job carries visitedAutomations = [], so the loop guard
\* never skips a rule.
matching(i) ==
    IF ~orgOn \/ row[i].depth >= MaxDepth THEN {}
    ELSE {r \in enabled : TriggerOf[r] = row[i].trigger}

process(i) ==
    /\ job[i] = "waiting"
    /\ job' = [job EXCEPT ![i] = "active"]
    /\ todo' = [todo EXCEPT ![i] = matching(i)]
    /\ row' = [row EXCEPT ![i].loaded = matching(i)]
    /\ Goto(i, "rule")
    /\ UNCHANGED <<batch, failing, attempts, locks, envVars, histVars>>

\* autoPause() of a rule, or not.
MayPause(r) ==
    \/ UNCHANGED <<enabled, switches>>
    \/ /\ switches < MaxSwitches /\ switches' = switches + 1
       /\ enabled' = enabled \ {r}

\* A rule whose conditions do not match, or that is rate limited; a creator
\* who left the workspace also pauses it.
skip(i) ==
    /\ wpc[i] = "rule" /\ todo[i] # {}
    /\ LET r == next(todo[i]) IN
       /\ todo' = [todo EXCEPT ![i] = @ \ {r}]
       /\ skipped' = [skipped EXCEPT ![i] = @ \union {r}]
       /\ MayPause(r)
    /\ UNCHANGED <<row, batch, failing, job, attempts, wpc, locks, orgOn, faults, ran>>

\* Mutation: SET without NX.
lockWithoutNX(i) ==
    /\ wpc[i] = "rule" /\ todo[i] # {}
    /\ locks' = [locks EXCEPT ![contact(i)] = i]
    /\ Goto(i, "run")
    /\ UNCHANGED <<row, batch, failing, job, attempts, todo, envVars, histVars>>

acquireContactLock(i) ==
    /\ wpc[i] = "rule" /\ todo[i] # {}
    /\ locks[contact(i)] = None
    /\ locks' = [locks EXCEPT ![contact(i)] = i]
    /\ Goto(i, "run")
    /\ UNCHANGED <<row, batch, failing, job, attempts, todo, envVars, histVars>>

\* Every handler catches its own errors; an emitted event commits with the
\* action that causes it.
runActions(i) ==
    /\ wpc[i] = "run"
    /\ LET r == next(todo[i]) IN
       /\ ran' = [ran EXCEPT ![i][r] = IF @ < 2 THEN @ + 1 ELSE @]
       /\ row' = enqueue(row, Emits[r], contact(i), row[i].depth + 1)
    /\ Goto(i, "close")
    /\ UNCHANGED <<batch, failing, job, attempts, todo, locks, envVars, skipped>>

\* Counters (a failed run may be the fifth in a row and pause the rule), then
\* the lock of this token is released.
Unlock(i) == locks' = [c \in Contacts |-> IF locks[c] = i THEN None ELSE locks[c]]

updateCounters(i) ==
    /\ wpc[i] = "close"
    /\ LET r == next(todo[i]) IN
       /\ todo' = [todo EXCEPT ![i] = @ \ {r}]
       /\ MayPause(r)
    /\ Unlock(i)
    /\ Goto(i, "rule")
    /\ UNCHANGED <<row, batch, failing, job, attempts, orgOn, faults, histVars>>

\* Unconditional, and leasedBy stays.
markProcessed(i) ==
    /\ wpc[i] = "rule" /\ todo[i] = {}
    /\ row' = [row EXCEPT ![i].status = "PROCESSED"]
    /\ Goto(i, "done")
    /\ UNCHANGED <<batch, failing, job, attempts, todo, locks, envVars, histVars>>

complete(i) ==
    /\ wpc[i] = "done"
    /\ job' = [job EXCEPT ![i] = "completed"]
    /\ Goto(i, "idle")
    /\ UNCHANGED <<row, batch, failing, attempts, todo, locks, envVars, histVars>>

\* Mutation: one retry more than `attempts` grants.
RethrowOnceMore(i) ==
    /\ attempts' = [attempts EXCEPT ![i] = @ + 1]
    /\ job' = [job EXCEPT ![i] = IF attempts[i] < MaxAttempts THEN "waiting" ELSE "failed"]
    /\ todo' = [todo EXCEPT ![i] = {}]
    /\ Unlock(i)
    /\ Goto(i, "idle")

\* The error reaches BullMQ: retry with backoff or the failed set.
Rethrow(i) ==
    /\ attempts' = [attempts EXCEPT ![i] = @ + 1]
    /\ job' = [job EXCEPT ![i] = IF attempts[i] + 1 < MaxAttempts THEN "waiting" ELSE "failed"]
    /\ todo' = [todo EXCEPT ![i] = {}]
    /\ Unlock(i)
    /\ Goto(i, "idle")

\* Mutation: as the comment of execute() has it, "we never throw from here".
contendedNeverThrows(i) ==
    /\ wpc[i] = "rule" /\ todo[i] # {}
    /\ locks[contact(i)] # None
    /\ todo' = [todo EXCEPT ![i] = @ \ {next(@)}]
    /\ UNCHANGED <<row, batch, failing, job, attempts, wpc, locks, envVars, histVars>>

\* Another worker holds the contact: throw, for BullMQ to try again.
contended(i) ==
    /\ wpc[i] = "rule" /\ todo[i] # {}
    /\ locks[contact(i)] # None
    /\ Rethrow(i)
    /\ UNCHANGED <<row, batch, failing, envVars, histVars>>

\* Redis or the database throws outside the handlers.
jobThrows(i) ==
    /\ wpc[i] \in {"rule", "close"}
    /\ faults < MaxFaults /\ faults' = faults + 1
    /\ Rethrow(i)
    /\ UNCHANGED <<row, batch, failing, enabled, orgOn, switches, histVars>>

-----------------------------------------------------------------------------
\* All replicas die; locks and leases will time out.  BullMQ puts a stalled job
\* back into the queue (once: its maxStalledCount is 1, and MaxFaults <= 1 in
\* the instances).
Crash ==
    /\ faults < MaxFaults /\ faults' = faults + 1
    /\ batch' = [p \in Pollers |-> {}]
    /\ failing' = [p \in Pollers |-> None]
    /\ job' = [i \in Ids |-> IF job[i] = "active" THEN "waiting" ELSE job[i]]
    /\ wpc' = [i \in Ids |-> "idle"]
    /\ todo' = [i \in Ids |-> {}]
    /\ UNCHANGED <<row, attempts, locks, enabled, orgOn, switches, histVars>>

LockLapses(c) ==
    /\ locks[c] # None
    /\ LockMayLapse \/ wpc[locks[c]] \notin {"run", "close"}
    /\ locks' = [locks EXCEPT ![c] = None]
    /\ UNCHANGED <<row, batch, failing, workVars, envVars, histVars>>

\* The owner switches automations off or on.
Toggle ==
    /\ switches < MaxSwitches /\ switches' = switches + 1
    /\ orgOn' = ~orgOn
    /\ UNCHANGED <<row, batch, failing, workVars, locks, enabled, faults, histVars>>

-----------------------------------------------------------------------------
Poll(p) == claimBatch(p) \/ push(p) \/ releaseLease(p)

Work(i) ==
    \/ process(i) \/ acquireContactLock(i) \/ contended(i) \/ runActions(i)
    \/ updateCounters(i) \/ markProcessed(i) \/ complete(i)

Next ==
    \/ \E t \in Triggers, c \in Contacts : Commit(t, c)
    \/ \E p \in Pollers : Poll(p) \/ pushThrows(p)
    \/ \E i \in Ids : Work(i) \/ skip(i) \/ jobThrows(i) \/ LeaseExpires(i) \/ Evict(i)
    \/ \E c \in Contacts : LockLapses(c)
    \/ Crash
    \/ Toggle

Spec == Init /\ [][Next]_vars

\* Pollers tick every second, workers take their jobs, leases and locks time
\* out.  A finished job need not be evicted within a behaviour.
FairSpec ==
    /\ Spec
    /\ \A p \in Pollers : WF_vars(Poll(p))
    /\ \A i \in Ids : WF_vars(Work(i)) /\ WF_vars(LeaseExpires(i))
    /\ \A c \in Contacts : WF_vars(LockLapses(c))

-----------------------------------------------------------------------------
\* What the table says of an event, and what the event is still owed.
stateBar == [i \in Ids |-> IF ~exists(i) THEN "absent"
                           ELSE IF row[i].status = "PROCESSED" THEN "settled" ELSE "open"]
dueBar == [i \in Ids |-> {r \in row[i].loaded : ran[i][r] = 0 /\ r \notin skipped[i]}]

Delivery == INSTANCE EventDelivery WITH state <- stateBar, due <- dueBar

\* At least once: an event reads PROCESSED only after every rule its last
\* execution loaded has run for it or was refused, whatever leases, retries
\* and crashes came between (the abstract specification's Settle).
DeliverySpec == Delivery!Spec

\* The contact lock: no two workers run actions for one contact at a time.
ContactSerialized ==
    \A i, k \in Ids :
        /\ wpc[i] \in {"run", "close"} /\ wpc[k] \in {"run", "close"}
        /\ contact(i) = contact(k)
        => i = k

\* No event is lost in flight: once committed it is settled, or its job has
\* run to its end, in the worst case into BullMQ's failed set.  (A row that is
\* reopened after its job completed is claimed and pushed in vain until the
\* job's retention ends, which is why the completed job counts as well.)
EventIsHandled ==
    \A i \in Ids :
        exists(i) ~> (row[i].status = "PROCESSED" \/ job[i] \in {"completed", "failed"})

\* automation-event.processor.ts: a row whose job failed is "eligible to be
\* re-claimed by the poller.  That's the recovery path".  A push of a row that
\* is not settled leaves it with a job that will run.
PushRequeues ==
    [][\A p \in Pollers : \A i \in batch[p] :
          push(p) /\ i \notin batch'[p] /\ row[i].status = "PROCESSING" => job'[i] \in Live]_vars

\* action.types.ts: an action is idempotent enough "that a retry doesn't cause
\* a second observable mutation"; send_message queues one message per run.
NoSecondMutation == \A i \in Ids, r \in Rules : ran[i][r] <= 1
=============================================================================
