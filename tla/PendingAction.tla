---------------------------- MODULE PendingAction ----------------------------
(***************************************************************************)
(* Human approval of an AI agent's destructive tools: the gate that creates *)
(* an ai_pending_actions row, the operators' approve and reject requests,   *)
(* the sweep of overdue rows and the worker of `pending-action-executor`.   *)
(* The service reads the row and upserts it later without a condition, so   *)
(* read, write and enqueue of a request are actions of their own.           *)
(***************************************************************************)
EXTENDS Naturals

CONSTANTS
    Actions,      \* ids of pending actions
    Transfers,    \* those of the tool transferToHuman, the others run a skill
    ConvOf,       \* [Actions -> Conversations]
    Conversations,
    Requests,     \* HTTP requests of operators, approvals and rejections
    Racing,       \* actions several operators may decide on at a time
    MaxCrashes,   \* bound: restarts of the process
    None

ASSUME PendingAssumption ==
    /\ Transfers \subseteq Actions
    /\ Racing \subseteq Actions
    /\ ConvOf \in [Actions -> Conversations]
    /\ MaxCrashes \in Nat
    /\ None \notin Actions

VARIABLES
    status,     \* the row's status, "absent" before it is created
    result,     \* executionResult: none, the tool's answer or its error
    overdue,    \* actions whose expiresAt has passed
    gate,       \* where the tool call that proposes the action stands
    ai,         \* aiEnabled of a conversation: "on" (null or true) or "off"
    switched,   \* history: conversations whose AI somebody switched on since the last pause
    pc,         \* where a request stands
    subject,    \* the action it read
    job,        \* the BullMQ job a request enqueued, and its outcome
    calls,      \* history: how often the tool was called for an action
    crashes

rows == <<status, result>>
switch == <<ai, switched>>
vars == <<rows, overdue, gate, switch, pc, subject, job, calls, crashes>>

Pcs == {"idle", "approve", "reject", "expire", "enqueue", "resume", "done"}
InFlight == Pcs \ {"idle", "done"}
\* "ok", "failed" and "thrown": the tool has returned, the row is not updated.
JobStates == {"absent", "waiting", "run", "ok", "failed", "thrown", "completed", "lost"}
Active == {"run", "ok", "failed", "thrown"}

TypeOK ==
    /\ status \in [Actions -> {"absent", "PENDING", "APPROVED", "REJECTED",
                               "EXPIRED", "EXECUTED"}]
    /\ result \in [Actions -> {"none", "ok", "error"}]
    /\ overdue \subseteq Actions
    /\ gate \in [Actions -> {"idle", "paused", "create", "closed"}]
    /\ ai \in [Conversations -> {"on", "off"}]
    /\ switched \subseteq Conversations
    /\ pc \in [Requests -> Pcs]
    /\ subject \in [Requests -> Actions \union {None}]
    /\ \A r \in Requests : subject[r] = None => pc[r] = "idle" /\ job[r] = "absent"
    /\ job \in [Requests -> JobStates]
    /\ calls \in [Actions -> Nat]
    /\ crashes \in 0..MaxCrashes

Init ==
    /\ status = [a \in Actions |-> "absent"]
    /\ result = [a \in Actions |-> "none"]
    /\ overdue = {}
    /\ gate = [a \in Actions |-> "idle"]
    /\ ai = [c \in Conversations |-> "on"]
    /\ switched = {}
    /\ pc = [r \in Requests |-> "idle"]
    /\ subject = [r \in Requests |-> None]
    /\ job = [r \in Requests |-> "absent"]
    /\ calls = [a \in Actions |-> 0]
    /\ crashes = 0

-----------------------------------------------------------------------------
\* The agent's tools.  A skill that requires approval only creates its row;
\* transferToHuman pauses the AI, looks for a pending transfer, then creates.
\* The pause and the executor's transfer also write the conversation's status,
\* its active agent and its department, which nothing here reads.

pause(c) ==
    /\ ai' = [ai EXCEPT ![c] = "off"]
    /\ switched' = switched \ {c}

\* Mutation: the AI is paused only after approval, by the executor.
pauseLater(a) ==
    /\ a \in Transfers /\ gate[a] = "idle"
    /\ gate' = [gate EXCEPT ![a] = "paused"]
    /\ UNCHANGED <<rows, overdue, switch, pc, subject, job, calls, crashes>>

pauseAi(a) ==
    /\ a \in Transfers /\ gate[a] = "idle"
    /\ pause(ConvOf[a])
    /\ gate' = [gate EXCEPT ![a] = "paused"]
    /\ UNCHANGED <<rows, overdue, pc, subject, job, calls, crashes>>

findExisting(a) ==
    /\ gate[a] = "paused"
    /\ gate' = [gate EXCEPT ![a] =
                  IF \E b \in Transfers : ConvOf[b] = ConvOf[a] /\ status[b] = "PENDING"
                  THEN "closed" ELSE "create"]
    /\ UNCHANGED <<rows, overdue, switch, pc, subject, job, calls, crashes>>

create(a) ==
    /\ gate[a] = IF a \in Transfers THEN "create" ELSE "idle"
    /\ status' = [status EXCEPT ![a] = "PENDING"]
    /\ gate' = [gate EXCEPT ![a] = "closed"]
    /\ UNCHANGED <<result, overdue, switch, pc, subject, job, calls, crashes>>

\* Time passes expiresAt.
Expire(a) ==
    /\ status[a] # "absent" /\ a \notin overdue
    /\ overdue' = overdue \union {a}
    /\ UNCHANGED <<rows, gate, switch, pc, subject, job, calls, crashes>>

-----------------------------------------------------------------------------
\* pending-action.service.ts, approve() and reject().
Goto(r, label) == pc' = [pc EXCEPT ![r] = label]

\* storage.save() writes every column of the copy the request read while the
\* row was PENDING: the status and an empty executionResult.
save(a, s) ==
    /\ status' = [status EXCEPT ![a] = s]
    /\ result' = [result EXCEPT ![a] = "none"]

\* One decision at a time, except on the racing actions.
free(a) == a \in Racing \/ \A q \in Requests : subject[q] = a => pc[q] \notin InFlight

\* storage.get() and the two checks on what it returned.
get(r, a, kind) ==
    /\ pc[r] = "idle" /\ free(a) /\ status[a] # "absent"
    /\ subject' = [subject EXCEPT ![r] = a]
    /\ Goto(r, IF status[a] # "PENDING" THEN "done"
               ELSE IF a \in overdue THEN "expire" ELSE kind)
    /\ UNCHANGED <<rows, overdue, gate, switch, job, calls, crashes>>

saveApproved(r) ==
    /\ pc[r] = "approve"
    /\ save(subject[r], "APPROVED")
    /\ Goto(r, "enqueue")
    /\ UNCHANGED <<overdue, gate, switch, subject, job, calls, crashes>>

\* An add that throws is logged and swallowed.
enqueue(r) ==
    /\ pc[r] = "enqueue"
    /\ \/ job' = [job EXCEPT ![r] = "waiting"]
       \/ UNCHANGED job
    /\ Goto(r, "done")
    /\ UNCHANGED <<rows, overdue, gate, switch, subject, calls, crashes>>

saveRejected(r) ==
    /\ pc[r] = "reject"
    /\ save(subject[r], "REJECTED")
    /\ Goto(r, IF subject[r] \in Transfers THEN "resume" ELSE "done")
    /\ UNCHANGED <<overdue, gate, switch, subject, job, calls, crashes>>

\* Rejecting a transfer clears the pause; a failing update is swallowed.
resumeAi(r) ==
    /\ pc[r] = "resume"
    /\ \/ ai' = [ai EXCEPT ![ConvOf[subject[r]]] = "on"]
       \/ UNCHANGED ai
    /\ Goto(r, "done")
    /\ UNCHANGED <<rows, overdue, gate, switched, subject, job, calls, crashes>>

saveExpired(r) ==
    /\ pc[r] = "expire"
    /\ save(subject[r], "EXPIRED")
    /\ Goto(r, "done")
    /\ UNCHANGED <<overdue, gate, switch, subject, job, calls, crashes>>

\* A save throws and the request ends with a 500.
RequestFails(r) ==
    /\ pc[r] \in {"approve", "reject", "expire"}
    /\ Goto(r, "done")
    /\ UNCHANGED <<rows, overdue, gate, switch, subject, job, calls, crashes>>

-----------------------------------------------------------------------------
switchOn(c) ==
    /\ ai' = [ai EXCEPT ![c] = "on"]
    /\ switched' = switched \union {c}

\* conversations.service.ts: the operators' switch, which looks at no pending
\* action.  Off is also what an operator's message and routeToDepartment write.
toggleAi(c, enabled) ==
    /\ IF enabled THEN switchOn(c) ELSE pause(c)
    /\ UNCHANGED <<rows, overdue, gate, pc, subject, job, calls, crashes>>

\* Pinning an agent forces the AI on; so do an Instagram comment and a cron.
setActiveAgent(c) ==
    /\ switchOn(c)
    /\ UNCHANGED <<rows, overdue, gate, pc, subject, job, calls, crashes>>

-----------------------------------------------------------------------------
\* pending-action-executor.processor.ts.

\* Mutation: everything past expiresAt is swept, decided or not.
sweepAll ==
    /\ \E a \in overdue : status[a] \in {"PENDING", "APPROVED"}
    /\ status' = [a \in Actions |->
                    IF a \in overdue /\ status[a] \in {"PENDING", "APPROVED"}
                    THEN "EXPIRED" ELSE status[a]]
    /\ UNCHANGED <<result, overdue, gate, switch, pc, subject, job, calls, crashes>>

\* One conditional updateMany, every five minutes.
expireOverdueActions ==
    /\ \E a \in overdue : status[a] = "PENDING"
    /\ status' = [a \in Actions |->
                    IF a \in overdue /\ status[a] = "PENDING" THEN "EXPIRED" ELSE status[a]]
    /\ UNCHANGED <<result, overdue, gate, switch, pc, subject, job, calls, crashes>>

setJob(r, s) == job' = [job EXCEPT ![r] = s]

process(r) ==
    /\ job[r] = "waiting"
    /\ setJob(r, IF status[subject[r]] = "APPROVED" THEN "run" ELSE "completed")
    /\ UNCHANGED <<rows, overdue, gate, switch, pc, subject, calls, crashes>>

executeTransferToHuman(r) ==
    /\ job[r] = "run" /\ subject[r] \in Transfers
    /\ \/ /\ setJob(r, "ok")
          /\ calls' = [calls EXCEPT ![subject[r]] = @ + 1]
          /\ pause(ConvOf[subject[r]])
       \/ setJob(r, "thrown") /\ UNCHANGED <<calls, switch>>
    /\ UNCHANGED <<rows, overdue, gate, pc, subject, crashes>>

\* A missing run, skill or tool throws.  A network error, a timeout and a
\* skill that is not configured do not: they come back as { ok: false }.
executeHttpSkill(r) ==
    /\ job[r] = "run" /\ subject[r] \notin Transfers
    /\ \/ /\ \E out \in {"ok", "failed"} : setJob(r, out)
          /\ calls' = [calls EXCEPT ![subject[r]] = @ + 1]
       \/ \E out \in {"failed", "thrown"} : setJob(r, out) /\ UNCHANGED calls
    /\ UNCHANGED <<rows, overdue, gate, switch, pc, subject, crashes>>

\* Mutation: a thrown error is retried by BullMQ after the row was updated.
recordAndRetry(r) ==
    /\ job[r] \in {"ok", "failed", "thrown"}
    /\ status' = [status EXCEPT ![subject[r]] = IF job[r] = "ok" THEN "EXECUTED" ELSE "APPROVED"]
    /\ result' = [result EXCEPT ![subject[r]] = IF job[r] = "ok" THEN "ok" ELSE "error"]
    /\ setJob(r, IF job[r] = "ok" THEN "completed" ELSE "waiting")
    /\ UNCHANGED <<overdue, gate, switch, pc, subject, calls, crashes>>

\* Mutation: a failure is written as a status that the column does not have.
recordFailed(r) ==
    /\ job[r] \in {"ok", "failed", "thrown"}
    /\ status' = [status EXCEPT ![subject[r]] = IF job[r] = "ok" THEN "EXECUTED" ELSE "FAILED"]
    /\ result' = [result EXCEPT ![subject[r]] = IF job[r] = "ok" THEN "ok" ELSE "error"]
    /\ setJob(r, "completed")
    /\ UNCHANGED <<overdue, gate, switch, pc, subject, calls, crashes>>

\* The update after the call looks at no condition; only a thrown error
\* counts as a failure, and it leaves the row APPROVED.
record(r) ==
    /\ job[r] \in {"ok", "failed", "thrown"}
    /\ status' = [status EXCEPT ![subject[r]] =
                    IF job[r] = "thrown" THEN "APPROVED" ELSE "EXECUTED"]
    /\ result' = [result EXCEPT ![subject[r]] = IF job[r] = "ok" THEN "ok" ELSE "error"]
    /\ setJob(r, "completed")
    /\ UNCHANGED <<overdue, gate, switch, pc, subject, calls, crashes>>

\* Reading or updating the row throws: the queue sets no attempts, so the job
\* is failed for good.
JobFails(r) ==
    /\ job[r] \in {"waiting", "ok", "failed", "thrown"}
    /\ setJob(r, "lost")
    /\ UNCHANGED <<rows, overdue, gate, switch, pc, subject, calls, crashes>>

\* The process dies: requests and tool calls are gone, BullMQ runs the active
\* jobs again.
Crash ==
    /\ crashes < MaxCrashes
    /\ crashes' = crashes + 1
    /\ pc' = [r \in Requests |-> IF pc[r] = "idle" THEN "idle" ELSE "done"]
    /\ gate' = [a \in Actions |-> IF gate[a] = "idle" THEN "idle" ELSE "closed"]
    /\ job' = [r \in Requests |-> IF job[r] \in Active THEN "waiting" ELSE job[r]]
    /\ UNCHANGED <<rows, overdue, switch, subject, calls>>

-----------------------------------------------------------------------------
Propose(a) == pauseAi(a) \/ findExisting(a) \/ create(a)

Decide(r) ==
    \/ \E a \in Actions, kind \in {"approve", "reject"} : get(r, a, kind)
    \/ saveApproved(r) \/ enqueue(r)
    \/ saveRejected(r) \/ resumeAi(r) \/ saveExpired(r)

Execute(r) == process(r) \/ executeTransferToHuman(r) \/ executeHttpSkill(r) \/ record(r)

Switch(c) == setActiveAgent(c) \/ \E enabled \in BOOLEAN : toggleAi(c, enabled)

Next ==
    \/ \E a \in Actions : Propose(a) \/ Expire(a)
    \/ \E c \in Conversations : Switch(c)
    \/ \E r \in Requests : Decide(r) \/ RequestFails(r) \/ Execute(r) \/ JobFails(r)
    \/ expireOverdueActions
    \/ Crash

Spec == Init /\ [][Next]_vars

\* The executor's workers take every job; operators and clocks owe nothing.
FairSpec == Spec /\ \A r \in Requests : WF_vars(Execute(r))

-----------------------------------------------------------------------------
Decided == Actions \ Racing

\* A refusal holds: an action that reads REJECTED or EXPIRED was never carried
\* out, although the sweep, the request and the worker write the same row.
RefusedIsNotCarriedOut ==
    \A a \in Decided : status[a] \in {"REJECTED", "EXPIRED"} => calls[a] = 0

\* One approval, one call: the tool runs once, a job that BullMQ replays after
\* a crash apart.
CalledOncePerApproval == \A a \in Decided : calls[a] <= 1 + crashes

\* transfer-to-human.tool.ts pauses the AI at once, without waiting for the
\* approval: under a pending transfer the AI can only have been switched on by
\* the rejection of another transfer of the conversation, or by somebody who
\* used the switch after the pause.
PausedUntilDecided ==
    \A a \in Transfers :
        status[a] = "PENDING" =>
            \/ ai[ConvOf[a]] = "off"
            \/ ConvOf[a] \in switched
            \/ \E b \in Transfers \ {a} :
                  ConvOf[b] = ConvOf[a] /\ (status[b] = "REJECTED" \/ b \in Racing)

\* An enqueued approval is carried out or leaves its error on the row, unless
\* the job itself fails.
ApprovedIsAttempted ==
    \A r \in Requests, a \in Decided :
        job[r] = "waiting" /\ subject[r] = a
            ~> (job[r] = "lost" \/ result[a] # "none")

\* "Falhas resultam em status PENDING + executionResult com error": a failed
\* action can be approved again once its job is over.
FailureReturnsToPending ==
    \A a \in Decided :
        /\ result[a] = "error"
        /\ \A r \in Requests : subject[r] = a => job[r] \notin Active \union {"waiting"}
        => status[a] = "PENDING"
=============================================================================
