------------------------------ MODULE ChannelSync ------------------------------
(***************************************************************************)
(* The import of a channel's history: the requests that start and cancel   *)
(* it, the queue channel-sync, and the processor that goes through the     *)
(* provider's conversations.  Starting, cancelling and the processor read  *)
(* the row of channel_sync_jobs and write it later, unconditionally; the   *)
(* import looks for an open conversation and creates one outside the lock  *)
(* of the inbound pipeline, which creates conversations meanwhile.         *)
(***************************************************************************)
EXTENDS Naturals

CONSTANTS
    Syncs,        \* numbers: requests to start, and the rows they create
    Threads,      \* how many conversations the provider lists, each with one contact
    Busy,         \* bound: the ones that messages and operators meanwhile touch
    Importers,    \* one processor per instance: the queue's concurrency is 1
    SyncTries,    \* attempts of a job
    MaxCancels,   \* bound: cancellations
    NoSync

ASSUME SyncAssumption ==
    /\ Syncs \subseteq Nat /\ NoSync \notin Syncs
    /\ Threads \in Nat /\ Busy \subseteq 1..Threads
    /\ SyncTries \in Nat \ {0} /\ MaxCancels \in Nat

VARIABLES
    syncStatus,  \* the row's status, "none" before it is created
    request,     \* the request that starts: not made, found no active row, created, done
    syncJob,     \* its job; "stuck": over before the row could be written
    failures,    \* attempts of the job in the queue that failed
    doomed,      \* the row a cancellation has read
    importer,    \* a processor: [at, sync, cur], its row and the conversation in
                 \* hand, and late: imports it began though the row read CANCELLED
    opened,      \* open conversations of each thread's contact
    arriving,    \* threads whose message found no open conversation, none created yet
    stalls,      \* how often the processor of the job has died
    cancels,     \* cancellations so far
    overtaken    \* history: threads with an open conversation that came while another
                 \* was about to be created

retries == <<failures, stalls>>
convVars == <<opened, arriving, overtaken>>
syncVars == <<syncStatus, request, syncJob, retries, doomed, importer, convVars, cancels>>

Live == {"PENDING", "RUNNING"}
Settled == {"COMPLETED", "FAILED", "CANCELLED"}
Resting == [at |-> "idle", sync |-> NoSync, cur |-> 0, late |-> 0]
Importing == {"loop", "find", "create", "messages"}

SyncTypeOK ==
    /\ syncStatus \in [Syncs -> Live \union Settled \union {"none"}]
    /\ request \in [Syncs -> {"none", "free", "created", "done"}]
    /\ syncJob \in [Syncs -> {"none", "waiting", "active", "over", "stuck"}]
    /\ failures \in [Syncs -> 0..SyncTries]
    /\ doomed \in Syncs \union {NoSync}
    /\ importer \in [Importers ->
                       [at : {"idle", "start", "collect", "complete", "fail"} \union Importing,
                        sync : Syncs \union {NoSync}, cur : 0..Threads, late : Nat]]
    /\ \A w \in Importers : importer[w].at # "idle" => importer[w].sync \in Syncs
    /\ \A w \in Importers :
         importer[w].at \in {"find", "create", "messages"} => importer[w].cur > 0
    /\ opened \in [1..Threads -> Nat]
    /\ stalls \in [Syncs -> 0..1]
    /\ cancels \in 0..MaxCancels
    /\ overtaken \subseteq 1..Threads /\ arriving \subseteq 1..Threads

SyncInit ==
    /\ syncStatus = [s \in Syncs |-> "none"] /\ request = [s \in Syncs |-> "none"]
    /\ syncJob = [s \in Syncs |-> "none"] /\ failures = [s \in Syncs |-> 0]
    /\ doomed = NoSync /\ importer = [w \in Importers |-> Resting]
    /\ opened = [c \in 1..Threads |-> 0] /\ stalls = [s \in Syncs |-> 0]
    /\ cancels = 0 /\ overtaken = {} /\ arriving = {}

-----------------------------------------------------------------------------
\* channel-sync.orchestrator.ts: start(), cancel().
asks(s, to) == request' = [request EXCEPT ![s] = to]

\* No active row found; with one, start() returns it and changes nothing.
startSync(s) ==
    /\ request[s] = "none" /\ \A t \in Syncs : syncStatus[t] \notin Live
    /\ asks(s, "free")
    /\ UNCHANGED <<syncStatus, syncJob, retries, doomed, importer, convVars, cancels>>

\* Rows are numbered in the order of their creation.
createSync(s) ==
    /\ request[s] = "free" /\ \A t \in Syncs : t < s => syncStatus[t] # "none"
    /\ asks(s, "created")
    /\ syncStatus' = [syncStatus EXCEPT ![s] = "PENDING"]
    /\ UNCHANGED <<syncJob, retries, doomed, importer, convVars, cancels>>

\* An add that throws leaves a PENDING row without a job.
addSync(s) ==
    /\ request[s] = "created" /\ asks(s, "done")
    /\ \/ syncJob' = [syncJob EXCEPT ![s] = "waiting"]
       \/ UNCHANGED syncJob
    /\ UNCHANGED <<syncStatus, retries, doomed, importer, convVars, cancels>>

\* The latest active row; it is written later, whatever it reads by then.
readActive(s) ==
    /\ doomed = NoSync /\ syncStatus[s] \in Live /\ cancels < MaxCancels
    /\ \A t \in Syncs : t > s => syncStatus[t] \notin Live
    /\ doomed' = s /\ cancels' = cancels + 1
    /\ UNCHANGED <<syncStatus, request, syncJob, retries, importer, convVars>>

cancelSync ==
    /\ doomed # NoSync /\ doomed' = NoSync
    /\ syncStatus' = [syncStatus EXCEPT ![doomed] = "CANCELLED"]
    /\ UNCHANGED <<request, syncJob, retries, importer, convVars, cancels>>

-----------------------------------------------------------------------------
\* channel-sync.processor.ts
puts(w, at, s, cur, late) ==
    importer' = [importer EXCEPT ![w] = [at |-> at, sync |-> s, cur |-> cur, late |-> late]]

steps(w, at) == puts(w, at, importer[w].sync, importer[w].cur, importer[w].late)

writes(s, status) == syncStatus' = [syncStatus EXCEPT ![s] = status]

\* The job goes back to the queue; it is over and gone.
goesBack(w) ==
    /\ syncJob' = [syncJob EXCEPT ![importer[w].sync] = "waiting"]
    /\ importer' = [importer EXCEPT ![w] = Resting]

isOver(s, how) ==
    /\ syncJob' = [syncJob EXCEPT ![s] = how]
    /\ failures' = [failures EXCEPT ![s] = 0] /\ stalls' = [stalls EXCEPT ![s] = 0]

ends(w, how) ==
    isOver(importer[w].sync, how) /\ importer' = [importer EXCEPT ![w] = Resting]

takeSync(w, s) ==
    /\ importer[w].at = "idle" /\ syncJob[s] = "waiting"
    /\ \/ /\ syncStatus[s] = "CANCELLED"
          /\ isOver(s, "over") /\ UNCHANGED importer
       \/ /\ syncStatus[s] # "CANCELLED"
          /\ syncJob' = [syncJob EXCEPT ![s] = "active"]
          /\ puts(w, "start", s, 0, 0)
          /\ UNCHANGED retries
    /\ UNCHANGED <<syncStatus, request, doomed, convVars, cancels>>

\* process() throws: BullMQ failures again or gives the job up.
attemptThrows(w, how) ==
    LET s == importer[w].sync
    IN \/ /\ failures[s] + 1 < SyncTries /\ goesBack(w)
          /\ failures' = [failures EXCEPT ![s] = @ + 1] /\ UNCHANGED stalls
       \/ failures[s] + 1 = SyncTries /\ ends(w, how)

markRunning(w) ==
    /\ importer[w].at = "start"
    /\ \/ /\ writes(importer[w].sync, "RUNNING")
          /\ steps(w, "collect")
          /\ UNCHANGED <<syncJob, retries>>
       \/ attemptThrows(w, "stuck") /\ UNCHANGED syncStatus
    /\ UNCHANGED <<request, doomed, convVars, cancels>>

\* The provider answers after at most three waits for its rate limit, or not.
collectConversations(w) ==
    /\ importer[w].at = "collect"
    /\ \/ steps(w, "loop")
       \/ steps(w, "fail")
    /\ UNCHANGED <<syncStatus, request, syncJob, retries, doomed, convVars, cancels>>

\* The provider's list is gone through in its order.
takesNext(w) ==
    puts(w, "find", importer[w].sync, importer[w].cur + 1, importer[w].late)

\* Mutation: the end of the list is missed.
nextOnceMore(w) ==
    /\ importer[w].at = "loop"
    /\ IF importer[w].cur > Threads THEN steps(w, "complete") ELSE takesNext(w)
    /\ UNCHANGED <<syncStatus, request, syncJob, retries, doomed, convVars, cancels>>

\* Mutation: the row is not read again before each conversation.
nextWhatever(w) ==
    /\ importer[w].at = "loop"
    /\ IF importer[w].cur = Threads THEN steps(w, "complete") ELSE takesNext(w)
    /\ UNCHANGED <<syncStatus, request, syncJob, retries, doomed, convVars, cancels>>

\* isCancelled(), outside of the try of a single conversation.
nextConversation(w) ==
    /\ importer[w].at = "loop"
    /\ \/ /\ importer[w].cur = Threads \/ syncStatus[importer[w].sync] = "CANCELLED"
          /\ steps(w, "complete")
       \/ /\ importer[w].cur < Threads /\ syncStatus[importer[w].sync] # "CANCELLED"
          /\ takesNext(w)
       \/ importer[w].cur < Threads /\ steps(w, "fail")
    /\ UNCHANGED <<syncStatus, request, syncJob, retries, doomed, convVars, cancels>>

begins(w, at) ==
    puts(w, at, importer[w].sync, importer[w].cur,
         IF syncStatus[importer[w].sync] = "CANCELLED" THEN importer[w].late + 1
         ELSE importer[w].late)

\* Mutation: an open conversation is not looked for.
findNothing(w) ==
    /\ importer[w].at = "find"
    /\ \E at \in {"create", "loop"} : begins(w, at)
    /\ UNCHANGED <<syncStatus, request, syncJob, retries, doomed, convVars, cancels>>

\* history-import.service.ts, importConversation(): the contact, found or created,
\* and its open conversation; what throws is caught and the loop goes on.
findConversation(w) ==
    /\ importer[w].at = "find"
    /\ \/ begins(w, IF opened[importer[w].cur] > 0 THEN "messages" ELSE "create")
       \/ begins(w, "loop")
    /\ UNCHANGED <<syncStatus, request, syncJob, retries, doomed, convVars, cancels>>

\* A conversation comes into being for c while others are about to create one.
opens(c, others, messages) ==
    /\ opened' = [opened EXCEPT ![c] = @ + 1]
    /\ overtaken' = IF \/ \E v \in others : importer[v].at = "create" /\ importer[v].cur = c
                       \/ c \in messages
                    THEN overtaken \union {c} ELSE overtaken

\* The audit row may throw after the conversation was created.
createConversation(w) ==
    /\ importer[w].at = "create"
    /\ \/ /\ opens(importer[w].cur, Importers \ {w}, arriving) /\ UNCHANGED arriving
          /\ \E at \in {"messages", "loop"} : steps(w, at)
       \/ steps(w, "loop") /\ UNCHANGED convVars
    /\ UNCHANGED <<syncStatus, request, syncJob, retries, doomed, cancels>>

\* importMessages() page by page and the counters of the row; createMany skips
\* the duplicates of a conversation.
importMessages(w) ==
    /\ importer[w].at = "messages"
    /\ steps(w, "loop")
    /\ UNCHANGED <<syncStatus, request, syncJob, retries, doomed, convVars, cancels>>

\* COMPLETED is written over CANCELLED, too.
completeSync(w) ==
    /\ importer[w].at = "complete"
    /\ \/ /\ writes(importer[w].sync, "COMPLETED")
          /\ ends(w, "over")
       \/ steps(w, "fail") /\ UNCHANGED <<syncStatus, syncJob, retries>>
    /\ UNCHANGED <<request, doomed, convVars, cancels>>

\* Mutation: the catch block throws without writing FAILED.
rethrow(w) ==
    /\ importer[w].at = "fail" /\ attemptThrows(w, "over")
    /\ UNCHANGED <<syncStatus, request, doomed, convVars, cancels>>

\* The catch block, which throws again: FAILED, and the next attempt may follow.
markFailed(w) ==
    /\ importer[w].at = "fail"
    /\ \/ writes(importer[w].sync, "FAILED") /\ attemptThrows(w, "over")
       \/ attemptThrows(w, "stuck") /\ UNCHANGED syncStatus
    /\ UNCHANGED <<request, doomed, convVars, cancels>>

\* The process dies; BullMQ gives a stalled job to a worker again, once.
importerDies(w) ==
    LET s == importer[w].sync
    IN /\ importer[w].at # "idle"
       /\ \/ /\ stalls[s] = 0 /\ goesBack(w)
             /\ stalls' = [stalls EXCEPT ![s] = 1] /\ UNCHANGED failures
          \/ stalls[s] > 0 /\ ends(w, "stuck")
       /\ UNCHANGED <<syncStatus, request, doomed, convVars, cancels>>

-----------------------------------------------------------------------------
\* The inbound pipeline, which finds a contact without an open conversation and
\* creates one under its own lock; an operator, who closes one.
messageArrives(c) ==
    /\ opened[c] = 0 /\ c \notin arriving /\ arriving' = arriving \union {c}
    /\ UNCHANGED <<syncStatus, request, syncJob, retries, doomed, importer, opened, cancels,
                   overtaken>>

messageOpens(c) ==
    /\ c \in arriving /\ arriving' = arriving \ {c}
    /\ opens(c, Importers, {})
    /\ UNCHANGED <<syncStatus, request, syncJob, retries, doomed, importer, cancels>>

closeConversation(c) ==
    /\ opened[c] > 0 /\ opened' = [opened EXCEPT ![c] = @ - 1]
    /\ overtaken' = IF opened[c] = 1 THEN overtaken \ {c} ELSE overtaken
    /\ UNCHANGED <<syncStatus, request, syncJob, retries, doomed, importer, cancels, arriving>>

-----------------------------------------------------------------------------
Import(w) ==
    \/ \E s \in Syncs : takeSync(w, s)
    \/ markRunning(w) \/ collectConversations(w) \/ nextConversation(w)
    \/ findConversation(w) \/ createConversation(w) \/ importMessages(w)
    \/ completeSync(w) \/ markFailed(w)

SyncNext ==
    \/ \E s \in Syncs : startSync(s) \/ createSync(s) \/ addSync(s) \/ readActive(s)
    \/ cancelSync
    \/ \E w \in Importers : Import(w) \/ importerDies(w)
    \/ \E c \in Busy : messageArrives(c) \/ messageOpens(c) \/ closeConversation(c)

SyncSpec == SyncInit /\ [][SyncNext]_syncVars

SyncFairness == \A w \in Importers : WF_syncVars(Import(w))

-----------------------------------------------------------------------------
\* Properties.

\* isCancelled() is read before each conversation and the row written by others
\* in between: once its row reads CANCELLED, an attempt imports at most the
\* conversation that had passed the check.
CancelStopsSync == \A w \in Importers : importer[w].late <= 1

\* importConversation() looks for an open conversation, then creates one, on
\* every attempt of every sync: a contact gets a second open conversation only
\* when another one was created for it just in between.
OneConversationEach == \A c \in 1..Threads : opened[c] > 1 => c \in overtaken

\* A job that is in the queue ends, and leaves its row COMPLETED, FAILED or
\* CANCELLED, so that a later start() does not take it for active; the exception
\* is a job whose last attempt could not write the row or stalled twice.
SyncSettles ==
    \A s \in Syncs :
        syncJob[s] = "waiting" ~>
            \/ syncJob[s] = "over" /\ syncStatus[s] \in Settled
            \/ syncJob[s] = "stuck"
=============================================================================
