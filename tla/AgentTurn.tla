------------------------------- MODULE AgentTurn -------------------------------
(***************************************************************************)
(* One conversation and everybody who may answer it: the inbound processor *)
(* that debounces the customer's messages (two in-memory maps and a set),  *)
(* the runs of the agent runner and the runs they chain, the operators,    *)
(* and the watchdog (delayed job, timer processor, fallback cron) that     *)
(* starts a run of its own when nobody answered.  Which agent runs is not  *)
(* told apart; one action is a stretch of code between two awaits that     *)
(* matter.  A way into run() is the check of the router, the call, and the  *)
(* run's own preparation.                                                   *)
(***************************************************************************)
EXTENDS Naturals, FiniteSets

CONSTANTS
    Slots,       \* numbers: concurrent invocations of run() and of its callers
    MaxDepth,    \* MAX_CHAIN_DEPTH, MAX_CHAIN_DEPTH_INTERNAL
    MaxAttempts, \* watchdogConfig.maxAttempts
    MaxInbound,  \* bound: messages of the customer
    MaxEvents    \* bound: messages, requests, settings, agents gone, restarts, DB errors

ASSUME AgentTurnAssumption ==
    /\ Slots \subseteq Nat /\ MaxDepth \in Nat \ {0} /\ MaxAttempts \in Nat
    /\ MaxInbound \in Nat /\ MaxEvents \in Nat

VARIABLES
    status, ai, assigned,              \* the conversation row
    stuckAttempts, isStuck, jobId,     \* its watchdog columns
    inbound,     \* messages of the customer so far
    last,        \* direction of the latest message
    deciding,    \* inbound jobs in tryAiAgent
    timer, running, followup,          \* pendingRuns, running, followupNeeded
    slot,        \* invocations of the runner
    job, jobAttempts, verdict,         \* the job watchdog-{conversation}
    sched, schedAttempts, cancel,      \* detached scheduleCheck, cancelCheck
    routable,    \* organisation, channel, hours and budget let the AI answer
    watched,     \* watchdogEnabled, within the watchdog's hours
    internal,    \* the conversation is a console or a cron's, not a customer's
    seen,        \* history: the latest message some run has read
    excused,     \* history: the latest message that an error or a restart cut off
    events,
    tickets      \* history: the runs that may still begin under a person's floor

conv == <<status, ai, assigned>>
dog == <<stuckAttempts, isStuck, jobId>>
mail == <<inbound, last>>
debounce == <<timer, running, followup>>
runs == <<slot, seen, excused>>
queue == <<job, jobAttempts, verdict>>
calls == <<sched, schedAttempts, cancel>>
env == <<routable, watched, internal, events>>
turn == <<conv, dog, mail, deciding, debounce, runs, queue, calls, env>>
vars == <<turn, tickets>>

Statuses == {"PENDING", "BOT", "OPEN", "WAITING", "CLOSED"}
Origins == {"debounce", "watchdog", "detached"}
\* check: the router is about to be asked; start: it has said yes or was not asked,
\* run() is called and prepares; work: the LLM loop and what follows it.
Pcs == {"idle", "check", "start", "work"}
Invocations == [pc : Pcs, origin : Origins, depth : 0..MaxDepth]
Idle == [pc |-> "idle", origin |-> "detached", depth |-> 0]
Verdicts == [do : {"none", "clear", "stick", "retry", "wait"},
             attempts : 0..MaxAttempts, pending : BOOLEAN]
Plain(do) == [do |-> do, attempts |-> 0, pending |-> FALSE]
NoVerdict == Plain("none")

TypeOK ==
    /\ status \in Statuses /\ ai \in {"auto", "on", "off"} /\ assigned \in BOOLEAN
    /\ stuckAttempts \in 0..MaxAttempts /\ isStuck \in BOOLEAN /\ jobId \in BOOLEAN
    /\ inbound \in 0..MaxInbound /\ last \in {"none", "in", "out"}
    /\ deciding \in 0..MaxInbound
    /\ timer \in BOOLEAN /\ running \in BOOLEAN /\ followup \in BOOLEAN
    /\ slot \in [Slots -> Invocations]
    /\ seen \in 0..MaxInbound /\ excused \in 0..MaxInbound
    /\ job \in {"none", "delayed", "active", "finished", "failed"}
    /\ jobAttempts \in 0..MaxAttempts
    /\ verdict \in Verdicts
    /\ sched \in {"idle", "read", "add", "mark"}
    /\ schedAttempts \in 0..MaxAttempts
    /\ cancel \in {"idle", "remove", "clear"}
    /\ routable \in BOOLEAN /\ watched \in BOOLEAN /\ internal \in BOOLEAN
    /\ events \in 0..MaxEvents
    /\ tickets \subseteq Slots \X (0..MaxDepth)

Init ==
    /\ status \in {"PENDING", "BOT"} /\ ai = "auto" /\ assigned = FALSE
    /\ stuckAttempts = 0 /\ isStuck = FALSE /\ jobId = FALSE
    /\ inbound = 0 /\ last = "none" /\ deciding = 0
    /\ timer = FALSE /\ running = FALSE /\ followup = FALSE
    /\ slot = [s \in Slots |-> Idle] /\ seen = 0 /\ excused = 0
    /\ job = "none" /\ jobAttempts = 0 /\ verdict = NoVerdict
    /\ sched = "idle" /\ schedAttempts = 0 /\ cancel = "idle"
    /\ routable = TRUE /\ watched = TRUE /\ internal \in BOOLEAN /\ events = 0
    /\ internal => status = "BOT"
    /\ tickets = {}

shouldHandle == /\ ai # "off"
                /\ assigned => ai = "on"
                /\ routable

-----------------------------------------------------------------------------
\* The bound of what the environment does.
another == events < MaxEvents /\ events' = events + 1
keepSettings == UNCHANGED <<routable, watched, internal>>

\* inbound-message.processor.ts.  The message is stored and a check scheduled
\* (detached) before tryAiAgent reads the conversation again.
Arrive ==
    /\ another /\ keepSettings /\ ~internal
    /\ inbound < MaxInbound /\ status # "CLOSED" /\ sched = "idle"
    /\ inbound' = inbound + 1 /\ last' = "in"
    /\ status' = IF status = "WAITING" THEN "OPEN" ELSE status
    /\ sched' = "read"
    /\ deciding' = deciding + 1
    /\ UNCHANGED <<ai, assigned, dog, debounce, runs, queue, schedAttempts, cancel>>

\* Mutation: the timer is armed whether or not a run is in flight.
scheduleAgentRunAlways ==
    /\ timer' = TRUE
    /\ UNCHANGED <<running, followup>>

scheduleAgentRun ==
    /\ IF running THEN followup' = TRUE /\ UNCHANGED timer
                  ELSE timer' = TRUE /\ UNCHANGED followup
    /\ UNCHANGED running

\* Only a conversation without owner and without department goes to the queue
\* of the default department; whether it has one is left open.
ensureRoutedToDefaultSector ==
    \/ ~assigned /\ status' = "PENDING" /\ UNCHANGED <<ai, assigned>>
    \/ UNCHANGED conv

\* Somebody else is still to read the messages.
awaited(deciders) == \/ timer \/ followup \/ deciders > 0
                     \/ \E t \in Slots : slot'[t].pc \in {"check", "start"}
cutOff(deciders) == excused' = IF seen = inbound \/ awaited(deciders) THEN excused ELSE inbound

\* A read throws: the dispatch is logged and gone.
tryAiAgentThrows ==
    /\ deciding > 0 /\ another /\ keepSettings
    /\ deciding' = deciding - 1
    /\ UNCHANGED <<conv, dog, mail, debounce, slot, seen, queue, calls>>
    /\ cutOff(deciding')

tryAiAgent ==
    /\ deciding > 0
    /\ deciding' = deciding - 1
    /\ \/ shouldHandle /\ scheduleAgentRun /\ UNCHANGED conv
       \/ ~shouldHandle /\ ensureRoutedToDefaultSector /\ UNCHANGED debounce
    /\ UNCHANGED <<dog, mail, runs, queue, calls, env>>

\* A slot about to enter run(), or about to ask the router first; the first one
\* that is free is taken.
entering(origin, depth) == [pc |-> "start", origin |-> origin, depth |-> depth]
asking(origin) == [pc |-> "check", origin |-> origin, depth |-> 0]
free(s) == /\ slot[s].pc = "idle"
           /\ \A t \in Slots : t < s => slot[t].pc # "idle"

\* setTimeout's callback and fireAgentRun up to its first await.
fireAgentRun(s) ==
    /\ timer /\ ~running /\ free(s)
    /\ timer' = FALSE /\ running' = TRUE /\ followup' = FALSE
    /\ slot' = [slot EXCEPT ![s] = asking("debounce")]
    /\ UNCHANGED <<conv, dog, mail, deciding, seen, excused, queue, calls, env>>

\* Mutation: the flag of a message that came during the run is dropped.
finallyForgetful ==
    /\ running' = FALSE /\ followup' = FALSE
    /\ UNCHANGED timer

\* The finally block: one run less, and another one for what came meanwhile.
finally ==
    /\ running' = FALSE /\ followup' = FALSE
    /\ timer' = (timer \/ followup)

\* The watchdog's job ends.
jobEnds(outcome) == job' = outcome /\ verdict' = NoVerdict

\* Mutation: the conversation is not read again before the run.
checkAgainSkipped(s) ==
    /\ slot[s].pc = "check"
    /\ slot' = [slot EXCEPT ![s].pc = "start"]
    /\ UNCHANGED <<conv, dog, mail, deciding, debounce, seen, excused, queue, calls, env>>

\* fireAgentRun, the watchdog's job and engageAi read the conversation and ask
\* the router; a refusal ends the caller.
checkAgain(s) ==
    /\ slot[s].pc = "check"
    /\ \/ /\ shouldHandle
          /\ slot' = [slot EXCEPT ![s].pc = "start"]
          /\ UNCHANGED <<debounce, queue>>
       \/ /\ ~shouldHandle
          /\ slot' = [slot EXCEPT ![s] = Idle]
          /\ CASE slot[s].origin = "debounce" -> finally /\ UNCHANGED queue
               [] slot[s].origin = "watchdog" ->
                     jobEnds("finished") /\ UNCHANGED <<jobAttempts, debounce>>
               [] OTHER -> UNCHANGED <<debounce, queue>>
    /\ UNCHANGED <<conv, dog, mail, deciding, seen, excused, calls, env>>

\* run() returns, even by its own catch, and its caller goes on: fireAgentRun
\* calls cancelCheck, not awaited, and comes to its finally block; the watchdog's
\* job completes; nobody waits for the others.
return(s) ==
    CASE slot[s].origin = "debounce" ->
            /\ cancel = "idle" /\ cancel' = "remove"
            /\ finally
            /\ UNCHANGED <<queue, sched, schedAttempts>>
      [] slot[s].origin = "watchdog" ->
            /\ jobEnds("finished")
            /\ UNCHANGED <<jobAttempts, debounce, calls>>
      [] OTHER -> UNCHANGED <<debounce, queue, calls>>

\* A database error in the caller, in run() before its try block or in its catch
\* block.  fireAgentRun logs it and comes to its finally block without
\* cancelCheck; the watchdog's job fails before its try block and completes once
\* inside; the others are logged.
throws(s) ==
    /\ slot[s].pc # "idle" /\ another /\ keepSettings
    /\ slot' = [slot EXCEPT ![s] = Idle]
    /\ CASE slot[s].origin = "debounce" -> finally /\ UNCHANGED queue
         [] slot[s].origin = "watchdog" ->
               /\ \/ slot[s].pc \in {"check", "start"} /\ jobEnds("failed")
                  \/ slot[s].pc \in {"start", "work"} /\ jobEnds("finished")
               /\ UNCHANGED <<jobAttempts, debounce>>
         [] OTHER -> UNCHANGED <<debounce, queue>>
    /\ IF slot[s].pc = "work" THEN UNCHANGED excused ELSE cutOff(deciding)
    /\ UNCHANGED <<conv, dog, mail, deciding, seen, calls>>

-----------------------------------------------------------------------------
\* agent-runner.service.ts, run().

promotes(s) == status' = IF slot[s].origin = "watchdog" /\ verdict.pending THEN "BOT" ELSE status

\* The caller reads the message to answer, the watchdog turns a conversation that
\* was PENDING at first into BOT; run() reads the history and creates its row.
begin(s) ==
    /\ slot[s].pc = "start"
    /\ promotes(s)
    /\ slot' = [slot EXCEPT ![s].pc = "work"]
    /\ seen' = inbound
    /\ UNCHANGED <<ai, assigned, dog, mail, deciding, debounce, excused, queue, calls, env>>

\* run() resolves no active agent and returns: the router lets a deactivated
\* activeAgentId pass.
resolvesNobody(s) ==
    /\ slot[s].pc = "start" /\ another /\ keepSettings
    /\ promotes(s)
    /\ slot' = [slot EXCEPT ![s] = Idle]
    /\ return(s)
    /\ cutOff(deciding)
    /\ UNCHANGED <<ai, assigned, dog, mail, deciding, seen>>

\* The tool does not look whether the AI is still on.
replyToConversation(s) ==
    /\ slot[s].pc = "work" /\ last = "in"
    /\ last' = "out"
    /\ UNCHANGED <<conv, dog, inbound, deciding, debounce, runs, queue, calls, env>>

\* transferToHuman and routeToDepartment end the loop; only the latter takes the
\* owner away.
transferToHuman(s) ==
    /\ slot[s].pc = "work"
    /\ ai' = "off" /\ status' = "PENDING"
    /\ assigned' \in {assigned, FALSE}
    /\ slot' = [slot EXCEPT ![s] = Idle]
    /\ return(s)
    /\ UNCHANGED <<dog, mail, deciding, seen, excused, env>>

\* The loop ends, or run() catches: a run that said nothing sends a fallback text
\* or an apology, which the tool may refuse or fail to send.
endTurn(s) ==
    /\ slot[s].pc = "work"
    /\ slot' = [slot EXCEPT ![s] = Idle]
    /\ last' \in {last, "out"}
    /\ return(s)
    /\ UNCHANGED <<conv, dog, inbound, deciding, seen, excused, env>>

\* A run that delegated or handed back starts the next one, depth and budget
\* permitting, and does not await it: the router is not asked again.
autoChain(s) ==
    /\ slot[s].pc = "work" /\ slot[s].depth < MaxDepth
    /\ slot' = [slot EXCEPT ![s] = entering("detached", slot[s].depth + 1)]
    /\ return(s)
    /\ UNCHANGED <<conv, dog, mail, deciding, seen, excused, env>>

Run(s) ==
    \/ begin(s) \/ resolvesNobody(s) \/ replyToConversation(s) \/ transferToHuman(s) \/ endTurn(s)
    \/ autoChain(s)

-----------------------------------------------------------------------------
\* conversations.service.ts and messages.service.ts, the operators' requests.
\* A person answers: the owner changes, an AI nobody forced on is paused.
send ==
    /\ another /\ keepSettings /\ ~internal /\ cancel = "idle" /\ status # "CLOSED"
    /\ last' = "out" /\ assigned' = TRUE
    /\ \/ ai = "auto" /\ ai' = "off"
       \/ UNCHANGED ai
    /\ cancel' = "remove"
    /\ UNCHANGED <<status, dog, inbound, deciding, debounce, runs, queue, sched, schedAttempts>>

\* A person answers on the phone: the echo is stored, the AI is not paused.
echo ==
    /\ another /\ keepSettings /\ ~internal /\ cancel = "idle" /\ status # "CLOSED"
    /\ last' = "out" /\ cancel' = "remove"
    /\ UNCHANGED <<conv, dog, inbound, deciding, debounce, runs, queue, sched, schedAttempts>>

assignToMe ==
    /\ another /\ keepSettings
    /\ assigned' = TRUE
    /\ status' = IF status = "PENDING" THEN "OPEN" ELSE status
    /\ UNCHANGED <<ai, dog, mail, deciding, debounce, runs, queue, calls>>

transferToDepartment ==
    /\ another /\ keepSettings
    /\ assigned' = FALSE /\ status' = "PENDING"
    /\ UNCHANGED <<ai, dog, mail, deciding, debounce, runs, queue, calls>>

toggleAi(v) ==
    /\ another /\ keepSettings
    /\ ai' = v
    /\ UNCHANGED <<status, assigned, dog, mail, deciding, debounce, runs, queue, calls>>

\* update() and close() through the FSM's table.
transition(to) ==
    /\ another /\ keepSettings
    /\ <<status, to>> \in {<<"PENDING", "OPEN">>, <<"PENDING", "BOT">>, <<"BOT", "PENDING">>,
         <<"BOT", "CLOSED">>, <<"OPEN", "WAITING">>, <<"OPEN", "CLOSED">>,
         <<"WAITING", "OPEN">>, <<"WAITING", "CLOSED">>, <<"CLOSED", "OPEN">>,
         <<"CLOSED", "PENDING">>}
    /\ status' = to
    /\ UNCHANGED <<ai, assigned, dog, mail, deciding, debounce, runs, queue, calls>>

engageAi(s) ==
    /\ another /\ keepSettings
    /\ free(s) /\ inbound > 0
    /\ slot' = [slot EXCEPT ![s] = asking("detached")]
    /\ UNCHANGED <<conv, dog, mail, deciding, debounce, seen, excused, queue, calls>>

\* Pins an agent, forces the AI on and runs it without asking the router.
setActiveAgent(s) ==
    /\ another /\ keepSettings
    /\ free(s) /\ inbound > 0
    /\ ai' = "on"
    /\ slot' = [slot EXCEPT ![s] = entering("detached", 0)]
    /\ UNCHANGED <<status, assigned, dog, mail, deciding, debounce, seen, excused, queue, calls>>

\* In a console the operator's message counts as the customer's and starts a run
\* at once; nobody asks the router.
sendInternal(s) ==
    /\ another /\ keepSettings /\ internal
    /\ free(s) /\ inbound < MaxInbound
    /\ inbound' = inbound + 1 /\ last' = "in"
    /\ slot' = [slot EXCEPT ![s] = entering("detached", 0)]
    /\ UNCHANGED <<conv, dog, deciding, debounce, seen, excused, queue, calls>>

\* cron-trigger.service.ts: the cron's own conversation, forced on, gets the
\* trigger and a run of depth 1, which skips the router's choice of an agent.
fireCron(s) ==
    /\ another /\ keepSettings /\ internal
    /\ free(s) /\ inbound < MaxInbound
    /\ inbound' = inbound + 1 /\ last' = "in" /\ ai' = "on"
    /\ slot' = [slot EXCEPT ![s] = entering("detached", 1)]
    /\ UNCHANGED <<status, assigned, dog, deciding, debounce, seen, excused, queue, calls>>

Enter(s) == engageAi(s) \/ setActiveAgent(s) \/ sendInternal(s) \/ fireCron(s)

Operator ==
    \/ send \/ echo \/ assignToMe \/ transferToDepartment
    \/ (\E v \in {"auto", "on", "off"} : toggleAi(v))
    \/ (\E to \in Statuses : transition(to))

-----------------------------------------------------------------------------
\* watchdog.service.ts.  One call of scheduleCheck and one of cancelCheck are in
\* flight at a time; a job of the same id makes BullMQ ignore an add.
readForCheck ==
    /\ sched = "read"
    /\ IF watched /\ ai # "off" /\ status \notin {"WAITING", "CLOSED"}
       THEN sched' = "add" /\ schedAttempts' = stuckAttempts
       ELSE sched' = "idle" /\ UNCHANGED schedAttempts
    /\ UNCHANGED <<conv, dog, mail, deciding, debounce, runs, queue, cancel, env>>

\* cancelByJobId and add: remove() throws on a job a worker holds, that is
\* swallowed, and BullMQ ignores an add with the id of a job it knows.
addCheck ==
    /\ sched = "add" /\ sched' = "mark" /\ schedAttempts' = 0
    /\ IF job = "active" THEN UNCHANGED <<job, jobAttempts>>
                         ELSE job' = "delayed" /\ jobAttempts' = schedAttempts
    /\ UNCHANGED <<conv, dog, mail, deciding, debounce, runs, verdict, cancel, env>>

markCheck ==
    /\ sched = "mark" /\ sched' = "idle" /\ jobId' = TRUE
    /\ UNCHANGED <<conv, stuckAttempts, isStuck, mail, deciding, debounce, runs, queue,
                   schedAttempts, cancel, env>>

\* A detached call throws, which is logged.
callFails ==
    /\ another /\ keepSettings
    /\ \/ sched # "idle" /\ sched' = "idle" /\ schedAttempts' = 0 /\ UNCHANGED cancel
       \/ cancel # "idle" /\ cancel' = "idle" /\ UNCHANGED <<sched, schedAttempts>>
    /\ UNCHANGED <<conv, dog, mail, deciding, debounce, runs, queue>>

cancelCheckRemove ==
    /\ cancel = "remove" /\ cancel' = "clear"
    /\ job' = IF job = "active" THEN "active" ELSE "none"
    /\ jobAttempts' = IF job = "active" THEN jobAttempts ELSE 0
    /\ UNCHANGED <<conv, dog, mail, deciding, debounce, runs, verdict, sched, schedAttempts, env>>

cancelCheckClear ==
    /\ cancel = "clear" /\ cancel' = "idle"
    /\ jobId' = FALSE /\ stuckAttempts' = 0 /\ isStuck' = FALSE
    /\ UNCHANGED <<conv, mail, deciding, debounce, runs, queue, sched, schedAttempts, env>>

\* watchdog-cron.service.ts: a row that names a job the queue still knows,
\* finished or failed ones included, is passed over.
scanAndEnqueue ==
    /\ ~isStuck /\ status \in {"BOT", "PENDING", "OPEN"} /\ ai # "off" /\ watched
    /\ last = "in"
    /\ ~(jobId /\ job # "none")
    /\ sched = "idle" /\ sched' = "read"
    /\ UNCHANGED <<conv, dog, mail, deciding, debounce, runs, queue, schedAttempts, cancel, env>>

\* Mutation: the attempts made are compared, not the one about to be made.
exhaustedLate == stuckAttempts > MaxAttempts
exhausted == stuckAttempts + 1 > MaxAttempts

\* watchdog-timer.processor.ts, process() up to its first write.
timerFires ==
    /\ job = "delayed" /\ job' = "active"
    /\ verdict' =
         IF \/ ~watched \/ status \in {"WAITING", "CLOSED"} \/ ai = "off" \/ last # "in"
            \/ stuckAttempts > jobAttempts
         THEN Plain("clear")
         ELSE IF exhausted THEN Plain("stick")
         ELSE [do |-> "retry", attempts |-> stuckAttempts + 1, pending |-> status = "PENDING"]
    /\ UNCHANGED <<conv, dog, mail, deciding, debounce, runs, jobAttempts, calls, env>>

clearJobId ==
    /\ verdict.do = "clear"
    /\ jobId' = FALSE /\ jobEnds("finished")
    /\ UNCHANGED <<conv, stuckAttempts, isStuck, mail, deciding, debounce, runs, jobAttempts,
                   calls, env>>

markStuck ==
    /\ verdict.do = "stick"
    /\ isStuck' = TRUE /\ status' = "PENDING" /\ jobId' = FALSE
    /\ jobEnds("finished")
    /\ UNCHANGED <<ai, assigned, stuckAttempts, mail, deciding, debounce, runs,
                   jobAttempts, calls, env>>

\* Mutation: the attempt is not counted.
countAttemptNever(s) ==
    /\ verdict.do = "retry" /\ free(s)
    /\ jobId' = FALSE
    /\ verdict' = [verdict EXCEPT !.do = "wait"]
    /\ slot' = [slot EXCEPT ![s] = asking("watchdog")]
    /\ UNCHANGED <<conv, stuckAttempts, isStuck, mail, deciding, debounce, seen, excused, job,
                   jobAttempts, calls, env>>

\* The attempt is counted, then the conversation will be read again.
countAttempt(s) ==
    /\ verdict.do = "retry" /\ free(s)
    /\ stuckAttempts' = verdict.attempts /\ jobId' = FALSE
    /\ verdict' = [verdict EXCEPT !.do = "wait"]
    /\ slot' = [slot EXCEPT ![s] = asking("watchdog")]
    /\ UNCHANGED <<conv, isStuck, mail, deciding, debounce, seen, excused, job, jobAttempts,
                   calls, env>>

\* A database error before the attempt is counted: the job has one attempt and
\* stays among the failed ones.
timerFails ==
    /\ verdict.do \in {"clear", "stick", "retry"} /\ another /\ keepSettings
    /\ jobEnds("failed")
    /\ UNCHANGED <<conv, dog, mail, deciding, debounce, runs, jobAttempts, calls>>

\* removeOnComplete keeps 50 finished jobs, and only 10 whenever the cron's own
\* job completes on the same queue.
Evict ==
    /\ job = "finished" /\ job' = "none"
    /\ UNCHANGED <<conv, dog, mail, deciding, debounce, runs, jobAttempts, verdict, calls, env>>

-----------------------------------------------------------------------------
Settings ==
    /\ another /\ UNCHANGED internal
    /\ \/ routable' = ~routable /\ UNCHANGED watched
       \/ watched' = ~watched /\ UNCHANGED routable
    /\ UNCHANGED <<conv, dog, mail, deciding, debounce, runs, queue, calls>>

\* The process restarts: maps, runs and detached calls are gone, the stalled
\* job goes back to the queue.
Restart ==
    /\ another /\ keepSettings
    /\ deciding' = 0 /\ timer' = FALSE /\ running' = FALSE /\ followup' = FALSE
    /\ slot' = [s \in Slots |-> Idle] /\ excused' = IF seen = inbound THEN excused ELSE inbound
    /\ sched' = "idle" /\ schedAttempts' = 0 /\ cancel' = "idle"
    /\ job' = (IF job = "active" THEN "delayed" ELSE job) /\ verdict' = NoVerdict
    /\ UNCHANGED <<conv, dog, mail, seen, jobAttempts>>

Schedule == readForCheck \/ addCheck \/ markCheck
Cancel == cancelCheckRemove \/ cancelCheckClear
Timer == \/ timerFires \/ clearJobId \/ markStuck
         \/ \E s \in Slots : countAttempt(s)

Step ==
    \/ Arrive \/ tryAiAgent \/ tryAiAgentThrows
    \/ (\E s \in Slots : fireAgentRun(s) \/ checkAgain(s) \/ throws(s))
    \/ (\E s \in Slots : Run(s) \/ Enter(s))
    \/ Operator \/ Settings \/ Restart
    \/ Schedule \/ Cancel \/ callFails \/ scanAndEnqueue \/ Timer \/ timerFails \/ Evict

\* The runs that may still begin: one per invocation past its check, and those it
\* may chain.
mayBegin(i, depth) == \/ i.pc = "start" /\ i.depth <= depth
                      \/ i.pc = "work" /\ i.depth < depth
runsLeft == {p \in Slots \X (0..MaxDepth) : mayBegin(slot[p[1]], p[2])}

\* History.  When a person takes the floor, the runs that may still begin are
\* given tickets; after that only an entry that asks nobody brings its own.
Record ==
    tickets' = IF shouldHandle' THEN {}
               ELSE IF shouldHandle THEN runsLeft'
               ELSE {p \in runsLeft' : p \in tickets \/ slot[p[1]].pc = "idle"}

Next == Step /\ Record

Spec == Init /\ [][Next]_vars

\* An invocation goes on.
Proceed(s) == checkAgain(s) \/ begin(s) \/ endTurn(s)

\* What the process owes: timers, awaited calls, jobs and the cron.  A turn of the
\* model ends (MAX_TOOL_ITERATIONS).
Due ==
    \/ tryAiAgent \/ (\E s \in Slots : fireAgentRun(s) \/ Proceed(s))
    \/ Schedule \/ Cancel \/ scanAndEnqueue \/ Timer \/ Evict

\* While something is due the process takes a step that is, in whatever order;
\* customers, operators, settings, restarts and errors owe nothing.
Fairness == WF_turn(Due)

FairSpec == Spec /\ Fairness

-----------------------------------------------------------------------------
\* Properties.

\* The slot of fireAgentRun, if any.
debouncedSlots == {s \in Slots : slot[s].origin = "debounce" /\ slot[s].pc # "idle"}

\* "mark the conversation as running so no parallel run starts"
\* (inbound-message.processor.ts:793): the set `running` names exactly one
\* invocation of fireAgentRun, no timer is armed while it runs (its early return
\* drops no trigger), and a follow-up is noted only while somebody is there to
\* look at it.
DebounceConsistent ==
    /\ running <=> debouncedSlots # {}
    /\ \A s, t \in debouncedSlots : s = t
    /\ running => ~timer
    /\ followup => running

\* When a person takes the floor (the AI is paused, the conversation has an owner
\* and is not forced on, or the settings forbid an answer), the AI begins no more
\* runs than were past their check at that moment, with the runs these may chain:
\* whatever the timers, jobs, follow-ups and operators do in the awaits between a
\* check and its run, only pinning an agent, a console's message and a cron, which
\* ask nobody, add to them.
HumanKeepsTheFloor == ~shouldHandle => runsLeft \subseteq tickets

\* Each message of the customer is read by a run, or the router has meanwhile
\* refused: the debounce, its reset and the follow-up skip none.  The messages
\* that one error, a restart or a missing agent has cut off are exempt, those
\* that come later are not.
NoMessageSkipped ==
    \A n \in 1..MaxInbound :
        inbound >= n ~> (seen >= n \/ excused >= n \/ ~shouldHandle)

\* A failed job is kept, and the cron passes the row that names it over.
parked == jobId /\ job = "failed"

\* What watchdog-cron.service.ts:19-29 promises ("Deploy reiniciou o worker",
\* "Race onde o scheduleCheck falhou"): whoever restarts, cancels or overtakes,
\* a customer who had the last word is answered, or a person has the
\* conversation, or it is marked stuck for one; a parked row is the exception.
NeverLeftWaiting ==
    last = "in" ~> \/ last = "out" \/ ai = "off" \/ status \in {"WAITING", "CLOSED"}
                   \/ isStuck \/ ~watched \/ parked
=============================================================================
