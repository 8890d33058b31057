# AxChat: TLA+ models, checks and proofs

AxChat is a multi-tenant customer-service platform. Customers write through a
provider (WhatsApp official and unofficial, Instagram, Telegram, Threads); the
API stores their messages, answers with a chatbot flow or an AI agent, and
hands over to human operators. This directory holds the specification of the
parts of `src/axchat-api` where concurrency, retries and crashes decide whether
the program is right. Paths below are relative to
`src/axchat-api/src/modules/` unless they start with `src/`.

## 1. Inventory

One NestJS process (any number of replicas) serves HTTP, runs the BullMQ workers
and the pollers. State lives in Postgres (Prisma), in Redis (BullMQ jobs, locks,
claims, chatbot sessions) and, for the agent debounce only, in process memory.
A BullMQ job that throws is retried until its `attempts` are used up; a job
whose worker dies is found stalled and put back. A job with a given `jobId` is
not added again while one exists, finished and retained jobs included.

| Component | State | Operations | Hard behaviours | Correct when |
|---|---|---|---|---|
| Webhook gateway and events (`channel-hub/webhook-gateway.controller.ts`, `webhook-events.service.ts`) | `webhook_events` rows | record, enqueue one job per message, markProcessed, markFailed | redelivery by the provider, failing writes that are swallowed | a loss can be seen in the events |
| Inbound processor (`messaging/pipeline/inbound-message.processor.ts`) | jobs, messages | claim, resolve contact and conversation, persist, route to bot or AI, release the claim on error | concurrent workers, retries, crash between any two awaits | stored once, dispatched once, never lost silently |
| Idempotency and locks (`pipeline/idempotency.service.ts`) | `idemp:*`, `lock:*` keys | SET NX, DEL, Lua release, withLock | TTLs, keys that outlive their owner | a claim is backed by somebody |
| Contact and conversation resolvers (`pipeline/*-resolver.service.ts`) | contacts, conversations | fast path, lock, re-check, reuse, rotate, reopen, create | check-then-act, 24 hour boundaries | one open conversation per contact |
| Conversation state machine (`messaging/conversations/conversation-fsm.service.ts`) | status, closedAt | transition, claim, release | operators against workers | only legal transitions |
| Pending actions (`ai-agents/confirmations/`, `tools/builtin/transfer-to-human.tool.ts`) | `ai_pending_actions`, `aiEnabled` | gate, approve, reject, sweep, execute | read then upsert, three writers of one row, job replay | a refusal is never carried out, an approval once |
| Automation engine (`automations/`) | `outbox_events`, jobs, contact locks | transactional enqueue, lease, push, execute, retry | two pollers, expired leases, retained jobs, cascades | at-least-once delivery, one worker per contact |
| Outbound, messages (`messaging/pipeline/outbound-message.processor.ts`, `messaging/messages/`) | messages' status, jobs | send, retry, merge with the echo, status webhooks | error after a successful send, echo before the answer, racing status jobs | a message is sent once or shown as failed, its status never falls |
| Campaigns (`messaging/campaigns/`) | campaigns, recipients, a run's snapshot | send, cancel, remove, run | cancel and removal against the loop, crash in the loop, a job never added | each recipient at most once, a cancellation holds |
| Scheduled posts (`ai-agents/marketing/marketing-schedule.service.ts`) | scheduled posts, lease | create, move, cancel, remove, tick, publish | several instances, lease, lost answers | a post is published once, the calendar is true |
| Agent turn and watchdog (`inbound-message.processor.ts`, `ai-agents/router`, `ai-agents/runner`, `routing/watchdog`, `messaging/conversations`) | debounce maps, runs, the watchdog's job and columns, owner and AI switch | schedule, fire, follow up, chain, take over, cancel, reactivate | in-memory state, timers racing runs, operators, restarts | a waiting customer is answered, a person is not talked over |
| Agent crons (`ai-agents/crons/`) | crons, nextRunAt, the conveyor | tick, run now, edit, baton | ticks that outlast a minute, rings of crons | a cron fires once per due time, a conveyor ends |
| Channel sync (`channel-hub/sync/`, `messaging/pipeline/history-import.service.ts`) | `channel_sync_jobs` rows, a job each, conversations | start, cancel, import one conversation after the other | unconditional writes of one row, retries, creation outside the pipeline's lock | a cancelled import stops, it opens no second conversation, its row settles |
| Reminders (`ai-agents/personal-assistant/`, `ai-agents/tools/builtin/personal/`) | reminders | tick, deliver, snooze, cancel | a stale list, two workers | one ring for each occurrence |
| Chatbot engine (`chatbot/`) | Redis session | start, advance, transfer | session expiry | a flow ends or waits |
| Channel adapters, templates, LLM, RAG, memory, tools, auth, users, dashboards, web client, MCP server | CRUD rows or none | I/O and single requests | none of their own | not modelled, see PROJECT.json |

How they meet: the gateway feeds the inbound queue; the inbound processor calls
the resolvers under the Redis locks, writes the message and its
`MESSAGE_RECEIVED` outbox event in one transaction, and hands over to chatbot or
agent. An agent's destructive tool becomes a pending action. Operators and
agents change conversations through the state machine, which enqueues outbox
events in its own transactions. The outbox drives the automations, whose actions
enqueue outbound messages and further events.

## 2. Modules

| Module | Models | State and actions |
|---|---|---|
| `InboundPipeline` | gateway, inbound processor, idempotency, both resolvers, the state machine's `transition`, the transfer to a department | a job is `<<webhook, message>>`; `pc` says at which await of `process()` its worker stands; one action per await that other workers can see |
| `InboundPipelineProofs` | | theorems about it |
| `PendingAction` | approval of AI tools | a request is `get`, then an unconditional save, then an enqueue or a resume, each its own action; a job is `process`, the tool, `record` |
| `PendingActionProofs` | | theorems about it |
| `AutomationOutbox` | outbox, pollers, workers, contact lock, kill switch | `row` is the table, `batch` what a tick has claimed, `job` the BullMQ job with the row's id, `wpc`/`todo` the rule loop of `execute()` |
| `AutomationOutboxProofs` | | theorems about it, and that it implements `EventDelivery` |
| `EventDelivery` | what the outbox promises | abstract: an event is settled only when nothing it is owed is left |
| `AgentTurn` | debounce, router, runner, operators' requests, watchdog, for one conversation | `timer`, `running`, `followup` are the maps of the inbound processor; `slot` the invocations of `run()`; `job`, `verdict` the watchdog's job and what its processor decided; `sched`, `cancel` the detached calls |
| `AgentTurnProofs` | | theorems about it |
| `Outbound` | outbound processor, the echo's upsert, status jobs | a row is `<<message, id>>`; `job` says where `process()` stands; `held` is what a status job has read and will write |
| `OutboundProofs` | | theorems about it |
| `Campaign` | campaigns service and processor | `runner` holds a run's snapshot and the recipient in hand |
| `CampaignProofs` | | theorems about it |
| `ScheduledPost` | marketing schedule service and its tick | `tick` and `read` are what each instance has in hand |
| `AgentCron` | agent cron processor, trigger, edits | `hand` is a queue worker with its list and its conveyor |
| `ChannelSync` | sync orchestrator, sync processor, history import | `importer` is a worker with its row and the conversation in hand; the conversations of the pipeline and the operators are `messageArrives`, `messageOpens`, `closeConversation` |
| `ChannelSyncProofs` | | theorems about it |
| `Reminder` | reminder processor, the assistant's snooze and cancel | `ringer` is a worker with the rest of its tick's list |
| `MCSenders` | `Outbound`, `Campaign`, `ScheduledPost`, `AgentCron`, `Reminder` side by side | `part` names the one that runs; they share no variable |
| `SendersProofs` | | theorems about `ScheduledPost`, `Reminder` and `AgentCron`, and the composition of all five |
| `MCIntake` | `InboundPipeline` and `ChannelSync` side by side | as in `MCSenders` |
| other `MC*` | | constant values for TLC |

Names are those of the code where TLA+ allows it (`claimProcessing`,
`touchOpen`, `closeForExpiredWindow`, `expireOverdueActions`, `claimBatch`,
`releaseLease`, `markProcessed`). An operator under the comment `Mutation:` is
not part of a specification; it is a plausible bug with which the property it
belongs to is shown to fail.

### What is abstracted

* **InboundPipeline.** `closedAt` is an order stamp: 0 is 24 hours ago or more, 1
  is about to be, anything later is recent; the 24 hour service window of the
  official channel is `fresh`, `ageing` or `expired`. A behaviour is short beside
  24 hours, so only what was near its boundary at the start crosses it
  (`DayPasses`), and a claim's own TTL (24 hours) does not end. The claim and the contact fast path are one step, since contacts are
  never deleted. `lastInboundAt`, profiles, media, logging and notifications are
  left out. `Finish` stands for the bot job, the mark, the watchdog and the
  detached AI dispatch. Under the conversation lock `findOpen` and the search for the
  last closed one are two steps (`DecideUnderLock`, `FindLastClosed`), as they are two
  queries. An operator's request is `readStatus`, then `writeStatus` (`asked` holds what
  it read and will write). `transferToDepartment` is the write of PENDING that looks at
  no status, the operator's and that of the detached `ensureRoutedToDefaultSector`
  (`inbound-message.processor.ts:577-587`). Other writers of the same kind are left out:
  the watchdog's (`watchdog-timer.processor.ts:211`, `239`), the chatbot's
  (`chatbot.processor.ts:59`), those of the agent's tools (`route-to-department`,
  `transfer-to-human`) and of the pending-action executor; each writes one status into
  one conversation without reading it, as `transferToDepartment` does. `blind` is
  history: the contacts one of whose CLOSED conversations was opened by a write that had
  not seen it closed.
* **PendingAction.** A tool call succeeds, fails by returning, or throws. The
  status, agent and department of the conversation that a transfer also writes are
  read by nothing here. The operators' switch is `toggleAi` and `setActiveAgent`
  (`switched` is its history); the other writers that force the AI on or off
  (`inbound-message.processor.ts:731-734`, a cron's `ensureConversation`, provisioning,
  `messages.service.ts:194`, `262`, `route-to-department`) make the same writes. The notification in the conversation is left out.
* **AutomationOutbox.** A rule's conditions, rate limit and actor checks are a
  free choice (`skip`); its actions are one step that may emit one event. A poller
  pushes what it claimed in any order, since `claimBatch` has no `orderBy`. Row ids
  are a finite pool; an event beyond it is not created. `loaded`, `ran` and
  `skipped` are history. The global kill switch and the limits on batch size are
  left out. `execute()`'s loading of rules is one step with the job's start.

* **AgentTurn.** One conversation. Which agent runs, its prompt and its usage are left
  out: a run is a sequence of answers and hand-overs of any length that ends or
  chains. Organisation, channel, hours and budget of the router are one flag
  (`routable`) that may change at any time, the watchdog's own switch and hours
  another (`watched`). One `scheduleCheck` and one `cancelCheck` are in flight at a
  time. Times are left out: a debounce, a delay or a cron tick happens at some time.
  Every way into `run()` is modelled. Those that ask the router (`fireAgentRun`, the
  watchdog's job, `engageAi`) stand at `check`, and a slot that was let through stands at
  `start` until its run has read the messages, so that whatever operators do in the
  awaits between happens. Those that ask nobody (`setActiveAgent`, a chain,
  `sendInternal`, a cron's trigger) begin at `start`; the last two exist only for a
  conversation that is `internal`, a console's or a cron's own. Database errors are
  `tryAiAgentThrows`, `throws`, `callFails` and `timerFails`; `resolvesNobody` is the run
  of a deactivated agent, which returns without a word. `tickets` is history: the
  runs that may still begin under a person's floor.
* **Outbound.** Every send the provider accepts has its own external id; its echo
  may come at any later time, any number of times. The provider may also accept a message
  and answer without an id (`nameless`: the Zappfy adapter, 43-47, and the processor's
  lines 83, 91 and 141). The unique index is on conversation and id: an echo whose
  resolver picks another conversation than the message's (a campaign took a CLOSED one,
  a window was rotated) stands there (`elsewhere`) and collides with nothing. What precedes the
  `try` block fails only by its two reads of the database: signature, Instagram window and
  typing swallow their errors.
* **Campaign.** One campaign. A send request is three steps: it reads DRAFT, writes SENDING
  and adds the job; the last may fail or never come (`lost`). `remove()` deletes the
  recipients with the campaign (`gone`), under a run that may hold them. A database error
  anywhere in a run ends it (`runBreaks`, `broken`). Recipients that fail without an identifier and those
  that fail by an error are one disjunct. What a queued message then does is
  `Outbound`'s.
* **ScheduledPost.** One post, several instances; `lease` says whether `updatedAt`
  is older than `LEASE_MS`. Each kind of mishap happens once at most (`mishaps`).
* **AgentCron.** Ticks are a minute apart, which is longer than the bookkeeping of a
  tick and may be shorter than an agent's run. Deleting a cron is like disabling it.
* **ChannelSync.** One channel; every thread the provider lists has its own contact. The
  pages of a conversation, the counters and progress events, and the waits for the
  provider's rate limit are inside the step they belong to. Rows are numbered in the
  order of creation. `late` counts the imports an attempt begins while its row reads
  CANCELLED. Operators close conversations here and do not reopen them (`ManualReopen` of
  `InboundPipeline` is that case).
* **Reminder.** Time is a counter of hours and a recurrence a number of them; the list's
  order is free. The daily briefing, which follows in the same tick, is left out.

Switches for behaviour the code permits but that ends a guarantee:
`LockMayLapse` (a TTL lock ends under a working holder), `ClaimMayThrow`,
`ReleaseMayFail`, `MarkMayFail`, `Unrecorded`, `ManualReopen`, `Racing` and
`BoundaryMayRace`. They are off in the passing runs, and the theorems name the ones
they exclude; the hazards in PROJECT.json say what each costs. `TransferClosed`, that a
CLOSED conversation may be moved to a department, is on in `inbound` and `intake`. With `BoundaryMayRace`, a boundary may
pass between a worker's reading of a conversation and its write: one worker has
taken a conversation on the fast path, another finds its window expired, closes it
and creates the next, and the first one's `touchOpen` or bot routing opens the old
one again, or its message is stored in the old one and, on its retry, in the new
one. Without it the boundary passes anywhere else, between an attempt and its
retry included, and the properties hold.

## 3. Runs

| Run | Question | Bounds |
|---|---|---|
| `inbound` | `ClaimBacked`, `LossIsVisible`, `OneOpenConversation`, `OneRowPerMessage`, `DispatchedOnce` | two messages of one contact, one delivered twice, two attempts, one crash, one operator request (its read and its write, or a transfer), three conversation rows, any prior conversation |
| `intake` | `EnqueuedIsHandled`; `CancelStopsSync`, `OneConversationEach`, `SyncSettles` | one message delivered twice; two syncs of two threads, two attempts, one stall each, one cancellation, one thread with messages and an operator |
| `inbound_loss` | `NoSilentLoss`, violated | the same |
| `pending` | `RefusedIsNotCarriedOut`, `CalledOncePerApproval`, `PausedUntilDecided`, `ApprovedIsAttempted` | one skill, two transfers, two requests, one crash |
| `pending_retry` | `FailureReturnsToPending`, violated | one skill, no crash |
| `outbox` | `ContactSerialized`, `DeliverySpec` | two pollers, two rules that set each other off, two events of one contact, one switch |
| `outbox_live` | `DeliverySpec`, `EventIsHandled` | one poller, one rule, two events, two attempts, one crash or error |
| `outbox_recovery` | `PushRequeues`, violated | one event, one rule, one fault |
| `outbox_retry` | `NoSecondMutation`, violated | two events, two rules, two attempts |
| `turn` | `DebounceConsistent`, `HumanKeepsTheFloor`, `NoMessageSkipped`, `NeverLeftWaiting` | two messages, two runs at a time, a chain of one, one attempt of the watchdog, two events (messages, requests, settings, errors, missing agents and restarts) |
| `senders` | `SentOnceIsOneRow`, `EchoRaceDoesNotResend`, `FailedIsNotSent`, `StatusNeverRegresses`, `QueuedSettles`; `OneMessageEach`, `CancelStops`, `CampaignSettles`; `PublishedOnce`, `CalendarIsTrue`, `PostSettles`; `EsteiraEnds`; `RungOnceEach` | one message with two attempts, one fault, two status jobs; two recipients, two clicks, two runners, a cancellation and a removal; two instances; two crons, two workers, one edit; a reminder, two workers, four hours, one snooze or cancellation |
| `cron_double` | `NoDoubleFire`, violated | two crons, two workers, no edits |

Why these bounds are enough to be interesting: two jobs for one message are a
redelivery, a second message is what races it for the conversation, two attempts
are a retry and then the failed set, one crash reaches every pair of awaits, and
BullMQ itself fails a job that stalls a second time. Two transfers are the least
that can share a pause. Two pollers and an expired lease are the least that can
push one row twice, two rules the least that can be half done. In the outbox the
runs split the load: `outbox` has the interleavings of the pollers and the rules,
`outbox_live` the faults, retries and reopened rows. In `turn` two events are the
least that let a message meet an operator, a restart or a setting, two runs the
least that can be in flight together (a debounced one and one of the watchdog or
of an operator), one attempt the least after which the watchdog gives up. In
`senders` the components share no variable, so that a behaviour of the run is a
behaviour of one of them; two status jobs are the least that can overwrite each
other, two clicks the least that double a campaign, two instances the least that
can claim one post, two workers the least whose lists can hold one reminder. In `intake`
two syncs are the least that can share a contact, two threads the least that tell an
import that goes on from one that stops. `CancelStops` allows one late message, and
two once the campaign is removed; with two recipients the run can refute the first number
only, since three recipients are beyond it, and the second rests on the theorem
`CancelHolds`, which holds for every number of recipients. `CHECK_DEADLOCK` is off
since every run comes to rest when its bounded inputs are used up.

Fairness. Workers and pollers are assumed to take the steps they can: BullMQ hands
every waiting job to a worker, `OutboxPollerService` ticks on a timer, and Redis
and the lease comparison make TTLs pass. Providers, operators, failures, crashes
and the eviction of retained jobs have none. The fairness is weak everywhere. In
`InboundPipeline` it is on the disjunction over all jobs, which is enough since
there every job does finitely many steps. In `AgentTurn` it is likewise on one
disjunction (`Due`): the inbound job's decision, the debounce's timer, the awaited steps of
runs, the detached calls, the watchdog's job and its cron (the event loop and BullMQ's
timers). It says that while something is due the process does something that is, not in
which order, and asks for no answers: a run may end without one. In `MCSenders` each component has its own: the outbound job, the
campaign's workers, the post's ticks and the clock of its lease, the cron's workers;
the reminders have only a safety property. In `MCIntake` it is also on each sync
worker's next step, not on requests, messages or deaths.

Exemptions. Where the code cannot keep a promise, the property names the
circumstance as a history variable instead of leaving it out of the model:
`troubled` (an attempt cut off after the provider had the message), `unmarked` (an
error outside the `try` block, or one in the catch block), `raced` (a row that two status jobs had in hand),
`sentTwice` (two send requests read DRAFT), `interrupted` and `broken` (a run of a
campaign that died, a database error that ended one), `blinded` (an answer or a
record of a publication lost, a lease outlived), `lost` (a campaign's job that was
never added), `excused` (the latest message that an error, a missing agent or a restart
cut off: those up to it are exempt, those that come later are not), `blind` (a CLOSED conversation opened by a write that did not
see it closed), `switched` (an operator used the AI switch after the pause), `nameless` and
`elsewhere` (an answer without an id, an echo in another conversation), `stuck` (a sync's job whose last attempt could not write the row, or that
stalled twice), `overtaken` (a conversation came between the import's search and its
own), `contested` (a reminder in two lists) and `parked` (a failed watchdog job that the cron takes for a living one).

### What the violated runs show

* `inbound_loss`: worker claims a message and the process dies. The claim stays
  for 24 hours. The stalled job runs again, finds the claim, is skipped as a
  duplicate and marks its webhook event PROCESSED. Nothing is stored, and the
  event that `webhook-events.service.ts:6-7` calls the source of truth for
  replays says all is well. `inbound-message.processor.ts:367-371` repairs the
  same loss for errors that are thrown.
* `pending_retry`: the executor's docstring and its message to the operator
  promise that a failed action can be approved again. A thrown error leaves it
  APPROVED, a returned `{ ok: false }` leaves it EXECUTED, and `approve()` takes
  PENDING only.
* `outbox_recovery`: a row whose job used up its attempts is claimed again when
  its lease expires, as the comment in `automation-event.processor.ts:57-60` says,
  but the push has the id of the retained failed job and is ignored for a day. The
  row is claimed and pushed in vain every minute until then.
* `outbox_retry`: `execute()` throws when it finds the contact locked, after earlier
  rules of the same event have run. BullMQ's retry starts from the first rule.

* `cron_double`: `scanDue` lists all due crons, then reschedules and awaits them one
  by one. While the first agent runs, the next tick lists the later ones again, since
  their `nextRunAt` is still past, and both workers fire them. The comment at
  `agent-cron.processor.ts:51-52` says rescheduling first prevents this; it does for
  the cron that runs, not for those behind it.

### Seen while modelling, without a run of their own

* Two open conversations for one contact. `MCInboundPipelineTwins.cfg` checks `NoDuplicates`,
  which is `OneOpenConversation` without its exception, and TLC refutes it in seconds.
  One worker has taken X as PENDING or WAITING on the fast path; an operator closes X; a second
  worker, under the lock, finds nothing open (`conversation-resolver.service.ts:51`); the first one's
  `touchOpen` (230-231) or its routing to the bot (`inbound-message.processor.ts:280`) opens X again;
  the second one's search for a closed conversation (61) finds nothing, and it creates Y.
  The comment at line 47 says of the lock that it serialises "to prevent duplicates"; it serialises
  the resolvers, not the writers of the status. A transfer of a CLOSED conversation to a
  department opens one beside another as well.
* `transfer-to-human.tool.ts:122-124` says the AI is paused only after the approval; lines
  60-71 of the same file pause it at once, as the model does. `toggleAi` and
  `setActiveAgent` switch it on again under the pending transfer, and a rejection does so
  for every transfer of the conversation.
* Cancelling a campaign and then removing it lets one recipient more through: the run's
  reading of the status (`campaign.processor.ts:56-57`) finds no row, which is not CANCELED.
* A campaign whose `queue.add` failed (`campaigns.service.ts:131`, `135`), or whose run met a
  database error, reads SENDING for ever.
* `run()` returns without a word for a conversation whose `activeAgentId` was deactivated: the
  router lets it through (329), the runner finds nobody (191-206). One database error in
  `tryAiAgent` or in `fireAgentRun` leaves the message without a run; only the watchdog comes
  back to it.
* A message whose provider answered without an id, or whose echo was resolved to another
  conversation, stands in two rows for good.

* The watchdog's comment "Aqui sempre reativa" (`watchdog-timer.processor.ts:167`) is not
  what happens to a conversation with an owner: `shouldHandle` refuses it
  (`human-assigned`) unless the AI is forced on, after the attempt was counted.
* Two status jobs of one message may lower its status: the check of `maxStatus` and the
  update are two statements. A status whose id no row bears yet is dropped.
* Two send requests that both read DRAFT run a campaign twice; COMPLETED overwrites
  CANCELED.
* An error in the two reads before the `try` block of the outbound processor leaves the row QUEUED for
  ever: the job fails, the row is not marked.
* `setActiveAgent`, a console's message and a cron's trigger start a run without asking
  the router, and a run that has passed its check is not called off when a person takes the
  conversation: it begins, answers and may chain.
* A post rescheduled between a tick's list and its claim goes out at the old time, since
  the claim looks at the status only.
* A sync whose cancellation is written between the processor's reading of the row and its
  RUNNING goes on; one cancelled later stops, but its row ends COMPLETED. A FAILED row
  whose job is retried may be active beside a newer one. A PENDING row whose `queue.add`
  threw is found active by every later start.
* The pages of one conversation are imported to the end whether or not the sync was
  cancelled, and `importMessages` writes `lastMessageAt` of each older page.
* `snoozePersonalReminder` revives a SENT or CANCELLED reminder, and one made while a
  tick has the reminder in its list is overwritten. `setUTCMonth` makes 31 January's
  monthly reminder one of early March.
* The chatbot editor's flow is saved with new node ids while its edges keep the editor's
  (`chatbot-flows.service.ts`, `saveNodes`), so that the saved edges point to no node.
* A cron disabled after a tick listed it is fired, and `nextRunAt` is set again.

## 4. Proofs

The proofs use SMT, Zenon and LS4 and are checked by `tlapm`. They hold for every
number of webhooks, messages, actions, requests, rules, pollers and so on, and
for every bound.

* `InboundPipelineProofs`. `TypeCorrect`. `ClaimsAreBacked` has `ClaimBacked` with
  one more conjunct as its inductive invariant: an active job stands in `Holding`
  and its message is claimed; it assumes that `releaseClaim` does not fail.
  `LossesAreVisible` adds what a settled job leaves on its event; it also assumes
  one message per webhook, since one event row stands for all messages of a
  payload. `DispatchIsUnique` shows that a worker in `Holding` is alone with its
  message and that a dispatched message stays claimed; it assumes that the
  claim's SET does not throw, since a worker that fails there deletes a claim it
  does not own. `OnlyCrashesLose`: without a crash nothing is orphaned, so that under
  the assumptions of `LossesAreVisible` even the property of the violated run
  `inbound_loss` holds; a crash is all that breaks it.
* `InboundPipelineProofs`, the conversations. `OneOpenHolds` and `OneRowHolds` rest on one
  inductive invariant, which speaks of the contacts that are not `blind`. `OneOpenConversation` is not inductive: that a worker may write OPEN
  into a conversation it read long before is harmless only because of what every other
  worker, operator and hour may have done to that conversation since. The
  strengthening says that a conversation which a worker is about to write to, or
  which stores a customer's message of the contact, is the contact's current one
  (`HeldIsCurrent`): no other is open, and if an operator closed it meanwhile it was
  closed last and recently, so that whoever comes finds or reopens it. Between the two
  queries under the lock (`convClosed`), that nothing is open stays true: whoever opens a
  conversation there has either seen it closed, and then holds the lock, or makes the contact
  blind. For this, a
  worker that replaces a conversation has the contact to itself (`Replacing`), since it
  holds the lock (`LockOwned`) and a fast path would have made the conversation held;
  a `closedAt` names one conversation (`Stamps`); and what is held does not grow old under
  the hands of its holder (`Kept`). `OneRowHolds` adds that a customer's message is
  stored in a conversation that stays current, hence found again on the next attempt
  wherever the first one broke off; for an echo, which keeps no window open, it is
  the claim that lets no second worker in (`EchoOnce`). The theorems exclude three things
  the code does not guard against: an operator who asks for a CLOSED conversation to be opened
  (`ManualReopen`, so that no request in `asked` comes from CLOSED), a lock that lapses under its holder (`LockMayLapse`), a 24 hour boundary
  that passes between a worker's reading and its write (`BoundaryMayRace`). `OneRowHolds`
  asks besides that there be no echo if the claim's SET may throw. Crashes,
  failed deletes of claims, redeliveries and operators who close conversations are
  all included.
* `PendingActionProofs`. `TypeCorrect`. `RefusalHolds` and `ApprovalIsSpentOnce` rest on
  one invariant that counts, for an action decided one request at a time, where its
  one permission to call the tool is: in a request about to save or enqueue, in a
  job, or spent. `PauseHolds`: the pause comes before the row (`Paused`), a request about
  to lift it has rejected its own transfer (`Resuming`), and a rejection stays, as no row
  reads PENDING again once it was created (`Lasting`); a conversation whose AI an operator
  switched on since the last pause is excepted.
* `AutomationOutboxProofs`. `TypeCorrect`: `TypeOK` is inductive together with three facts,
  that what pollers and workers have in hand is in the table, that only a failed job
  has spent its attempts, and that a rule is loaded below the cascade cap only.
  `ContactsAreSerialized`: a worker inside the section holds its contact's lock; it
  assumes that the lock does not lapse under its holder, and is false without.
  `OutboxDelivers`: `AutomationOutbox` implements `EventDelivery`. The mapping calls a row
  open until it reads PROCESSED and owes it the loaded rules that neither ran nor were
  refused. The invariant behind the `Settle` step says that while a worker visits the
  rules, what is owed is among what it has still to visit. It needs no assumption
  about locks, faults or leases.

* `AgentTurnProofs`. `TypeCorrect`: the types in two parts (`Values`, `Switches`), and every
  inbound job under way belongs to a message. `DebounceHolds`: `DebounceConsistent` is
  inductive with that, since `running` is set and reset with the one slot of origin
  `debounce` and every other way into `run()` has another origin. `PersonKeepsTheFloor`
  counts runs: while a person has the floor, a step moves one slot, and what that slot may
  still begin afterwards it might have begun before (`OnceStarted`, `FloorStep`), as a check is
  refused, a run that begins spends its own, and a chain is one deeper; only an idle slot that
  is entered without a check adds to them, and `tickets` records those entries. So the set
  handed out when the person took the floor bounds all that is to come.
* `OutboundProofs`. `EchoRaceHolds`, `FailedHolds`, `OneRowHolds` and `StatusHolds`
  share one invariant: a row bears an id at most as high as the sends (`Budget`,
  `RowsTrue`), what a status job will write is not below what its row reads unless
  the row is raced (`Ahead`), and for a message that was not troubled what its job's
  state says of sends, rows and ids (`Clean`). A job completed with an id whose echo stood in the same conversation (`matched`)
  leaves one row; a message without an id, or with its echo elsewhere, is only no longer QUEUED.
* `CampaignProofs`. `OneMessageHolds` and `CancelHolds`. Unless the campaign was sent
  twice, one run of it at most is queued or under way (`Single`), and a recipient no
  crash has interrupted has one message at most, none while it is in a snapshot, and
  none if PENDING and not in hand (`Counted`). Once somebody is SKIPPED nobody is PENDING, so
  that a later run has nobody to message (`Skipped`). A recipient in a snapshot is SKIPPED only
  while the campaign reads CANCELED, when the next look ends the run; once the campaign is gone
  (`Gone`) its recipients are too, and the update of one that is gone ends the run (`Bounded`). Hence one late message, and one more after a removal.
  `CampaignTypeCorrect`: the queue holds at most one run for each click that was written
  and one that stalled (`Queue`, by the cardinality theorems); it assumes finitely many
  clicks, as the bound it states is their number.
* `SendersProofs`, posts. `PostTypeCorrect`, `OnlyOncePublished` and `CalendarHolds`: unless
  blinded, at most one instance is past its claim and the post is then PUBLISHING
  (`Claimed`), and the profile agrees with the post's status and the place of that
  instance (`Recorded`).
* `SendersProofs`, reminders. `RungOnceHolds`: every occurrence that came is spent once, on a
  ring, on a delivery in hand or on an entry that waits, where the row and the list a
  tick read of it count as one (`Accounted`). That needs the lists: an uncontested
  reminder is in one list at most (`Alone`), and an entry keeps a time that had
  come when its tick read it, so that the next occurrence, the first after the tick
  began (lemma `NextOccurrence`), is not yet due (`Listing`).
* `SendersProofs`, crons. `CronTypeCorrect` adds that only a worker that fires or runs has a
  cron in hand. `OneHandFiresOnce`: the run `cron_double` shows a cron fired twice for one due
  time; with a single worker it cannot be, as what was fired, what is about to be and
  what is due, listed or asked for never exceed what came (`Due`). So the second
  firing is the work of the second worker (the processor's `concurrency: 2`), and
  neither rescheduling, edits, "run now" nor conveyors cause one.
* `SendersProofs`, the composition. `PartsKeepTheirSpecs`: every behaviour of `MCSenders` is one of
  each component's specification, so that what is proved of a component holds in the
  run; `SendersTypeCorrect` is its type invariant.

* `ChannelSyncProofs`. `SyncTypeCorrect`, `SyncStops` and `OneEachHolds`: an active job is in
  one worker's hands (`OneHand`), a row whose attempt began an import late reads CANCELLED
  until the next check, since only the worker itself writes another status meanwhile
  (`StopsInTime`), and whoever is about to create a conversation, worker or message, either
  sees none or is overtaken (`NoneYet`).

Every invariant of a passing run is a theorem, some under the assumptions above. Only
model-checked: everything temporal but action
properties (`EnqueuedIsHandled`, `ApprovedIsAttempted`, `EventIsHandled`,
`NoMessageSkipped`, `NeverLeftWaiting`, `QueuedSettles`, `CampaignSettles`, `PostSettles`,
`EsteiraEnds`, `SyncSettles`), since liveness under fairness and ENABLED are out of the proof
system's reach. No module declares a RECURSIVE operator.

## 5. Plan and what is not modelled

Done: `InboundPipeline`, `PendingAction`, `AutomationOutbox` over `EventDelivery`,
`AgentTurn`, `Outbound`, `Campaign`, `ScheduledPost`, `AgentCron`, `ChannelSync`,
`Reminder`.

Next, in this order:

1. An abstract delivery (at most once, or visible) over `Outbound` and `Campaign`,
   with the proof that they implement it.
2. The chatbot's session.

Not modelled, and why: PROJECT.json lists every component with its reason. In
short, provider adapters, LLM, RAG and tools are I/O and text; CRUD services work
in single transactions; the web client and the MCP server hold no state of the
system. Two replicas of the API share neither debounce maps nor detached calls;
`AgentTurn` has one process and its restarts.
