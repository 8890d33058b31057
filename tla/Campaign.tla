-------------------------------- MODULE Campaign --------------------------------
(***************************************************************************)
(* One campaign: the requests that send, cancel and remove it, the queue   *)
(* of its runs and the processors (two per instance) that walk through a   *)
(* snapshot of the recipients, create a message for each and hand it to    *)
(* the outbound queue (module Outbound takes it from there).               *)
(***************************************************************************)
EXTENDS Naturals, FiniteSets

CONSTANTS
    Recipients,
    Clicks,      \* send requests
    Runners      \* numbers: concurrent executions of process()

ASSUME CampaignAssumption == Runners \subseteq Nat

VARIABLES
    campaign,    \* its status, "gone" once it is removed
    recipient,   \* the recipients' status, "gone" with the campaign
    click,       \* send requests: not made, read DRAFT, SENDING written, job added or not
    runJobs,     \* jobs in the queue
    runner,      \* [at, todo, cur]: where a processor is, its snapshot
    stalled,     \* bound and history: a processor has died and its job gone back
    messages,    \* history: messages queued for each recipient
    late,        \* history: recipients messaged though they had been SKIPPED or removed
    interrupted, \* history: recipients in hand when a run broke off
    broken       \* bound and history: a database error ended a run

campaignVars == <<campaign, recipient, click, runJobs, runner, stalled, messages, late,
                  interrupted, broken>>
campaignPast == <<messages, late, interrupted, broken>>

Away == [at |-> "idle", todo |-> {}, cur |-> {}]

CampaignTypeOK ==
    /\ campaign \in {"DRAFT", "SENDING", "COMPLETED", "CANCELED", "FAILED", "gone"}
    /\ recipient \in [Recipients -> {"PENDING", "SENT", "FAILED", "SKIPPED", "gone"}]
    /\ click \in [Clicks -> {"none", "read", "marked", "written", "lost"}]
    /\ runJobs \in 0..(Cardinality(Clicks) + 1)
    /\ runner \in [Runners -> [at : {"idle", "list", "loop", "create", "mark", "finish"},
                               todo : SUBSET Recipients, cur : SUBSET Recipients]]
    /\ stalled \in BOOLEAN /\ broken \in BOOLEAN
    /\ messages \in [Recipients -> Nat]
    /\ late \subseteq Recipients /\ interrupted \subseteq Recipients

CampaignInit ==
    /\ campaign = "DRAFT" /\ recipient = [r \in Recipients |-> "PENDING"]
    /\ click = [c \in Clicks |-> "none"] /\ runJobs = 0
    /\ runner = [p \in Runners |-> Away] /\ stalled = FALSE
    /\ messages = [r \in Recipients |-> 0] /\ late = {} /\ interrupted = {} /\ broken = FALSE

\* Mutation: whoever was not skipped.
notSkipped == {r \in Recipients : recipient[r] # "SKIPPED"}

pending == {r \in Recipients : recipient[r] = "PENDING"}

-----------------------------------------------------------------------------
\* campaigns.service.ts.  send() reads DRAFT, writes SENDING and adds the job.
readDraft(c) ==
    /\ click[c] = "none" /\ campaign = "DRAFT"
    /\ click' = [click EXCEPT ![c] = "read"]
    /\ UNCHANGED <<campaign, recipient, runJobs, runner, stalled, campaignPast>>

\* The update by id fails if the campaign is gone.
markSending(c) ==
    /\ click[c] = "read"
    /\ IF campaign = "gone"
       THEN click' = [click EXCEPT ![c] = "lost"] /\ UNCHANGED campaign
       ELSE click' = [click EXCEPT ![c] = "marked"] /\ campaign' = "SENDING"
    /\ UNCHANGED <<recipient, runJobs, runner, stalled, campaignPast>>

addRun(c) ==
    /\ click[c] = "marked"
    /\ click' = [click EXCEPT ![c] = "written"] /\ runJobs' = runJobs + 1
    /\ UNCHANGED <<campaign, recipient, runner, stalled, campaignPast>>

\* Redis refuses the job, or the process dies before it is added.
loseRun(c) ==
    /\ click[c] = "marked" /\ click' = [click EXCEPT ![c] = "lost"]
    /\ UNCHANGED <<campaign, recipient, runJobs, runner, stalled, campaignPast>>

Request(c) == readDraft(c) \/ markSending(c) \/ addRun(c) \/ loseRun(c)

\* Whatever the status, in one transaction.
cancelCampaign ==
    /\ campaign \notin {"CANCELED", "gone"} /\ campaign' = "CANCELED"
    /\ recipient' = [r \in Recipients |-> IF r \in pending THEN "SKIPPED" ELSE recipient[r]]
    /\ UNCHANGED <<click, runJobs, runner, stalled, campaignPast>>

\* remove() asks for no status; the recipients' rows go with the campaign's.
removeCampaign ==
    /\ campaign # "gone" /\ campaign' = "gone"
    /\ recipient' = [r \in Recipients |-> "gone"]
    /\ UNCHANGED <<click, runJobs, runner, stalled, campaignPast>>

-----------------------------------------------------------------------------
\* campaign.processor.ts
moves(p, at, todo, cur) ==
    runner' = [runner EXCEPT ![p] = [at |-> at, todo |-> todo, cur |-> cur]]
leaves(p) == runner' = [runner EXCEPT ![p] = Away]

dbError == ~broken /\ broken' = TRUE

\* The first free worker reads the campaign.
takeRun(p) ==
    /\ runner[p].at = "idle" /\ \A q \in Runners : q < p => runner[q].at # "idle"
    /\ runJobs > 0 /\ runJobs' = runJobs - 1
    /\ \/ campaign \in {"CANCELED", "gone"} /\ UNCHANGED <<runner, broken>>
       \/ campaign \notin {"CANCELED", "gone"} /\ moves(p, "list", {}, {}) /\ UNCHANGED broken
       \/ dbError /\ UNCHANGED runner
    /\ UNCHANGED <<campaign, recipient, click, stalled, messages, late, interrupted>>

\* It reads the PENDING recipients; or the channel is gone, FAILED is written.
listRecipients(p) ==
    /\ runner[p].at = "list"
    /\ \/ moves(p, "loop", pending, {}) /\ UNCHANGED campaign
       \/ /\ leaves(p)
          /\ campaign' = IF campaign = "gone" THEN campaign ELSE "FAILED"
    /\ UNCHANGED <<recipient, click, runJobs, stalled, campaignPast>>

\* Mutation: the campaign is not read again before each recipient.
loopOn(p) ==
    /\ runner[p].at = "loop"
    /\ IF runner[p].todo = {}
       THEN moves(p, "finish", {}, {})
       ELSE \E r \in runner[p].todo : moves(p, "create", runner[p].todo \ {r}, {r})
    /\ UNCHANGED <<campaign, recipient, click, runJobs, stalled, campaignPast>>

\* A campaign that is gone is not CANCELED.
loop(p) ==
    /\ runner[p].at = "loop"
    /\ IF runner[p].todo = {} \/ campaign = "CANCELED"
       THEN moves(p, "finish", {}, {})
       ELSE \E r \in runner[p].todo : moves(p, "create", runner[p].todo \ {r}, {r})
    /\ UNCHANGED <<campaign, recipient, click, runJobs, stalled, campaignPast>>

\* A recipient that is gone cannot be marked: the update throws, in the try block
\* and in the catch block, and ends the run.
marks(p, r, as) ==
    IF recipient[r] = "gone"
    THEN leaves(p) /\ UNCHANGED recipient
    ELSE /\ recipient' = [recipient EXCEPT ![r] = as]
         /\ moves(p, "loop", runner[p].todo, {})

\* The message and its outbound job, or no identifier on the channel, or an error.
createMessage(p) ==
    /\ runner[p].at = "create"
    /\ \E r \in runner[p].cur :
         \/ /\ messages' = [messages EXCEPT ![r] = @ + 1]
            /\ late' = IF recipient[r] \in {"SKIPPED", "gone"} THEN late \union {r} ELSE late
            /\ moves(p, "mark", runner[p].todo, {r})
            /\ UNCHANGED recipient
         \/ marks(p, r, "FAILED") /\ UNCHANGED <<messages, late>>
    /\ UNCHANGED <<campaign, click, runJobs, stalled, interrupted, broken>>

\* Whatever its status; when the update throws, the catch block marks FAILED.
markRecipient(p) ==
    /\ runner[p].at = "mark"
    /\ \E r \in runner[p].cur : marks(p, r, "SENT") \/ marks(p, r, "FAILED")
    /\ UNCHANGED <<campaign, click, runJobs, stalled, campaignPast>>

\* A read or a write throws outside of the try block; the job has one attempt.
runBreaks(p) ==
    /\ runner[p].at # "idle" /\ dbError
    /\ interrupted' = interrupted \union runner[p].cur
    /\ leaves(p)
    /\ UNCHANGED <<campaign, recipient, click, runJobs, stalled, messages, late>>

\* Mutation: the end of a run is not written.
finishSilently(p) ==
    /\ runner[p].at = "finish" /\ leaves(p)
    /\ UNCHANGED <<campaign, recipient, click, runJobs, stalled, campaignPast>>

\* COMPLETED is written over CANCELED, too.
finish(p) ==
    /\ runner[p].at = "finish" /\ leaves(p)
    /\ campaign' = IF campaign = "gone" THEN campaign ELSE "COMPLETED"
    /\ UNCHANGED <<recipient, click, runJobs, stalled, campaignPast>>

\* The process dies; BullMQ gives a stalled job to a worker again, once.
runnerDies(p) ==
    /\ runner[p].at # "idle" /\ ~stalled /\ stalled' = TRUE
    /\ interrupted' = interrupted \union runner[p].cur
    /\ leaves(p) /\ runJobs' = runJobs + 1
    /\ UNCHANGED <<campaign, recipient, click, messages, late, broken>>

Dispatch(p) == \/ takeRun(p) \/ listRecipients(p) \/ loop(p) \/ createMessage(p)
               \/ markRecipient(p) \/ finish(p)

CampaignNext == \/ \E c \in Clicks : Request(c)
                \/ cancelCampaign \/ removeCampaign
                \/ \E p \in Runners : Dispatch(p) \/ runBreaks(p) \/ runnerDies(p)

CampaignSpec == CampaignInit /\ [][CampaignNext]_campaignVars

\* Workers work, and a request that wrote SENDING goes on.
CampaignFairness ==
    WF_campaignVars((\E c \in Clicks : addRun(c)) \/ (\E p \in Runners : Dispatch(p)))

-----------------------------------------------------------------------------
\* Properties.

\* Two send requests that both read DRAFT start two runs over one snapshot.
sentTwice == \E c, d \in Clicks : c # d /\ click[c] # "none" /\ click[d] # "none"

\* A recipient gets one message, whatever is cancelled, retried or fails; the
\* exceptions are the double click and the recipient in hand when a run broke off.
OneMessageEach ==
    \A r \in Recipients : messages[r] > 1 => sentTwice \/ r \in interrupted

\* "Se a campanha foi cancelada no meio, para de despachar" (campaign.processor.ts:55):
\* although COMPLETED overwrites CANCELED, the snapshot still names them and a
\* removal hides the cancellation, of the recipients SKIPPED or removed only one is
\* messaged, and one more if the campaign was removed.
CancelStops == sentTwice \/ Cardinality(late) <= (IF campaign = "gone" THEN 2 ELSE 1)

\* A campaign does not stay SENDING, unless its job was never added or a database
\* error ended its run.
CampaignSettles ==
    campaign = "SENDING" ~> \/ campaign # "SENDING" \/ broken
                            \/ \E c \in Clicks : click[c] = "lost"
=============================================================================
