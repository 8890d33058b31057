----------------------------- MODULE CampaignProofs ----------------------------
(***************************************************************************)
(* A campaign that is sent once, for any number of recipients, requests    *)
(* and processors: one message for each recipient, and a cancellation that *)
(* leaves at most the message in hand, and a removal one more.             *)
(***************************************************************************)
EXTENDS Campaign, FiniteSetTheorems, TLAPS

States == [at : {"idle", "list", "loop", "create", "mark", "finish"},
           todo : SUBSET Recipients, cur : SUBSET Recipients]

CampaignTyped ==
    /\ recipient \in [Recipients -> {"PENDING", "SENT", "FAILED", "SKIPPED", "gone"}]
    /\ click \in [Clicks -> {"none", "read", "marked", "written", "lost"}]
    /\ runJobs \in Nat /\ runner \in [Runners -> States]
    /\ messages \in [Recipients -> Nat]
    /\ late \subseteq Recipients /\ interrupted \subseteq Recipients

LEMMA Records ==
  /\ Away \in States /\ Away.at = "idle" /\ Away.cur = {}
  /\ \A a \in {"list", "loop", "create", "mark", "finish"}, t, c \in SUBSET Recipients :
        /\ [at |-> a, todo |-> t, cur |-> c] \in States
        /\ [at |-> a, todo |-> t, cur |-> c].at = a
        /\ [at |-> a, todo |-> t, cur |-> c].todo = t
        /\ [at |-> a, todo |-> t, cur |-> c].cur = c
  /\ \A s \in States : /\ s.at \in {"idle", "list", "loop", "create", "mark", "finish"}
                       /\ s.todo \subseteq Recipients /\ s.cur \subseteq Recipients
  BY DEF Away, States

LEMMA CampaignTypedInit == CampaignInit => CampaignTyped
  BY Records DEF CampaignInit, CampaignTyped

\* What one processor does to the processors.
LEMMA RunnerMoves ==
  ASSUME CampaignTyped, NEW p \in Runners,
         \/ \E a \in {"list", "loop", "create", "mark", "finish"}, t, c \in SUBSET Recipients :
               moves(p, a, t, c)
         \/ runner' = [runner EXCEPT ![p] = Away]
  PROVE  runner' \in [Runners -> States]
  <1>1. ASSUME NEW s \in States, runner' = [runner EXCEPT ![p] = s]
        PROVE  runner' \in [Runners -> States]
    BY <1>1 DEF CampaignTyped
  <1>2. \E s \in States : runner' = [runner EXCEPT ![p] = s]
    BY Zenon, Records DEF moves
  <1> QED
    BY <1>1, <1>2

LEMMA CampaignTypedStep == CampaignTyped /\ [CampaignNext]_campaignVars => CampaignTyped'
  <1> SUFFICES ASSUME CampaignTyped, [CampaignNext]_campaignVars PROVE CampaignTyped'
    OBVIOUS
  <1> USE DEF CampaignTyped, campaignPast
  <1>1. ASSUME NEW c \in Clicks, Request(c) PROVE CampaignTyped'
    BY <1>1 DEF Request, readDraft, markSending, addRun, loseRun
  <1>2. CASE cancelCampaign \/ removeCampaign
    BY <1>2 DEF cancelCampaign, removeCampaign
  <1>3. ASSUME NEW p \in Runners, Dispatch(p) \/ runBreaks(p) \/ runnerDies(p) PROVE CampaignTyped'
    <2>0. runner[p] \in States /\ runner[p].todo \subseteq Recipients
          /\ runner[p].cur \subseteq Recipients /\ pending \subseteq Recipients
          /\ {} \in SUBSET Recipients
      BY Records DEF pending
    <2>1. CASE takeRun(p)
      <3>1. runner' \in [Runners -> States]
        BY <2>0, <2>1, RunnerMoves DEF takeRun
      <3> QED
        BY <2>1, <3>1 DEF takeRun
    <2>2. CASE loop(p)
      <3>1. runner' \in [Runners -> States]
        <4>1. \A r \in runner[p].todo : runner[p].todo \ {r} \in SUBSET Recipients
                                        /\ {r} \in SUBSET Recipients
          BY <2>0
        <4> QED
          BY <2>0, <2>2, <4>1, RunnerMoves DEF loop
      <3> QED
        BY <2>2, <3>1 DEF loop
    <2>3. ASSUME NEW r \in Recipients, NEW as \in {"SENT", "FAILED"}, marks(p, r, as)
          PROVE  /\ runner' \in [Runners -> States]
                 /\ recipient' \in [Recipients -> {"PENDING", "SENT", "FAILED", "SKIPPED", "gone"}]
      <3>1. runner' \in [Runners -> States]
        BY <2>0, <2>3, RunnerMoves DEF marks, leaves
      <3> QED
        BY <2>3, <3>1 DEF marks
    <2>4. CASE createMessage(p)
      <3>1. PICK r \in runner[p].cur :
              \/ /\ messages' = [messages EXCEPT ![r] = @ + 1]
                 /\ late' = IF recipient[r] \in {"SKIPPED", "gone"} THEN late \union {r} ELSE late
                 /\ moves(p, "mark", runner[p].todo, {r})
                 /\ UNCHANGED recipient
              \/ marks(p, r, "FAILED") /\ UNCHANGED <<messages, late>>
        BY <2>4 DEF createMessage
      <3>2. r \in Recipients /\ {r} \in SUBSET Recipients
        BY <2>0, <3>1
      <3>3. CASE moves(p, "mark", runner[p].todo, {r}) /\ UNCHANGED recipient
                 /\ messages' = [messages EXCEPT ![r] = @ + 1]
                 /\ late' = IF recipient[r] \in {"SKIPPED", "gone"} THEN late \union {r} ELSE late
        <4>1. runner' \in [Runners -> States]
          BY <2>0, <3>2, <3>3, RunnerMoves
        <4> QED
          BY <2>4, <3>2, <3>3, <4>1 DEF createMessage
      <3>4. CASE marks(p, r, "FAILED") /\ UNCHANGED <<messages, late>>
        BY <2>3, <2>4, <3>2, <3>4 DEF createMessage
      <3> QED
        BY <3>1, <3>3, <3>4
    <2>5. CASE markRecipient(p)
      BY <2>0, <2>3, <2>5 DEF markRecipient
    <2>6. CASE listRecipients(p)
      <3>1. runner' \in [Runners -> States]
        BY <2>0, <2>6, RunnerMoves DEF listRecipients, leaves
      <3> QED
        BY <2>6, <3>1 DEF listRecipients
    <2>7. CASE finish(p)
      BY <2>7, RunnerMoves DEF finish, leaves
    <2>8. CASE runBreaks(p) \/ runnerDies(p)
      <3>1. runner' \in [Runners -> States]
        BY <2>8, RunnerMoves DEF runBreaks, runnerDies, leaves
      <3>2. /\ interrupted' = interrupted \union runner[p].cur /\ runJobs' \in {runJobs, runJobs + 1}
            /\ UNCHANGED <<recipient, click, messages, late>>
        BY Zenon, <2>8 DEF runBreaks, runnerDies
      <3> QED
        BY <2>0, <3>1, <3>2
    <2> QED
      BY <1>3, <2>1, <2>2, <2>4, <2>5, <2>6, <2>7, <2>8 DEF Dispatch
  <1>4. CASE UNCHANGED campaignVars
    BY <1>4 DEF campaignVars
  <1> QED
    BY <1>1, <1>2, <1>3, <1>4 DEF CampaignNext

-----------------------------------------------------------------------------
\* Who is in hand, and what is left of a snapshot.
Shape ==
    \A p \in Runners :
        /\ runner[p].at \in {"idle", "list"} => runner[p].todo = {}
        /\ runner[p].at \in {"idle", "list", "loop", "finish"} => runner[p].cur = {}
        /\ \A r \in runner[p].cur : runner[p].cur = {r} /\ r \notin runner[p].todo

atRest == \A p \in Runners : runner[p].at = "idle"

\* One request, one run.
Single ==
    ~sentTwice =>
        /\ runJobs = 0 \/ (runJobs = 1 /\ atRest)
        /\ \A p, q \in Runners : runner[p].at # "idle" /\ runner[q].at # "idle" => p = q
        /\ \A c \in Clicks : click[c] \in {"read", "marked"} => runJobs = 0 /\ atRest
        /\ (\A c \in Clicks : click[c] = "none") => runJobs = 0 /\ atRest

\* Who got a message is not messaged again.
Counted ==
    ~sentTwice =>
        \A r \in Recipients \ interrupted :
            /\ messages[r] \in {0, 1}
            /\ \A p \in Runners : r \in runner[p].todo => messages[r] = 0
            /\ \A p \in Runners : runner[p].at = "create" /\ r \in runner[p].cur => messages[r] = 0
            /\ recipient[r] = "PENDING" =>
                  \/ messages[r] = 0
                  \/ \E p \in Runners : runner[p].at = "mark" /\ r \in runner[p].cur

\* The recipients go with their campaign.
Gone == /\ campaign = "gone" => \A r \in Recipients : recipient[r] = "gone"
        /\ campaign # "gone" => \A r \in Recipients : recipient[r] # "gone"

\* A cancellation skips whoever is left, and nobody is left after it.
Skipped ==
    (\E r \in Recipients : recipient[r] = "SKIPPED") \/ late # {}
        => \A r \in Recipients : recipient[r] # "PENDING"

\* What is messaged too late: the recipient in hand at the cancellation, and the
\* one that is in hand or next at the removal, whose mark then ends the run.
Bounded ==
    ~sentTwice =>
        /\ \A p \in Runners : \A r \in runner[p].todo :
              recipient[r] = "SKIPPED" => campaign = "CANCELED"
        /\ \A p \in Runners : \A r \in runner[p].cur :
              runner[p].at = "create" /\ recipient[r] = "SKIPPED" => late = {}
        /\ \/ late = {}
           \/ \E r \in Recipients : late = {r}
           \/ /\ campaign = "gone" /\ \E r, q \in Recipients : late = {r, q}
              /\ \A p \in Runners : runner[p].at \in {"idle", "mark"}

-----------------------------------------------------------------------------
\* One processor, one step: what becomes of it; the others stand still.
becomes(p, a, t, c) ==
    /\ runner'[p].at = a /\ runner'[p].todo = t /\ runner'[p].cur = c
    /\ \A q \in Runners : q # p => runner'[q] = runner[q]

LEMMA Steps ==
  ASSUME CampaignTyped, NEW p \in Runners, NEW a \in {"list", "loop", "create", "mark", "finish"},
         NEW t \in SUBSET Recipients, NEW c \in SUBSET Recipients, moves(p, a, t, c)
  PROVE  becomes(p, a, t, c)
  BY Records DEF CampaignTyped, moves, becomes

LEMMA Leaves ==
  ASSUME CampaignTyped, NEW p \in Runners, leaves(p)
  PROVE  becomes(p, "idle", {}, {})
  BY DEF CampaignTyped, Away, becomes, leaves

LEMMA TakesRun ==
  ASSUME CampaignTyped, NEW p \in Runners, takeRun(p)
  PROVE  /\ runner[p].at = "idle" /\ runJobs > 0 /\ runJobs' = runJobs - 1
         /\ UNCHANGED <<campaign, recipient, click, messages, late, interrupted>>
         /\ \/ UNCHANGED runner
            \/ becomes(p, "list", {}, {}) /\ campaign # "gone"
  <1>1. {} \in SUBSET Recipients
    OBVIOUS
  <1>2. moves(p, "list", {}, {}) => becomes(p, "list", {}, {})
    BY <1>1, Steps
  <1> QED
    BY <1>2 DEF takeRun

LEMMA ListsRecipients ==
  ASSUME CampaignTyped, NEW p \in Runners, listRecipients(p)
  PROVE  /\ runner[p].at = "list"
         /\ UNCHANGED <<recipient, click, runJobs, messages, late, interrupted>>
         /\ \/ becomes(p, "loop", pending, {}) /\ UNCHANGED campaign
            \/ /\ becomes(p, "idle", {}, {})
               /\ campaign' = IF campaign = "gone" THEN campaign ELSE "FAILED"
  <1>1. pending \in SUBSET Recipients /\ {} \in SUBSET Recipients
    BY DEF pending
  <1>2. moves(p, "loop", pending, {}) => becomes(p, "loop", pending, {})
    BY <1>1, Steps
  <1> QED
    BY <1>2, Leaves DEF listRecipients, campaignPast

\* The end of a snapshot, or its next recipient.
LEMMA Loops ==
  ASSUME CampaignTyped, NEW p \in Runners, loop(p)
  PROVE  /\ runner[p].at = "loop"
         /\ UNCHANGED <<campaign, recipient, click, runJobs, messages, late, interrupted>>
         /\ \/ becomes(p, "finish", {}, {})
            \/ /\ campaign # "CANCELED"
               /\ \E r \in runner[p].todo : becomes(p, "create", runner[p].todo \ {r}, {r})
  <1>1. runner[p].todo \subseteq Recipients
    BY Records DEF CampaignTyped
  <1>2. ASSUME NEW r \in runner[p].todo, moves(p, "create", runner[p].todo \ {r}, {r})
        PROVE  becomes(p, "create", runner[p].todo \ {r}, {r})
    <2>1. runner[p].todo \ {r} \in SUBSET Recipients /\ {r} \in SUBSET Recipients
      BY <1>1
    <2> QED
      BY <1>2, <2>1, Steps
  <1>3. moves(p, "finish", {}, {}) => becomes(p, "finish", {}, {})
    BY Steps
  <1> QED
    BY <1>2, <1>3 DEF loop, campaignPast

\* A recipient is marked, or is gone and ends the run.
marked(p, r, as) ==
    IF recipient[r] = "gone"
    THEN becomes(p, "idle", {}, {}) /\ UNCHANGED recipient
    ELSE /\ recipient' = [recipient EXCEPT ![r] = as]
         /\ becomes(p, "loop", runner[p].todo, {})

LEMMA Marked ==
  ASSUME CampaignTyped, NEW p \in Runners, NEW r, NEW as, marks(p, r, as)
  PROVE  marked(p, r, as)
  <1>1. runner[p].todo \in SUBSET Recipients /\ {} \in SUBSET Recipients
    BY Records DEF CampaignTyped
  <1>2. moves(p, "loop", runner[p].todo, {}) => becomes(p, "loop", runner[p].todo, {})
    BY <1>1, Steps
  <1> QED
    BY <1>2, Leaves DEF marks, marked

LEMMA Creates ==
  ASSUME CampaignTyped, NEW p \in Runners, createMessage(p)
  PROVE  /\ runner[p].at = "create"
         /\ UNCHANGED <<campaign, click, runJobs, interrupted>>
         /\ \E r \in runner[p].cur :
              \/ /\ messages' = [messages EXCEPT ![r] = @ + 1]
                 /\ late' = IF recipient[r] \in {"SKIPPED", "gone"} THEN late \union {r} ELSE late
                 /\ becomes(p, "mark", runner[p].todo, {r})
                 /\ UNCHANGED recipient
              \/ marked(p, r, "FAILED") /\ UNCHANGED <<messages, late>>
  <1>1. runner[p].todo \in SUBSET Recipients /\ runner[p].cur \subseteq Recipients
    BY Records DEF CampaignTyped
  <1>2. ASSUME NEW r \in runner[p].cur, moves(p, "mark", runner[p].todo, {r})
        PROVE  becomes(p, "mark", runner[p].todo, {r})
    <2>1. {r} \in SUBSET Recipients
      BY <1>1
    <2> QED
      BY <1>1, <1>2, <2>1, Steps
  <1>3. ASSUME NEW r \in runner[p].cur, marks(p, r, "FAILED") PROVE marked(p, r, "FAILED")
    BY <1>3, Marked
  <1> QED
    BY Zenon, <1>2, <1>3 DEF createMessage

LEMMA Marks ==
  ASSUME CampaignTyped, NEW p \in Runners, markRecipient(p)
  PROVE  /\ runner[p].at = "mark"
         /\ UNCHANGED <<campaign, click, runJobs, messages, late, interrupted>>
         /\ \E r \in runner[p].cur : marked(p, r, "SENT") \/ marked(p, r, "FAILED")
  <1>1. ASSUME NEW r \in runner[p].cur, NEW as, marks(p, r, as) PROVE marked(p, r, as)
    BY <1>1, Marked
  <1> QED
    BY Zenon, <1>1 DEF markRecipient, campaignPast

\* A run ends, breaks off or goes back into the queue.
LEMMA Ends ==
  ASSUME CampaignTyped, NEW p \in Runners, finish(p) \/ runBreaks(p) \/ runnerDies(p)
  PROVE  /\ runner[p].at # "idle" /\ becomes(p, "idle", {}, {})
         /\ UNCHANGED <<recipient, click, messages, late>>
         /\ \/ /\ runJobs' = runJobs /\ runner[p].at = "finish" /\ UNCHANGED interrupted
               /\ campaign' = IF campaign = "gone" THEN campaign ELSE "COMPLETED"
            \/ /\ runJobs' \in {runJobs, runJobs + 1} /\ UNCHANGED campaign
               /\ interrupted' = interrupted \union runner[p].cur
  <1>1. leaves(p) => becomes(p, "idle", {}, {})
    BY Leaves
  <1>2. CASE finish(p)
    BY <1>1, <1>2 DEF finish, campaignPast
  <1>3. CASE runBreaks(p) \/ runnerDies(p)
    BY <1>1, <1>3 DEF runBreaks, runnerDies
  <1> QED
    BY <1>2, <1>3

LEMMA Requests ==
  ASSUME CampaignTyped, NEW c \in Clicks, Request(c)
  PROVE  /\ UNCHANGED <<recipient, runner, messages, late, interrupted>>
         /\ \A d \in Clicks : d # c => click'[d] = click[d]
         /\ \/ /\ click[c] = "none" /\ click'[c] = "read" /\ UNCHANGED <<campaign, runJobs>>
            \/ /\ click[c] = "read" /\ click'[c] \in {"marked", "lost"} /\ UNCHANGED runJobs
               /\ campaign' = IF campaign = "gone" THEN campaign ELSE "SENDING"
            \/ /\ click[c] = "marked" /\ click'[c] = "written" /\ runJobs' = runJobs + 1
               /\ UNCHANGED campaign
            \/ /\ click[c] = "marked" /\ click'[c] = "lost" /\ UNCHANGED <<campaign, runJobs>>
  BY DEF CampaignTyped, Request, readDraft, markSending, addRun, loseRun, campaignPast

LEMMA SentTwiceStays == CampaignTyped /\ [CampaignNext]_campaignVars /\ sentTwice => sentTwice'
  <1> SUFFICES ASSUME CampaignTyped, [CampaignNext]_campaignVars
               PROVE  \A c \in Clicks : click[c] # "none" => click'[c] # "none"
    BY DEF sentTwice
  <1>1. ASSUME NEW c \in Clicks, Request(c)
        PROVE  \A d \in Clicks : click[d] # "none" => click'[d] # "none"
    BY <1>1, Requests
  <1>2. UNCHANGED click \/ \E c \in Clicks : Request(c)
    BY Zenon DEF CampaignNext, campaignVars, campaignPast, cancelCampaign, removeCampaign, Dispatch,
       takeRun, listRecipients, loop, createMessage, markRecipient, finish, runBreaks, runnerDies
  <1> QED
    BY <1>1, <1>2

-----------------------------------------------------------------------------
LEMMA ShapeStep == CampaignTyped /\ Shape /\ [CampaignNext]_campaignVars => Shape'
  <1> SUFFICES ASSUME CampaignTyped, Shape, [CampaignNext]_campaignVars PROVE Shape'
    OBVIOUS
  <1> USE DEF Shape
  <1>1. ASSUME NEW c \in Clicks, Request(c) PROVE Shape'
    BY <1>1, Requests
  <1>2. CASE cancelCampaign \/ removeCampaign
    BY <1>2 DEF cancelCampaign, removeCampaign
  <1>3. ASSUME NEW p \in Runners, Dispatch(p) \/ runBreaks(p) \/ runnerDies(p) PROVE Shape'
    <2> USE DEF becomes
    <2>1. CASE takeRun(p)
      BY <2>1, TakesRun
    <2>2. CASE listRecipients(p)
      BY <2>2, ListsRecipients
    <2>3. CASE loop(p)
      BY <2>3, Loops
    <2>4. CASE createMessage(p)
      BY <2>4, Creates DEF marked
    <2>5. CASE markRecipient(p)
      BY <2>5, Marks DEF marked
    <2>6. CASE finish(p) \/ runBreaks(p) \/ runnerDies(p)
      BY <2>6, Ends
    <2> QED
      BY <1>3, <2>1, <2>2, <2>3, <2>4, <2>5, <2>6 DEF Dispatch
  <1>4. CASE UNCHANGED campaignVars
    BY <1>4 DEF campaignVars, campaignPast
  <1> QED
    BY <1>1, <1>2, <1>3, <1>4 DEF CampaignNext

LEMMA SingleStep == CampaignTyped /\ Single /\ [CampaignNext]_campaignVars => Single'
  <1> SUFFICES ASSUME CampaignTyped, Single, [CampaignNext]_campaignVars, ~sentTwice' PROVE Single'
    BY DEF Single
  <1>0. ~sentTwice
    BY SentTwiceStays
  <1> USE <1>0 DEF Single, atRest
  <1>1. ASSUME NEW c \in Clicks, Request(c) PROVE Single'
    <2>1. click'[c] # "none" /\ \A d \in Clicks : d # c => click'[d] = "none" /\ click[d] = "none"
      BY <1>1, Requests DEF sentTwice
    <2>2. runJobs = 0 /\ \A p \in Runners : runner[p].at = "idle"
      BY <1>1, <2>1, Requests
    <2> QED
      BY <1>1, <2>1, <2>2, Requests DEF CampaignTyped
  <1>2. CASE cancelCampaign \/ removeCampaign
    BY <1>2 DEF cancelCampaign, removeCampaign
  <1>3. ASSUME NEW p \in Runners, Dispatch(p) \/ runBreaks(p) \/ runnerDies(p) PROVE Single'
    <2> USE DEF becomes, CampaignTyped
    <2>1. CASE takeRun(p)
      BY <2>1, TakesRun
    <2>2. CASE listRecipients(p)
      BY <2>2, ListsRecipients
    <2>3. CASE loop(p)
      BY <2>3, Loops
    <2>4. CASE createMessage(p)
      BY <2>4, Creates DEF marked
    <2>5. CASE markRecipient(p)
      BY <2>5, Marks DEF marked
    <2>6. CASE finish(p) \/ runBreaks(p) \/ runnerDies(p)
      BY <2>6, Ends
    <2> QED
      BY <1>3, <2>1, <2>2, <2>3, <2>4, <2>5, <2>6 DEF Dispatch
  <1>4. CASE UNCHANGED campaignVars
    BY <1>4 DEF campaignVars, campaignPast
  <1> QED
    BY <1>1, <1>2, <1>3, <1>4 DEF CampaignNext

LEMMA CountedStep ==
  CampaignTyped /\ Shape /\ Single /\ Counted /\ [CampaignNext]_campaignVars => Counted'
  <1> SUFFICES ASSUME CampaignTyped, Shape, Single, Counted, [CampaignNext]_campaignVars, ~sentTwice'
               PROVE  Counted'
    BY DEF Counted
  <1>0. ~sentTwice
    BY SentTwiceStays
  <1> USE <1>0 DEF Counted
  <1>1. ASSUME NEW c \in Clicks, Request(c) PROVE Counted'
    BY <1>1, Requests
  <1>2. CASE cancelCampaign \/ removeCampaign
    <2>1. UNCHANGED <<runner, messages, interrupted>>
      BY <1>2 DEF cancelCampaign, removeCampaign, campaignPast
    <2>2. \A r \in Recipients : recipient'[r] = "PENDING" => recipient[r] = "PENDING"
      BY <1>2 DEF cancelCampaign, removeCampaign, CampaignTyped, pending
    <2> QED
      BY <2>1, <2>2
  <1>3. ASSUME NEW p \in Runners, Dispatch(p) \/ runBreaks(p) \/ runnerDies(p) PROVE Counted'
    <2> USE DEF becomes, CampaignTyped, Shape, Single, atRest
    <2>1. CASE takeRun(p)
      BY <2>1, TakesRun
    <2>2. CASE listRecipients(p)
      BY <2>2, ListsRecipients DEF pending
    <2>3. CASE loop(p)
      BY <2>3, Loops
    <2>4. CASE createMessage(p)
      BY <2>4, Creates DEF marked
    <2>5. CASE markRecipient(p)
      BY <2>5, Marks DEF marked
    <2>6. CASE finish(p) \/ runBreaks(p) \/ runnerDies(p)
      BY <2>6, Ends
    <2> QED
      BY <1>3, <2>1, <2>2, <2>3, <2>4, <2>5, <2>6 DEF Dispatch
  <1>4. CASE UNCHANGED campaignVars
    BY <1>4 DEF campaignVars, campaignPast
  <1> QED
    BY <1>1, <1>2, <1>3, <1>4 DEF CampaignNext

LEMMA GoneStep == CampaignTyped /\ Gone /\ [CampaignNext]_campaignVars => Gone'
  <1> SUFFICES ASSUME CampaignTyped, Gone, [CampaignNext]_campaignVars PROVE Gone'
    OBVIOUS
  <1> USE DEF Gone
  <1>1. ASSUME NEW c \in Clicks, Request(c) PROVE Gone'
    BY <1>1, Requests
  <1>2. CASE cancelCampaign \/ removeCampaign
    BY <1>2 DEF cancelCampaign, removeCampaign, CampaignTyped
  <1>3. ASSUME NEW p \in Runners, Dispatch(p) \/ runBreaks(p) \/ runnerDies(p) PROVE Gone'
    <2> USE DEF CampaignTyped
    <2>1. CASE takeRun(p)
      BY <2>1, TakesRun
    <2>2. CASE listRecipients(p)
      BY <2>2, ListsRecipients
    <2>3. CASE loop(p)
      BY <2>3, Loops
    <2>4. CASE createMessage(p)
      BY <2>4, Creates DEF marked
    <2>5. CASE markRecipient(p)
      BY <2>5, Marks DEF marked
    <2>6. CASE finish(p) \/ runBreaks(p) \/ runnerDies(p)
      BY <2>6, Ends
    <2> QED
      BY <1>3, <2>1, <2>2, <2>3, <2>4, <2>5, <2>6 DEF Dispatch
  <1>4. CASE UNCHANGED campaignVars
    BY <1>4 DEF campaignVars, campaignPast
  <1> QED
    BY <1>1, <1>2, <1>3, <1>4 DEF CampaignNext

LEMMA SkippedStep == CampaignTyped /\ Gone /\ Skipped /\ [CampaignNext]_campaignVars => Skipped'
  <1> SUFFICES ASSUME CampaignTyped, Gone, Skipped, [CampaignNext]_campaignVars PROVE Skipped'
    OBVIOUS
  <1> USE DEF Skipped
  <1>1. ASSUME NEW c \in Clicks, Request(c) PROVE Skipped'
    BY <1>1, Requests
  <1>2. CASE cancelCampaign \/ removeCampaign
    BY <1>2 DEF cancelCampaign, removeCampaign, CampaignTyped, pending
  <1>3. ASSUME NEW p \in Runners, Dispatch(p) \/ runBreaks(p) \/ runnerDies(p) PROVE Skipped'
    <2> USE DEF CampaignTyped, Gone
    <2>0. runner[p].cur \subseteq Recipients
      BY Records
    <2>1. CASE takeRun(p)
      BY <2>1, TakesRun
    <2>2. CASE listRecipients(p)
      BY <2>2, ListsRecipients
    <2>3. CASE loop(p)
      BY <2>3, Loops
    <2>4. CASE createMessage(p)
      <3>1. PICK r \in runner[p].cur :
              \/ /\ late' = IF recipient[r] \in {"SKIPPED", "gone"} THEN late \union {r} ELSE late
                 /\ UNCHANGED recipient
              \/ marked(p, r, "FAILED") /\ UNCHANGED late
        BY <2>4, Creates
      <3>2. UNCHANGED campaign /\ r \in Recipients
        BY <2>0, <2>4, <3>1, Creates
      <3>3. CASE marked(p, r, "FAILED") /\ UNCHANGED late
        BY <3>2, <3>3 DEF marked
      <3>4. CASE /\ late' = IF recipient[r] \in {"SKIPPED", "gone"} THEN late \union {r} ELSE late
                 /\ UNCHANGED recipient
        BY <3>2, <3>4
      <3> QED
        BY <3>1, <3>3, <3>4
    <2>5. CASE markRecipient(p)
      BY <2>5, Marks DEF marked
    <2>6. CASE finish(p) \/ runBreaks(p) \/ runnerDies(p)
      BY <2>6, Ends
    <2> QED
      BY <1>3, <2>1, <2>2, <2>3, <2>4, <2>5, <2>6 DEF Dispatch
  <1>4. CASE UNCHANGED campaignVars
    BY <1>4 DEF campaignVars, campaignPast
  <1> QED
    BY <1>1, <1>2, <1>3, <1>4 DEF CampaignNext

LEMMA BoundedStep ==
  CampaignTyped /\ Shape /\ Single /\ Gone /\ Skipped /\ Bounded /\ [CampaignNext]_campaignVars
    => Bounded'
  <1> SUFFICES ASSUME CampaignTyped, Shape, Single, Gone, Skipped, Bounded,
                      [CampaignNext]_campaignVars, ~sentTwice'
               PROVE  Bounded'
    BY DEF Bounded
  <1>0. ~sentTwice
    BY SentTwiceStays
  <1>00. \A q \in Runners : runner[q].todo \subseteq Recipients /\ runner[q].cur \subseteq Recipients
    BY Records DEF CampaignTyped
  <1> USE <1>0, <1>00 DEF Bounded
  <1>1. ASSUME NEW c \in Clicks, Request(c) PROVE Bounded'
    <2>1. UNCHANGED campaign \/ atRest
      BY <1>1, Requests DEF Single
    <2> QED
      BY <1>1, <2>1, Requests DEF Shape, atRest
  <1>2. CASE cancelCampaign \/ removeCampaign
    <2>1. UNCHANGED <<runner, late>>
      BY <1>2 DEF cancelCampaign, removeCampaign, campaignPast
    <2>2. CASE cancelCampaign
      <3>1. campaign # "gone" /\ campaign' = "CANCELED"
        BY <2>2 DEF cancelCampaign
      <3>2. \A r \in Recipients :
               recipient'[r] = IF recipient[r] = "PENDING" THEN "SKIPPED" ELSE recipient[r]
        BY <2>2 DEF cancelCampaign, CampaignTyped, pending
      <3> QED
        BY <2>1, <3>1, <3>2 DEF Skipped
    <2>3. CASE removeCampaign
      <3>1. campaign' = "gone" /\ \A r \in Recipients : recipient'[r] = "gone"
        BY <2>3 DEF removeCampaign
      <3> QED
        BY <2>1, <3>1
    <2> QED
      BY <1>2, <2>2, <2>3
  <1>3. ASSUME NEW p \in Runners, Dispatch(p) \/ runBreaks(p) \/ runnerDies(p) PROVE Bounded'
    <2> USE DEF becomes, CampaignTyped, Shape, Single, Gone, Skipped, atRest
    <2>1. CASE takeRun(p)
      BY <2>1, TakesRun
    <2>2. CASE listRecipients(p)
      BY <2>2, ListsRecipients DEF pending
    <2>3. CASE loop(p)
      BY <2>3, Loops
    <2>4. CASE createMessage(p)
      <3>1. PICK r \in runner[p].cur :
              \/ /\ late' = IF recipient[r] \in {"SKIPPED", "gone"} THEN late \union {r} ELSE late
                 /\ becomes(p, "mark", runner[p].todo, {r}) /\ UNCHANGED recipient
              \/ marked(p, r, "FAILED") /\ UNCHANGED late
        BY <2>4, Creates
      <3>2. /\ UNCHANGED campaign /\ runner[p].at = "create" /\ r \in Recipients
            /\ \A q \in Runners : q # p => runner[q].at = "idle" /\ runner[q].todo = {}
                                                            /\ runner[q].cur = {}
            /\ late = {} \/ \E s \in Recipients : late = {s}
        BY <2>4, <3>1, Creates
      <3>3. CASE marked(p, r, "FAILED") /\ UNCHANGED late
        BY <3>1, <3>2, <3>3 DEF marked
      <3>4. CASE becomes(p, "mark", runner[p].todo, {r}) /\ UNCHANGED <<recipient, late>>
        BY <3>2, <3>4
      <3>5. CASE /\ recipient[r] \in {"SKIPPED", "gone"} /\ late' = late \union {r}
                 /\ becomes(p, "mark", runner[p].todo, {r}) /\ UNCHANGED recipient
        <4>1. \A q \in Runners : runner'[q].at \in {"idle", "mark"}
          BY <3>2, <3>5
        <4>2. late = {} => late' = {r}
          BY <3>5
        <4>3. \A s : late = {s} => late' = {s, r}
          BY <3>5
        <4>4. late # {} => campaign = "gone"
          BY <3>1, <3>2, <3>5
        <4> QED
          BY <3>2, <3>5, <4>1, <4>2, <4>3, <4>4
      <3> QED
        BY <3>1, <3>3, <3>4, <3>5
    <2>5. CASE markRecipient(p)
      BY <2>5, Marks DEF marked
    <2>6. CASE finish(p) \/ runBreaks(p) \/ runnerDies(p)
      BY <2>6, Ends
    <2> QED
      BY <1>3, <2>1, <2>2, <2>3, <2>4, <2>5, <2>6 DEF Dispatch
  <1>4. CASE UNCHANGED campaignVars
    BY <1>4 DEF campaignVars, campaignPast
  <1> QED
    BY <1>1, <1>2, <1>3, <1>4 DEF CampaignNext

LEMMA CampaignInvariant ==
  CampaignSpec => [](CampaignTyped /\ Shape /\ Single /\ Counted /\ Gone /\ Skipped /\ Bounded)
  <1>1. CampaignInit => Shape /\ Single /\ Counted /\ Gone /\ Skipped /\ Bounded
    BY DEF CampaignInit, Shape, Single, Counted, Gone, Skipped, Bounded, Away, atRest
  <1> QED
    BY <1>1, CampaignTypedInit, CampaignTypedStep, ShapeStep, SingleStep, CountedStep, GoneStep,
       SkippedStep, BoundedStep, PTL DEF CampaignSpec

\* However many processors walk through however long a list: nobody is messaged
\* twice, but after a double click or in a run that broke off.
THEOREM OneMessageHolds == CampaignSpec => []OneMessageEach
  <1>1. CampaignTyped /\ Counted => OneMessageEach
    BY DEF CampaignTyped, Counted, OneMessageEach
  <1> QED
    BY <1>1, CampaignInvariant, PTL

\* However long the list: a cancellation comes too late for one recipient at most,
\* and a removal for one more.
THEOREM CancelHolds == CampaignSpec => []CancelStops
  <1>1. ASSUME NEW r \in Recipients, NEW q \in Recipients
        PROVE  Cardinality({r}) = 1 /\ Cardinality({r, q}) \in {1, 2}
    <2>1. IsFiniteSet({q}) /\ Cardinality({q}) = 1 /\ Cardinality({r}) = 1
      BY FS_Singleton
    <2>2. {q} \union {r} = {r, q}
      OBVIOUS
    <2>3. Cardinality({q} \union {r}) = IF r \in {q} THEN Cardinality({q}) ELSE Cardinality({q}) + 1
      BY <2>1, FS_AddElement
    <2> QED
      BY <2>1, <2>2, <2>3
  <1>2. Cardinality({}) = 0
    BY FS_EmptySet
  <1>3. ASSUME Bounded, ~sentTwice PROVE Cardinality(late) <= (IF campaign = "gone" THEN 2 ELSE 1)
    <2>1. CASE late = {}
      BY <1>2, <2>1
    <2>2. CASE \E r \in Recipients : late = {r}
      BY <1>1, <2>2
    <2>3. CASE campaign = "gone" /\ \E r, q \in Recipients : late = {r, q}
      <3>1. PICK r \in Recipients, q \in Recipients : late = {r, q}
        BY <2>3
      <3>2. Cardinality(late) \in {1, 2}
        BY <1>1, <3>1
      <3> QED
        BY <2>3, <3>2
    <2> QED
      BY <1>3, <2>1, <2>2, <2>3 DEF Bounded
  <1> QED
    <2>1. Bounded => CancelStops
      BY <1>3 DEF CancelStops
    <2> QED
      BY <2>1, CampaignInvariant, PTL

-----------------------------------------------------------------------------
\* The queue holds no more jobs than clicks were written, and one that stalled.
written == {c \in Clicks : click[c] = "written"}

Queue ==
    /\ campaign \in {"DRAFT", "SENDING", "COMPLETED", "CANCELED", "FAILED", "gone"}
    /\ stalled \in BOOLEAN /\ broken \in BOOLEAN
    /\ runJobs <= Cardinality(written) + (IF stalled THEN 1 ELSE 0)

LEMMA WrittenFinite ==
  ASSUME IsFiniteSet(Clicks)
  PROVE  /\ IsFiniteSet(written) /\ Cardinality(written) \in Nat
         /\ Cardinality(Clicks) \in Nat /\ Cardinality(written) <= Cardinality(Clicks)
  <1>1. written \subseteq Clicks
    BY DEF written
  <1> QED
    BY <1>1, FS_Subset, FS_CardinalityType

LEMMA QueueStep ==
  IsFiniteSet(Clicks) /\ CampaignTyped /\ Queue /\ [CampaignNext]_campaignVars => Queue'
  <1> SUFFICES ASSUME IsFiniteSet(Clicks), CampaignTyped, Queue, [CampaignNext]_campaignVars
               PROVE  Queue'
    OBVIOUS
  <1>0. /\ IsFiniteSet(written) /\ Cardinality(written) \in Nat /\ runJobs \in Nat
        /\ stalled \in BOOLEAN
    BY WrittenFinite DEF CampaignTyped, Queue
  <1>1. ASSUME NEW c \in Clicks, addRun(c) PROVE Queue'
    <2>1. written' = written \union {c} /\ c \notin written
      BY <1>1 DEF addRun, written, CampaignTyped
    <2>2. Cardinality(written') = Cardinality(written) + 1
      BY <1>0, <2>1, FS_AddElement
    <2>3. runJobs' <= Cardinality(written') + (IF stalled' THEN 1 ELSE 0)
      BY <1>0, <1>1, <2>2 DEF addRun, Queue
    <2> QED
      BY <1>1, <2>3 DEF addRun, Queue, campaignPast
  <1>2. ASSUME NEW c \in Clicks, readDraft(c) \/ markSending(c) \/ loseRun(c) PROVE Queue'
    <2>1. written' = written
      BY <1>2 DEF readDraft, markSending, loseRun, written, CampaignTyped
    <2> QED
      BY <1>2, <2>1 DEF readDraft, markSending, loseRun, Queue, campaignPast
  <1>3. ASSUME UNCHANGED click PROVE Cardinality(written') = Cardinality(written)
    BY <1>3 DEF written
  <1>4. CASE UNCHANGED campaignVars
    BY <1>3, <1>4 DEF campaignVars, Queue
  <1>5. CASE cancelCampaign \/ removeCampaign
    BY <1>3, <1>5 DEF cancelCampaign, removeCampaign, Queue, campaignPast
  <1>6. ASSUME NEW p \in Runners, Dispatch(p) \/ runBreaks(p) \/ runnerDies(p) PROVE Queue'
    <2>1. CASE takeRun(p)
      <3>1. runJobs' = runJobs - 1 /\ UNCHANGED <<campaign, click, stalled>> /\ broken' \in {broken, TRUE}
        BY <2>1 DEF takeRun, dbError
      <3>2. runJobs' <= Cardinality(written') + (IF stalled' THEN 1 ELSE 0)
        BY <1>0, <1>3, <3>1 DEF Queue
      <3> QED
        BY <3>1, <3>2 DEF Queue
    <2>2. CASE runnerDies(p)
      <3>1. runJobs' = runJobs + 1 /\ ~stalled /\ stalled' = TRUE /\ UNCHANGED click
        BY <2>2 DEF runnerDies
      <3>2. runJobs' <= Cardinality(written') + (IF stalled' THEN 1 ELSE 0)
        BY <1>0, <1>3, <3>1 DEF Queue
      <3> QED
        BY <2>2, <3>1, <3>2 DEF runnerDies, Queue
    <2>3. CASE listRecipients(p) \/ loop(p) \/ createMessage(p) \/ markRecipient(p) \/ finish(p)
               \/ runBreaks(p)
      <3>1. UNCHANGED <<click, runJobs, stalled>>
        BY <2>3 DEF listRecipients, loop, createMessage, markRecipient, finish, runBreaks
      <3>2. campaign' \in {campaign, "COMPLETED", "FAILED"} /\ broken' \in {broken, TRUE}
        BY <2>3 DEF listRecipients, loop, createMessage, markRecipient, finish, runBreaks, dbError,
           campaignPast
      <3> QED
        BY <1>3, <3>1, <3>2 DEF Queue
    <2> QED
      BY <1>6, <2>1, <2>2, <2>3 DEF Dispatch
  <1> QED
    BY <1>1, <1>2, <1>4, <1>5, <1>6 DEF CampaignNext, Request

LEMMA QueueInit == IsFiniteSet(Clicks) /\ CampaignInit => Queue
  <1> SUFFICES ASSUME IsFiniteSet(Clicks), CampaignInit PROVE Queue
    OBVIOUS
  <1>1. runJobs = 0 /\ stalled = FALSE /\ broken = FALSE /\ campaign = "DRAFT"
    BY DEF CampaignInit
  <1>2. Cardinality(written) \in Nat
    BY WrittenFinite
  <1>3. 0 <= Cardinality(written) + (IF stalled THEN 1 ELSE 0)
    BY <1>1, <1>2
  <1> QED
    BY <1>1, <1>3 DEF Queue

LEMMA QueueTyped == IsFiniteSet(Clicks) /\ CampaignTyped /\ Queue => CampaignTypeOK
  <1> SUFFICES ASSUME IsFiniteSet(Clicks), CampaignTyped, Queue PROVE CampaignTypeOK
    OBVIOUS
  <1>1. runJobs \in 0..(Cardinality(Clicks) + 1)
    BY WrittenFinite DEF Queue, CampaignTyped
  <1> QED
    BY <1>1 DEF CampaignTypeOK, CampaignTyped, Queue, States

\* The type invariant of the component, with the bound of its queue.
THEOREM CampaignTypeCorrect == IsFiniteSet(Clicks) /\ CampaignSpec => []CampaignTypeOK
  <1> SUFFICES ASSUME IsFiniteSet(Clicks) PROVE CampaignSpec => []CampaignTypeOK
    OBVIOUS
  <1>1. CampaignInit => CampaignTyped /\ Queue
    BY CampaignTypedInit, QueueInit
  <1>2. CampaignTyped /\ Queue /\ [CampaignNext]_campaignVars => (CampaignTyped /\ Queue)'
    BY CampaignTypedStep, QueueStep
  <1>3. CampaignTyped /\ Queue => CampaignTypeOK
    BY QueueTyped
  <1> QED
    BY <1>1, <1>2, <1>3, PTL DEF CampaignSpec
=============================================================================
