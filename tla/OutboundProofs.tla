----------------------------- MODULE OutboundProofs ----------------------------
(***************************************************************************)
(* The sender, the echoes and the status webhooks, for any number of       *)
(* messages, status jobs, attempts and faults.                             *)
(***************************************************************************)
EXTENDS Outbound, TLAPS

Jobs == {"none", "lost", "waiting", "accepted", "merging", "marking", "throwing", "completed",
         "failed"}
HandStates == [rows : SUBSET Rows, write : Statuses]

\* The jobs whose current attempt has called the provider.
Handed == {"accepted", "merging", "marking", "throwing", "completed"}

OutboundTyped ==
    /\ status \in [Rows -> Statuses \union {"none"}]
    /\ ext \in [Msgs -> 0..MaxSends] /\ known \subseteq Rows
    /\ elsewhere \subseteq Rows /\ nameless \subseteq Msgs
    /\ job \in [Msgs -> Jobs] /\ tries \in [Msgs -> 0..MaxTries]
    /\ held \in [Workers -> HandStates] /\ sends \in [Msgs -> 0..MaxSends]
    /\ troubled \subseteq Msgs /\ unmarked \subseteq Msgs /\ raced \subseteq Rows
    /\ faults \in 0..MaxFaults /\ hooks \in 0..MaxHooks

\* Each send belongs to a failed attempt, to a fault or to the current attempt:
\* this is why there are no more than MaxSends.
Budget ==
    \A m \in Msgs :
        /\ job[m] # "failed" => tries[m] < MaxTries
        /\ sends[m] <= tries[m] + faults + (IF job[m] \in Handed THEN 1 ELSE 0)

-----------------------------------------------------------------------------
LEMMA Numbers == MaxTries \in Nat \ {0} /\ MaxFaults \in Nat /\ MaxSends \in Nat
                 /\ MaxSends = MaxTries + MaxFaults
  BY OutboundAssumption DEF OutboundAssumption, MaxSends

LEMMA Pairs ==
  /\ \A m \in Msgs : Own(m) \in Rows /\ Own(m)[1] = m /\ Own(m)[2] = 0
  /\ \A r \in Rows : r[1] \in Msgs /\ r[2] \in 0..MaxSends
  /\ \A r, q \in Rows : r[1] = q[1] /\ r[2] = q[2] => r = q
  BY Numbers DEF Rows, Own

LEMMA LatestPair ==
  ASSUME OutboundTyped, NEW m \in Msgs
  PROVE  Latest(m) \in Rows /\ Latest(m)[1] = m /\ Latest(m)[2] = sends[m]
  BY DEF OutboundTyped, Rows, Latest

LEMMA Issued ==
  ASSUME OutboundTyped, NEW m \in Msgs, NEW r \in issued(m)
  PROVE  r \in Rows /\ r[1] = m /\ r[2] \in 1..sends[m]
  <1>1. sends[m] \in 0..MaxSends
    BY DEF OutboundTyped
  <1> QED
    BY <1>1, Numbers DEF issued, Rows

LEMMA HandRecords ==
  /\ Free \in HandStates /\ Free.rows = {} /\ Free.write # "QUEUED"
  /\ \A h \in HandStates : h.rows \subseteq Rows /\ h.write \in Statuses
  /\ \A rs \in SUBSET Rows, s \in Statuses :
        /\ [rows |-> rs, write |-> s] \in HandStates
        /\ [rows |-> rs, write |-> s].rows = rs /\ [rows |-> rs, write |-> s].write = s
  BY DEF Free, HandStates, Statuses

LEMMA Bearing ==
  ASSUME OutboundTyped, NEW r \in Rows
  PROVE  /\ bearing(r) \subseteq Rows
         /\ \A x \in bearing(r) : \/ x = Own(r[1]) /\ ext[r[1]] = r[2]
                                  \/ x = r /\ exists(r)
         /\ bearing(r) = {} => (r[1] \in nameless \/ ext[r[1]] # r[2]) /\ ~exists(r)
  <1>1. r[1] \in Msgs /\ Own(r[1]) \in Rows
    BY Pairs
  <1>2. \A x : (x \in bearing(r)) <=> ((x = Own(r[1]) /\ ext[r[1]] = r[2] /\ r[1] \notin nameless)
                                       \/ (x = r /\ exists(x)))
    BY Zenon DEF bearing
  <1>3. bearing(r) = {} => (r[1] \in nameless \/ ext[r[1]] # r[2]) /\ ~exists(r)
    BY <1>2
  <1>4. bearing(r) \subseteq Rows
    BY <1>1, <1>2
  <1> QED
    BY <1>2, <1>3, <1>4

\* "Never regress status": what a status job will write does not fall behind
\* what it has read, and is a status the provider reports.
LEMMA MaxStatus ==
  ASSUME NEW c \in Statuses \union {"none"}, NEW n \in {"SENT", "DELIVERED", "READ", "FAILED"}
  PROVE  /\ maxStatus(c, n) \in Statuses \ {"QUEUED"}
         /\ order(maxStatus(c, n)) >= order(c)
         /\ c = "READ" => maxStatus(c, n) = "READ"
  BY DEF maxStatus, order, Statuses

\* What the sender does leaves the status jobs alone, and conversely.
LEMMA SenderFrame ==
  ASSUME NEW m \in Msgs,
         queue(m) \/ Send(m) \/ prepareFails(m) \/ sendFails(m) \/ breaksOff(m) \/ crash(m)
  PROVE  UNCHANGED <<held, raced, hooks>>
  BY Zenon DEF queue, Send, sendMessage, persist, merge, markProcessed, fail, prepareFails,
     sendFails, breaksOff, crash, fault, bounds

LEMMA HookTakes ==
  ASSUME OutboundTyped, NEW w \in Workers, Hook(w), ~writeStatus(w)
  PROVE  \E rs \in SUBSET Rows, s \in Statuses \ {"QUEUED"} : 
            /\ takes(w, rs, s)
            /\ \A r \in rs : /\ order(s) >= order(status[r])
                             /\ status[r] = "READ" => s = "READ"
                             /\ \/ status[r] \in {"SENT", "DELIVERED"}
                                \/ r[2] = 0 /\ ext[r[1]] > 0
                                \/ r[2] > 0 /\ exists(r)
  <1>1. CASE processInstagramReadWatermark(w)
    <2>1. PICK upTo \in [Msgs -> 0..MaxSends] :
            takes(w, {r \in Rows : status[r] \in {"SENT", "DELIVERED"} /\ nth(r) <= upTo[r[1]]},
                  "READ")
      BY <1>1 DEF processInstagramReadWatermark
    <2> DEFINE rs == {r \in Rows : status[r] \in {"SENT", "DELIVERED"} /\ nth(r) <= upTo[r[1]]}
    <2>2. "READ" \in Statuses \ {"QUEUED"} /\ rs \in SUBSET Rows
      BY DEF Statuses
    <2>3. \A r \in rs : status[r] \in {"SENT", "DELIVERED"} /\ order("READ") >= order(status[r])
      BY DEF order
    <2> QED
      BY <2>1, <2>2, <2>3
  <1>2. ASSUME NEW m \in Msgs, NEW r \in issued(m),
               NEW n \in {"SENT", "DELIVERED", "READ", "FAILED"}, processStatus(w, r, n)
        PROVE  \E rs \in SUBSET Rows, s \in Statuses \ {"QUEUED"} : 
                  /\ takes(w, rs, s)
                  /\ \A q \in rs : /\ order(s) >= order(status[q])
                                   /\ status[q] = "READ" => s = "READ"
                                   /\ \/ status[q] \in {"SENT", "DELIVERED"}
                                      \/ q[2] = 0 /\ ext[q[1]] > 0
                                      \/ q[2] > 0 /\ exists(q)
    <2>1. PICK x \in bearing(r) : takes(w, {x}, maxStatus(status[x], n))
      BY <1>2 DEF processStatus
    <2>2. r \in Rows /\ r[1] = m /\ r[2] \in 1..sends[m]
      BY Issued
    <2>3. x \in Rows /\ ((x = Own(r[1]) /\ ext[r[1]] = r[2]) \/ (x = r /\ exists(r)))
      BY <2>1, <2>2, Bearing
    <2>4. \/ x[2] = 0 /\ ext[x[1]] > 0
          \/ x[2] > 0 /\ exists(x)
      <3>1. sends[m] \in Nat /\ r[2] > 0
        BY <2>2, Numbers DEF OutboundTyped
      <3>2. CASE x = Own(r[1]) /\ ext[r[1]] = r[2]
        <4>1. x[1] = m /\ x[2] = 0
          BY <2>2, <3>2, Pairs
        <4> QED
          BY <2>2, <3>1, <3>2, <4>1
      <3> QED
        BY <2>2, <2>3, <3>1, <3>2
    <2>5. status[x] \in Statuses \union {"none"}
      BY <2>3 DEF OutboundTyped
    <2>6. maxStatus(status[x], n) \in Statuses \ {"QUEUED"} /\ {x} \in SUBSET Rows
      BY <2>3, <2>5, MaxStatus
    <2>7. /\ order(maxStatus(status[x], n)) >= order(status[x])
          /\ status[x] = "READ" => maxStatus(status[x], n) = "READ"
      BY <2>5, MaxStatus
    <2> DEFINE s == maxStatus(status[x], n)
    <2>8. \A q \in {x} : /\ order(s) >= order(status[q])
                         /\ status[q] = "READ" => s = "READ"
                         /\ \/ status[q] \in {"SENT", "DELIVERED"}
                            \/ q[2] = 0 /\ ext[q[1]] > 0
                            \/ q[2] > 0 /\ exists(q)
      BY <2>4, <2>7
    <2> HIDE DEF s
    <2> QED
      BY Zenon, <2>1, <2>6, <2>8 DEF s
  <1> QED
    BY <1>1, <1>2 DEF Hook

-----------------------------------------------------------------------------
\* Type correctness.
LEMMA OutboundTypedInit == OutboundInit => OutboundTyped /\ Budget
  <1> SUFFICES ASSUME OutboundInit PROVE OutboundTyped /\ Budget
    OBVIOUS
  <1>1. 0 \in 0..MaxSends /\ 0 \in 0..MaxTries /\ 0 \in 0..MaxFaults /\ 0 \in 0..MaxHooks
    BY Numbers, OutboundAssumption DEF OutboundAssumption
  <1>2. held \in [Workers -> HandStates]
    BY HandRecords DEF OutboundInit
  <1>3. OutboundTyped
    BY <1>1, <1>2 DEF OutboundInit, OutboundTyped, Jobs
  <1>4. Budget
    BY Numbers DEF OutboundInit, Budget, Handed
  <1> QED
    BY <1>3, <1>4

\* The sender and the echo, but for the status jobs' part of the state.
SenderTyped ==
    /\ status \in [Rows -> Statuses \union {"none"}]
    /\ ext \in [Msgs -> 0..MaxSends] /\ known \subseteq Rows
    /\ elsewhere \subseteq Rows /\ nameless \subseteq Msgs
    /\ job \in [Msgs -> Jobs] /\ tries \in [Msgs -> 0..MaxTries]
    /\ sends \in [Msgs -> 0..MaxSends]
    /\ troubled \subseteq Msgs /\ unmarked \subseteq Msgs
    /\ faults \in 0..MaxFaults

LEMMA SenderStep ==
  ASSUME OutboundTyped, Budget, NEW m \in Msgs,
         queue(m) \/ Send(m) \/ prepareFails(m) \/ sendFails(m) \/ breaksOff(m) \/ crash(m)
  PROVE  (SenderTyped /\ Budget)'
  <1>0. Own(m) \in Rows
    BY Pairs
  <1> USE <1>0, Numbers DEF OutboundTyped, SenderTyped, Budget, Jobs, Statuses, Handed, rows, past,
          bounds, fault, goesOn, attemptFails
  <1>1. CASE queue(m)
    BY <1>1 DEF queue
  <1>2. CASE sendMessage(m)
    BY <1>2 DEF sendMessage
  <1>3. CASE persist(m)
    BY <1>3 DEF persist
  <1>4. CASE merge(m)
    BY <1>4 DEF merge
  <1>5. CASE markProcessed(m)
    <2>1. Latest(m) \in Rows
      BY LatestPair
    <2> QED
      BY <1>5, <2>1 DEF markProcessed
  <1>6. CASE fail(m)
    <2>1. status' \in [Rows -> Statuses \union {"none"}]
      BY <1>6 DEF fail
    <2>2. unmarked' \subseteq Msgs /\ faults' \in {faults, faults + 1} /\ faults' \in 0..MaxFaults
      <3>1. \/ UNCHANGED <<unmarked, faults>>
            \/ fault /\ unmarked' = unmarked \union {m}
        BY Zenon, <1>6 DEF fail
      <3>2. CASE UNCHANGED <<unmarked, faults>>
        BY <3>2
      <3>3. CASE fault /\ unmarked' = unmarked \union {m}
        BY <3>3
      <3> QED
        BY <3>1, <3>2, <3>3
    <2>3. job[m] = "throwing" /\ attemptFails(m) /\ UNCHANGED <<ext, elsewhere, known, sends, nameless,
                                                               troubled>>
      BY <1>6 DEF fail
    <2> QED
      BY <2>1, <2>2, <2>3
  <1>7. CASE prepareFails(m)
    BY <1>7 DEF prepareFails
  <1>8. CASE sendFails(m)
    BY <1>8 DEF sendFails
  <1>9. CASE breaksOff(m)
    BY <1>9 DEF breaksOff
  <1>10. CASE crash(m)
    <2>1. CASE job[m] = "throwing"
      BY <1>10, <2>1 DEF crash
    <2>2. CASE job[m] # "throwing"
      BY <1>10, <2>2 DEF crash
    <2> QED
      BY <2>1, <2>2
  <1> QED
    BY <1>1, <1>2, <1>3, <1>4, <1>5, <1>6, <1>7, <1>8, <1>9, <1>10 DEF Send

LEMMA EchoStep ==
  ASSUME OutboundTyped, Budget, NEW m \in Msgs, NEW r \in issued(m), echo(r)
  PROVE  (OutboundTyped /\ Budget)'
  <1>1. r \in Rows
    BY Issued
  <1> QED
    BY <1>1, Numbers DEF echo, OutboundTyped, Budget, Handed, Statuses, sender, past, bounds, fault

LEMMA HookStep ==
  ASSUME OutboundTyped, Budget, NEW w \in Workers, Hook(w)
  PROVE  (OutboundTyped /\ Budget)'
  <1>1. CASE writeStatus(w)
    <2>1. status' \in [Rows -> Statuses \union {"none"}]
      BY <1>1, HandRecords DEF writeStatus, OutboundTyped
    <2>2. held' \in [Workers -> HandStates]
      BY <1>1, HandRecords DEF writeStatus, OutboundTyped
    <2> QED
      BY <1>1, <2>1, <2>2 DEF writeStatus, OutboundTyped, Budget, sender, past, bounds
  <1>2. CASE ~writeStatus(w)
    <2>1. PICK rs \in SUBSET Rows, s \in Statuses \ {"QUEUED"} : takes(w, rs, s)
      BY <1>2, HookTakes
    <2>2. [rows |-> rs, write |-> s] \in HandStates
      BY HandRecords
    <2>3. held' \in [Workers -> HandStates]
      BY <2>1, <2>2 DEF takes, OutboundTyped
    <2>4. hooks' \in 0..MaxHooks /\ raced' \subseteq Rows
      BY <2>1, OutboundAssumption DEF OutboundAssumption, takes, OutboundTyped
    <2> QED
      BY <2>1, <2>3, <2>4 DEF takes, OutboundTyped, Budget, rows, sender, past
  <1> QED
    BY <1>1, <1>2

LEMMA OutboundTypedStep ==
    OutboundTyped /\ Budget /\ [OutboundNext]_outboundVars => (OutboundTyped /\ Budget)'
  <1> SUFFICES ASSUME OutboundTyped, Budget, [OutboundNext]_outboundVars
               PROVE  (OutboundTyped /\ Budget)'
    OBVIOUS
  <1>1. ASSUME NEW m \in Msgs,
               queue(m) \/ Send(m) \/ prepareFails(m) \/ sendFails(m) \/ breaksOff(m) \/ crash(m)
        PROVE  (OutboundTyped /\ Budget)'
    <2>1. (SenderTyped /\ Budget)' /\ UNCHANGED <<held, raced, hooks>>
      BY <1>1, SenderStep, SenderFrame
    <2> QED
      BY <2>1 DEF SenderTyped, OutboundTyped
  <1>2. CASE UNCHANGED outboundVars
    BY <1>2 DEF outboundVars, rows, sender, past, bounds, OutboundTyped, Budget
  <1> QED
    BY <1>1, <1>2, EchoStep, HookStep DEF OutboundNext

\* The type invariant of the component: above all that no message is sent more
\* than MaxSends times, which bounds the rows the model knows.
THEOREM OutboundTypeCorrect == OutboundSpec => []OutboundTypeOK
  <1>1. OutboundTyped => OutboundTypeOK
    BY DEF OutboundTyped, OutboundTypeOK, Jobs, HandStates
  <1> QED
    BY <1>1, OutboundTypedInit, OutboundTypedStep, PTL DEF OutboundSpec

-----------------------------------------------------------------------------
\* Rows and the status jobs that have them in hand.
RowsTrue ==
    /\ \A r \in Rows : r[2] # 0 => status[r] # "QUEUED"
    /\ \A r \in Rows : r[2] > sends[r[1]] => ~exists(r)
    /\ \A r \in Rows : r[2] # 0 /\ exists(r) => r \in known
    /\ \A m \in Msgs : ext[m] <= sends[m]
    /\ \A m \in Msgs : job[m] \in {"accepted", "merging", "marking"} => sends[m] > 0
    /\ \A m \in Msgs : sends[m] = 0 => status[Own(m)] \in {"none", "QUEUED", "FAILED"}
    /\ \A w \in Workers : held[w].write # "QUEUED"
    /\ \A w \in Workers : \A r \in held[w].rows :
          \/ r[2] = 0 /\ sends[r[1]] > 0
          \/ r[2] > 0 /\ exists(r)

\* One row, the message's own with its id or the echo's in its stead.
standsAlone(m) ==
    \/ ext[m] = 1 /\ status[Own(m)] \notin {"none", "QUEUED"} /\ ~exists(Latest(m))
    \/ ext[m] = 0 /\ ~exists(Own(m)) /\ exists(Latest(m))

\* The message's own row, which no echo's row can stand for.
ownStands(m) == status[Own(m)] \notin {"none", "QUEUED"}

\* A message none of whose attempts was cut off.
Clean(m) ==
    m \notin troubled =>
        /\ job[m] \in {"none", "lost", "waiting", "throwing", "failed"} => sends[m] = 0
        /\ job[m] \in {"accepted", "merging", "marking", "completed"} => sends[m] = 1
        /\ job[m] \notin {"none", "marking", "completed"} => exists(Own(m))
        /\ job[m] \notin {"marking", "completed"} => ext[m] = 0
        /\ job[m] = "failed" /\ m \notin unmarked => status[Own(m)] = "FAILED"
        /\ job[m] = "merging" => taken(m)
        /\ job[m] \in {"marking", "completed"} /\ m \notin unmarked =>
              IF matched(m) THEN standsAlone(m) ELSE ownStands(m)
        /\ job[m] = "completed" /\ m \notin nameless => Latest(m) \in known
        /\ ext[m] = 0 => /\ status[Own(m)] \in {"none", "QUEUED", "FAILED"}
                         /\ \A w \in Workers : Own(m) \notin held[w].rows

\* A row in one status job's hands does not overtake what will be written to it.
Ahead ==
    \A w \in Workers : \A r \in held[w].rows :
        \/ r[1] \in troubled \/ r \in raced
        \/ /\ order(held[w].write) >= order(status[r])
           /\ status[r] = "READ" => held[w].write = "READ"
           /\ \A v \in Workers : r \in held[v].rows => v = w

\* A step of the sender concerns one message and its own row.
Only(m) ==
    /\ \A r \in Rows : r # Own(m) => status'[r] = status[r]
    /\ \A n \in Msgs : n # m => /\ ext'[n] = ext[n] /\ job'[n] = job[n] /\ sends'[n] = sends[n]
                                /\ n \in troubled' <=> n \in troubled
                                /\ n \in unmarked' <=> n \in unmarked
                                /\ n \in nameless' <=> n \in nameless
    /\ known \subseteq known' /\ troubled \subseteq troubled' /\ unmarked \subseteq unmarked'
    /\ UNCHANGED <<held, raced, elsewhere>>

LEMMA OnlyOne ==
  ASSUME OutboundTyped, NEW m \in Msgs,
         queue(m) \/ Send(m) \/ prepareFails(m) \/ sendFails(m) \/ breaksOff(m) \/ crash(m)
  PROVE  Only(m)
  <1>0. Own(m) \in Rows /\ UNCHANGED <<held, raced>>
    BY Pairs, SenderFrame
  <1> USE <1>0 DEF OutboundTyped, Only, rows, past, goesOn, attemptFails
  <1>1. CASE queue(m)
    BY <1>1 DEF queue
  <1>2. CASE sendMessage(m)
    BY <1>2 DEF sendMessage
  <1>3. CASE persist(m)
    BY <1>3 DEF persist
  <1>4. CASE merge(m)
    BY <1>4 DEF merge
  <1>5. CASE markProcessed(m)
    BY <1>5 DEF markProcessed
  <1>6. CASE fail(m)
    BY <1>6 DEF fail
  <1>7. CASE prepareFails(m)
    BY <1>7 DEF prepareFails
  <1>8. CASE sendFails(m)
    BY <1>8 DEF sendFails
  <1>9. CASE breaksOff(m)
    BY <1>9 DEF breaksOff
  <1>10. CASE crash(m)
    BY <1>10 DEF crash
  <1> QED
    BY <1>1, <1>2, <1>3, <1>4, <1>5, <1>6, <1>7, <1>8, <1>9, <1>10 DEF Send

LEMMA RowsSender ==
  ASSUME OutboundTyped, RowsTrue, NEW m \in Msgs,
         queue(m) \/ Send(m) \/ prepareFails(m) \/ sendFails(m) \/ breaksOff(m) \/ crash(m)
  PROVE  /\ sends'[m] \in Nat /\ sends'[m] >= sends[m] /\ ext'[m] <= sends'[m]
         /\ job'[m] \in {"accepted", "merging", "marking"} => sends'[m] > 0
         /\ sends'[m] = 0 => status'[Own(m)] \in {"none", "QUEUED", "FAILED"}
  <1>0. Own(m) \in Rows /\ sends[m] \in Nat /\ ext[m] <= sends[m] /\ ext[m] \in Nat
    BY Pairs, Numbers DEF OutboundTyped, RowsTrue
  <1> USE <1>0 DEF OutboundTyped, RowsTrue, rows, past, goesOn, attemptFails
  <1>1. CASE queue(m)
    BY <1>1 DEF queue
  <1>2. CASE sendMessage(m)
    BY <1>2 DEF sendMessage
  <1>3. CASE persist(m)
    <2>1. sends' = sends /\ ext'[m] \in {ext[m], sends[m]} /\ sends[m] > 0
      BY <1>3 DEF persist
    <2> QED
      BY <2>1
  <1>4. CASE merge(m)
    BY <1>4 DEF merge
  <1>5. CASE markProcessed(m)
    BY <1>5 DEF markProcessed
  <1>6. CASE fail(m)
    <2>1. status'[Own(m)] \in {status[Own(m)], "FAILED"} /\ UNCHANGED <<ext, sends>>
      BY <1>6 DEF fail
    <2>2. job'[m] \in {"waiting", "failed"}
      BY <1>6 DEF fail
    <2> QED
      BY <2>1, <2>2
  <1>7. CASE prepareFails(m)
    BY <1>7 DEF prepareFails
  <1>8. CASE sendFails(m)
    BY <1>8 DEF sendFails
  <1>9. CASE breaksOff(m)
    BY <1>9 DEF breaksOff
  <1>10. CASE crash(m)
    BY <1>10 DEF crash
  <1> QED
    BY <1>1, <1>2, <1>3, <1>4, <1>5, <1>6, <1>7, <1>8, <1>9, <1>10 DEF Send

\* The sender's step keeps its own message clean, unless the step cuts it off.
LEMMA CleanSender ==
  ASSUME OutboundTyped, RowsTrue, NEW m \in Msgs, Clean(m),
         queue(m) \/ Send(m) \/ prepareFails(m) \/ sendFails(m) \/ breaksOff(m) \/ crash(m)
  PROVE  Clean(m)'
  <1>0. /\ Own(m) \in Rows /\ Latest(m) \in Rows /\ sends[m] \in Nat
        /\ sends'[m] = sends[m] => Latest(m)' = Latest(m)
        /\ sends[m] > 0 => Latest(m) # Own(m)
        /\ UNCHANGED held /\ job[m] \in Jobs
    <2>1. Own(m) \in Rows /\ sends[m] \in Nat /\ UNCHANGED held /\ job[m] \in Jobs
      BY Pairs, Numbers, SenderFrame DEF OutboundTyped
    <2>2. sends'[m] = sends[m] => Latest(m)' = Latest(m)
      BY DEF Latest
    <2> QED
      BY <2>1, <2>2, LatestPair, Pairs
  <1> SUFFICES ASSUME m \notin troubled' PROVE Clean(m)'
    BY DEF Clean
  <1>t. m \notin troubled
    BY OnlyOne DEF Only
  <1> USE <1>0, <1>t DEF OutboundTyped, Clean, standsAlone, ownStands, matched, taken, exists, rows, past,
          goesOn, attemptFails
  <1>1. CASE queue(m)
    BY <1>1 DEF queue
  <1>2. CASE sendMessage(m)
    BY <1>2 DEF sendMessage
  <1>3. CASE persist(m)
    <2>1. CASE taken(m)
      BY <1>3, <2>1 DEF persist
    <2>2. CASE ~taken(m)
      BY <1>3, <2>2 DEF persist
    <2> QED
      BY <2>1, <2>2
  <1>4. CASE merge(m)
    BY <1>4 DEF merge
  <1>5. CASE markProcessed(m)
    BY <1>5 DEF markProcessed
  <1>6. CASE fail(m)
    BY <1>6 DEF fail
  <1>7. CASE prepareFails(m)
    BY <1>7 DEF prepareFails
  <1>8. CASE sendFails(m)
    BY <1>8 DEF sendFails
  <1>9. CASE breaksOff(m)
    BY <1>9 DEF breaksOff
  <1>10. CASE crash(m)
    BY <1>10 DEF crash
  <1> QED
    BY <1>1, <1>2, <1>3, <1>4, <1>5, <1>6, <1>7, <1>8, <1>9, <1>10 DEF Send

\* The other messages do not notice.
LEMMA CleanOther ==
  ASSUME OutboundTyped, NEW m \in Msgs, Only(m), NEW n \in Msgs, n # m, Clean(n)
  PROVE  Clean(n)'
  <1>1. /\ Own(n) \in Rows /\ Own(n) # Own(m) /\ Latest(n) \in Rows /\ Latest(n) # Own(m)
        /\ Latest(n)' = Latest(n)
    <2>1. Own(n) \in Rows /\ Own(n) # Own(m) /\ Latest(n) \in Rows /\ Latest(n) # Own(m)
      BY Pairs, LatestPair
    <2>2. Latest(n)' = Latest(n)
      BY DEF Latest, Only
    <2> QED
      BY <2>1, <2>2
  <1> QED
    BY <1>1 DEF Clean, standsAlone, ownStands, matched, taken, exists, Only

LEMMA RowsTrueSender ==
  ASSUME OutboundTyped, RowsTrue, NEW m \in Msgs, Clean(m),
         queue(m) \/ Send(m) \/ prepareFails(m) \/ sendFails(m) \/ breaksOff(m) \/ crash(m)
  PROVE  RowsTrue'
  <1>1. Only(m) /\ Own(m) \in Rows /\ Own(m)[1] = m /\ Own(m)[2] = 0
    BY OnlyOne, Pairs
  <1>2. /\ sends'[m] \in Nat /\ sends'[m] >= sends[m] /\ ext'[m] <= sends'[m]
        /\ job'[m] \in {"accepted", "merging", "marking"} => sends'[m] > 0
        /\ sends'[m] = 0 => status'[Own(m)] \in {"none", "QUEUED", "FAILED"}
    BY RowsSender
  <1>3. \A n \in Msgs : sends[n] \in Nat /\ sends'[n] \in Nat /\ Own(n) \in Rows
                        /\ (n # m => Own(n) # Own(m)) /\ sends'[n] >= sends[n]
    BY <1>1, <1>2, Pairs, Numbers DEF OutboundTyped, Only
  <1>4. \A w \in Workers : held[w].rows \subseteq Rows
    BY HandRecords DEF OutboundTyped
  <1>5. \A r \in Rows : r[1] \in Msgs /\ r[2] \in Nat
    BY Pairs, Numbers
  <1> QED
    BY <1>1, <1>2, <1>3, <1>4, <1>5 DEF RowsTrue, exists, Only

LEMMA AheadSender ==
  ASSUME OutboundTyped, RowsTrue, Ahead, NEW m \in Msgs, Clean(m),
         queue(m) \/ Send(m) \/ prepareFails(m) \/ sendFails(m) \/ breaksOff(m) \/ crash(m)
  PROVE  Ahead'
  <1>1. Only(m) /\ Own(m) \in Rows /\ Own(m)[1] = m
    BY OnlyOne, Pairs
  <1>2. ASSUME NEW w \in Workers, Own(m) \in held[w].rows, m \notin troubled
        PROVE  status'[Own(m)] = status[Own(m)]
    <2>1. ext[m] # 0
      BY <1>2 DEF Clean
    <2>2. job[m] \in {"marking", "completed"}
      BY <1>2, <2>1 DEF Clean
    <2> QED
      BY <2>2, Zenon DEF queue, Send, sendMessage, persist, merge, markProcessed, fail,
         prepareFails, sendFails, breaksOff, crash, rows
  <1>3. \A w \in Workers : held[w].rows \subseteq Rows
    BY HandRecords DEF OutboundTyped
  <1>4. \A w \in Workers : \A r \in held[w].rows :
           r[1] \in troubled \/ status'[r] = status[r]
    BY <1>1, <1>2, <1>3 DEF Only
  <1> QED
    BY <1>1, <1>4 DEF Ahead, Only

-----------------------------------------------------------------------------
\* The echo.
LEMMA EchoFresh ==
  ASSUME OutboundTyped, RowsTrue, NEW m \in Msgs, NEW r \in issued(m), echo(r)
  PROVE  ~exists(r)
  <1>1. r \in Rows /\ r[2] \in 1..sends[m] /\ sends[m] \in Nat
    BY Issued, Numbers DEF OutboundTyped
  <1>2. r[2] # 0
    BY <1>1
  <1> QED
    BY <1>1, <1>2 DEF RowsTrue, echo

LEMMA Echoes ==
  ASSUME OutboundTyped, RowsTrue, Ahead, \A n \in Msgs : Clean(n),
         NEW m \in Msgs, NEW r \in issued(m), echo(r)
  PROVE  RowsTrue' /\ Ahead' /\ \A n \in Msgs : Clean(n)'
  <1>1. r \in Rows /\ r[1] = m /\ r[2] \in 1..sends[m]
    BY Issued
  <1>2. /\ UNCHANGED <<ext, job, sends, nameless, troubled, unmarked, held, raced>>
        /\ known' = known \union {r} /\ r \notin known
        /\ elsewhere \subseteq elsewhere' /\ elsewhere' \subseteq elsewhere \union {r}
    BY DEF echo, sender, past
  <1>3. /\ ~exists(r)
        /\ \/ UNCHANGED <<status, elsewhere>>
           \/ r[1] \in nameless /\ status' = [status EXCEPT ![r] = "SENT"] /\ UNCHANGED elsewhere
           \/ ext[m] # r[2] /\ status' = [status EXCEPT ![r] = "SENT"] /\ UNCHANGED elsewhere
           \/ r \in elsewhere' /\ status' = [status EXCEPT ![r] = "SENT"]
    <2>1. ~exists(r)
      BY EchoFresh
    <2> QED
      BY <1>1, <2>1, Bearing DEF echo
  <1>4. \A n \in Msgs : /\ Own(n) \in Rows /\ Own(n) # r /\ Latest(n) \in Rows
                        /\ Latest(n)' = Latest(n) /\ Latest(n)[1] = n /\ Latest(n)[2] = sends[n]
                        /\ sends[n] \in Nat /\ Own(n)[1] = n /\ Own(n)[2] = 0
    <2>1. \A n \in Msgs : sends[n] \in Nat
      BY Numbers DEF OutboundTyped
    <2>2. \A n \in Msgs : Latest(n)' = Latest(n)
      BY <1>2 DEF Latest
    <2> QED
      BY <1>1, <2>1, <2>2, LatestPair, Pairs
  <1>5. \A w \in Workers : held[w].rows \subseteq Rows
    BY HandRecords DEF OutboundTyped
  <1>6. \A q \in Rows : q # r => status'[q] = status[q]
    BY <1>1, <1>3 DEF OutboundTyped
  <1>7. \A n \in Msgs : status'[Own(n)] = status[Own(n)]
    BY <1>4, <1>6
  <1>8. /\ status[r] = "none" /\ status'[r] \in {"none", "SENT"}
        /\ status'[r] # "none" => r[1] \in nameless \/ ext[m] # r[2] \/ r \in elsewhere'
    BY <1>1, <1>3 DEF OutboundTyped, exists
  <1>9. RowsTrue'
    <2>1. ~(r[2] > sends[m])
      BY <1>1, <1>4
    <2>2. \A q \in Rows : q[2] # 0 => status'[q] # "QUEUED"
      BY <1>6, <1>8 DEF RowsTrue
    <2>3. \A q \in Rows : q[2] > sends[q[1]] => status'[q] = "none"
      BY <1>1, <1>6, <2>1 DEF RowsTrue, exists
    <2>4. \A q \in Rows : exists(q) => status'[q] # "none"
      BY <1>6, <1>8 DEF exists
    <2>5. \A q \in Rows : q[2] # 0 /\ status'[q] # "none" => q \in known'
      BY <1>2, <1>6 DEF RowsTrue, exists
    <2> QED
      BY <1>2, <1>5, <1>7, <2>2, <2>3, <2>4, <2>5 DEF RowsTrue, exists
  <1>10. \A w \in Workers : \A q \in held[w].rows : status'[q] = status[q]
    BY <1>1, <1>5, <1>6, <1>8 DEF RowsTrue, exists
  <1>11. Ahead'
    BY <1>2, <1>10 DEF Ahead
  <1>12. ASSUME NEW n \in Msgs PROVE Clean(n)'
    <2>1. CASE Latest(n) # r
      <3>1. status'[Latest(n)] = status[Latest(n)] /\ (matched(n)' <=> matched(n))
        BY <1>2, <1>4, <1>6, <2>1 DEF matched
      <3> QED
        BY <1>2, <1>4, <1>7, <2>1, <3>1 DEF Clean, standsAlone, ownStands, taken, exists
    <2>2. CASE Latest(n) = r
      <3>1. n = m /\ r[2] = sends[n] /\ ~exists(Latest(n))
        BY <1>1, <1>3, <1>4, <2>2
      <3>2. job[n] = "merging" => n \in troubled
        BY <3>1 DEF Clean, taken
      <3>3. job[n] = "completed" /\ n \notin nameless => n \in troubled
        BY <1>2, <2>2 DEF Clean
      <3>4. n \notin troubled /\ n \notin unmarked /\ job[n] \in {"marking", "completed"} =>
              ownStands(n) /\ (matched(n) => ext[n] = 1 /\ sends[n] = 1)
        BY <3>1 DEF Clean, standsAlone, ownStands
      <3>5. matched(n)' => matched(n) /\ n \notin nameless /\ r \notin elsewhere'
        BY <1>2, <1>4, <2>2 DEF matched
      <3>6. matched(n)' /\ status'[r] # "none" => ext[n] # sends[n]
        BY <1>1, <1>8, <3>1, <3>5
      <3> QED
        BY <1>2, <1>4, <1>7, <2>2, <3>1, <3>2, <3>3, <3>4, <3>5, <3>6
           DEF Clean, standsAlone, ownStands, exists
    <2> QED
      BY <2>1, <2>2
  <1> QED
    BY <1>9, <1>11, <1>12

-----------------------------------------------------------------------------
\* A status job writes what it has in hand.
LEMMA Writes ==
  ASSUME OutboundTyped, RowsTrue, Ahead, \A n \in Msgs : Clean(n), NEW w \in Workers, writeStatus(w)
  PROVE  RowsTrue' /\ Ahead' /\ \A n \in Msgs : Clean(n)'
  <1>1. /\ UNCHANGED <<ext, elsewhere, nameless, known, job, sends, troubled, unmarked, raced>>
        /\ held'[w].rows = {} /\ held'[w].write # "QUEUED"
        /\ \A v \in Workers : v # w => held'[v] = held[v]
    BY HandRecords DEF writeStatus, sender, past, OutboundTyped
  <1>2. held[w].rows \subseteq Rows /\ held[w].write \in Statuses /\ held[w].write # "QUEUED"
    BY HandRecords DEF OutboundTyped, RowsTrue
  <1>3. \A r \in Rows : status'[r] = IF r \in held[w].rows /\ exists(r)
                                     THEN held[w].write ELSE status[r]
    BY DEF writeStatus
  <1>4. \A r \in Rows : exists(r) <=> exists(r)'
    BY <1>2, <1>3 DEF exists, Statuses
  <1>5. \A n \in Msgs : /\ Own(n) \in Rows /\ Latest(n) \in Rows /\ Latest(n)' = Latest(n)
                        /\ Own(n)[1] = n /\ Own(n)[2] = 0
    <2>1. \A n \in Msgs : Latest(n)' = Latest(n)
      BY <1>1 DEF Latest
    <2> QED
      BY <2>1, LatestPair, Pairs
  <1>6. \A v \in Workers : held[v].rows \subseteq Rows
    BY HandRecords DEF OutboundTyped
  <1>7. \A n \in Msgs : sends[n] = 0 => Own(n) \notin held[w].rows
    <2>1. SUFFICES ASSUME NEW n \in Msgs, Own(n) \in held[w].rows PROVE sends[n] # 0
      OBVIOUS
    <2>2. sends[n] > 0
      <3>1. \/ Own(n)[2] = 0 /\ sends[Own(n)[1]] > 0
            \/ Own(n)[2] > 0 /\ exists(Own(n))
        BY Zenon, <2>1 DEF RowsTrue
      <3>2. Own(n)[1] = n /\ Own(n)[2] = 0
        BY Pairs
      <3> QED
        BY <3>1, <3>2
    <2> QED
      BY <2>2
  <1>8. RowsTrue'
    <2>1. \A r \in Rows : r[2] # 0 => status'[r] # "QUEUED"
      BY <1>2, <1>3 DEF RowsTrue
    <2>2. \A m \in Msgs : sends[m] = 0 => status'[Own(m)] = status[Own(m)]
      BY <1>3, <1>5, <1>7
    <2>3. \A v \in Workers : held'[v].write # "QUEUED" /\ held'[v].rows \subseteq held[v].rows
      BY <1>1 DEF RowsTrue
    <2> QED
      BY <1>1, <1>4, <1>5, <1>6, <2>1, <2>2, <2>3 DEF RowsTrue
  <1>9. Ahead'
    <2> SUFFICES ASSUME NEW v \in Workers, NEW r \in held'[v].rows, r[1] \notin troubled, r \notin raced
                 PROVE  /\ order(held'[v].write) >= order(status'[r])
                        /\ status'[r] = "READ" => held'[v].write = "READ"
                        /\ \A u \in Workers : r \in held'[u].rows => u = v
      BY <1>1 DEF Ahead
    <2>1. v # w /\ held'[v] = held[v] /\ r \in Rows
      BY <1>1, <1>6
    <2>2. r \notin held[w].rows
      BY <2>1 DEF Ahead
    <2>3. status'[r] = status[r]
      BY <1>3, <2>1, <2>2
    <2> QED
      BY <1>1, <2>1, <2>3 DEF Ahead
  <1>10. ASSUME NEW n \in Msgs PROVE Clean(n)'
    <2>1. n \notin troubled /\ ext[n] = 0 => status'[Own(n)] = status[Own(n)]
      BY <1>3, <1>5 DEF Clean
    <2>2. status'[Own(n)] \in {status[Own(n)]} \union (Statuses \ {"QUEUED"})
      BY <1>2, <1>3, <1>5
    <2>3. n \notin troubled /\ job[n] = "failed" => ext[n] = 0
      BY DEF Clean
    <2>4. \A v \in Workers : held'[v].rows \subseteq held[v].rows
      BY <1>1
    <2> QED
      BY <1>1, <1>4, <1>5, <2>1, <2>2, <2>3, <2>4
         DEF Clean, standsAlone, ownStands, matched, taken, exists, Statuses
  <1> QED
    BY <1>8, <1>9, <1>10

\* A status job takes rows in hand.
LEMMA Takes ==
  ASSUME OutboundTyped, RowsTrue, Ahead, \A n \in Msgs : Clean(n), NEW w \in Workers, Hook(w),
         ~writeStatus(w)
  PROVE  RowsTrue' /\ Ahead' /\ (\A n \in Msgs : Clean(n)') /\ UNCHANGED status
  <1>1. PICK rs \in SUBSET Rows, s \in Statuses \ {"QUEUED"} : 
            /\ takes(w, rs, s)
            /\ \A r \in rs : /\ order(s) >= order(status[r])
                             /\ status[r] = "READ" => s = "READ"
                             /\ \/ status[r] \in {"SENT", "DELIVERED"}
                                \/ r[2] = 0 /\ ext[r[1]] > 0
                                \/ r[2] > 0 /\ exists(r)
    BY HookTakes
  <1>2. /\ UNCHANGED <<status, ext, elsewhere, nameless, known, job, sends, troubled, unmarked>>
        /\ raced' = raced \union (rs \intersect inHand)
        /\ held'[w].rows = rs /\ held'[w].write = s
        /\ \A v \in Workers : v # w => held'[v] = held[v]
    BY <1>1, HandRecords DEF takes, rows, sender, past, OutboundTyped
  <1>3. \A r \in rs : r[1] \in Msgs /\ r[2] \in Nat /\ sends[r[1]] \in Nat /\ ext[r[1]] \in Nat
                      /\ ext[r[1]] <= sends[r[1]] /\ (r[2] = 0 => r = Own(r[1]))
    BY Pairs, Numbers DEF OutboundTyped, RowsTrue
  <1>4. \A r \in rs : \/ r[2] = 0 /\ sends[r[1]] > 0
                      \/ r[2] > 0 /\ exists(r)
    <2> SUFFICES ASSUME NEW r \in rs
                 PROVE  \/ r[2] = 0 /\ sends[r[1]] > 0
                        \/ r[2] > 0 /\ exists(r)
      OBVIOUS
    <2>0. \/ status[r] \in {"SENT", "DELIVERED"}
          \/ r[2] = 0 /\ ext[r[1]] > 0
          \/ r[2] > 0 /\ exists(r)
      BY Zenon, <1>1
    <2>1. /\ r[1] \in Msgs /\ r[2] \in Nat /\ sends[r[1]] \in Nat /\ ext[r[1]] \in Nat
          /\ ext[r[1]] <= sends[r[1]] /\ (r[2] = 0 => r = Own(r[1]))
      BY Zenon, <1>3
    <2>2. status[r] \in {"SENT", "DELIVERED"} => exists(r)
      BY DEF exists
    <2>3. r[2] = 0 /\ sends[r[1]] = 0 => status[r] \in {"none", "QUEUED", "FAILED"}
      BY <2>1 DEF RowsTrue
    <2>4. CASE r[2] = 0
      <3>1. status[r] \in {"SENT", "DELIVERED"} \/ ext[r[1]] > 0
        BY <2>0, <2>4
      <3>2. sends[r[1]] # 0
        BY <2>1, <2>3, <2>4, <3>1
      <3> QED
        BY <2>1, <2>4, <3>2
    <2>5. CASE r[2] # 0
      <3>1. r[2] > 0
        BY <2>1, <2>5
      <3>2. exists(r)
        BY <2>0, <2>2, <2>5
      <3> QED
        BY <3>1, <3>2
    <2> QED
      BY <2>4, <2>5
  <1>5. RowsTrue'
    BY <1>1, <1>2, <1>4 DEF RowsTrue, exists, Own
  <1>6. \A v \in Workers : \A r \in held[v].rows : r \in rs => r \in raced'
    BY <1>2 DEF inHand
  <1>7. Ahead'
    BY <1>1, <1>2, <1>6 DEF Ahead
  <1>8. ASSUME NEW n \in Msgs PROVE Clean(n)'
    <2>1. n \notin troubled /\ ext[n] = 0 => Own(n) \notin rs
      <3> SUFFICES ASSUME n \notin troubled, ext[n] = 0, Own(n) \in rs PROVE FALSE
        OBVIOUS
      <3>1. Own(n)[1] = n /\ Own(n)[2] = 0
        BY Pairs
      <3>2. \/ status[Own(n)] \in {"SENT", "DELIVERED"}
            \/ Own(n)[2] = 0 /\ ext[Own(n)[1]] > 0
            \/ Own(n)[2] > 0 /\ exists(Own(n))
        BY Zenon, <1>1
      <3>3. status[Own(n)] \in {"none", "QUEUED", "FAILED"}
        BY DEF Clean
      <3> QED
        BY <3>1, <3>2, <3>3
    <2>2. Latest(n)' = Latest(n) /\ Own(n)' = Own(n)
      BY <1>2 DEF Latest, Own
    <2> QED
      BY <1>2, <2>1, <2>2 DEF Clean, standsAlone, ownStands, matched, taken, exists
  <1> QED
    BY <1>2, <1>5, <1>7, <1>8

-----------------------------------------------------------------------------
Invariant == OutboundTyped /\ Budget /\ RowsTrue /\ Ahead /\ \A m \in Msgs : Clean(m)

LEMMA InvariantInit == OutboundInit => Invariant
  <1> SUFFICES ASSUME OutboundInit PROVE RowsTrue /\ Ahead /\ \A m \in Msgs : Clean(m)
    BY OutboundTypedInit DEF Invariant
  <1>1. OutboundTyped /\ \A w \in Workers : held[w].rows = {} /\ held[w].write # "QUEUED"
    BY OutboundTypedInit, HandRecords DEF OutboundInit
  <1>2. \A r \in Rows : status[r] = "none"
    BY DEF OutboundInit
  <1> QED
    BY <1>1, <1>2, Pairs DEF OutboundInit, RowsTrue, Ahead, Clean, exists

LEMMA InvariantStep == Invariant /\ [OutboundNext]_outboundVars => Invariant'
  <1> SUFFICES ASSUME Invariant, [OutboundNext]_outboundVars
               PROVE  RowsTrue' /\ Ahead' /\ \A n \in Msgs : Clean(n)'
    BY OutboundTypedStep DEF Invariant
  <1>0. OutboundTyped /\ RowsTrue /\ Ahead /\ \A n \in Msgs : Clean(n)
    BY DEF Invariant
  <1>1. ASSUME NEW m \in Msgs,
               queue(m) \/ Send(m) \/ prepareFails(m) \/ sendFails(m) \/ breaksOff(m) \/ crash(m)
        PROVE  RowsTrue' /\ Ahead' /\ \A n \in Msgs : Clean(n)'
    <2>1. RowsTrue' /\ Ahead' /\ Only(m)
      BY <1>0, <1>1, RowsTrueSender, AheadSender, OnlyOne
    <2>2. Clean(m)'
      BY <1>0, <1>1, CleanSender
    <2>3. ASSUME NEW n \in Msgs, n # m PROVE Clean(n)'
      BY <1>0, <2>1, <2>3, CleanOther
    <2> QED
      BY <2>1, <2>2, <2>3
  <1>2. ASSUME NEW w \in Workers, Hook(w)
        PROVE  RowsTrue' /\ Ahead' /\ \A n \in Msgs : Clean(n)'
    BY <1>0, <1>2, Writes, Takes
  <1>3. CASE UNCHANGED outboundVars
    BY <1>0, <1>3 DEF outboundVars, rows, sender, past, bounds, RowsTrue, Ahead, Clean,
       standsAlone, ownStands, matched, taken, exists, Latest
  <1> QED
    BY <1>0, <1>1, <1>2, <1>3, Echoes DEF OutboundNext

LEMMA OutboundInvariant == OutboundSpec => []Invariant
  BY InvariantInit, InvariantStep, PTL DEF OutboundSpec

\* A message is sent again only after an attempt that was cut off.
THEOREM EchoRaceHolds == OutboundSpec => []EchoRaceDoesNotResend
  <1>1. Invariant => EchoRaceDoesNotResend
    <2> SUFFICES ASSUME Invariant, NEW m \in Msgs, m \notin troubled PROVE ~(sends[m] > 1)
      BY DEF EchoRaceDoesNotResend
    <2>1. job[m] \in Jobs /\ Clean(m)
      BY DEF Invariant, OutboundTyped
    <2>2. sends[m] \in {0, 1}
      BY <2>1 DEF Clean, Jobs
    <2> QED
      BY <2>2
  <1> QED
    BY <1>1, OutboundInvariant, PTL

\* FAILED tells the operator that the customer has not got the message.
THEOREM FailedHolds == OutboundSpec => []FailedIsNotSent
  <1>1. Invariant => FailedIsNotSent
    BY DEF Invariant, Clean, FailedIsNotSent
  <1> QED
    BY <1>1, OutboundInvariant, PTL

\* The echo, whenever it comes, leaves one row of each message whose answer bore an
\* id and whose echo did not go astray.
THEOREM OneRowHolds == OutboundSpec => []SentOnceIsOneRow
  <1>1. Invariant => SentOnceIsOneRow
    <2> SUFFICES ASSUME Invariant, NEW m \in Msgs, job[m] = "completed",
                        m \notin troubled \union unmarked
                 PROVE  /\ status[Own(m)] # "QUEUED"
                        /\ matched(m) => /\ \E r \in rowsOf(m) : rowsOf(m) = {r}
                                         /\ Latest(m) \in known
      BY DEF SentOnceIsOneRow
    <2>0. Clean(m)
      BY DEF Invariant
    <2>a. CASE ~matched(m)
      BY <2>0, <2>a DEF Clean, ownStands
    <2>b. SUFFICES ASSUME matched(m)
                   PROVE  /\ status[Own(m)] # "QUEUED"
                          /\ \E r \in rowsOf(m) : rowsOf(m) = {r}
                          /\ Latest(m) \in known
      BY <2>a
    <2>1. standsAlone(m) /\ sends[m] = 1 /\ Latest(m) \in known
      BY <2>0, <2>b DEF Clean, matched
    <2>2. /\ Own(m) \in Rows /\ Latest(m) \in Rows /\ Own(m)[1] = m /\ Own(m)[2] = 0
          /\ Latest(m)[1] = m /\ Latest(m)[2] = 1
      BY <2>1, Pairs, LatestPair DEF Invariant
    <2>3. \A r : r \in rowsOf(m) <=> r \in Rows /\ r[1] = m /\ exists(r)
      BY DEF rowsOf, Rows
    <2>4. \A r \in Rows : r[1] = m /\ exists(r) => r = Own(m) \/ r = Latest(m)
      <3> SUFFICES ASSUME NEW r \in Rows, r[1] = m, exists(r) PROVE r = Own(m) \/ r = Latest(m)
        OBVIOUS
      <3>1. r[2] \in Nat
        BY Pairs, Numbers
      <3>2. ~(r[2] > sends[r[1]])
        BY DEF Invariant, RowsTrue
      <3>3. r[2] = 0 \/ r[2] = 1
        BY <2>1, <3>1, <3>2
      <3> QED
        BY <2>2, <3>3, Pairs
    <2>5. CASE ext[m] = 1 /\ status[Own(m)] \notin {"none", "QUEUED"} /\ ~exists(Latest(m))
      <3>1. Own(m) \in rowsOf(m)
        BY <2>2, <2>3, <2>5 DEF exists
      <3>2. rowsOf(m) = {Own(m)}
        BY <2>3, <2>4, <2>5, <3>1
      <3> QED
        BY <2>1, <2>5, <3>1, <3>2
    <2>6. CASE ext[m] = 0 /\ ~exists(Own(m)) /\ exists(Latest(m))
      <3>1. Latest(m) \in rowsOf(m) /\ status[Latest(m)] # "QUEUED"
        <4>1. Latest(m)[2] # 0
          BY <2>2
        <4>2. status[Latest(m)] # "QUEUED"
          BY <2>2, <4>1 DEF Invariant, RowsTrue
        <4> QED
          BY <2>2, <2>3, <2>6, <4>2
      <3>2. rowsOf(m) = {Latest(m)}
        BY <2>3, <2>4, <2>6, <3>1
      <3> QED
        BY <2>1, <2>6, <3>1, <3>2 DEF exists
    <2> QED
      BY <2>1, <2>5, <2>6 DEF standsAlone
  <1> QED
    BY <1>1, OutboundInvariant, PTL

\* No status of an undisturbed message falls back, whoever writes it.
THEOREM StatusHolds == OutboundSpec => StatusNeverRegresses
  <1> DEFINE keeps(m, r) ==
        \/ m \in troubled \/ r \in raced
        \/ status'[r] = "none"
        \/ order(status'[r]) >= order(status[r]) /\ (status[r] = "READ" => status'[r] = "READ")
        \/ r = Own(m) /\ status[r] = "FAILED" /\ ext[m] = 0
  <1>1. ASSUME Invariant, [OutboundNext]_outboundVars, NEW n \in Msgs, NEW r \in {n} \X (0..MaxSends)
        PROVE  keeps(n, r)
    <2>0. r \in Rows /\ r[1] = n /\ status[r] \in Statuses \union {"none"} /\ OutboundTyped /\ Clean(n)
      BY <1>1 DEF Rows, Invariant, OutboundTyped
    <2>1. \A s \in Statuses \union {"none"} : order(s) >= order(s)
      BY DEF order, Statuses
    <2>2. CASE status'[r] = status[r]
      BY <2>0, <2>1, <2>2
    <2>3. ASSUME NEW m \in Msgs,
                 queue(m) \/ Send(m) \/ prepareFails(m) \/ sendFails(m) \/ breaksOff(m) \/ crash(m),
                 status'[r] # status[r], n \notin troubled
          PROVE  keeps(n, r)
      <3>1. r = Own(m)
        BY <2>0, <2>3, OnlyOne DEF Only
      <3>2. m = n
        BY <2>0, <3>1, Pairs
      <3>3. /\ job[m] \notin {"marking", "completed"}
            /\ status'[r] \in {"none", "QUEUED", "SENT", "FAILED"}
            /\ status'[r] = "QUEUED" => job[m] = "none"
        BY <2>0, <2>3, <3>1 DEF OutboundTyped, queue, Send, sendMessage, persist, merge, markProcessed,
           fail, prepareFails, sendFails, breaksOff, crash, rows
      <3>4. ext[m] = 0 /\ status[r] \in {"none", "QUEUED", "FAILED"}
        BY <2>0, <2>3, <3>1, <3>2, <3>3 DEF Clean
      <3> QED
        BY <3>1, <3>2, <3>3, <3>4 DEF order
    <2>4. ASSUME NEW m \in Msgs, NEW q \in issued(m), echo(q), status'[r] # status[r]
          PROVE  keeps(n, r)
      <3>1. q \in Rows
        BY <2>0, <2>4, Issued
      <3>2. status' = status \/ (~exists(q) /\ status' = [status EXCEPT ![q] = "SENT"])
        <4>1. ~exists(q)
          BY <1>1, <2>4, EchoFresh DEF Invariant
        <4> QED
          BY <2>4, <4>1 DEF echo
      <3>3. status[r] = "none" /\ status'[r] = "SENT"
        BY <2>0, <2>4, <3>1, <3>2 DEF OutboundTyped, exists
      <3> QED
        BY <3>3 DEF order
    <2>5. ASSUME NEW w \in Workers, writeStatus(w), status'[r] # status[r]
          PROVE  keeps(n, r)
      <3>1. r \in held[w].rows /\ status'[r] = held[w].write
        BY <2>0, <2>5 DEF writeStatus
      <3> QED
        BY <1>1, <2>0, <3>1 DEF Invariant, Ahead
    <2>6. ASSUME NEW w \in Workers, Hook(w), ~writeStatus(w) PROVE status' = status
      BY <1>1, <2>6, Takes DEF Invariant
    <2>7. UNCHANGED outboundVars => status' = status
      BY DEF outboundVars, rows
    <2> QED
      BY <1>1, <2>2, <2>3, <2>4, <2>5, <2>6, <2>7 DEF OutboundNext
  <1>2. Invariant /\ [OutboundNext]_outboundVars =>
          [\A m \in Msgs : \A r \in {m} \X (0..MaxSends) : keeps(m, r)]_outboundVars
    BY <1>1
  <1> QED
    BY <1>2, OutboundInvariant, PTL DEF OutboundSpec, StatusNeverRegresses
=============================================================================
