----------------------- MODULE InboundPipelineProofs -----------------------
(***************************************************************************)
(* InboundPipeline for every set of webhooks, messages and conversations   *)
(* and every bound: the claim discipline, what a loss leaves behind, and   *)
(* one open conversation of a contact and one row of a message.            *)
(***************************************************************************)
EXTENDS InboundPipeline, TLAPS

\* A worker or an operator that writes to a conversation has resolved one that
\* exists, the worker one of its contact.
WithConversation == {"touch", "rotate", "reopen", "persist", "bot", "finish"}
Resolved ==
    /\ \A j \in Jobs : pc[j] \in WithConversation =>
          /\ conv[j] \in Conversations /\ exists(conv[j])
          /\ row[conv[j]].contact = contactOf(j)
    /\ \A r \in asked : exists(r.conv)

\* Only an active job has a worker, and only a failed one spent its attempts.
Working == \A j \in Jobs : pc[j] \in Holding <=> queue[j] = "active"
Budgeted == \A j \in Jobs : queue[j] # "failed" => attempts[j] < MaxAttempts

\* TypeOK is not inductive by itself: a write through an unresolved id would
\* leave ConvRow, and an attempt after the last would leave 0..MaxAttempts.
TInv == TypeOK /\ Resolved /\ Working /\ Budgeted

\* What a job is made of.
LEMMA JobsType ==
    \A j \in Jobs : j[1] \in Webhooks /\ msg(j) \in Messages /\ contactOf(j) \in Contacts
  BY InboundAssumption DEF Jobs, msg, contactOf

\* The initial states have the invariant.
LEMMA InitTInv == Init => TInv
  <1> SUFFICES ASSUME Init PROVE TInv
    OBVIOUS
  <1>1. row \in [Conversations -> ConvRow \union {Absent}]
    BY DEF Init, PriorRow, ConvRow, Windows, Statuses, OpenStates
  <1>2. TypeOK
    BY <1>1, InboundAssumption DEF Init, TypeOK, LockKeys, Holding
  <1>3. Resolved /\ Working /\ Budgeted
    BY InboundAssumption DEF Init, Resolved, WithConversation, Working, Holding, Budgeted
  <1> QED
    BY <1>2, <1>3 DEF TInv

\* A worker that goes on with the conversation it has.
LEMMA ResolvedKept ==
    ASSUME Resolved, NEW j \in Jobs, pc \in [Jobs -> Holding \union {"idle"}], NEW l,
           pc' = [pc EXCEPT ![j] = l], pc[j] \in WithConversation,
           conv' = conv, asked' = asked, asked \subseteq Requests,
           \A c \in Conversations : row[c].status # "absent" =>
               row'[c].status # "absent" /\ row'[c].contact = row[c].contact
    PROVE  Resolved'
  <1>1. ASSUME NEW i \in Jobs, pc'[i] \in WithConversation
        PROVE  /\ conv[i] \in Conversations /\ row'[conv[i]].status # "absent"
               /\ row'[conv[i]].contact = contactOf(i)
    BY <1>1 DEF Resolved, exists
  <1>2. \A r \in asked : row'[r.conv].status # "absent"
    BY DEF Resolved, exists, Requests
  <1> QED
    BY <1>1, <1>2 DEF Resolved, exists

\* Every step of the controller or of a worker on one job keeps it.
LEMMA JobTInv ==
    ASSUME TInv, NEW j \in Jobs, Enqueue(j) \/ Work(j) \/ Fail(j)
    PROVE  TInv'
  <1> USE DEF TInv, TypeOK, Resolved, Working, Budgeted, WithConversation, Holding,
              exists, redisVars, dbVars, workVars, history
  <1>a. msg(j) \in Messages /\ contactOf(j) \in Contacts /\ j[1] \in Webhooks
    BY JobsType
  <1>1. CASE Enqueue(j)
    BY <1>1 DEF Enqueue
  <1>2. CASE claimProcessing(j)
    BY <1>2, <1>a, InboundAssumption
       DEF claimProcessing, Goto, LockKeys, ConvRow, Absent, Windows, Statuses, OpenStates
  <1>3. CASE SkipDuplicate(j)
    BY <1>3, <1>a, InboundAssumption
       DEF SkipDuplicate, Mark, Leave, LockKeys, ConvRow, Absent, Windows, Statuses, OpenStates
  <1>4. CASE LockContact(j)
    BY <1>4, <1>a, InboundAssumption
       DEF LockContact, Lock, Acquire, Goto, LockKeys, ConvRow, Absent, Windows, Statuses, OpenStates
  <1>5. CASE CreateContact(j)
    BY <1>5, <1>a, InboundAssumption
       DEF CreateContact, Release, Goto, LockKeys, ConvRow, Absent, Windows, Statuses, OpenStates
  <1>6. CASE FindOpen(j)
    <2>1. CASE \E c \in openOf(contactOf(j)) : ~shouldRotate(c) /\ Reuse(j, c)
      <3>1. PICK c \in Conversations : isOpen(c) /\ row[c].contact = contactOf(j) /\ Reuse(j, c)
        BY <2>1 DEF openOf
      <3>2. row[c].status \in Statuses /\ exists(c)
        BY <3>1 DEF isOpen, Statuses, OpenStates, exists
      <3> QED
        BY <1>6, <3>1, <3>2 DEF FindOpen, Reuse, Goto
    <2>2. CASE Goto(j, "convLock") /\ UNCHANGED <<conv, seen>>
      BY <1>6, <2>2 DEF FindOpen, Goto
    <2> QED
      BY <1>6, <2>1, <2>2 DEF FindOpen
  <1>7. CASE LockConversation(j)
    BY <1>7, <1>a, InboundAssumption
       DEF LockConversation, Lock, Acquire, Goto, LockKeys, ConvRow, Absent, Windows, Statuses, OpenStates
  <1>8. CASE DecideUnderLock(j)
    <2>1. CASE \E c \in openOf(contactOf(j)) : Pick(j, "rotate", c)
      <3>1. PICK c \in Conversations :
              row[c].contact = contactOf(j) /\ exists(c) /\ Pick(j, "rotate", c)
        BY <2>1 DEF openOf, isOpen, OpenStates
      <3> QED
        BY <1>8, <3>1 DEF DecideUnderLock, Pick, Goto
    <2>2. CASE \E c \in openOf(contactOf(j)) : Reuse(j, c) /\ (UNCHANGED locks \/ Release(j))
      <3>1. PICK c \in Conversations : isOpen(c) /\ row[c].contact = contactOf(j) /\ Reuse(j, c)
        BY <2>2 DEF openOf
      <3>2. row[c].status \in Statuses /\ exists(c)
        BY <3>1 DEF isOpen, Statuses, OpenStates, exists
      <3>3. locks' \in [LockKeys -> Jobs \union {None}]
        BY <2>2 DEF Release
      <3> QED
        BY <1>8, <3>1, <3>2, <3>3 DEF DecideUnderLock, Reuse, Goto
    <2>3. CASE Pick(j, "convClosed", None)
      BY <1>8, <2>3 DEF DecideUnderLock, Pick, Goto
    <2> QED
      BY <1>8, <2>1, <2>2, <2>3 DEF DecideUnderLock, openOf
  <1>17. CASE FindLastClosed(j)
    <2>1. CASE \E c \in lastClosed(contactOf(j)) : Pick(j, "reopen", c)
      <3>1. PICK c \in Conversations :
              row[c].contact = contactOf(j) /\ exists(c) /\ Pick(j, "reopen", c)
        BY <2>1 DEF lastClosed, closedOf
      <3> QED
        BY <1>17, <3>1 DEF FindLastClosed, Pick, Goto
    <2>2. CASE Pick(j, "create", None)
      BY <1>17, <2>2 DEF FindLastClosed, Pick, Goto
    <2> QED
      BY <1>17, <2>1, <2>2 DEF FindLastClosed
  <1>9. CASE touchOpen(j) \/ ReopenClosed(j) \/ RouteToBot(j)
    <2>1. /\ row' \in [Conversations -> ConvRow \union {Absent}]
          /\ \A c \in Conversations : 
                row[c].status # "absent" => row'[c].status # "absent" /\ row'[c].contact = row[c].contact
      BY <1>9 DEF touchOpen, ReopenClosed, RouteToBot, ConvRow, Absent, Statuses, OpenStates
    <2>2. locks' \in [LockKeys -> Jobs \union {None}]
      BY <1>9 DEF touchOpen, ReopenClosed, RouteToBot, Release
    <2>3. blind' \subseteq Contacts
      BY <1>9, <1>a DEF touchOpen, ReopenClosed, RouteToBot, OpensUnseen, Blinded
    <2>4. \E l \in {"persist", "finish"} : pc' = [pc EXCEPT ![j] = l]
      BY <1>9 DEF touchOpen, ReopenClosed, RouteToBot, Goto
    <2>5. /\ UNCHANGED <<queue, attempts, conv, asked>> /\ pc[j] \in WithConversation
          /\ pc[j] \in Holding
      BY <1>9 DEF touchOpen, ReopenClosed, RouteToBot
    <2>6. seen' \in [Jobs -> Statuses \union {None}]
      BY <1>9 DEF touchOpen, ReopenClosed, RouteToBot, Statuses, OpenStates
    <2>10. /\ claims' \subseteq Messages /\ orphaned' = orphaned
           /\ clock' = clock /\ UNCHANGED <<delivered, event, contacts, stored>>
           /\ UNCHANGED <<dispatched, crashes, ops>>
      BY <1>9 DEF touchOpen, ReopenClosed, RouteToBot
    <2>11. pc' \in [Jobs -> Holding \union {"idle"}]
      BY <2>4
    <2>7. TypeOK'
      <3>1. TypeOK
        OBVIOUS
      <3> HIDE DEF TInv, Resolved, Working, Budgeted, WithConversation, Holding, exists
      <3> QED
        BY <2>1, <2>2, <2>3, <2>5, <2>6, <2>10, <2>11, <3>1
    <2>8. Resolved'
      <3> HIDE DEF Resolved, WithConversation, Holding
      <3> QED
        BY <2>1, <2>4, <2>5, ResolvedKept
    <2>9. Working' /\ Budgeted'
      BY <2>4, <2>5
    <2> QED
      BY <2>7, <2>8, <2>9
  <1>10. CASE closeForExpiredWindow(j) \/ PersistMessage(j)
    <2>1. /\ row' \in [Conversations -> ConvRow \union {Absent}]
          /\ \A c \in Conversations : 
                row[c].status # "absent" => row'[c].status # "absent" /\ row'[c].contact = row[c].contact
      BY <1>10 DEF closeForExpiredWindow, PersistMessage, ConvRow, Absent, Windows, Statuses, OpenStates
    <2>2. \E l \in {"create", "bot", "finish"} :
             pc' = [pc EXCEPT ![j] = l]
      BY <1>10 DEF closeForExpiredWindow, PersistMessage, Goto
    <2>3. /\ UNCHANGED <<queue, attempts, conv, asked>> /\ pc[j] \in WithConversation
          /\ pc[j] \in Holding
      BY <1>10 DEF closeForExpiredWindow, PersistMessage
    <2>4. TypeOK'
      BY <1>10, <1>a, <2>1, <2>2 DEF closeForExpiredWindow, PersistMessage
    <2>5. Resolved'
      <3> HIDE DEF Resolved, WithConversation, Holding
      <3> QED
        BY <2>1, <2>2, <2>3, ResolvedKept
    <2>6. Working' /\ Budgeted'
      BY <2>2, <2>3
    <2> QED
      BY <2>4, <2>5, <2>6
  <1>12. CASE createNew(j)
    BY <1>12, <1>a, InboundAssumption
       DEF createNew, isFresh, Release, Goto, LockKeys, ConvRow, Absent, Windows, Statuses, OpenStates
  <1>15. CASE Finish(j)
    BY <1>15, <1>a, InboundAssumption
       DEF Finish, Mark, Leave, LockKeys, ConvRow, Absent, Windows, Statuses, OpenStates
  <1>16. CASE Fail(j)
    <2>1. queue[j] \in {"waiting", "active"}
      BY <1>16 DEF Fail, canThrow
    <2>2. attempts[j] + 1 \in 0..MaxAttempts
      BY <2>1, InboundAssumption
    <2>3. event' \in [Webhooks -> {"NONE", "RECEIVED", "PROCESSED", "FAILED"}]
      BY <1>16, <1>a DEF Fail, Mark
    <2>4. claims' \subseteq Messages /\ locks' \in [LockKeys -> Jobs \union {None}]
      BY <1>16 DEF Fail, releaseClaim, Release
    <2>5. CASE attempts[j] + 1 < MaxAttempts
      BY <1>16, <2>2, <2>3, <2>4, <2>5 DEF Fail, Leave
    <2>6. CASE ~(attempts[j] + 1 < MaxAttempts)
      BY <1>16, <2>2, <2>3, <2>4, <2>6 DEF Fail, Leave
    <2> QED
      BY <2>5, <2>6
  <1> QED
    BY <1>1, <1>2, <1>3, <1>4, <1>5, <1>6, <1>7, <1>8, <1>9, <1>10, <1>12, <1>15, <1>16, <1>17 DEF Work

\* The read of an operator's request.
LEMMA ReadTInv ==
    ASSUME TInv, NEW c \in Conversations, NEW to \in Statuses, readStatus(c, to)
    PROVE  TInv'
  <1> USE DEF TInv, TypeOK, redisVars, dbVars, workVars, history
  <1>1. row[c].status \in Statuses /\ exists(c)
    BY DEF readStatus, ValidTransitions, Statuses, OpenStates, exists
  <1>2. ops' \in 0..MaxOps /\ ops + 1 \in 1..MaxOps
    BY InboundAssumption DEF readStatus
  <1> DEFINE r == [n |-> ops + 1, conv |-> c, from |-> row[c].status, to |-> to]
  <1>3. r \in Requests /\ r.conv = c
    BY <1>1, <1>2 DEF Requests
  <1>4. asked' = asked \union {r}
    BY DEF readStatus
  <1>5. \A q \in asked' : q \in asked \/ q.conv = c
    BY <1>3, <1>4
  <1>6. asked' \subseteq Requests
    BY <1>3, <1>4
  <1> HIDE DEF r
  <1>7. TypeOK'
    BY <1>2, <1>6 DEF readStatus
  <1> QED
    BY <1>1, <1>5, <1>7 DEF readStatus, Resolved, Working, Budgeted, exists

\* Whoever writes an operator's or the default sector's status.
LEMMA StatusTInv ==
    ASSUME TInv, NEW c \in Conversations, exists(c), NEW to \in Statuses, NEW t \in Nat,
           row' = [row EXCEPT ![c].status = to, ![c].closedAt = t],
           clock' \in Nat, ops' \in 0..MaxOps, asked' \subseteq asked,
           blind' \subseteq blind \union {row[c].contact},
           UNCHANGED <<delivered, event, contacts, stored, redisVars, workVars,
                       dispatched, crashes, orphaned>>
    PROVE  TInv' /\ \A d \in Conversations : row'[d].contact = row[d].contact
  <1>1. row[c] \in ConvRow /\ row \in [Conversations -> ConvRow \union {Absent}]
    BY DEF exists, Absent, ConvRow, TInv, TypeOK
  <1>2. /\ row' \in [Conversations -> ConvRow \union {Absent}]
        /\ \A d \in Conversations : row[d].status # "absent" => row'[d].status # "absent"
        /\ \A d \in Conversations : row'[d].contact = row[d].contact
    BY <1>1 DEF ConvRow, Absent, Statuses, OpenStates, exists
  <1>3. row[c].contact \in Contacts
    BY <1>1 DEF ConvRow
  <1>4. TypeOK'
    BY <1>2, <1>3 DEF TInv, TypeOK, redisVars, workVars
  <1>5. UNCHANGED <<pc, queue, attempts, conv>>
    BY DEF workVars
  <1>6. Working' /\ Budgeted'
    BY <1>5 DEF TInv, Working, Budgeted
  <1>7. \A i \in Jobs : pc[i] \in WithConversation =>
           /\ conv[i] \in Conversations /\ row'[conv[i]].status # "absent"
           /\ row'[conv[i]].contact = contactOf(i)
    BY <1>2 DEF TInv, Resolved, exists
  <1>8. \A r \in asked' : row'[r.conv].status # "absent"
    BY <1>2 DEF TInv, TypeOK, Resolved, exists, Requests
  <1>9. Resolved'
    BY <1>5, <1>7, <1>8 DEF Resolved, exists, WithConversation
  <1> QED
    BY <1>2, <1>4, <1>6, <1>9 DEF TInv

LEMMA TransitionTInv ==
    ASSUME TInv, NEW r \in asked, writeStatus(r)
    PROVE  TInv'
  <1> DEFINE t == IF r.to = "CLOSED" THEN clock + 1
                  ELSE IF r.from = "CLOSED" THEN 0 ELSE row[r.conv].closedAt
  <1>1. /\ r.conv \in Conversations /\ r.to \in Statuses /\ exists(r.conv) /\ clock \in Nat
        /\ row \in [Conversations -> ConvRow \union {Absent}] /\ row[r.conv] \in ConvRow
        /\ ops \in 0..MaxOps
    BY DEF TInv, TypeOK, Resolved, Requests, exists, Absent
  <1>2. t \in Nat /\ clock' \in Nat /\ ops' = ops /\ asked' \subseteq asked
    BY <1>1 DEF ConvRow, writeStatus
  <1>3. row' = [row EXCEPT ![r.conv].status = r.to, ![r.conv].closedAt = t]
    BY <1>1 DEF writeStatus, ConvRow
  <1>4. blind' \subseteq blind \union {row[r.conv].contact}
    BY DEF writeStatus, Blinded
  <1>5. UNCHANGED <<delivered, event, contacts, stored, redisVars, workVars,
                    dispatched, crashes, orphaned>>
    BY DEF writeStatus
  <1> HIDE DEF t
  <1> QED
    BY <1>1, <1>2, <1>3, <1>4, <1>5, StatusTInv

LEMMA TransferTInv ==
    ASSUME TInv, NEW c \in Conversations, transferToDepartment(c)
    PROVE  TInv'
  <1>1. /\ exists(c) /\ clock \in Nat /\ row[c] \in ConvRow
        /\ row \in [Conversations -> ConvRow \union {Absent}]
    BY DEF transferToDepartment, exists, TInv, TypeOK, Absent
  <1>2. /\ row' = [row EXCEPT ![c].status = "PENDING", ![c].closedAt = row[c].closedAt]
        /\ row[c].closedAt \in Nat
    BY <1>1 DEF transferToDepartment, ConvRow
  <1>3. ops' \in 0..MaxOps
    BY InboundAssumption DEF transferToDepartment, TInv, TypeOK
  <1>4. blind' \subseteq blind \union {row[c].contact} /\ asked' \subseteq asked /\ clock' \in Nat
    BY <1>1 DEF transferToDepartment, Blinded
  <1>5. UNCHANGED <<delivered, event, contacts, stored, redisVars, workVars,
                    dispatched, crashes, orphaned>> /\ "PENDING" \in Statuses
    BY DEF transferToDepartment, Statuses, OpenStates
  <1> QED
    BY <1>1, <1>2, <1>3, <1>4, <1>5, StatusTInv

\* The passing of a 24 hour boundary changes two fields of a row that exists.
LEMMA DayPassesTInv ==
    ASSUME TInv, NEW c \in Conversations, DayPasses(c)
    PROVE  TInv'
  <1>1. row[c] \in ConvRow /\ row \in [Conversations -> ConvRow \union {Absent}]
    BY DEF DayPasses, Absent, ConvRow, TInv, TypeOK
  <1>2. \/ row' = [row EXCEPT ![c].window = "expired"]
        \/ row' = [row EXCEPT ![c].closedAt = 0]
    BY DEF DayPasses
  <1>3. /\ row' \in [Conversations -> ConvRow \union {Absent}]
        /\ \A d \in Conversations : exists(d) => exists(d)'
        /\ \A d \in Conversations : row'[d].contact = row[d].contact
    BY <1>1, <1>2 DEF ConvRow, Windows, Absent, exists
  <1>4. TypeOK'
    BY <1>3 DEF DayPasses, TInv, TypeOK, redisVars, workVars, history
  <1>5. Resolved' /\ Working' /\ Budgeted'
    BY <1>3 DEF DayPasses, TInv, TypeOK, Resolved, WithConversation, Working, Budgeted,
       workVars, Requests
  <1> QED
    BY <1>4, <1>5 DEF TInv

\* Every other step preserves it as well.
LEMMA NextTInv == TInv /\ [Next]_vars => TInv'
  <1> SUFFICES ASSUME TInv, [Next]_vars PROVE TInv'
    OBVIOUS
  <1> USE DEF TInv, TypeOK, Resolved, Working, Budgeted, WithConversation, exists,
              redisVars, dbVars, workVars, history
  <1>1. ASSUME NEW w \in Webhooks, Record(w) PROVE TInv'
    BY <1>1 DEF Record
  <1>2. ASSUME NEW j \in Jobs, Enqueue(j) \/ Work(j) \/ Fail(j) PROVE TInv'
    BY <1>2, JobTInv
  <1>3. ASSUME NEW c \in Conversations, NEW to \in Statuses, readStatus(c, to) PROVE TInv'
    BY <1>3, ReadTInv
  <1>8. ASSUME transition PROVE TInv'
    BY <1>8, TransitionTInv DEF transition
  <1>9. ASSUME NEW c \in Conversations, transferToDepartment(c) PROVE TInv'
    BY <1>9, TransferTInv
  <1>4. ASSUME NEW l \in LockKeys, Lapse(l) PROVE TInv'
    BY <1>4 DEF Lapse
  <1>5. CASE Crash
    <2>1. orphaned' \subseteq Messages
      BY <1>5, JobsType DEF Crash
    <2> QED
      BY <1>5, <2>1, InboundAssumption DEF Crash, Holding
  <1>6. ASSUME NEW c \in Conversations, DayPasses(c) PROVE TInv'
    BY <1>6, DayPassesTInv
  <1>7. CASE UNCHANGED vars
    BY <1>7 DEF vars
  <1> QED
    BY <1>1, <1>2, <1>3, <1>4, <1>5, <1>6, <1>7, <1>8, <1>9 DEF Next

\* Type correctness of the pipeline, for every value of the constants.
THEOREM TypeCorrect == Spec => []TypeOK
  <1>1. TInv => TypeOK
    BY DEF TInv
  <1> QED
    BY <1>1, InitTInv, NextTInv, PTL DEF Spec

-----------------------------------------------------------------------------
\* What the claim discipline sees of a step: between its claim and its end a
\* worker only moves; operators, locks and webhooks leave claims and jobs alone.
Moves(j) ==
    /\ pc[j] \in Holding \ {"finish"}
    /\ \E l \in Holding : Goto(j, l)
    /\ UNCHANGED <<event, queue, claims, dispatched, orphaned>>

Unseen ==
    /\ \A w \in Webhooks : event'[w] = "PROCESSED" => event[w] = "PROCESSED"
    /\ UNCHANGED <<pc, claims, dispatched, orphaned>>
    /\ \/ UNCHANGED queue
       \/ \E j \in Jobs : queue[j] = "absent" /\ queue' = [queue EXCEPT ![j] = "waiting"]

LEMMA MiddleMoves ==
    ASSUME NEW j \in Jobs, Work(j)
    PROVE  claimProcessing(j) \/ SkipDuplicate(j) \/ Finish(j) \/ Moves(j)
  <1> USE DEF Moves, Goto, Holding, dbVars, redisVars, history
  <1>1. CASE LockContact(j) \/ CreateContact(j) \/ LockConversation(j)
    BY <1>1 DEF LockContact, CreateContact, LockConversation
  <1>2. CASE FindOpen(j)
    BY <1>2 DEF FindOpen, Reuse
  <1>3. CASE DecideUnderLock(j)
    BY <1>3 DEF DecideUnderLock, Pick, Reuse
  <1>7. CASE FindLastClosed(j)
    BY <1>7 DEF FindLastClosed, Pick
  <1>4. CASE touchOpen(j) \/ closeForExpiredWindow(j) \/ ReopenClosed(j)
    BY <1>4 DEF touchOpen, closeForExpiredWindow, ReopenClosed
  <1>5. CASE createNew(j)
    BY <1>5 DEF createNew
  <1>6. CASE PersistMessage(j) \/ RouteToBot(j)
    BY <1>6 DEF PersistMessage, RouteToBot
  <1> QED
    BY <1>1, <1>2, <1>3, <1>4, <1>5, <1>6, <1>7 DEF Work

LEMMA StepsSeen ==
    ASSUME TInv, [Next]_vars
    PROVE  \/ Unseen
           \/ Crash
           \/ \E j \in Jobs : claimProcessing(j) \/ SkipDuplicate(j) \/ Finish(j)
                              \/ Fail(j) \/ Moves(j)
  <1>1. ASSUME NEW w \in Webhooks, Record(w) PROVE Unseen
    BY <1>1 DEF Record, Unseen, TInv, TypeOK, redisVars, workVars, history
  <1>2. ASSUME NEW j \in Jobs, Enqueue(j) PROVE Unseen
    BY <1>2 DEF Enqueue, Unseen, dbVars, redisVars, history
  <1>3. ASSUME \/ \E c \in Conversations, to \in Statuses : readStatus(c, to)
               \/ transition
               \/ \E c \in Conversations : transferToDepartment(c)
        PROVE  Unseen
    BY <1>3 DEF readStatus, transition, writeStatus, transferToDepartment, Unseen, dbVars,
       redisVars, workVars, history
  <1>4. ASSUME NEW l \in LockKeys, Lapse(l) PROVE Unseen
    BY <1>4 DEF Lapse, Unseen, dbVars, workVars, history
  <1>5. ASSUME NEW c \in Conversations, DayPasses(c) PROVE Unseen
    BY <1>5 DEF DayPasses, Unseen, redisVars, workVars, history
  <1>6. CASE UNCHANGED vars
    BY <1>6 DEF vars, Unseen, dbVars, redisVars, workVars, history
  <1> QED
    BY <1>1, <1>2, <1>3, <1>4, <1>5, <1>6, MiddleMoves DEF Next

-----------------------------------------------------------------------------
\* ClaimBacked is inductive once type correctness ties "past claimProcessing"
\* to "active", which is what a crash puts back.
LEMMA ClaimBackedStep ==
    ASSUME ~ReleaseMayFail, TInv, ClaimBacked, [Next]_vars
    PROVE  ClaimBacked'
  <1> USE DEF ClaimBacked, TInv, TypeOK, history
  <1>1. CASE Unseen
    BY <1>1 DEF Unseen
  <1>2. CASE Crash
    BY <1>2 DEF Crash, Working, dbVars, redisVars
  <1>3. ASSUME NEW j \in Jobs, Moves(j) PROVE ClaimBacked'
    BY <1>3 DEF Moves, Goto
  <1>4. ASSUME NEW j \in Jobs, claimProcessing(j) PROVE ClaimBacked'
    BY <1>4 DEF claimProcessing, Goto, Holding
  <1>5. ASSUME NEW j \in Jobs, SkipDuplicate(j) PROVE ClaimBacked'
    <2>1. pc[j] \notin Holding
      BY <1>5 DEF SkipDuplicate, Working
    <2> QED
      BY <1>5, <2>1 DEF SkipDuplicate, Leave, redisVars
  <1>6. ASSUME NEW j \in Jobs, Finish(j) PROVE ClaimBacked'
    BY <1>6, JobsType DEF Finish, Leave, redisVars
  <1>7. ASSUME NEW j \in Jobs, Fail(j) PROVE ClaimBacked'
    BY <1>7 DEF Fail, releaseClaim, Leave
  <1> QED
    BY <1>1, <1>2, <1>3, <1>4, <1>5, <1>6, <1>7, StepsSeen

\* A claim in Redis is backed, whatever the bounds, as long as the DEL of
\* releaseClaim works.
THEOREM ClaimsAreBacked == ~ReleaseMayFail /\ Spec => []ClaimBacked
  <1> SUFFICES ASSUME ~ReleaseMayFail PROVE Spec => []ClaimBacked
    OBVIOUS
  <1>1. Init => TInv /\ ClaimBacked
    BY InitTInv DEF Init, ClaimBacked
  <1>2. TInv /\ ClaimBacked /\ [Next]_vars => (TInv /\ ClaimBacked)'
    BY NextTInv, ClaimBackedStep
  <1> QED
    BY <1>1, <1>2, PTL DEF Spec

-----------------------------------------------------------------------------
\* LossIsVisible speaks of settled messages only.  Before that, a completed
\* job has left a dispatch or another job of its message behind, and an event
\* reads PROCESSED only when its job is completed.
OneMessagePerWebhook == \A w \in Webhooks : \A m, n \in Carries[w] : m = n

ProcessedIsCompleted ==
    \A j \in Jobs : event[j[1]] = "PROCESSED" => queue[j] = "completed"

CompletedIsBacked ==
    \A m \in Messages \ orphaned :
        (\E j \in Jobs : msg(j) = m /\ queue[j] = "completed") =>
            \/ dispatched[m] > 0
            \/ \E j \in Jobs : msg(j) = m /\ queue[j] \in {"waiting", "active", "failed"}

LInv == TInv /\ ClaimBacked /\ ProcessedIsCompleted /\ CompletedIsBacked

\* With one message to a webhook, a job is known by its webhook.
LEMMA JobOfWebhook ==
    ASSUME OneMessagePerWebhook, NEW i \in Jobs, NEW j \in Jobs, i[1] = j[1]
    PROVE  i = j
  BY DEF OneMessagePerWebhook, Jobs

LEMMA ProcessedStep ==
    ASSUME OneMessagePerWebhook, TInv, ProcessedIsCompleted, [Next]_vars
    PROVE  ProcessedIsCompleted'
  <1> USE JobsType, JobOfWebhook DEF ProcessedIsCompleted, TInv, TypeOK, history
  <1>1. CASE Unseen
    BY <1>1 DEF Unseen
  <1>2. CASE Crash
    BY <1>2 DEF Crash, dbVars
  <1>3. ASSUME NEW j \in Jobs, Moves(j) PROVE ProcessedIsCompleted'
    BY <1>3 DEF Moves
  <1>4. ASSUME NEW j \in Jobs, claimProcessing(j) PROVE ProcessedIsCompleted'
    BY <1>4 DEF claimProcessing, dbVars
  <1>5. ASSUME NEW j \in Jobs, SkipDuplicate(j) \/ Finish(j) PROVE ProcessedIsCompleted'
    BY <1>5 DEF SkipDuplicate, Finish, Leave, Mark
  <1>6. ASSUME NEW j \in Jobs, Fail(j) PROVE ProcessedIsCompleted'
    <2>1. queue[j] # "completed"
      BY <1>6 DEF Fail, canThrow, Working
    <2> QED
      BY <1>6, <2>1 DEF Fail, Leave, Mark
  <1> QED
    BY <1>1, <1>2, <1>3, <1>4, <1>5, <1>6, StepsSeen

LEMMA CompletedStep ==
    ASSUME TInv, ClaimBacked, CompletedIsBacked, [Next]_vars
    PROVE  CompletedIsBacked'
  <1> USE JobsType DEF CompletedIsBacked, TInv, TypeOK, history
  <1>1. CASE Unseen
    BY <1>1 DEF Unseen
  <1>2. CASE Crash
    BY <1>2 DEF Crash
  <1>3. ASSUME NEW j \in Jobs, Moves(j) PROVE CompletedIsBacked'
    BY <1>3 DEF Moves
  <1>4. ASSUME NEW j \in Jobs, claimProcessing(j) PROVE CompletedIsBacked'
    BY <1>4 DEF claimProcessing
  <1>5. ASSUME NEW j \in Jobs, SkipDuplicate(j) PROVE CompletedIsBacked'
    <2>1. msg(j) \notin orphaned =>
             \/ dispatched[msg(j)] > 0
             \/ \E i \in Jobs : msg(i) = msg(j) /\ queue[i] = "active"
      BY <1>5 DEF SkipDuplicate, ClaimBacked, Working
    <2> QED
      BY <1>5, <2>1 DEF SkipDuplicate, Leave
  <1>6. ASSUME NEW j \in Jobs, Finish(j) PROVE CompletedIsBacked'
    BY <1>6 DEF Finish, Leave
  <1>7. ASSUME NEW j \in Jobs, Fail(j) PROVE CompletedIsBacked'
    BY <1>7 DEF Fail, Leave
  <1> QED
    BY <1>1, <1>2, <1>3, <1>4, <1>5, <1>6, <1>7, StepsSeen

\* No loss without a trace but to a crash: with releaseClaim's DEL working and
\* one message per webhook, a message that nothing works on any more was
\* dispatched or shows in the failed set and in its webhook event.
THEOREM LossesAreVisible ==
    ~ReleaseMayFail /\ OneMessagePerWebhook /\ Spec => []LossIsVisible
  <1> SUFFICES ASSUME ~ReleaseMayFail, OneMessagePerWebhook PROVE Spec => []LossIsVisible
    OBVIOUS
  <1>1. Init => LInv
    <2>1. ASSUME Init PROVE ClaimBacked /\ ProcessedIsCompleted /\ CompletedIsBacked
      BY <2>1, JobsType DEF Init, ClaimBacked, ProcessedIsCompleted, CompletedIsBacked
    <2> QED
      BY <2>1, InitTInv DEF LInv
  <1>2. LInv /\ [Next]_vars => LInv'
    BY NextTInv, ClaimBackedStep, ProcessedStep, CompletedStep DEF LInv
  <1>3. LInv => LossIsVisible
    <2> SUFFICES ASSUME LInv, NEW m \in Messages \ orphaned, settled(m) PROVE Visible(m)
      BY DEF LossIsVisible
    <2>1. PICK j \in Jobs : msg(j) = m /\ queue[j] \in {"completed", "failed"}
      BY DEF settled, jobsOf
    <2>2. CASE \E i \in jobsOf(m) : queue[i] = "failed"
      BY <2>2 DEF Visible, jobsOf, LInv, ProcessedIsCompleted
    <2>3. CASE \A i \in jobsOf(m) : queue[i] # "failed"
      BY <2>1, <2>3 DEF Visible, settled, jobsOf, LInv, CompletedIsBacked
    <2> QED
      BY <2>2, <2>3
  <1> QED
    BY <1>1, <1>2, <1>3, PTL DEF Spec

\* And a crash is the only exception: no claim is orphaned but by one.
THEOREM OnlyCrashesLose ==
    MaxCrashes = 0 /\ ~ReleaseMayFail /\ OneMessagePerWebhook /\ Spec => []NoSilentLoss
  <1> SUFFICES ASSUME MaxCrashes = 0, ~ReleaseMayFail, OneMessagePerWebhook
               PROVE  Spec => []NoSilentLoss
    OBVIOUS
  <1> DEFINE Untouched == crashes = 0 /\ orphaned = {}
  <1>1. Init => Untouched
    BY DEF Init
  <1>2. Untouched /\ [Next]_vars => Untouched'
    <2> SUFFICES ASSUME Untouched, [Next]_vars PROVE Untouched'
      OBVIOUS
    <2>1. ~Crash
      BY DEF Crash
    <2> QED
      BY <2>1, Zenon DEF Next, vars, Work, Record, Enqueue, claimProcessing, SkipDuplicate,
         LockContact, CreateContact, FindOpen, LockConversation, DecideUnderLock, FindLastClosed,
         touchOpen, closeForExpiredWindow, ReopenClosed, createNew, PersistMessage, RouteToBot,
         Finish, Fail, readStatus, transition, writeStatus, transferToDepartment, DayPasses,
         Lapse, history
  <1>3. LossIsVisible /\ Untouched => NoSilentLoss
    BY DEF LossIsVisible, NoSilentLoss
  <1>4. Spec => []LossIsVisible
    BY LossesAreVisible, Zenon
  <1> HIDE DEF Untouched
  <1> QED
    BY <1>1, <1>2, <1>3, <1>4, PTL DEF Spec

-----------------------------------------------------------------------------
\* The claim is a mutual exclusion: its holders are alone with their message,
\* which they have not dispatched yet, and a dispatched message keeps its claim.
ClaimIsExclusive ==
    /\ \A i \in Jobs : pc[i] \in Holding => msg(i) \in claims /\ dispatched[msg(i)] = 0
    /\ \A i, j \in Jobs :
          pc[i] \in Holding /\ pc[j] \in Holding /\ msg(i) = msg(j) => i = j
    /\ \A m \in Messages : dispatched[m] > 0 => m \in claims /\ dispatched[m] = 1

\* A worker whose SET NX fails deletes a key it does not own: without
\* ~ClaimMayThrow the Fail step breaks the first conjunct.
LEMMA ExclusiveStep ==
    ASSUME ~ClaimMayThrow, TInv, ClaimIsExclusive, [Next]_vars
    PROVE  ClaimIsExclusive'
  <1> USE JobsType DEF ClaimIsExclusive, TInv, TypeOK, history
  <1>1. CASE Unseen
    BY <1>1 DEF Unseen
  <1>2. CASE Crash
    BY <1>2 DEF Crash, Holding, redisVars
  <1>3. ASSUME NEW j \in Jobs, Moves(j) PROVE ClaimIsExclusive'
    BY <1>3 DEF Moves, Goto
  <1>4. ASSUME NEW j \in Jobs, claimProcessing(j) PROVE ClaimIsExclusive'
    BY <1>4 DEF claimProcessing, Goto
  <1>5. ASSUME NEW j \in Jobs, SkipDuplicate(j) PROVE ClaimIsExclusive'
    BY <1>5 DEF SkipDuplicate, Leave, Holding, redisVars
  <1>6. ASSUME NEW j \in Jobs, Finish(j) PROVE ClaimIsExclusive'
    <2>1. /\ pc[j] \in Holding
          /\ pc' = [pc EXCEPT ![j] = "idle"]
          /\ claims' = claims
          /\ dispatched' = [dispatched EXCEPT ![msg(j)] = @ + 1]
      BY <1>6 DEF Finish, Leave, Holding, redisVars
    <2>2. dispatched'[msg(j)] = 1 /\ msg(j) \in claims
      BY <2>1
    <2>3. "idle" \notin Holding
      BY DEF Holding
    <2> QED
      BY <2>1, <2>2, <2>3
  <1>7. ASSUME NEW j \in Jobs, Fail(j) PROVE ClaimIsExclusive'
    BY <1>7 DEF Fail, canThrow, releaseClaim, Leave, Holding
  <1> QED
    BY <1>1, <1>2, <1>3, <1>4, <1>5, <1>6, <1>7, StepsSeen

\* A redelivered or retried message reaches the AI at most once, as long as no
\* claim attempt fails with an error after another worker won it.
THEOREM DispatchIsUnique == ~ClaimMayThrow /\ Spec => []DispatchedOnce
  <1> SUFFICES ASSUME ~ClaimMayThrow PROVE Spec => []DispatchedOnce
    OBVIOUS
  <1>1. Init => TInv /\ ClaimIsExclusive
    <2> SUFFICES ASSUME Init PROVE ClaimIsExclusive
      BY InitTInv
    <2>1. \A i \in Jobs : pc[i] \notin Holding
      BY DEF Init, Holding
    <2>2. \A m \in Messages : ~(dispatched[m] > 0)
      BY DEF Init
    <2> QED
      BY <2>1, <2>2 DEF ClaimIsExclusive
  <1>2. TInv /\ ClaimIsExclusive /\ [Next]_vars => (TInv /\ ClaimIsExclusive)'
    BY NextTInv, ExclusiveStep
  <1>3. TInv /\ ClaimIsExclusive => DispatchedOnce
    BY DEF DispatchedOnce, ClaimIsExclusive, TInv, TypeOK
  <1> QED
    BY <1>1, <1>2, <1>3, PTL DEF Spec

-----------------------------------------------------------------------------
(***************************************************************************)
(* One conversation at a time.  For a contact none of whose conversations  *)
(* was written blindly, a conversation that a worker is about to write to, *)
(* or that stores a customer's message, is the contact's current one: no   *)
(* other is open, and if it was closed meanwhile it was closed last and    *)
(* recently, so that whoever comes finds or reopens it.                    *)
(***************************************************************************)
Carrying == {"touch", "reopen", "persist", "bot"}
SettingOut == {"convClosed", "rotate", "create"}

Current(c, k) ==
    /\ row[c].contact = k /\ exists(c) /\ ~shouldRotate(c)
    /\ openOf(k) \subseteq {c}
    /\ ~isOpen(c) => c \in lastClosed(k) /\ row[c].closedAt > 0

\* What is kept does not grow old; a worker that reopens sets closedAt itself.
Keeps(c, k) ==
    \/ \E j \in Jobs : pc[j] \in Carrying \ {"reopen"} /\ conv[j] = c /\ contactOf(j) = k
    \/ \E m \in Messages \ Echoes : <<c, m>> \in stored /\ Sender[m] = k

Holds(c, k) ==
    Keeps(c, k) \/ \E j \in Jobs : pc[j] = "reopen" /\ conv[j] = c /\ contactOf(j) = k

\* Whoever replaces a contact's conversation is alone with the contact.
Replaces(j) ==
    /\ pc[j] \in {"rotate", "create"} => \A c \in Conversations : ~Holds(c, contactOf(j))
    /\ pc[j] \in {"convClosed", "create"} => openOf(contactOf(j)) = {}
    /\ pc[j] = "rotate" => openOf(contactOf(j)) \subseteq {conv[j]} /\ shouldRotate(conv[j])

Orderly(k) ==
    /\ \A c \in openOf(k) : openOf(k) \subseteq {c} /\ row[c].closedAt # 1
    /\ \A c \in Conversations : Holds(c, k) => Current(c, k)
    /\ \A c \in Conversations : Keeps(c, k) => row[c].closedAt # 1
    /\ \A j \in Jobs : contactOf(j) = k => Replaces(j)

\* A worker inside the conversation lock has it.
LockOwned == \A j \in Jobs : pc[j] \in InConvLock => Lock("conv", j) = j

\* Without ManualReopen no operator asks for a CLOSED conversation.
NoneReopens == \A r \in asked : r.from # "CLOSED"

\* A closedAt stamp names one conversation of its contact.
Stamps ==
    /\ clock > 0
    /\ \A c \in Conversations : row[c].closedAt <= clock
    /\ \A c, d \in Conversations :
         /\ row[c].status = "CLOSED" /\ row[d].status = "CLOSED"
         /\ row[c].contact = row[d].contact
         /\ row[c].closedAt = row[d].closedAt /\ row[c].closedAt > 0
         => c = d

\* A customer's message keeps the window of its conversation open.
Fresh ==
    \A m \in Messages \ Echoes, c \in Conversations :
        <<c, m>> \in stored => row[c].window = "fresh"

CInv == Stamps /\ Fresh /\ \A k \in Contacts \ blind : Orderly(k)

SInv == TInv /\ LockOwned /\ NoneReopens /\ CInv

-----------------------------------------------------------------------------
\* The lock: as long as its TTL outlives the work under it, a worker inside has it.
LEMMA LockStep ==
    ASSUME ~LockMayLapse, TInv, LockOwned, [Next]_vars
    PROVE  LockOwned'
  <1> USE DEF LockOwned, InConvLock, Lock
  <1>0. /\ TypeOK /\ locks \in [LockKeys -> Jobs \union {None}]
        /\ pc \in [Jobs -> Holding \union {"idle"}]
        /\ \A j \in Jobs : <<"conv", contactOf(j)>> \in LockKeys
        /\ \A j \in Jobs : <<"contact", contactOf(j)>> \in LockKeys
        /\ None \notin Jobs
    BY JobsType, InboundAssumption DEF TInv, TypeOK, LockKeys
  <1>1. ASSUME NEW j \in Jobs, pc'[j] \notin InConvLock, UNCHANGED locks \/ Release(j),
               \A i \in Jobs \ {j} : pc'[i] = pc[i]
        PROVE  LockOwned'
    BY <1>0, <1>1 DEF Release
  <1>2. ASSUME NEW j \in Jobs, Enqueue(j) PROVE LockOwned'
    BY <1>2 DEF Enqueue, redisVars
  <1>3. ASSUME NEW j \in Jobs, claimProcessing(j) \/ SkipDuplicate(j) PROVE LockOwned'
    BY <1>0, <1>1, <1>3 DEF claimProcessing, SkipDuplicate, Leave, Goto, redisVars
  <1>4. ASSUME NEW j \in Jobs, LockContact(j) PROVE LockOwned'
    BY <1>0, <1>4 DEF LockContact, Acquire, Goto
  <1>5. ASSUME NEW j \in Jobs, LockConversation(j) PROVE LockOwned'
    BY <1>0, <1>5 DEF LockConversation, Acquire, Goto
  <1>6. ASSUME NEW j \in Jobs, FindOpen(j) PROVE LockOwned'
    <2>1. pc'[j] \notin InConvLock
      BY <1>0, <1>6 DEF FindOpen, Reuse, Goto
    <2>2. UNCHANGED locks /\ \A i \in Jobs \ {j} : pc'[i] = pc[i]
      BY <1>0, <1>6 DEF FindOpen, Reuse, Goto, redisVars
    <2> QED
      BY <1>1, <2>1, <2>2
  <1>7. ASSUME NEW j \in Jobs, DecideUnderLock(j) PROVE LockOwned'
    <2>1. pc[j] \in InConvLock
      BY <1>7 DEF DecideUnderLock
    <2>2. CASE UNCHANGED locks /\ \E l \in Holding : Goto(j, l)
      BY <1>0, <2>1, <2>2 DEF Goto
    <2>3. CASE \E c \in Conversations : Reuse(j, c) /\ Release(j)
      <3>1. pc'[j] \notin InConvLock /\ \A i \in Jobs \ {j} : pc'[i] = pc[i]
        BY <1>0, <2>3 DEF Reuse, Goto
      <3> QED
        BY <1>1, <2>3, <3>1
    <2> QED
      BY <1>7, <2>2, <2>3 DEF DecideUnderLock, Pick, Reuse, openOf, Holding
  <1>13. ASSUME NEW j \in Jobs, FindLastClosed(j) PROVE LockOwned'
    <2>1. pc[j] \in InConvLock /\ UNCHANGED locks /\ \E l \in Holding : Goto(j, l)
      BY <1>13 DEF FindLastClosed, Pick, Holding
    <2> QED
      BY <1>0, <2>1 DEF Goto
  <1>8. ASSUME NEW j \in Jobs,
               \/ CreateContact(j) \/ touchOpen(j) \/ ReopenClosed(j) \/ createNew(j)
               \/ PersistMessage(j) \/ RouteToBot(j) \/ Finish(j) \/ Fail(j)
        PROVE  LockOwned'
    <2>1. UNCHANGED locks \/ Release(j)
      BY <1>8 DEF CreateContact, touchOpen, ReopenClosed, createNew, PersistMessage, RouteToBot,
         Finish, Fail, redisVars
    <2>2. pc'[j] \notin InConvLock /\ \A i \in Jobs \ {j} : pc'[i] = pc[i]
      BY <1>0, <1>8 DEF CreateContact, touchOpen, ReopenClosed, createNew, PersistMessage,
         RouteToBot, Finish, Fail, Leave, Goto
    <2> QED
      BY <1>1, <2>1, <2>2
  <1>9. ASSUME NEW j \in Jobs, closeForExpiredWindow(j) PROVE LockOwned'
    BY <1>0, <1>9 DEF closeForExpiredWindow, Goto, redisVars
  <1>10. ASSUME NEW l \in LockKeys, Lapse(l) PROVE LockOwned'
    <2>1. ASSUME NEW j \in Jobs, pc[j] \in InConvLock PROVE l # <<"conv", contactOf(j)>>
      BY <1>10, <2>1 DEF Lapse, inside
    <2> QED
      BY <1>0, <1>10, <2>1 DEF Lapse, workVars
  <1>11. CASE Crash
    BY <1>11 DEF Crash
  <1>12. CASE \/ \E w \in Webhooks : Record(w)
              \/ \E c \in Conversations, to \in Statuses : readStatus(c, to)
              \/ transition
              \/ \E c \in Conversations : transferToDepartment(c)
              \/ \E c \in Conversations : DayPasses(c)
              \/ UNCHANGED vars
    BY <1>12 DEF Record, readStatus, transition, writeStatus, transferToDepartment, DayPasses,
       vars, redisVars, workVars
  <1> QED
    BY <1>2, <1>3, <1>4, <1>5, <1>6, <1>7, <1>8, <1>9, <1>10, <1>11, <1>12, <1>13 DEF Next, Work

-----------------------------------------------------------------------------
\* Lemmas about the rows alone.
Rows ==
    \A c \in Conversations :
        /\ row[c].closedAt \in Nat
        /\ row[c].status \in Statuses \union {"absent"}
        /\ exists(c) => row[c].contact \in Contacts
        /\ ~exists(c) => row[c].contact \notin Contacts

LEMMA RowsTyped == TypeOK => Rows /\ clock \in Nat
  BY InboundAssumption DEF TypeOK, Rows, ConvRow, Absent, exists, Statuses, OpenStates

\* A contact has one current conversation at most.
LEMMA CurrentIsOne ==
    ASSUME Rows, Stamps, NEW k, NEW c \in Conversations, NEW d \in Conversations,
           Current(c, k), Current(d, k)
    PROVE  c = d
  <1>1. CASE isOpen(c)
    BY <1>1 DEF Current, openOf
  <1>2. CASE isOpen(d)
    BY <1>2 DEF Current, openOf
  <1>3. CASE ~isOpen(c) /\ ~isOpen(d)
    <2>1. c \in lastClosed(k) /\ d \in lastClosed(k) /\ row[c].closedAt > 0
      BY <1>3 DEF Current
    <2>2. row[c].closedAt <= row[d].closedAt /\ row[d].closedAt <= row[c].closedAt
      BY <2>1 DEF lastClosed
    <2>3. row[c].closedAt = row[d].closedAt
      <3>1. row[c].closedAt \in Nat /\ row[d].closedAt \in Nat
        BY DEF Rows
      <3> QED
        BY <2>2, <3>1
    <2> QED
      BY <2>1, <2>3 DEF lastClosed, closedOf, Stamps
  <1> QED
    BY <1>1, <1>2, <1>3

ChangesOnly(c) == \A d \in Conversations \ {c} : row'[d] = row[d]

\* A row of one contact changes nothing for another.
LEMMA OpenElsewhere ==
    ASSUME NEW c \in Conversations, ChangesOnly(c), NEW k, row[c].contact # k, row'[c].contact # k
    PROVE  openOf(k)' = openOf(k) /\ closedOf(k)' = closedOf(k)
  BY DEF ChangesOnly, openOf, closedOf, isOpen

LEMMA CurrentElsewhere ==
    ASSUME NEW c \in Conversations, ChangesOnly(c), NEW k, row[c].contact # k, row'[c].contact # k,
           NEW d \in Conversations, Current(d, k)
    PROVE  Current(d, k)'
  <1>1. openOf(k)' = openOf(k) /\ closedOf(k)' = closedOf(k)
    BY OpenElsewhere
  <1>2. d # c /\ row'[d] = row[d]
    BY DEF Current, ChangesOnly
  <1>3. lastClosed(k)' = lastClosed(k)
    <2>1. \A e \in closedOf(k) : row'[e] = row[e]
      BY DEF closedOf, ChangesOnly
    <2> QED
      BY <1>1, <2>1 DEF lastClosed
  <1> QED
    BY <1>1, <1>2, <1>3 DEF Current, exists, isOpen, shouldRotate

\* Opening the current conversation, or one that is to be, leaves it current.
LEMMA OpenedIsCurrent ==
    ASSUME NEW c \in Conversations, ChangesOnly(c), NEW k, openOf(k) \subseteq {c},
           row'[c].contact = k, row'[c].status \in OpenStates, ~shouldRotate(c)'
    PROVE  Current(c, k)'
  <1>1. isOpen(c)' /\ exists(c)'
    BY DEF isOpen, exists, OpenStates
  <1>2. openOf(k)' \subseteq {c}
    BY DEF openOf, isOpen, ChangesOnly
  <1> QED
    BY <1>1, <1>2 DEF Current

LEMMA OpeningKeeps ==
    ASSUME Rows, Stamps, NEW c \in Conversations, ChangesOnly(c), NEW k, Current(c, k),
           row'[c].contact = row[c].contact, row'[c].window = row[c].window,
           row'[c].status \in OpenStates,
           NEW d \in Conversations, NEW l, Current(d, l)
    PROVE  Current(d, l)'
  <1>1. CASE l = k
    <2>1. d = c
      BY <1>1, CurrentIsOne
    <2>2. ~shouldRotate(c)' /\ row'[c].contact = k /\ openOf(k) \subseteq {c}
      BY DEF Current, shouldRotate
    <2> QED
      BY <1>1, <2>1, <2>2, OpenedIsCurrent
  <1>2. CASE l # k
    <2>1. row[c].contact # l /\ row'[c].contact # l
      BY <1>2 DEF Current
    <2> QED
      BY <2>1, CurrentElsewhere
  <1> QED
    BY <1>1, <1>2

\* Closing the open conversation leaves it current: it was closed last.
LEMMA ClosingKeeps ==
    ASSUME Rows, clock \in Nat, Stamps, NEW c \in Conversations, ChangesOnly(c), isOpen(c),
           row'[c].contact = row[c].contact, row'[c].window = row[c].window,
           row'[c].status = "CLOSED", row'[c].closedAt = clock + 1,
           NEW d \in Conversations, NEW l, Current(d, l)
    PROVE  Current(d, l)'
  <1>1. CASE row[c].contact = l
    <2>1. d = c /\ c \in openOf(l)
      BY <1>1 DEF Current, openOf
    <2>2. openOf(l)' = {}
      BY <1>1, <2>1 DEF Current, openOf, isOpen, OpenStates, ChangesOnly
    <2>3. \A e \in closedOf(l)' : row'[e].closedAt <= clock + 1
      <3>1. ASSUME NEW e \in Conversations, e # c PROVE row'[e].closedAt <= clock + 1
        <4>1. row'[e] = row[e]
          BY <3>1 DEF ChangesOnly
        <4>2. row[e].closedAt \in Nat
          BY DEF Rows
        <4>3. row[e].closedAt <= clock
          BY DEF Stamps
        <4> QED
          BY <4>1, <4>2, <4>3
      <3> QED
        BY <3>1 DEF closedOf
    <2>4. c \in lastClosed(l)'
      BY <1>1, <2>3 DEF lastClosed, closedOf
    <2>5. exists(c)' /\ ~shouldRotate(c)' /\ row'[c].contact = l /\ row'[c].closedAt > 0
      BY <1>1, <2>1 DEF exists, shouldRotate, Current
    <2> QED
      BY <2>1, <2>2, <2>4, <2>5 DEF Current
  <1>2. CASE row[c].contact # l
    BY <1>2, CurrentElsewhere
  <1> QED
    BY <1>1, <1>2

\* A stamp that is new names one conversation.
LEMMA ClosingStamps ==
    ASSUME Rows, clock \in Nat, Stamps, NEW c \in Conversations, ChangesOnly(c),
           row'[c].status = "CLOSED", row'[c].closedAt = clock + 1, clock' = clock + 1
    PROVE  Stamps'
  <1>1. \A d \in Conversations : row[d].closedAt \in Nat /\ row[d].closedAt <= clock
    BY DEF Stamps, Rows
  <1>2. \A d \in Conversations \ {c} : row'[d].closedAt <= clock' /\ row'[d].closedAt # row'[c].closedAt
    BY <1>1 DEF ChangesOnly
  <1>3. row'[c].closedAt <= clock' /\ clock' > 0
    BY DEF Stamps
  <1>5. ASSUME NEW a \in Conversations, NEW b \in Conversations,
               row'[a].status = "CLOSED", row'[b].status = "CLOSED",
               row'[a].contact = row'[b].contact,
               row'[a].closedAt = row'[b].closedAt, row'[a].closedAt > 0
        PROVE  a = b
    <2>1. CASE a = c \/ b = c
      BY <1>2, <1>5, <2>1
    <2>2. CASE a # c /\ b # c
      BY <1>5, <2>2 DEF Stamps, ChangesOnly
    <2> QED
      BY <2>1, <2>2
  <1> QED
    BY <1>2, <1>3, <1>5 DEF Stamps

-----------------------------------------------------------------------------
\* A contact whose rows, messages and workers a step leaves as they were, but
\* for workers that leave the conversation resolver.
StaysOrLeaves(i) ==
    \/ pc'[i] = pc[i] /\ conv'[i] = conv[i]
    \/ pc'[i] \notin Carrying \union SettingOut

LEMMA Unmoved ==
    ASSUME TInv, NEW l \in Contacts, Orderly(l),
           \A c \in Conversations :
               row[c].contact = l \/ row'[c].contact = l => row'[c] = row[c],
           \A c \in Conversations, m \in Messages \ Echoes :
               <<c, m>> \in stored' /\ Sender[m] = l => <<c, m>> \in stored,
           \A i \in Jobs : contactOf(i) = l => StaysOrLeaves(i)
    PROVE  Orderly(l)'
  <1>1. openOf(l)' = openOf(l) /\ closedOf(l)' = closedOf(l)
    BY DEF openOf, closedOf, isOpen
  <1>2. lastClosed(l)' = lastClosed(l)
    <2>1. \A e \in closedOf(l) : row'[e] = row[e]
      BY DEF closedOf
    <2> QED
      BY <1>1, <2>1 DEF lastClosed
  <1>3. ASSUME NEW c \in Conversations, Keeps(c, l)' PROVE Keeps(c, l)
    BY <1>3 DEF Keeps, StaysOrLeaves
  <1>4. ASSUME NEW c \in Conversations, Holds(c, l)' PROVE Holds(c, l)
    BY <1>3, <1>4 DEF Holds, StaysOrLeaves, Carrying
  <1>5. ASSUME NEW c \in Conversations, Current(c, l) PROVE Current(c, l)' /\ row'[c] = row[c]
    <2>1. row'[c] = row[c]
      BY <1>5 DEF Current
    <2> QED
      BY <1>1, <1>2, <1>5, <2>1 DEF Current, exists, isOpen, shouldRotate
  <1>6. \A c \in openOf(l)' : openOf(l)' \subseteq {c} /\ row'[c].closedAt # 1
    <2>1. \A c \in openOf(l) : row'[c] = row[c]
      BY DEF openOf
    <2> QED
      BY <1>1, <2>1 DEF Orderly
  <1>7. \A c \in Conversations : Holds(c, l)' => Current(c, l)'
    BY <1>4, <1>5 DEF Orderly
  <1>8. \A c \in Conversations : Keeps(c, l)' => row'[c].closedAt # 1
    BY <1>3, <1>5 DEF Orderly, Holds
  <1>9. ASSUME NEW i \in Jobs, contactOf(i) = l PROVE Replaces(i)'
    <2>1. CASE pc'[i] = pc[i] /\ conv'[i] = conv[i]
      <3>1. Replaces(i)
        BY <1>9 DEF Orderly
      <3>2. pc[i] = "rotate" => row'[conv[i]] = row[conv[i]]
        BY <1>9 DEF TInv, Resolved, WithConversation
      <3> QED
        BY <1>1, <1>4, <1>9, <2>1, <3>1, <3>2 DEF Replaces, shouldRotate
    <2>2. CASE pc'[i] \notin SettingOut
      BY <2>2 DEF Replaces, SettingOut
    <2> QED
      BY <1>9, <2>1, <2>2 DEF StaysOrLeaves
  <1> QED
    BY <1>6, <1>7, <1>8, <1>9 DEF Orderly

\* A step on contact k, seen by the others.
LEMMA Others ==
    ASSUME TInv, \A l \in Contacts \ blind : Orderly(l), blind \subseteq blind', NEW k,
           \A c \in Conversations, l \in Contacts \ {k} :
               row[c].contact = l \/ row'[c].contact = l => row'[c] = row[c],
           \A c \in Conversations, m \in Messages \ Echoes :
               <<c, m>> \in stored' /\ Sender[m] # k => <<c, m>> \in stored,
           \A i \in Jobs : contactOf(i) # k => StaysOrLeaves(i)
    PROVE  \A l \in Contacts \ blind' : l # k => Orderly(l)'
  <1> SUFFICES ASSUME NEW l \in Contacts \ blind', l # k PROVE Orderly(l)'
    OBVIOUS
  <1>1. Orderly(l) /\ l \in Contacts
    OBVIOUS
  <1>2. \A c \in Conversations : row[c].contact = l \/ row'[c].contact = l => row'[c] = row[c]
    OBVIOUS
  <1>3. \A c \in Conversations, m \in Messages \ Echoes :
          <<c, m>> \in stored' /\ Sender[m] = l => <<c, m>> \in stored
    OBVIOUS
  <1>4. \A i \in Jobs : contactOf(i) = l => StaysOrLeaves(i)
    OBVIOUS
  <1> QED
    BY <1>1, <1>2, <1>3, <1>4, Unmoved

\* Steps that touch no conversation row, and make nobody a holder.
LEMMA QuietStep ==
    ASSUME TInv, CInv, UNCHANGED <<row, clock, stored>>, blind \subseteq blind',
           \A i \in Jobs : StaysOrLeaves(i)
    PROVE  CInv'
  <1>1. Stamps' /\ Fresh'
    BY DEF CInv, Stamps, Fresh
  <1>2. \A l \in Contacts \ blind : Orderly(l)'
    BY Unmoved DEF CInv
  <1> QED
    BY <1>1, <1>2 DEF CInv

\* The rows being what they are, one worker of contact k moves: the others.
LEMMA OneWorker ==
    ASSUME TInv, CInv, UNCHANGED <<row, clock, stored, blind>>, NEW j \in Jobs,
           \A i \in Jobs \ {j} : pc'[i] = pc[i] /\ conv'[i] = conv[i],
           contactOf(j) \notin blind => Orderly(contactOf(j))'
    PROVE  CInv'
  <1>1. Stamps' /\ Fresh'
    BY DEF CInv, Stamps, Fresh
  <1>2. \A l \in Contacts \ blind' : l # contactOf(j) => Orderly(l)'
    <2>1. \A i \in Jobs : contactOf(i) # contactOf(j) => StaysOrLeaves(i)
      BY DEF StaysOrLeaves
    <2> QED
      BY <2>1, Others DEF CInv
  <1> QED
    BY <1>1, <1>2 DEF CInv

\* A worker that becomes a holder.
LEMMA HoldStep ==
    ASSUME TInv, UNCHANGED <<row, clock, stored>>, NEW j \in Jobs, Orderly(contactOf(j)),
           \A i \in Jobs \ {j} : pc'[i] = pc[i] /\ conv'[i] = conv[i],
           pc'[j] \in Carrying, NEW c \in Conversations, conv'[j] = c,
           Current(c, contactOf(j)), pc'[j] # "reopen" => row[c].closedAt # 1,
           \A i \in Jobs \ {j} : pc[i] \in SettingOut => contactOf(i) # contactOf(j)
    PROVE  Orderly(contactOf(j))'
  <1> DEFINE k == contactOf(j)
  <1>1. openOf(k)' = openOf(k) /\ lastClosed(k)' = lastClosed(k)
    BY DEF openOf, lastClosed, closedOf, isOpen
  <1>2. \A d \in Conversations : Keeps(d, k)' => Keeps(d, k) \/ (d = c /\ row[c].closedAt # 1)
    BY DEF Keeps
  <1>3. \A d \in Conversations : Holds(d, k)' => Holds(d, k) \/ d = c
    BY <1>2 DEF Holds
  <1>4. \A d \in Conversations : Holds(d, k)' => Current(d, k)'
    <2>1. ASSUME NEW d \in Conversations, Current(d, k) PROVE Current(d, k)'
      BY <1>1, <2>1 DEF Current, exists, isOpen, shouldRotate
    <2> QED
      BY <1>3, <2>1 DEF Orderly
  <1>5. \A d \in openOf(k)' : openOf(k)' \subseteq {d} /\ row'[d].closedAt # 1
    BY <1>1 DEF Orderly
  <1>6. \A d \in Conversations : Keeps(d, k)' => row'[d].closedAt # 1
    BY <1>2 DEF Orderly
  <1>7. ASSUME NEW i \in Jobs, contactOf(i) = k PROVE Replaces(i)'
    <2>1. pc'[i] \notin SettingOut
      BY <1>7 DEF Carrying, SettingOut
    <2> QED
      BY <2>1 DEF Replaces, SettingOut
  <1> QED
    BY <1>4, <1>5, <1>6, <1>7 DEF Orderly

\* A worker that sets out to replace its contact's conversation.
LEMMA ReplaceStep ==
    ASSUME TInv, UNCHANGED <<row, clock, stored>>, NEW j \in Jobs, Orderly(contactOf(j)),
           \A i \in Jobs \ {j} : pc'[i] = pc[i] /\ conv'[i] = conv[i],
           pc'[j] \in SettingOut,
           pc'[j] # "convClosed" => \A c \in Conversations : ~Holds(c, contactOf(j)),
           pc'[j] # "rotate" => openOf(contactOf(j)) = {},
           pc'[j] = "rotate" => /\ openOf(contactOf(j)) \subseteq {conv'[j]}
                                /\ shouldRotate(conv'[j])
    PROVE  Orderly(contactOf(j))'
  <1> DEFINE k == contactOf(j)
  <1>1. openOf(k)' = openOf(k) /\ lastClosed(k)' = lastClosed(k)
    BY DEF openOf, lastClosed, closedOf, isOpen
  <1>2. \A d \in Conversations : Keeps(d, k)' => Keeps(d, k)
    BY DEF Keeps, SettingOut, Carrying
  <1>3. \A d \in Conversations : Holds(d, k)' => Holds(d, k)
    BY <1>2 DEF Holds, SettingOut
  <1>4. \A d \in Conversations : Holds(d, k)' => Current(d, k)'
    <2>1. ASSUME NEW d \in Conversations, Current(d, k) PROVE Current(d, k)'
      BY <1>1, <2>1 DEF Current, exists, isOpen, shouldRotate
    <2> QED
      BY <1>3, <2>1 DEF Orderly
  <1>5. \A d \in openOf(k)' : openOf(k)' \subseteq {d} /\ row'[d].closedAt # 1
    BY <1>1 DEF Orderly
  <1>6. \A d \in Conversations : Keeps(d, k)' => row'[d].closedAt # 1
    BY <1>2 DEF Orderly
  <1>7. ASSUME NEW i \in Jobs, contactOf(i) = k PROVE Replaces(i)'
    <2>1. CASE i = j
      BY <1>1, <1>3, <2>1 DEF Replaces, SettingOut, shouldRotate
    <2>2. CASE i # j
      <3>1. Replaces(i) /\ pc'[i] = pc[i] /\ conv'[i] = conv[i]
        BY <1>7, <2>2 DEF Orderly
      <3> QED
        BY <1>1, <1>3, <1>7, <3>1 DEF Replaces, shouldRotate
    <2> QED
      BY <2>1, <2>2
  <1> QED
    BY <1>4, <1>5, <1>6, <1>7 DEF Orderly

LEMMA LockIsExclusive ==
    ASSUME TInv, LockOwned, NEW i \in Jobs, NEW j \in Jobs, pc[i] \in InConvLock,
           pc[j] \in InConvLock, contactOf(i) = contactOf(j)
    PROVE  i = j
  BY DEF LockOwned, Lock

-----------------------------------------------------------------------------
\* One lemma per action that reads or writes a conversation.
LEMMA FindStep ==
    ASSUME SInv, NEW j \in Jobs, FindOpen(j)
    PROVE  CInv'
  <1> USE DEF SInv
  <1> DEFINE k == contactOf(j)
  <1>0. UNCHANGED <<row, clock, stored, blind>> /\ k \in Contacts
        /\ pc \in [Jobs -> Holding \union {"idle"}]
        /\ conv \in [Jobs -> Conversations \union {None}]
    BY JobsType DEF FindOpen, dbVars, history, TInv, TypeOK
  <1>1. ASSUME NEW c \in openOf(k), ~shouldRotate(c), Reuse(j, c) PROVE CInv'
    <2>1. c \in Conversations /\ isOpen(c) /\ row[c].contact = k
      BY DEF openOf
    <2>2. \A i \in Jobs \ {j} : pc'[i] = pc[i] /\ conv'[i] = conv[i]
      BY <1>0, <1>1 DEF Reuse, Goto
    <2>3. pc'[j] \in {"touch", "persist"} /\ conv'[j] = c
      BY <1>0, <1>1 DEF Reuse, Goto
    <2>4. ASSUME Orderly(k) PROVE Orderly(k)'
      <3>1. Current(c, k) /\ row[c].closedAt # 1
        BY <1>1, <2>1, <2>4 DEF Current, Orderly, isOpen, exists, OpenStates
      <3>2. ASSUME NEW i \in Jobs \ {j}, pc[i] \in SettingOut PROVE contactOf(i) # k
        BY <1>1, <2>4, <3>2 DEF Orderly, Replaces, SettingOut
      <3> QED
        BY <1>0, <2>1, <2>2, <2>3, <2>4, <3>1, <3>2, HoldStep DEF Carrying
    <2> QED
      BY <1>0, <2>2, <2>4, OneWorker DEF CInv
  <1>2. CASE Goto(j, "convLock") /\ UNCHANGED <<conv, seen>>
    <2>1. \A i \in Jobs : StaysOrLeaves(i)
      BY <1>0, <1>2 DEF Goto, StaysOrLeaves, Carrying, SettingOut
    <2> QED
      BY <1>0, <2>1, QuietStep
  <1> QED
    BY <1>1, <1>2 DEF FindOpen

LEMMA PickMoves ==
    ASSUME TInv, NEW j \in Jobs, NEW c, NEW label, Pick(j, label, c)
    PROVE  /\ \A i \in Jobs \ {j} : pc'[i] = pc[i] /\ conv'[i] = conv[i]
           /\ pc'[j] = label /\ conv'[j] = c
  BY DEF TInv, TypeOK, Pick, Goto

LEMMA DecideStep ==
    ASSUME SInv, NEW j \in Jobs, DecideUnderLock(j)
    PROVE  CInv'
  <1> USE DEF SInv
  <1> DEFINE k == contactOf(j)
  <1>0. /\ UNCHANGED <<row, clock, stored, blind>> /\ pc[j] = "convDecide" /\ k \in Contacts
        /\ pc \in [Jobs -> Holding \union {"idle"}]
        /\ conv \in [Jobs -> Conversations \union {None}]
    BY JobsType DEF DecideUnderLock, TInv, TypeOK, dbVars, history
  <1>1. \A i \in Jobs \ {j} : pc[i] \in SettingOut => contactOf(i) # k
    BY <1>0, LockIsExclusive DEF InConvLock, SettingOut
  <1>2. ASSUME NEW c \in openOf(k), shouldRotate(c), Pick(j, "rotate", c) PROVE CInv'
    <2>1. /\ \A i \in Jobs \ {j} : pc'[i] = pc[i] /\ conv'[i] = conv[i]
          /\ pc'[j] = "rotate" /\ conv'[j] = c
      BY <1>2, PickMoves
    <2>2. ASSUME Orderly(k) PROVE Orderly(k)'
      <3>1. openOf(k) \subseteq {c} /\ \A d \in Conversations : ~Holds(d, k)
        BY <1>2, <2>2 DEF Orderly, Current
      <3> QED
        BY <1>0, <1>2, <2>1, <2>2, <3>1, ReplaceStep DEF SettingOut
    <2> QED
      BY <1>0, <2>1, <2>2, OneWorker DEF CInv
  <1>3. ASSUME NEW c \in openOf(k), ~shouldRotate(c), Reuse(j, c) PROVE CInv'
    <2>1. c \in Conversations /\ isOpen(c) /\ row[c].contact = k
      BY DEF openOf
    <2>2. \A i \in Jobs \ {j} : pc'[i] = pc[i] /\ conv'[i] = conv[i]
      BY <1>0, <1>3 DEF Reuse, Goto
    <2>3. pc'[j] \in {"touch", "persist"} /\ conv'[j] = c
      BY <1>0, <1>3 DEF Reuse, Goto
    <2>4. ASSUME Orderly(k) PROVE Orderly(k)'
      <3>1. Current(c, k) /\ row[c].closedAt # 1
        BY <1>3, <2>1, <2>4 DEF Current, Orderly, isOpen, exists, OpenStates
      <3> QED
        BY <1>0, <1>1, <2>1, <2>2, <2>3, <2>4, <3>1, HoldStep DEF Carrying
    <2> QED
      BY <1>0, <2>2, <2>4, OneWorker DEF CInv
  <1>4. ASSUME openOf(k) = {}, Pick(j, "convClosed", None) PROVE CInv'
    <2>1. /\ \A i \in Jobs \ {j} : pc'[i] = pc[i] /\ conv'[i] = conv[i]
          /\ pc'[j] = "convClosed"
      BY <1>4, PickMoves
    <2>2. ASSUME Orderly(k) PROVE Orderly(k)'
      BY <1>0, <1>4, <2>1, <2>2, ReplaceStep DEF SettingOut
    <2> QED
      BY <1>0, <2>1, <2>2, OneWorker DEF CInv
  <1> QED
    BY <1>2, <1>3, <1>4 DEF DecideUnderLock

LEMMA FindLastStep ==
    ASSUME SInv, NEW j \in Jobs, FindLastClosed(j)
    PROVE  CInv'
  <1> USE DEF SInv
  <1> DEFINE k == contactOf(j)
  <1>0. /\ UNCHANGED <<row, clock, stored, blind>> /\ pc[j] = "convClosed" /\ k \in Contacts
        /\ pc \in [Jobs -> Holding \union {"idle"}]
        /\ conv \in [Jobs -> Conversations \union {None}]
    BY JobsType DEF FindLastClosed, TInv, TypeOK, dbVars, history
  <1>1. \A i \in Jobs \ {j} : pc[i] \in SettingOut => contactOf(i) # k
    BY <1>0, LockIsExclusive DEF InConvLock, SettingOut
  <1>2. Orderly(k) => openOf(k) = {}
    BY <1>0 DEF Orderly, Replaces
  <1>3. ASSUME NEW c \in lastClosed(k), reopenable(c), Pick(j, "reopen", c) PROVE CInv'
    <2>1. c \in Conversations /\ row[c].contact = k /\ row[c].status = "CLOSED"
      BY DEF lastClosed, closedOf
    <2>2. /\ \A i \in Jobs \ {j} : pc'[i] = pc[i] /\ conv'[i] = conv[i]
          /\ pc'[j] = "reopen" /\ conv'[j] = c
      BY <1>3, PickMoves
    <2>3. ASSUME Orderly(k) PROVE Orderly(k)'
      <3>1. Current(c, k)
        BY <1>2, <1>3, <2>1, <2>3 DEF Current, exists, reopenable
      <3> QED
        BY <1>0, <1>1, <2>1, <2>2, <2>3, <3>1, HoldStep DEF Carrying
    <2> QED
      BY <1>0, <2>2, <2>3, OneWorker DEF CInv
  <1>4. ASSUME \A c \in lastClosed(k) : ~reopenable(c), Pick(j, "create", None) PROVE CInv'
    <2>1. /\ \A i \in Jobs \ {j} : pc'[i] = pc[i] /\ conv'[i] = conv[i]
          /\ pc'[j] = "create"
      BY <1>4, PickMoves
    <2>2. ASSUME Orderly(k) PROVE Orderly(k)'
      <3>1. \A d \in Conversations : ~Holds(d, k)
        BY <1>2, <1>4, <2>2 DEF Orderly, Current, openOf, reopenable
      <3> QED
        BY <1>0, <1>2, <2>1, <2>2, <3>1, ReplaceStep DEF SettingOut
    <2> QED
      BY <1>0, <2>1, <2>2, OneWorker DEF CInv
  <1> QED
    BY <1>3, <1>4 DEF FindLastClosed

\* A holder opens its conversation, which is current whatever came between its
\* read and its write: touchOpen, reopen and routing to the bot look at nothing.
LEMMA OpenStep ==
    ASSUME SInv, NEW j \in Jobs, pc[j] \in Carrying, NEW c \in Conversations, conv[j] = c,
           \A i \in Jobs \ {j} : pc'[i] = pc[i] /\ conv'[i] = conv[i],
           conv'[j] = c, pc'[j] \in {"persist", "finish"},
           UNCHANGED <<clock, stored>>, ChangesOnly(c),
           row'[c].contact = row[c].contact, row'[c].window = row[c].window,
           row'[c].status \in OpenStates,
           row'[c].closedAt = 0 \/ (row'[c].closedAt = row[c].closedAt /\ pc[j] # "reopen"),
           blind \subseteq blind',
           \A i \in Jobs : pc[i] = "convClosed" /\ contactOf(i) = contactOf(j) =>
               isOpen(c) \/ contactOf(j) \in blind'
    PROVE  CInv'
  <1> USE DEF SInv
  <1> DEFINE k == contactOf(j)
  <1>0. /\ k \in Contacts /\ Rows /\ clock \in Nat /\ \A d \in Conversations : row[d].closedAt \in Nat
        /\ row[c].contact = k
    BY JobsType, RowsTyped DEF TInv, Rows, Resolved, WithConversation, Carrying
  <1>1. Stamps' /\ Fresh'
    <2>1. \A d \in Conversations : row'[d].closedAt <= clock'
      BY <1>0 DEF CInv, Stamps, ChangesOnly
    <2>2. row'[c].status # "CLOSED"
      BY DEF OpenStates
    <2>3. Stamps'
      BY <2>1, <2>2 DEF CInv, Stamps, ChangesOnly
    <2>4. Fresh'
      BY DEF CInv, Fresh, ChangesOnly
    <2> QED
      BY <2>3, <2>4
  <1>2. \A l \in Contacts \ blind' : l # k => Orderly(l)'
    <2>1. \A i \in Jobs : contactOf(i) # k => StaysOrLeaves(i)
      BY DEF StaysOrLeaves
    <2>2. \A d \in Conversations, l \in Contacts \ {k} :
            row[d].contact = l \/ row'[d].contact = l => row'[d] = row[d]
      BY <1>0 DEF ChangesOnly
    <2> QED
      BY <2>1, <2>2, Others DEF CInv
  <1>3. ASSUME k \notin blind' PROVE Orderly(k)'
    <2>0. Orderly(k) /\ Stamps
      BY <1>0, <1>3 DEF CInv
    <2>1. Holds(c, k) /\ Current(c, k) /\ (pc[j] # "reopen" => row[c].closedAt # 1)
      <3>1. Holds(c, k) /\ (pc[j] # "reopen" => Keeps(c, k))
        BY DEF Holds, Keeps
      <3> QED
        BY <2>0, <3>1 DEF Orderly
    <2>2. row'[c].closedAt # 1
      BY <2>1
    <2>3. \A d \in Conversations : Keeps(d, k)' => Keeps(d, k) \/ d = c
      BY DEF Keeps
    <2>4. \A d \in Conversations : Holds(d, k)' => Holds(d, k)
      BY <2>1, <2>3 DEF Holds
    <2>5. \A d \in Conversations : Holds(d, k)' => Current(d, k)'
      <3>1. \A d \in Conversations : Current(d, k) => Current(d, k)'
        BY <1>0, <2>0, <2>1, OpeningKeeps
      <3> QED
        BY <2>0, <2>4, <3>1 DEF Orderly
    <2>6. \A d \in openOf(k)' : d = c
      BY <2>1 DEF Current, openOf, isOpen, ChangesOnly
    <2>7. \A d \in openOf(k)' : openOf(k)' \subseteq {d} /\ row'[d].closedAt # 1
      BY <2>2, <2>6
    <2>8. \A d \in Conversations : Keeps(d, k)' => row'[d].closedAt # 1
      BY <2>0, <2>2, <2>3 DEF Orderly, ChangesOnly
    <2>9. ASSUME NEW i \in Jobs, contactOf(i) = k PROVE Replaces(i)'
      <3>1. CASE pc'[i] \notin SettingOut
        BY <3>1 DEF Replaces, SettingOut
      <3>2. CASE pc'[i] \in SettingOut
        <4>1. i # j /\ pc'[i] = pc[i]
          BY <3>2 DEF SettingOut
        <4>2. Replaces(i)
          BY <2>0, <2>9 DEF Orderly
        <4>3. pc[i] = "convClosed"
          BY <2>1, <2>9, <3>2, <4>1, <4>2 DEF Replaces, SettingOut
        <4>4. openOf(k) = {} /\ isOpen(c)
          BY <1>3, <2>9, <4>2, <4>3 DEF Replaces
        <4> QED
          BY <1>0, <4>4 DEF openOf
      <3> QED
        BY <3>1, <3>2
    <2> QED
      BY <2>5, <2>7, <2>8, <2>9 DEF Orderly
  <1> QED
    BY <1>1, <1>2, <1>3 DEF CInv

LEMMA OpeningSteps ==
    ASSUME SInv, NEW j \in Jobs, touchOpen(j) \/ ReopenClosed(j) \/ RouteToBot(j)
    PROVE  CInv'
  <1> USE DEF SInv
  <1> DEFINE c == conv[j]
  <1>0. /\ pc[j] \in Carrying /\ c \in Conversations /\ exists(c) /\ row[c] \in ConvRow
        /\ row[c].contact = contactOf(j)
        /\ pc \in [Jobs -> Holding \union {"idle"}]
        /\ conv \in [Jobs -> Conversations \union {None}]
        /\ row \in [Conversations -> ConvRow \union {Absent}]
    BY DEF TInv, TypeOK, Resolved, WithConversation, touchOpen, ReopenClosed, RouteToBot,
       Carrying, exists, ConvRow, Absent
  <1>1. /\ \A i \in Jobs \ {j} : pc'[i] = pc[i] /\ conv'[i] = conv[i]
        /\ conv'[j] = c /\ pc'[j] \in {"persist", "finish"}
        /\ UNCHANGED <<clock, stored>> /\ blind \subseteq blind'
    BY <1>0 DEF touchOpen, ReopenClosed, RouteToBot, Goto, history, OpensUnseen, Blinded
  <1>2. CASE touchOpen(j) \/ ReopenClosed(j) \/ (RouteToBot(j) /\ seen[j] = "PENDING")
    <2>1. /\ ChangesOnly(c) /\ row'[c].contact = row[c].contact
          /\ row'[c].window = row[c].window /\ row'[c].status \in OpenStates
          /\ row'[c].closedAt = 0 \/ (row'[c].closedAt = row[c].closedAt /\ pc[j] # "reopen")
      BY <1>0, <1>2 DEF touchOpen, ReopenClosed, RouteToBot, ChangesOnly, ConvRow, OpenStates
    <2>2. ASSUME NEW i \in Jobs, pc[i] = "convClosed", contactOf(i) = contactOf(j)
          PROVE  isOpen(c) \/ contactOf(j) \in blind'
      <3>1. CASE ReopenClosed(j)
        <4>1. pc[j] = "reopen"
          BY <3>1 DEF ReopenClosed
        <4>2. i = j
          BY <2>2, <4>1, LockIsExclusive DEF InConvLock
        <4> QED
          BY <2>2, <4>1, <4>2
      <3>2. CASE touchOpen(j) \/ RouteToBot(j)
        <4>1. OpensUnseen(c)
          BY <1>2, <3>2 DEF touchOpen, RouteToBot, ReopenClosed
        <4>2. betweenQueries(row[c].contact)
          BY <1>0, <2>2 DEF betweenQueries
        <4>3. row[c].status = "CLOSED" \/ isOpen(c)
          BY <1>0 DEF ConvRow, Statuses, isOpen
        <4> QED
          BY <1>0, <4>1, <4>2, <4>3 DEF OpensUnseen, Blinded
      <3> QED
        BY <1>2, <3>1, <3>2
    <2> HIDE DEF c
    <2> QED
      BY <1>0, <1>1, <2>1, <2>2, OpenStep DEF c
  <1>3. CASE RouteToBot(j) /\ seen[j] # "PENDING"
    <2>1. UNCHANGED row
      BY <1>3 DEF RouteToBot
    <2>2. \A i \in Jobs : StaysOrLeaves(i)
      BY <1>1, <1>3, <1>0 DEF StaysOrLeaves, RouteToBot, Goto, Carrying, SettingOut
    <2> QED
      BY <1>1, <2>1, <2>2, QuietStep
  <1> QED
    BY <1>2, <1>3

\* Rotation closes the one open conversation, which nobody holds.
LEMMA RotateStep ==
    ASSUME SInv, NEW j \in Jobs, closeForExpiredWindow(j)
    PROVE  CInv'
  <1> USE DEF SInv
  <1> DEFINE c == conv[j]
             k == contactOf(j)
  <1>0. /\ pc[j] = "rotate" /\ c \in Conversations /\ exists(c) /\ row[c] \in ConvRow /\ k \in Contacts
        /\ row[c].contact = k
        /\ pc \in [Jobs -> Holding \union {"idle"}]
        /\ conv \in [Jobs -> Conversations \union {None}]
        /\ row \in [Conversations -> ConvRow \union {Absent}]
        /\ clock \in Nat /\ Rows
    BY JobsType, RowsTyped DEF TInv, TypeOK, Resolved, WithConversation, closeForExpiredWindow,
       exists, ConvRow, Absent
  <1>1. /\ \A i \in Jobs \ {j} : pc'[i] = pc[i]
        /\ pc'[j] = "create" /\ UNCHANGED <<conv, stored, blind>> /\ clock' = clock + 1
    BY <1>0 DEF closeForExpiredWindow, Goto, history
  <1>2. /\ ChangesOnly(c) /\ row'[c].contact = row[c].contact /\ row'[c].window = row[c].window
        /\ row'[c].status = "CLOSED" /\ row'[c].closedAt = clock + 1
    BY <1>0 DEF closeForExpiredWindow, ChangesOnly, ConvRow
  <1>3. Stamps' /\ Fresh'
    <2>1. Fresh'
      BY <1>1, <1>2 DEF CInv, Fresh, ChangesOnly
    <2> QED
      BY <1>0, <1>1, <1>2, <2>1, ClosingStamps DEF CInv
  <1>4. \A l \in Contacts \ blind' : l # k => Orderly(l)'
    <2>1. \A i \in Jobs : contactOf(i) # k => StaysOrLeaves(i)
      BY <1>1 DEF StaysOrLeaves
    <2>2. \A d \in Conversations, l \in Contacts \ {k} :
            row[d].contact = l \/ row'[d].contact = l => row'[d] = row[d]
      BY <1>0, <1>2 DEF ChangesOnly
    <2> QED
      BY <1>1, <2>1, <2>2, Others DEF CInv
  <1>5. ASSUME Orderly(k) PROVE Orderly(k)'
    <2>1. (\A d \in Conversations : ~Holds(d, k)) /\ openOf(k) \subseteq {c}
      BY <1>0, <1>5 DEF Orderly, Replaces
    <2>2. \A d \in Conversations : ~Holds(d, k)' /\ ~Keeps(d, k)'
      <3>1. \A d \in Conversations : Keeps(d, k)' => Keeps(d, k)
        BY <1>1 DEF Keeps, Carrying
      <3> QED
        BY <1>1, <2>1, <3>1 DEF Holds
    <2>3. openOf(k)' = {}
      BY <1>2, <2>1 DEF openOf, isOpen, OpenStates, ChangesOnly
    <2>4. ASSUME NEW i \in Jobs, contactOf(i) = k PROVE Replaces(i)'
      <3>1. i # j => pc'[i] \notin SettingOut
        BY <1>0, <1>1, <2>4, LockIsExclusive DEF InConvLock, SettingOut
      <3> QED
        BY <1>1, <2>2, <2>3, <2>4, <3>1 DEF Replaces, SettingOut
    <2> QED
      BY <2>2, <2>3, <2>4 DEF Orderly
  <1> QED
    BY <1>1, <1>3, <1>4, <1>5 DEF CInv

\* A worker creates a conversation for a contact that has no open one and that
\* nobody holds: the new one is its current conversation.
LEMMA CreateStep ==
    ASSUME SInv, NEW j \in Jobs, createNew(j)
    PROVE  CInv'
  <1> USE DEF SInv
  <1> DEFINE k == contactOf(j)
  <1>0. /\ pc[j] = "create" /\ k \in Contacts /\ Rows /\ clock \in Nat
        /\ pc \in [Jobs -> Holding \union {"idle"}]
        /\ conv \in [Jobs -> Conversations \union {None}]
        /\ row \in [Conversations -> ConvRow \union {Absent}]
    BY JobsType, RowsTyped DEF TInv, TypeOK, createNew
  <1>1. PICK c \in Conversations :
          /\ isFresh(c)
          /\ row' = [row EXCEPT ![c] = [contact |-> k, status |-> "PENDING",
                                        closedAt |-> 0, window |-> "fresh"]]
          /\ conv' = [conv EXCEPT ![j] = c]
    BY DEF createNew
  <1>2. /\ \A i \in Jobs \ {j} : pc'[i] = pc[i] /\ conv'[i] = conv[i]
        /\ pc'[j] = "persist" /\ conv'[j] = c /\ UNCHANGED <<clock, stored, blind>>
    BY <1>0, <1>1 DEF createNew, Goto, history
  <1>3. /\ ChangesOnly(c) /\ row'[c].contact = k /\ row'[c].window = "fresh"
        /\ row'[c].status = "PENDING" /\ row'[c].closedAt = 0
    BY <1>0, <1>1 DEF ChangesOnly
  <1>4. ~exists(c) /\ row[c].contact \notin Contacts
    BY <1>0, <1>1 DEF isFresh, Rows
  <1>5. Stamps' /\ Fresh'
    BY <1>0, <1>2, <1>3 DEF CInv, Stamps, Fresh, ChangesOnly
  <1>6. \A l \in Contacts \ blind' : l # k => Orderly(l)'
    <2>1. \A i \in Jobs : contactOf(i) # k => StaysOrLeaves(i)
      BY <1>2 DEF StaysOrLeaves
    <2>2. \A d \in Conversations, l \in Contacts \ {k} :
            row[d].contact = l \/ row'[d].contact = l => row'[d] = row[d]
      BY <1>3, <1>4 DEF ChangesOnly
    <2> QED
      BY <1>2, <2>1, <2>2, Others DEF CInv
  <1>7. ASSUME Orderly(k) PROVE Orderly(k)'
    <2>1. (\A d \in Conversations : ~Holds(d, k)) /\ openOf(k) = {}
      BY <1>0, <1>7 DEF Orderly, Replaces
    <2>2. \A d \in Conversations : Keeps(d, k)' => d = c
      <3>1. \A d \in Conversations : Keeps(d, k)' => Keeps(d, k) \/ d = c
        BY <1>2 DEF Keeps
      <3> QED
        BY <2>1, <3>1 DEF Holds
    <2>3. \A d \in Conversations : Holds(d, k)' => d = c
      BY <1>2, <2>1, <2>2 DEF Holds
    <2>4. \A d \in openOf(k)' : d = c
      BY <1>3, <2>1 DEF openOf, isOpen, ChangesOnly
    <2>5. Current(c, k)'
      <3>1. row'[c].status \in OpenStates /\ ~shouldRotate(c)' /\ openOf(k) \subseteq {c}
        BY <1>3, <2>1 DEF OpenStates, shouldRotate
      <3> QED
        BY <1>3, <3>1, OpenedIsCurrent
    <2>6. ASSUME NEW i \in Jobs, contactOf(i) = k PROVE Replaces(i)'
      <3>1. pc'[i] \notin SettingOut
        BY <1>0, <1>2, <2>6, LockIsExclusive DEF InConvLock, SettingOut
      <3> QED
        BY <3>1 DEF Replaces, SettingOut
    <2>7. \A d \in openOf(k)' : openOf(k)' \subseteq {d} /\ row'[d].closedAt # 1
      BY <1>3, <2>4
    <2>8. \A d \in Conversations : Keeps(d, k)' => row'[d].closedAt # 1
      BY <1>3, <2>2
    <2> QED
      BY <2>3, <2>5, <2>6, <2>7, <2>8 DEF Orderly
  <1> QED
    BY <1>2, <1>5, <1>6, <1>7 DEF CInv

\* The upsert of a customer's message opens a fresh window in a conversation
\* the worker holds already.
LEMMA PersistStep ==
    ASSUME SInv, NEW j \in Jobs, PersistMessage(j)
    PROVE  CInv'
  <1> USE DEF SInv
  <1> DEFINE c == conv[j]
             k == contactOf(j)
  <1>0. /\ pc[j] = "persist" /\ c \in Conversations /\ exists(c) /\ row[c] \in ConvRow
        /\ k \in Contacts /\ Rows /\ row[c].contact = k
        /\ pc \in [Jobs -> Holding \union {"idle"}]
        /\ row \in [Conversations -> ConvRow \union {Absent}]
    BY JobsType, RowsTyped DEF TInv, TypeOK, Resolved, WithConversation, PersistMessage,
       exists, ConvRow, Absent
  <1>1. /\ \A i \in Jobs \ {j} : pc'[i] = pc[i]
        /\ pc'[j] \in {"bot", "finish"} /\ UNCHANGED <<conv, clock, blind>>
        /\ stored' = stored \union {<<c, msg(j)>>}
    BY <1>0 DEF PersistMessage, Goto, history
  <1>2. /\ ChangesOnly(c) /\ row'[c].contact = row[c].contact /\ row'[c].status = row[c].status
        /\ row'[c].closedAt = row[c].closedAt /\ row'[c].window \in {row[c].window, "fresh"}
        /\ msg(j) \notin Echoes => row'[c].window = "fresh"
    <2>1. CASE msg(j) \in Echoes \/ <<c, msg(j)>> \in stored
      BY <1>0, <2>1, JobsType DEF PersistMessage, ChangesOnly, CInv, Fresh
    <2>2. CASE ~(msg(j) \in Echoes \/ <<c, msg(j)>> \in stored)
      BY <1>0, <2>2 DEF PersistMessage, ChangesOnly, ConvRow
    <2> QED
      BY <2>1, <2>2
  <1>3. Stamps' /\ Fresh'
    <2>1. Stamps'
      BY <1>1, <1>2 DEF CInv, Stamps, ChangesOnly
    <2>2. Fresh'
      BY <1>1, <1>2 DEF CInv, Fresh, ChangesOnly
    <2> QED
      BY <2>1, <2>2
  <1>4. \A l \in Contacts \ blind' : l # k => Orderly(l)'
    <2>1. \A i \in Jobs : contactOf(i) # k => StaysOrLeaves(i)
      BY <1>1 DEF StaysOrLeaves
    <2>2. \A d \in Conversations, l \in Contacts \ {k} :
            row[d].contact = l \/ row'[d].contact = l => row'[d] = row[d]
      BY <1>0, <1>2 DEF ChangesOnly
    <2>3. \A d \in Conversations, m \in Messages \ Echoes :
            <<d, m>> \in stored' /\ Sender[m] # k => <<d, m>> \in stored
      BY <1>1 DEF contactOf
    <2> QED
      BY <1>1, <2>1, <2>2, <2>3, Others DEF CInv
  <1>5. ASSUME Orderly(k) PROVE Orderly(k)'
    <2>1. Keeps(c, k) /\ Holds(c, k) /\ Current(c, k)
      <3>1. Keeps(c, k)
        BY <1>0 DEF Keeps, Carrying
      <3> QED
        BY <1>0, <1>5, <3>1 DEF Holds, Orderly
    <2>2. ASSUME NEW d \in Conversations, Keeps(d, k)' PROVE Keeps(d, k)
      <3>1. CASE \E i \in Jobs : pc'[i] \in Carrying \ {"reopen"} /\ conv'[i] = d /\ contactOf(i) = k
        BY <1>0, <1>1, <3>1 DEF Keeps, Carrying
      <3>2. CASE \E m \in Messages \ Echoes : <<d, m>> \in stored' /\ Sender[m] = k
        BY <1>1, <2>1, <3>2 DEF Keeps
      <3> QED
        BY <2>2, <3>1, <3>2 DEF Keeps
    <2>3. \A d \in Conversations : Holds(d, k)' => Holds(d, k)
      BY <1>1, <2>2 DEF Holds
    <2>4. openOf(k)' = openOf(k) /\ closedOf(k)' = closedOf(k) /\ lastClosed(k)' = lastClosed(k)
      BY <1>2 DEF openOf, closedOf, lastClosed, isOpen, ChangesOnly
    <2>5. ASSUME NEW d \in Conversations, Current(d, k) PROVE Current(d, k)'
      <3>1. ~shouldRotate(d)'
        BY <1>2, <2>5 DEF Current, shouldRotate, ChangesOnly
      <3> QED
        BY <1>2, <2>4, <2>5, <3>1 DEF Current, exists, isOpen, ChangesOnly
    <2>6. \A d \in Conversations : row'[d].closedAt = row[d].closedAt
      BY <1>2 DEF ChangesOnly
    <2>7. ASSUME NEW i \in Jobs, contactOf(i) = k PROVE Replaces(i)'
      <3>1. Replaces(i)
        BY <1>5, <2>7 DEF Orderly
      <3>3. pc[i] \notin {"rotate", "create"}
        BY <1>0, <2>1, <2>7, <3>1 DEF Replaces
      <3>2. pc'[i] \in SettingOut => pc'[i] = "convClosed" /\ pc[i] = "convClosed"
        <4>1. CASE i = j
          BY <1>1, <4>1 DEF SettingOut
        <4>2. CASE i # j
          BY <1>1, <3>3, <4>2 DEF SettingOut
        <4> QED
          BY <4>1, <4>2
      <3> QED
        BY <2>4, <2>7, <3>1, <3>2 DEF Replaces, SettingOut
    <2>8. \A d \in openOf(k)' : openOf(k)' \subseteq {d} /\ row'[d].closedAt # 1
      BY <1>5, <2>4, <2>6 DEF Orderly, openOf
    <2> QED
      BY <1>5, <2>2, <2>3, <2>5, <2>6, <2>7, <2>8 DEF Orderly
  <1> QED
    BY <1>1, <1>3, <1>4, <1>5 DEF CInv

\* A status written from outside the pipeline: an open conversation stays open or
\* is closed last, and whoever writes to a closed one is on record.
LEMMA StatusStep ==
    ASSUME SInv, NEW c \in Conversations, exists(c), NEW to \in Statuses,
           UNCHANGED <<pc, conv, stored>>, ChangesOnly(c),
           row'[c].contact = row[c].contact, row'[c].window = row[c].window,
           row'[c].status = to,
           to = "CLOSED" => row'[c].closedAt = clock + 1 /\ clock' = clock + 1,
           to # "CLOSED" => row'[c].closedAt = row[c].closedAt /\ clock' = clock,
           blind \subseteq blind', ~isOpen(c) => row[c].contact \in blind'
    PROVE  CInv'
  <1> USE DEF SInv
  <1> DEFINE k == row[c].contact
  <1>0. Rows /\ clock \in Nat /\ k \in Contacts
    BY RowsTyped DEF TInv, Rows
  <1>1. Stamps' /\ Fresh'
    <2>0. Stamps
      BY DEF CInv
    <2>1. ASSUME to = "CLOSED" PROVE Stamps'
      BY <1>0, <2>0, <2>1, ClosingStamps
    <2>2. ASSUME to # "CLOSED" PROVE Stamps'
      <3>1. \A d \in Conversations : row'[d].closedAt = row[d].closedAt /\ row'[d].contact = row[d].contact
        BY <2>2 DEF ChangesOnly
      <3>2. \A d \in Conversations : row'[d].status = "CLOSED" => row[d].status = "CLOSED"
        BY <2>2 DEF ChangesOnly
      <3>3. clock' = clock
        BY <2>2
      <3> QED
        BY <2>0, <3>1, <3>2, <3>3 DEF Stamps
    <2>3. Fresh'
      BY DEF CInv, Fresh, ChangesOnly
    <2> QED
      BY <2>1, <2>2, <2>3
  <1>2. \A l \in Contacts \ blind' : l # k => Orderly(l)'
    <2>1. \A i \in Jobs : contactOf(i) # k => StaysOrLeaves(i)
      BY DEF StaysOrLeaves
    <2>2. \A d \in Conversations, l \in Contacts \ {k} :
            row[d].contact = l \/ row'[d].contact = l => row'[d] = row[d]
      BY DEF ChangesOnly
    <2> QED
      BY <2>1, <2>2, Others DEF CInv
  <1>3. ASSUME k \notin blind' PROVE Orderly(k)'
    <2>0. Orderly(k) /\ Stamps /\ isOpen(c)
      BY <1>0, <1>3 DEF CInv
    <2>1. openOf(k)' \subseteq openOf(k) /\ openOf(k) \subseteq {c} /\ row[c].closedAt # 1
      <3>1. openOf(k)' \subseteq openOf(k)
        BY <2>0 DEF openOf, isOpen, ChangesOnly
      <3> QED
        BY <2>0, <3>1 DEF Orderly, openOf
    <2>2. \A d \in Conversations : (Holds(d, k)' => Holds(d, k)) /\ (Keeps(d, k)' => Keeps(d, k))
      BY DEF Holds, Keeps
    <2>3. ASSUME NEW d \in Conversations, Current(d, k) PROVE Current(d, k)'
      <3>1. CASE to = "CLOSED"
        BY <1>0, <2>0, <2>3, <3>1, ClosingKeeps
      <3>2. CASE to # "CLOSED"
        <4>1. d = c /\ row'[c].status \in OpenStates
          BY <2>0, <2>3, <3>2 DEF Current, openOf, Statuses
        <4> QED
          BY <1>0, <2>0, <2>3, <4>1, OpeningKeeps
      <3> QED
        BY <3>1, <3>2
    <2>4. \A d \in Conversations : row[d].closedAt # 1 => row'[d].closedAt # 1
      <3>1. clock + 1 # 1
        BY <1>0, <2>0 DEF Stamps
      <3> QED
        BY <3>1 DEF ChangesOnly
    <2>5. ASSUME NEW i \in Jobs, contactOf(i) = k PROVE Replaces(i)'
      <3>1. Replaces(i)
        BY <2>0, <2>5 DEF Orderly
      <3>2. pc[i] = "rotate" => row'[conv[i]].window = row[conv[i]].window
        BY DEF TInv, Resolved, WithConversation, ChangesOnly
      <3> QED
        BY <2>1, <2>2, <2>5, <3>1, <3>2 DEF Replaces, shouldRotate
    <2>6. \A d \in openOf(k)' : openOf(k)' \subseteq {d} /\ row'[d].closedAt # 1
      BY <2>1, <2>4
    <2>7. \A d \in Conversations : Holds(d, k)' => Current(d, k)'
      BY <2>0, <2>2, <2>3 DEF Orderly
    <2>8. \A d \in Conversations : Keeps(d, k)' => row'[d].closedAt # 1
      BY <2>0, <2>2, <2>4 DEF Orderly
    <2> QED
      BY <2>5, <2>6, <2>7, <2>8 DEF Orderly
  <1> QED
    BY <1>1, <1>2, <1>3 DEF CInv

LEMMA TransitionStep ==
    ASSUME SInv, NEW r \in asked, writeStatus(r)
    PROVE  CInv'
  <1> USE DEF SInv
  <1> DEFINE c == r.conv
  <1>0. /\ c \in Conversations /\ r.to \in Statuses /\ exists(c) /\ r.from # "CLOSED"
        /\ row \in [Conversations -> ConvRow \union {Absent}] /\ row[c] \in ConvRow
    BY DEF TInv, TypeOK, Resolved, Requests, exists, Absent, NoneReopens
  <1>1. /\ ChangesOnly(c) /\ row'[c].contact = row[c].contact /\ row'[c].window = row[c].window
        /\ row'[c].status = r.to
        /\ r.to = "CLOSED" => row'[c].closedAt = clock + 1 /\ clock' = clock + 1
        /\ r.to # "CLOSED" => row'[c].closedAt = row[c].closedAt /\ clock' = clock
    BY <1>0 DEF writeStatus, ChangesOnly, ConvRow
  <1>2. blind \subseteq blind' /\ (~isOpen(c) => row[c].contact \in blind')
    BY <1>0 DEF writeStatus, Blinded, isOpen, ConvRow, Statuses
  <1>3. UNCHANGED <<pc, conv, stored>>
    BY DEF writeStatus, workVars
  <1> HIDE DEF c
  <1> QED
    BY <1>0, <1>1, <1>2, <1>3, StatusStep

LEMMA TransferStep ==
    ASSUME SInv, NEW c \in Conversations, transferToDepartment(c)
    PROVE  CInv'
  <1> USE DEF SInv
  <1>0. /\ exists(c) /\ row \in [Conversations -> ConvRow \union {Absent}] /\ row[c] \in ConvRow
    BY DEF transferToDepartment, exists, TInv, TypeOK, Absent
  <1>1. /\ ChangesOnly(c) /\ row'[c].contact = row[c].contact /\ row'[c].window = row[c].window
        /\ row'[c].status = "PENDING" /\ row'[c].closedAt = row[c].closedAt /\ clock' = clock
    BY <1>0 DEF transferToDepartment, ChangesOnly, ConvRow
  <1>2. blind \subseteq blind' /\ (~isOpen(c) => row[c].contact \in blind')
    BY <1>0 DEF transferToDepartment, Blinded, isOpen, ConvRow, Statuses
  <1>3. UNCHANGED <<pc, conv, stored>> /\ "PENDING" \in Statuses
    BY DEF transferToDepartment, workVars, Statuses, OpenStates
  <1> QED
    BY <1>0, <1>1, <1>2, <1>3, StatusStep

\* A 24 hour boundary passes on a conversation that nobody has in hand.
LEMMA DayPassesStep ==
    ASSUME ~BoundaryMayRace, SInv, NEW c \in Conversations, DayPasses(c)
    PROVE  CInv'
  <1> USE DEF SInv
  <1>0. /\ row[c] \in ConvRow /\ row \in [Conversations -> ConvRow \union {Absent}]
        /\ clock \in Nat /\ Rows
    BY RowsTyped DEF DayPasses, Absent, ConvRow, TInv, TypeOK
  <1>1. UNCHANGED <<pc, conv, stored, clock, blind>> /\ \A j \in Jobs : conv[j] # c
    BY DEF DayPasses, workVars, history
  <1>2. /\ ChangesOnly(c) /\ row'[c].contact = row[c].contact /\ row'[c].status = row[c].status
        /\ row'[c].closedAt \in {0, row[c].closedAt}
        /\ (row[c].window = "ageing" \/ (row[c].closedAt = 1 /\ row'[c].window = row[c].window))
    BY <1>0 DEF DayPasses, ChangesOnly, ConvRow
  <1>3. \A d \in Conversations : row'[d].contact = row[d].contact /\ row'[d].status = row[d].status
    BY <1>2 DEF ChangesOnly
  <1>4. \A e \in Conversations :
          /\ row'[e].closedAt \in Nat /\ row[e].closedAt \in Nat
          /\ row'[e].closedAt = row[e].closedAt \/ row'[e].closedAt = 0
    <2> SUFFICES ASSUME NEW e \in Conversations
                 PROVE  /\ row'[e].closedAt \in Nat /\ row[e].closedAt \in Nat
                        /\ row'[e].closedAt = row[e].closedAt \/ row'[e].closedAt = 0
      OBVIOUS
    <2>1. row[e].closedAt \in Nat
      BY <1>0 DEF Rows
    <2>2. row'[e].closedAt = row[e].closedAt \/ row'[e].closedAt = 0
      BY <1>2 DEF ChangesOnly
    <2> QED
      BY <2>1, <2>2
  <1>5. Stamps' /\ Fresh'
    <2>1. \A d \in Conversations : row'[d].closedAt <= clock /\ (row'[d].closedAt > 0 => row'[d].closedAt = row[d].closedAt)
      BY <1>0, <1>4 DEF CInv, Stamps
    <2>2. Stamps'
      <3>1. clock' > 0 /\ \A d \in Conversations : row'[d].closedAt <= clock'
        BY <1>1, <2>1 DEF CInv, Stamps
      <3>2. ASSUME NEW a \in Conversations, NEW b \in Conversations,
                   row'[a].status = "CLOSED", row'[b].status = "CLOSED",
                   row'[a].contact = row'[b].contact,
                   row'[a].closedAt = row'[b].closedAt, row'[a].closedAt > 0
            PROVE  a = b
        <4>1. row[a].closedAt = row'[a].closedAt /\ row[b].closedAt = row'[b].closedAt
          BY <2>1, <3>2
        <4> QED
          BY <1>3, <3>2, <4>1 DEF CInv, Stamps
      <3> QED
        BY <3>1, <3>2 DEF Stamps
    <2>3. Fresh'
      <3>1. ASSUME NEW m \in Messages \ Echoes, <<c, m>> \in stored PROVE row'[c].window = "fresh"
        BY <1>2, <3>1 DEF CInv, Fresh
      <3> QED
        BY <1>1, <1>2, <3>1 DEF CInv, Fresh, ChangesOnly
    <2> QED
      BY <2>2, <2>3
  <1>6. ASSUME NEW l \in Contacts, Orderly(l) PROVE Orderly(l)'
    <2>1. openOf(l)' = openOf(l) /\ closedOf(l)' = closedOf(l)
      BY <1>3 DEF openOf, closedOf, isOpen
    <2>2. ~Keeps(c, l) /\ ~Holds(c, l)
      <3>1. Keeps(c, l) => row[c].closedAt # 1 /\ row[c].window = "fresh"
        BY <1>1, <1>6 DEF Orderly, Keeps, CInv, Fresh
      <3> QED
        BY <1>1, <1>2, <3>1 DEF Holds
    <2>3. \A d \in Conversations : (Holds(d, l)' => Holds(d, l)) /\ (Keeps(d, l)' => Keeps(d, l))
      BY <1>1 DEF Holds, Keeps
    <2>4. ASSUME NEW d \in Conversations \ {c}, Current(d, l) PROVE Current(d, l)'
      <3>1. row'[d] = row[d]
        BY <1>2 DEF ChangesOnly
      <3>2. d \in lastClosed(l) => d \in lastClosed(l)'
        <4> SUFFICES ASSUME d \in lastClosed(l) PROVE d \in lastClosed(l)'
          OBVIOUS
        <4>1. ASSUME NEW e \in closedOf(l) PROVE row'[e].closedAt <= row'[d].closedAt
          <5>1. row[e].closedAt <= row[d].closedAt /\ e \in Conversations
            BY DEF lastClosed, closedOf
          <5> QED
            BY <1>4, <3>1, <5>1
        <4> QED
          BY <2>1, <4>1 DEF lastClosed
      <3> QED
        BY <2>1, <2>4, <3>1, <3>2 DEF Current, exists, isOpen, shouldRotate
    <2>5. \A d \in Conversations : Holds(d, l)' => Current(d, l)'
      BY <1>6, <2>2, <2>3, <2>4 DEF Orderly
    <2>6. \A d \in Conversations : row[d].closedAt # 1 => row'[d].closedAt # 1
      BY <1>4
    <2>7. \A d \in openOf(l)' : openOf(l)' \subseteq {d} /\ row'[d].closedAt # 1
      BY <1>6, <2>1, <2>6 DEF Orderly, openOf
    <2>8. \A d \in Conversations : Keeps(d, l)' => row'[d].closedAt # 1
      BY <1>6, <2>3, <2>6 DEF Orderly
    <2>9. ASSUME NEW i \in Jobs, contactOf(i) = l PROVE Replaces(i)'
      <3>1. Replaces(i)
        BY <1>6, <2>9 DEF Orderly
      <3>2. pc[i] = "rotate" => row'[conv[i]] = row[conv[i]]
        BY <1>1, <1>2 DEF TInv, Resolved, WithConversation, ChangesOnly
      <3> QED
        BY <1>1, <2>1, <2>3, <2>9, <3>1, <3>2 DEF Replaces, shouldRotate
    <2> QED
      BY <2>5, <2>7, <2>8, <2>9 DEF Orderly
  <1> QED
    BY <1>1, <1>5, <1>6 DEF CInv

\* Every other step leaves the rows alone and makes nobody a holder.
LEMMA OtherSteps ==
    ASSUME SInv,
           \/ \E w \in Webhooks : Record(w)
           \/ \E j \in Jobs : \/ Enqueue(j) \/ claimProcessing(j) \/ SkipDuplicate(j)
                              \/ LockContact(j) \/ CreateContact(j) \/ LockConversation(j)
                              \/ Finish(j) \/ Fail(j)
           \/ \E c \in Conversations, to \in Statuses : readStatus(c, to)
           \/ \E l \in LockKeys : Lapse(l)
           \/ Crash
           \/ UNCHANGED vars
    PROVE  CInv'
  <1> USE DEF SInv
  <1>0. /\ pc \in [Jobs -> Holding \union {"idle"}]
        /\ conv \in [Jobs -> Conversations \union {None}]
    BY DEF TInv, TypeOK
  <1>1. UNCHANGED <<row, clock, stored, blind>>
    BY DEF Record, Enqueue, claimProcessing, SkipDuplicate, LockContact, CreateContact,
       LockConversation, Finish, Fail, readStatus, Lapse, Crash, vars, dbVars, history
  <1>2. ASSUME NEW j \in Jobs, NEW l \in Holding \union {"idle"}, pc' = [pc EXCEPT ![j] = l],
               l \notin Carrying \union SettingOut,
               \A i \in Jobs \ {j} : conv'[i] = conv[i]
        PROVE  \A i \in Jobs : StaysOrLeaves(i)
    BY <1>0, <1>2 DEF StaysOrLeaves
  <1>3. ASSUME NEW j \in Jobs, claimProcessing(j) \/ LockContact(j) \/ CreateContact(j) \/ LockConversation(j)
        PROVE  \A i \in Jobs : StaysOrLeaves(i)
    <2>1. PICK l \in {"conv", "contactLock", "contactCreate", "convDecide"} : Goto(j, l)
      BY <1>3 DEF claimProcessing, LockContact, CreateContact, LockConversation
    <2>2. UNCHANGED conv
      BY <1>3 DEF claimProcessing, LockContact, CreateContact, LockConversation
    <2> QED
      BY <1>2, <2>1, <2>2 DEF Goto, Carrying, SettingOut, Holding
  <1>4. ASSUME NEW j \in Jobs, SkipDuplicate(j) \/ Finish(j) \/ Fail(j)
        PROVE  \A i \in Jobs : StaysOrLeaves(i)
    <2>1. pc' = [pc EXCEPT ![j] = "idle"] /\ conv' = [conv EXCEPT ![j] = None]
      BY <1>4 DEF SkipDuplicate, Finish, Fail, Leave
    <2> QED
      BY <1>0, <1>2, <2>1 DEF Carrying, SettingOut, Holding
  <1>5. ASSUME Crash PROVE \A i \in Jobs : StaysOrLeaves(i)
    BY <1>5 DEF Crash, StaysOrLeaves, Carrying, SettingOut
  <1>6. ASSUME \/ \E w \in Webhooks : Record(w)
               \/ \E j \in Jobs : Enqueue(j)
               \/ \E c \in Conversations, to \in Statuses : readStatus(c, to)
               \/ \E l \in LockKeys : Lapse(l)
               \/ UNCHANGED vars
        PROVE  \A i \in Jobs : StaysOrLeaves(i)
    BY <1>6 DEF Record, Enqueue, readStatus, Lapse, vars, workVars, StaysOrLeaves
  <1> QED
    BY <1>1, <1>3, <1>4, <1>5, <1>6, QuietStep

LEMMA InitSInv == Init => SInv
  <1> SUFFICES ASSUME Init PROVE SInv
    OBVIOUS
  <1>1. TInv /\ LockOwned /\ NoneReopens
    BY InitTInv DEF Init, LockOwned, InConvLock, NoneReopens
  <1>2. \A c \in Conversations :
          /\ row[c].closedAt \in {0, 1}
          /\ row[c].status # "CLOSED" => row[c].closedAt = 0
          /\ exists(c) <=> row[c].status \in Statuses
    BY DEF Init, PriorRow, Absent, exists, Statuses, OpenStates
  <1>3. \A c, d \in Conversations : exists(c) /\ exists(d) /\ row[c].contact = row[d].contact => c = d
    BY DEF Init
  <1>4. \A c \in Conversations :
          /\ isOpen(c) => exists(c) /\ row[c].status # "CLOSED"
          /\ row[c].status = "CLOSED" => exists(c)
    BY DEF isOpen, exists, OpenStates
  <1>5. Stamps
    <2>1. clock = 1
      BY DEF Init
    <2>2. \A c \in Conversations : row[c].closedAt <= clock
      <3> SUFFICES ASSUME NEW c \in Conversations PROVE row[c].closedAt <= clock
        OBVIOUS
      <3>1. row[c].closedAt = 0 \/ row[c].closedAt = 1
        BY <1>2
      <3> QED
        BY <2>1, <3>1
    <2>3. ASSUME NEW c \in Conversations, NEW d \in Conversations,
                 row[c].status = "CLOSED", row[d].status = "CLOSED", row[c].contact = row[d].contact
          PROVE  c = d
      BY <1>3, <1>4, <2>3
    <2> QED
      BY <2>1, <2>2, <2>3 DEF Stamps
  <1>6. Fresh
    BY DEF Init, Fresh
  <1>7. ASSUME NEW k \in Contacts PROVE Orderly(k)
    <2>1. \A c \in openOf(k) : openOf(k) \subseteq {c} /\ row[c].closedAt # 1
      <3> SUFFICES ASSUME NEW c \in Conversations, row[c].contact = k, isOpen(c)
                   PROVE  openOf(k) \subseteq {c} /\ row[c].closedAt # 1
        BY DEF openOf
      <3>1. row[c].closedAt = 0
        BY <1>2, <1>4
      <3>2. ASSUME NEW d \in Conversations, row[d].contact = k, isOpen(d) PROVE d = c
        BY <1>3, <1>4, <3>2
      <3> QED
        BY <3>1, <3>2 DEF openOf
    <2>2. \A c \in Conversations : ~Keeps(c, k) /\ ~Holds(c, k)
      BY DEF Init, Keeps, Holds, Carrying
    <2>3. \A j \in Jobs : Replaces(j)
      BY DEF Init, Replaces
    <2> QED
      BY <2>1, <2>2, <2>3 DEF Orderly
  <1> QED
    BY <1>1, <1>5, <1>6, <1>7 DEF SInv, CInv

\* Only an operator's request adds to what was asked.
LEMMA AskedStep ==
    ASSUME ~ManualReopen, NoneReopens, [Next]_vars
    PROVE  NoneReopens'
  <1>1. ASSUME NEW c \in Conversations, NEW to \in Statuses, readStatus(c, to) PROVE NoneReopens'
    <2>1. row[c].status # "CLOSED"
      BY <1>1 DEF readStatus
    <2> QED
      BY <1>1, <2>1 DEF readStatus, NoneReopens
  <1>2. ASSUME NEW r \in asked, writeStatus(r) PROVE NoneReopens'
    BY <1>2 DEF writeStatus, NoneReopens
  <1>3. ASSUME asked' = asked PROVE NoneReopens'
    BY <1>3 DEF NoneReopens
  <1>4. ASSUME NEW j \in Jobs, Work(j) PROVE asked' = asked
    BY <1>4, Zenon DEF Work, claimProcessing, SkipDuplicate, LockContact, CreateContact, FindOpen,
       LockConversation, DecideUnderLock, FindLastClosed, touchOpen, closeForExpiredWindow,
       ReopenClosed, createNew, PersistMessage, RouteToBot, Finish
  <1> QED
    BY <1>1, <1>2, <1>3, <1>4 DEF Next, transition, Record, Enqueue, Fail, transferToDepartment,
       DayPasses, Lapse, Crash, vars

LEMMA NextSInv ==
    ASSUME ~ManualReopen, ~LockMayLapse, ~BoundaryMayRace, SInv, [Next]_vars
    PROVE  SInv'
  <1>1. TInv'
    BY NextTInv DEF SInv
  <1>2. LockOwned' /\ NoneReopens'
    BY LockStep, AskedStep DEF SInv
  <1>3. CInv'
    <2>1. ASSUME NEW j \in Jobs, Work(j) PROVE CInv'
      BY <2>1, FindStep, DecideStep, FindLastStep, OpeningSteps, RotateStep, CreateStep,
         PersistStep, OtherSteps DEF Work
    <2> QED
      BY <2>1, TransitionStep, TransferStep, DayPassesStep, OtherSteps DEF Next, transition
  <1> QED
    BY <1>1, <1>2, <1>3 DEF SInv

\* The conversation resolver's promise, for any number of workers, webhooks,
\* retries, requests and crashes: a contact has one open conversation at most,
\* unless one of its CLOSED conversations was written by somebody who did not see
\* it closed (blind).  It also rests on a lock that outlives the work under it, on
\* operators who do not reopen and on no 24 hour boundary passing under a worker's
\* hands: each of the three is a switch of the model, and the code guards against
\* none of them.
THEOREM OneOpenHolds ==
    ~ManualReopen /\ ~LockMayLapse /\ ~BoundaryMayRace /\ Spec => []OneOpenConversation
  <1> SUFFICES ASSUME ~ManualReopen, ~LockMayLapse, ~BoundaryMayRace
               PROVE  Spec => []OneOpenConversation
    OBVIOUS
  <1>1. SInv /\ [Next]_vars => SInv'
    BY NextSInv
  <1>2. SInv => OneOpenConversation
    <2> SUFFICES ASSUME SInv, NEW c \in Conversations, NEW d \in Conversations,
                        isOpen(c), isOpen(d), row[c].contact = row[d].contact,
                        row[c].contact \notin blind
                 PROVE  c = d
      BY DEF OneOpenConversation
    <2>1. row[c].contact \in Contacts
      BY RowsTyped DEF SInv, TInv, Rows, isOpen, exists, OpenStates
    <2>2. Orderly(row[c].contact)
      BY <2>1 DEF SInv, CInv
    <2> QED
      BY <2>2 DEF Orderly, openOf
  <1> QED
    BY <1>1, <1>2, InitSInv, PTL DEF Spec

-----------------------------------------------------------------------------
\* An echo holds no conversation: nothing keeps the one it was stored in from
\* being replaced.  It has one row because nobody works on it a second time:
\* its worker keeps the claim and has no await left that throws.
EchoOnce ==
    /\ \A x, y \in stored : x[2] = y[2] /\ x[2] \in Echoes => x = y
    /\ \A x \in stored : x[2] \in Echoes =>
          /\ x[2] \in claims
          /\ \A j \in Jobs : msg(j) = x[2] /\ pc[j] \in Holding => pc[j] = "finish"

LEMMA OnlyPersistStores ==
    ASSUME [Next]_vars, \A j \in Jobs : ~PersistMessage(j)
    PROVE  UNCHANGED stored
  <1> USE DEF dbVars
  <1>1. ASSUME NEW j \in Jobs, Work(j) PROVE UNCHANGED stored
    BY <1>1 DEF Work, claimProcessing, SkipDuplicate, LockContact, CreateContact, FindOpen,
       LockConversation, DecideUnderLock, FindLastClosed, touchOpen, closeForExpiredWindow,
       ReopenClosed, createNew, RouteToBot, Finish
  <1> QED
    BY <1>1 DEF Next, Record, Enqueue, Fail, readStatus, transition, writeStatus,
       transferToDepartment, DayPasses, Lapse, Crash, vars

LEMMA EchoStep ==
    ASSUME ~ClaimMayThrow, TInv, ClaimIsExclusive, EchoOnce, [Next]_vars
    PROVE  EchoOnce'
  <1> USE DEF EchoOnce, history
  <1>0. /\ pc \in [Jobs -> Holding \union {"idle"}] /\ stored \subseteq Conversations \X Messages
        /\ \A j \in Jobs : msg(j) \in Messages
    BY JobsType DEF TInv, TypeOK
  <1>1. ASSUME NEW j \in Jobs, PersistMessage(j) PROVE EchoOnce'
    <2>1. /\ pc[j] = "persist" /\ claims' = claims
          /\ stored' = stored \union {<<conv[j], msg(j)>>}
          /\ \A i \in Jobs \ {j} : pc'[i] = pc[i]
      BY <1>0, <1>1 DEF PersistMessage, Goto, redisVars
    <2>2. CASE msg(j) \in Echoes
      <3>1. \A x \in stored : x[2] # msg(j)
        BY <2>1, <2>2 DEF Holding
      <3>2. msg(j) \in claims /\ \A i \in Jobs \ {j} : msg(i) = msg(j) => pc[i] \notin Holding
        BY <2>1 DEF ClaimIsExclusive, Holding
      <3>3. pc'[j] = "finish"
        BY <1>0, <1>1, <2>2 DEF PersistMessage, routesToBot, Goto
      <3> QED
        BY <2>1, <3>1, <3>2, <3>3
    <2>3. CASE msg(j) \notin Echoes
      BY <2>1, <2>3
    <2> QED
      BY <2>2, <2>3
  <1>2. ASSUME UNCHANGED stored PROVE EchoOnce'
    <2>1. CASE Unseen
      BY <1>2, <2>1 DEF Unseen
    <2>2. CASE Crash
      BY <1>0, <1>2, <2>2 DEF Crash, Holding, redisVars
    <2>3. ASSUME NEW j \in Jobs, Moves(j) PROVE EchoOnce'
      BY <1>0, <1>2, <2>3 DEF Moves, Goto
    <2>4. ASSUME NEW j \in Jobs, claimProcessing(j) PROVE EchoOnce'
      BY <1>0, <1>2, <2>4 DEF claimProcessing, Goto
    <2>5. ASSUME NEW j \in Jobs, SkipDuplicate(j) \/ Finish(j) PROVE EchoOnce'
      BY <1>0, <1>2, <2>5 DEF SkipDuplicate, Finish, Leave, Holding, redisVars
    <2>6. ASSUME NEW j \in Jobs, Fail(j) PROVE EchoOnce'
      <3>1. \A x \in stored : x[2] \in Echoes => x[2] # msg(j)
        BY <2>6 DEF Fail, canThrow, routesToBot, Holding
      <3>2. pc'[j] \notin Holding /\ \A i \in Jobs \ {j} : pc'[i] = pc[i]
        BY <1>0, <2>6 DEF Fail, Leave, Holding
      <3>3. claims \ {msg(j)} \subseteq claims'
        BY <2>6 DEF Fail, releaseClaim
      <3> QED
        BY <1>2, <3>1, <3>2, <3>3
    <2> QED
      BY <2>1, <2>2, <2>3, <2>4, <2>5, <2>6, StepsSeen
  <1> QED
    BY <1>1, <1>2, OnlyPersistStores

\* What the holders of the rows say of the stored messages.
LEMMA HeldOnce == SInv /\ EchoOnce => OneRowPerMessage
  <1> SUFFICES ASSUME SInv, EchoOnce, NEW x \in stored, NEW y \in stored, x[2] = y[2],
                      Sender[x[2]] \notin blind
               PROVE  x = y
    BY DEF OneRowPerMessage
  <1>1. /\ x = <<x[1], x[2]>> /\ y = <<y[1], x[2]>> /\ x[2] \in Messages
        /\ x[1] \in Conversations /\ y[1] \in Conversations
    BY DEF SInv, TInv, TypeOK
  <1>2. CASE x[2] \in Echoes
    BY <1>2 DEF EchoOnce
  <1>3. CASE x[2] \notin Echoes
    <2>1. Orderly(Sender[x[2]])
      BY <1>1, InboundAssumption DEF SInv, CInv
    <2>2. Holds(x[1], Sender[x[2]]) /\ Holds(y[1], Sender[x[2]])
      BY <1>1, <1>3 DEF Holds, Keeps
    <2>3. Current(x[1], Sender[x[2]]) /\ Current(y[1], Sender[x[2]])
      BY <1>1, <2>1, <2>2 DEF Orderly
    <2> QED
      BY <1>1, <2>3, RowsTyped, CurrentIsOne DEF SInv, CInv, TInv
  <1> QED
    BY <1>2, <1>3

\* One message, one row and so one MESSAGE_RECEIVED event: redeliveries, retries
\* after a failure between the upsert and the end of process(), crashes, and
\* conversations closed, rotated or reopened in between store it where it was.
\* Besides what OneOpenHolds rests on, an echo needs its claim to be safe: it
\* keeps no window open, so a second worker on it may find the conversation
\* rotated.
THEOREM OneRowHolds ==
    /\ ~ManualReopen /\ ~LockMayLapse /\ ~BoundaryMayRace
    /\ ClaimMayThrow => Echoes = {}
    /\ Spec
    => []OneRowPerMessage
  <1> SUFFICES ASSUME ~ManualReopen, ~LockMayLapse, ~BoundaryMayRace,
                      ClaimMayThrow => Echoes = {}
               PROVE  Spec => []OneRowPerMessage
    OBVIOUS
  <1> DEFINE RInv == SInv /\ EchoOnce /\ (~ClaimMayThrow => ClaimIsExclusive)
  <1>1. Init => RInv
    <2>1. ASSUME Init PROVE EchoOnce /\ ClaimIsExclusive
      <3>1. \A i \in Jobs : pc[i] \notin Holding
        BY <2>1 DEF Init, Holding
      <3>2. \A m \in Messages : ~(dispatched[m] > 0)
        BY <2>1 DEF Init
      <3> QED
        BY <2>1, <3>1, <3>2 DEF Init, EchoOnce, ClaimIsExclusive
    <2> QED
      BY <2>1, InitSInv
  <1>2. RInv /\ [Next]_vars => RInv'
    <2>1. SInv /\ [Next]_vars => SInv'
      BY NextSInv
    <2>2. CASE ClaimMayThrow
      BY <2>1, <2>2 DEF EchoOnce
    <2>3. CASE ~ClaimMayThrow
      BY <2>1, <2>3, ExclusiveStep, EchoStep DEF SInv
    <2> QED
      BY <2>2, <2>3
  <1>3. RInv => OneRowPerMessage
    BY HeldOnce
  <1> QED
    BY <1>1, <1>2, <1>3, PTL DEF Spec
=============================================================================
