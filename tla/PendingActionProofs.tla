------------------------- MODULE PendingActionProofs -------------------------
(***************************************************************************)
(* What a decision on a pending action guarantees, for every set of        *)
(* actions, conversations and requests and every number of crashes, on the *)
(* actions that no two operators decide on at a time.                      *)
(***************************************************************************)
EXTENDS PendingAction, TLAPS

\* A row exists only when its tool call is over, a request has a subject only
\* once it has read its row.
Gated ==
    /\ \A a \in Actions : gate[a] # "closed" => status[a] = "absent"
    /\ \A r \in Requests : subject[r] # None => gate[subject[r]] = "closed"
Idle == \A r \in Requests : pc[r] = "idle" => subject[r] = None

PInv == TypeOK /\ Gated /\ Idle

\* The request that approved an action, from its save on.
approved(r) == pc[r] = "enqueue" \/ job[r] # "absent"

\* One request at a time between its read and its last write.
OneDecision ==
    \A q, r \in Requests :
        /\ subject[q] = subject[r] /\ subject[q] \in Decided
        /\ pc[q] \in InFlight /\ pc[r] \in InFlight
        => q = r

\* Until a row reads APPROVED its action has neither approval, job nor call.
Untouched ==
    \A a \in Decided :
        status[a] \notin {"APPROVED", "EXECUTED"} =>
            /\ calls[a] = 0
            /\ \A r \in Requests : subject[r] = a => ~approved(r)

\* What a request has read can only have expired since.
ReadIsRecent ==
    \A r \in Requests :
        pc[r] \in {"approve", "reject", "expire"} /\ subject[r] \in Decided =>
            status[subject[r]] \in {"PENDING", "EXPIRED"}

DInv == PInv /\ OneDecision /\ Untouched /\ ReadIsRecent

-----------------------------------------------------------------------------
LEMMA InitDInv == Init => DInv
  BY PendingAssumption
     DEF Init, DInv, PInv, TypeOK, Gated, Idle, OneDecision, Untouched, ReadIsRecent,
         approved, InFlight, Pcs, JobStates, Decided

\* Type correctness, one action at a time.
LEMMA NextPInv == PInv /\ [Next]_vars => PInv'
  <1> SUFFICES ASSUME PInv, [Next]_vars PROVE PInv'
    OBVIOUS
  <1> USE PendingAssumption DEF PInv, TypeOK, Gated, Idle, rows, switch, pause, switchOn, Pcs, JobStates
  <1>1. ASSUME NEW a \in Actions, Propose(a) PROVE PInv'
    BY <1>1 DEF Propose, pauseAi, findExisting, create
  <1>2. ASSUME NEW a \in Actions, Expire(a) PROVE PInv'
    BY <1>2 DEF Expire
  <1>3. ASSUME NEW r \in Requests, Decide(r) PROVE PInv'
    <2>1. ASSUME NEW a \in Actions, NEW kind \in {"approve", "reject"}, get(r, a, kind)
          PROVE  PInv'
      BY <2>1 DEF get, Goto
    <2>2. CASE saveApproved(r)
      BY <2>2 DEF saveApproved, save, Goto
    <2>3. CASE enqueue(r)
      BY <2>3 DEF enqueue, Goto
    <2>4. CASE saveRejected(r)
      BY <2>4 DEF saveRejected, save, Goto
    <2>5. CASE resumeAi(r)
      BY <2>5 DEF resumeAi, Goto
    <2>6. CASE saveExpired(r)
      BY <2>6 DEF saveExpired, save, Goto
    <2> QED
      BY <1>3, <2>1, <2>2, <2>3, <2>4, <2>5, <2>6 DEF Decide
  <1>4. ASSUME NEW r \in Requests, RequestFails(r) PROVE PInv'
    BY <1>4 DEF RequestFails, Goto
  <1>5. ASSUME NEW r \in Requests, Execute(r) PROVE PInv'
    <2>1. CASE process(r)
      BY <2>1 DEF process, setJob
    <2>2. CASE executeTransferToHuman(r)
      BY <2>2 DEF executeTransferToHuman, setJob
    <2>3. CASE executeHttpSkill(r)
      BY <2>3 DEF executeHttpSkill, setJob
    <2>4. CASE record(r)
      BY <2>4 DEF record, setJob
    <2> QED
      BY <1>5, <2>1, <2>2, <2>3, <2>4 DEF Execute
  <1>6. ASSUME NEW r \in Requests, JobFails(r) PROVE PInv'
    BY <1>6 DEF JobFails, setJob
  <1>7. CASE expireOverdueActions
    BY <1>7 DEF expireOverdueActions
  <1>8. CASE Crash
    BY <1>8 DEF Crash, Active
  <1>9. CASE UNCHANGED vars
    BY <1>9 DEF vars
  <1>10. ASSUME NEW c \in Conversations, Switch(c) PROVE PInv'
    BY <1>10 DEF Switch, toggleAi, setActiveAgent
  <1> QED
    BY <1>1, <1>2, <1>3, <1>4, <1>5, <1>6, <1>7, <1>8, <1>9, <1>10 DEF Next

\* Type correctness of the approval flow, for every value of the constants.
THEOREM TypeCorrect == Spec => []TypeOK
  <1>1. Init => PInv
    BY InitDInv DEF DInv
  <1>2. PInv => TypeOK
    BY DEF PInv
  <1> QED
    BY <1>1, <1>2, NextPInv, PTL DEF Spec

-----------------------------------------------------------------------------
LEMMA NextDInv == DInv /\ [Next]_vars => DInv'
  <1> SUFFICES ASSUME DInv, [Next]_vars
               PROVE  OneDecision' /\ Untouched' /\ ReadIsRecent'
    BY NextPInv DEF DInv
  <1> USE PendingAssumption
      DEF DInv, PInv, TypeOK, Gated, Idle, OneDecision, Untouched, ReadIsRecent,
          approved, InFlight, Pcs, Decided, rows, switch
  <1> DEFINE Goal == OneDecision' /\ Untouched' /\ ReadIsRecent'
  <1>1. ASSUME NEW a \in Actions, Propose(a) PROVE Goal
    BY <1>1 DEF Propose, pauseAi, findExisting, create
  <1>2. ASSUME NEW a \in Actions, Expire(a) PROVE Goal
    BY <1>2 DEF Expire
  <1>3. ASSUME NEW r \in Requests, Decide(r) PROVE Goal
    <2>1. ASSUME NEW a \in Actions, NEW kind \in {"approve", "reject"}, get(r, a, kind)
          PROVE  Goal
      BY <2>1 DEF get, Goto, free
    <2>2. CASE saveApproved(r)
      BY <2>2 DEF saveApproved, save, Goto
    <2>3. CASE enqueue(r)
      BY <2>3 DEF enqueue, Goto
    <2>4. CASE saveRejected(r)
      BY <2>4 DEF saveRejected, save, Goto
    <2>5. CASE resumeAi(r)
      BY <2>5 DEF resumeAi, Goto
    <2>6. CASE saveExpired(r)
      BY <2>6 DEF saveExpired, save, Goto
    <2> QED
      BY <1>3, <2>1, <2>2, <2>3, <2>4, <2>5, <2>6 DEF Decide
  <1>4. ASSUME NEW r \in Requests, RequestFails(r) PROVE Goal
    BY <1>4 DEF RequestFails, Goto
  <1>5. ASSUME NEW r \in Requests, Execute(r) PROVE Goal
    <2>1. CASE process(r)
      BY <2>1 DEF process, setJob
    <2>2. CASE executeTransferToHuman(r)
      BY <2>2 DEF executeTransferToHuman, setJob
    <2>3. CASE executeHttpSkill(r)
      BY <2>3 DEF executeHttpSkill, setJob
    <2>4. CASE record(r)
      BY <2>4 DEF record, setJob
    <2> QED
      BY <1>5, <2>1, <2>2, <2>3, <2>4 DEF Execute
  <1>6. ASSUME NEW r \in Requests, JobFails(r) PROVE Goal
    BY <1>6 DEF JobFails, setJob
  <1>7. CASE expireOverdueActions
    BY <1>7 DEF expireOverdueActions
  <1>8. CASE Crash
    BY <1>8 DEF Crash, Active
  <1>9. CASE UNCHANGED vars
    BY <1>9 DEF vars
  <1>10. ASSUME NEW c \in Conversations, Switch(c) PROVE Goal
    BY <1>10 DEF Switch, toggleAi, setActiveAgent
  <1> QED
    BY <1>1, <1>2, <1>3, <1>4, <1>5, <1>6, <1>7, <1>8, <1>9, <1>10 DEF Next

\* A refused action was never carried out: the sweep, the requests and the
\* workers write the row without a condition, yet every path to REJECTED or
\* EXPIRED starts from a row that no approval has touched.
THEOREM RefusalHolds == Spec => []RefusedIsNotCarriedOut
  <1>1. DInv => RefusedIsNotCarriedOut
    BY DEF DInv, Untouched, RefusedIsNotCarriedOut
  <1> QED
    BY <1>1, InitDInv, NextDInv, PTL DEF Spec

-----------------------------------------------------------------------------
\* CalledOncePerApproval: an action has one approving request, and while the
\* job of that request may still call the tool, a call is left.
OneApproval ==
    \A q, r \in Requests :
        subject[q] = subject[r] /\ subject[q] \in Decided /\ approved(q) /\ approved(r) => q = r

CallsLeft ==
    \A r \in Requests : subject[r] \in Decided =>
        /\ calls[subject[r]] <= 1 + crashes
        /\ pc[r] = "enqueue" \/ job[r] \in {"waiting", "run"} => calls[subject[r]] <= crashes

\* An action that no request has read was not called.
Unread == \A a \in Decided : (\A r \in Requests : subject[r] # a) => calls[a] = 0

\* A request that was granted goes no further in pc than the enqueue.
Granted == \A r \in Requests :
    pc[r] \in {"idle", "approve", "reject", "expire", "resume", "enqueue"} => job[r] = "absent"

CInv == DInv /\ OneApproval /\ CallsLeft /\ Unread /\ Granted

LEMMA InitCInv == Init => CInv
  BY InitDInv, PendingAssumption
     DEF Init, CInv, OneApproval, CallsLeft, Unread, Granted, approved, Decided

LEMMA NextCInv == CInv /\ [Next]_vars => CInv'
  <1> SUFFICES ASSUME CInv, [Next]_vars
               PROVE  OneApproval' /\ CallsLeft' /\ Unread' /\ Granted'
    BY NextDInv DEF CInv
  <1> USE PendingAssumption
      DEF CInv, DInv, PInv, TypeOK, Gated, Idle, OneDecision, Untouched, ReadIsRecent,
          OneApproval, CallsLeft, Unread, Granted, approved, InFlight, Pcs, Decided, rows, switch
  <1> DEFINE Goal == OneApproval' /\ CallsLeft' /\ Unread' /\ Granted'
  <1>1. ASSUME NEW a \in Actions, Propose(a) PROVE Goal
    BY <1>1 DEF Propose, pauseAi, findExisting, create
  <1>2. ASSUME NEW a \in Actions, Expire(a) PROVE Goal
    BY <1>2 DEF Expire
  <1>3. ASSUME NEW r \in Requests, Decide(r) PROVE Goal
    <2>1. ASSUME NEW a \in Actions, NEW kind \in {"approve", "reject"}, get(r, a, kind)
          PROVE  Goal
      BY <2>1 DEF get, Goto, free
    <2>2. CASE saveApproved(r)
      BY <2>2 DEF saveApproved, save, Goto
    <2>3. CASE enqueue(r)
      BY <2>3 DEF enqueue, Goto
    <2>4. CASE saveRejected(r)
      BY <2>4 DEF saveRejected, save, Goto
    <2>5. CASE resumeAi(r)
      BY <2>5 DEF resumeAi, Goto
    <2>6. CASE saveExpired(r)
      BY <2>6 DEF saveExpired, save, Goto
    <2> QED
      BY <1>3, <2>1, <2>2, <2>3, <2>4, <2>5, <2>6 DEF Decide
  <1>4. ASSUME NEW r \in Requests, RequestFails(r) PROVE Goal
    BY <1>4 DEF RequestFails, Goto
  <1>5. ASSUME NEW r \in Requests, Execute(r) PROVE Goal
    <2>1. CASE process(r)
      BY <2>1 DEF process, setJob
    <2>2. CASE executeTransferToHuman(r)
      BY <2>2 DEF executeTransferToHuman, setJob
    <2>3. CASE executeHttpSkill(r)
      BY <2>3 DEF executeHttpSkill, setJob
    <2>4. CASE record(r)
      BY <2>4 DEF record, setJob
    <2> QED
      BY <1>5, <2>1, <2>2, <2>3, <2>4 DEF Execute
  <1>6. ASSUME NEW r \in Requests, JobFails(r) PROVE Goal
    BY <1>6 DEF JobFails, setJob
  <1>7. CASE expireOverdueActions
    BY <1>7 DEF expireOverdueActions
  <1>8. CASE Crash
    BY <1>8 DEF Crash, Active
  <1>9. CASE UNCHANGED vars
    BY <1>9 DEF vars
  <1>10. ASSUME NEW c \in Conversations, Switch(c) PROVE Goal
    BY <1>10 DEF Switch, toggleAi, setActiveAgent
  <1> QED
    BY <1>1, <1>2, <1>3, <1>4, <1>5, <1>6, <1>7, <1>8, <1>9, <1>10 DEF Next

\* One approval, one call of the tool, but for the jobs a crash replays.
THEOREM ApprovalIsSpentOnce == Spec => []CalledOncePerApproval
  <1>1. CInv => CalledOncePerApproval
    <2> SUFFICES ASSUME CInv, NEW a \in Decided PROVE calls[a] <= 1 + crashes
      BY DEF CalledOncePerApproval
    <2>1. crashes \in Nat
      BY PendingAssumption DEF CInv, DInv, PInv, TypeOK
    <2>2. CASE \E r \in Requests : subject[r] = a
      BY <2>2 DEF CInv, CallsLeft
    <2>3. CASE \A r \in Requests : subject[r] # a
      BY <2>1, <2>3 DEF CInv, Unread
    <2> QED
      BY <2>2, <2>3
  <1> QED
    BY <1>1, InitCInv, NextCInv, PTL DEF Spec

-----------------------------------------------------------------------------
\* PausedUntilDecided: the pause precedes the row, and a request that is about to
\* lift it has rejected its own transfer for good.
Proposed(a) == gate[a] \in {"paused", "create"} \/ status[a] = "PENDING"

Lifted(a) ==
    \E b \in Transfers \ {a} : ConvOf[b] = ConvOf[a] /\ (status[b] = "REJECTED" \/ b \in Racing)

\* Nobody has switched the AI on since it was paused.
Off(c) == ai[c] = "off" \/ c \in switched

Paused == \A a \in Transfers : Proposed(a) => Off(ConvOf[a]) \/ Lifted(a)

Resuming ==
    \A r \in Requests : pc[r] = "resume" =>
        /\ subject[r] \in Transfers /\ status[subject[r]] # "PENDING"
        /\ subject[r] \notin Racing => status[subject[r]] = "REJECTED"

UInv == DInv /\ Paused /\ Resuming

LEMMA InitUInv == Init => UInv
  BY InitDInv, PendingAssumption DEF Init, UInv, Paused, Proposed, Resuming

\* A rejection stays, and no row reads PENDING again.
Lasting ==
    /\ \A b \in Actions : status[b] = "REJECTED" => status'[b] = "REJECTED" \/ b \in Racing
    /\ \A b \in Actions : gate[b] = "closed" /\ status'[b] = "PENDING" => status[b] = "PENDING"

LEMMA StatusLasts == DInv /\ [Next]_vars => Lasting
  <1> SUFFICES ASSUME DInv, [Next]_vars PROVE Lasting
    OBVIOUS
  <1> USE PendingAssumption
      DEF DInv, PInv, TypeOK, Gated, Idle, Untouched, ReadIsRecent, approved, Decided, rows, Lasting
  <1>1. ASSUME NEW a \in Actions, Propose(a) PROVE Lasting
    BY <1>1 DEF Propose, pauseAi, findExisting, create
  <1>2. ASSUME NEW a \in Actions, Expire(a) PROVE Lasting
    BY <1>2 DEF Expire
  <1>3. ASSUME NEW r \in Requests, Decide(r) PROVE Lasting
    <2>1. ASSUME NEW a \in Actions, NEW kind \in {"approve", "reject"}, get(r, a, kind)
          PROVE  Lasting
      BY <2>1 DEF get
    <2>2. CASE saveApproved(r)
      BY <2>2 DEF saveApproved, save
    <2>3. CASE enqueue(r)
      BY <2>3 DEF enqueue
    <2>4. CASE saveRejected(r)
      BY <2>4 DEF saveRejected, save
    <2>5. CASE resumeAi(r)
      BY <2>5 DEF resumeAi
    <2>6. CASE saveExpired(r)
      BY <2>6 DEF saveExpired, save
    <2> QED
      BY <1>3, <2>1, <2>2, <2>3, <2>4, <2>5, <2>6 DEF Decide
  <1>4. ASSUME NEW r \in Requests, RequestFails(r) \/ JobFails(r) PROVE Lasting
    BY <1>4 DEF RequestFails, JobFails
  <1>5. ASSUME NEW r \in Requests, Execute(r) PROVE Lasting
    BY <1>5 DEF Execute, process, executeTransferToHuman, executeHttpSkill, record
  <1>6. CASE expireOverdueActions
    BY <1>6 DEF expireOverdueActions
  <1>7. CASE Crash
    BY <1>7 DEF Crash
  <1>8. CASE UNCHANGED vars
    BY <1>8 DEF vars
  <1>9. ASSUME NEW c \in Conversations, Switch(c) PROVE Lasting
    BY <1>9 DEF Switch, toggleAi, setActiveAgent
  <1> QED
    BY <1>1, <1>2, <1>3, <1>4, <1>5, <1>6, <1>7, <1>8, <1>9 DEF Next

\* What was lifted stays lifted; a step that keeps the switches can only disturb
\* Paused by proposing a transfer.
LEMMA StaysLifted ==
  ASSUME Lasting, NEW a \in Transfers, Lifted(a) PROVE Lifted(a)'
  BY PendingAssumption DEF Lasting, Lifted

LEMMA NextUInv == UInv /\ [Next]_vars => UInv'
  <1> SUFFICES ASSUME UInv, [Next]_vars PROVE Paused' /\ Resuming'
    BY NextDInv DEF UInv
  <1>0. DInv /\ DInv' /\ Lasting /\ TypeOK
    BY NextDInv, StatusLasts DEF UInv, DInv, PInv
  <1>1. ASSUME NEW a \in Transfers, Proposed(a), Off(ConvOf[a]) => Off(ConvOf[a])'
        PROVE  Off(ConvOf[a])' \/ Lifted(a)'
    BY <1>0, <1>1, StaysLifted DEF UInv, Paused
  <1>2. ASSUME \A r \in Requests : pc'[r] = "resume" => pc[r] = "resume" /\ subject'[r] = subject[r]
        PROVE  Resuming'
    <2> SUFFICES ASSUME NEW r \in Requests, pc'[r] = "resume"
                 PROVE  /\ subject'[r] \in Transfers /\ status'[subject'[r]] # "PENDING"
                        /\ subject'[r] \notin Racing => status'[subject'[r]] = "REJECTED"
      BY DEF Resuming
    <2>1. /\ subject'[r] = subject[r] /\ subject[r] \in Transfers /\ subject[r] \in Actions
          /\ status[subject[r]] # "PENDING"
          /\ subject[r] \notin Racing => status[subject[r]] = "REJECTED"
      BY <1>2, PendingAssumption DEF UInv, Resuming
    <2>2. gate[subject[r]] = "closed"
      BY <2>1, <1>0, PendingAssumption DEF DInv, PInv, Gated
    <2> QED
      BY <1>0, <2>1, <2>2 DEF Lasting
  <1>3. ASSUME UNCHANGED <<status, gate, switch>> PROVE Paused'
    BY <1>0, <1>1, <1>3 DEF Paused, Proposed, Off, switch
  <1>4. ASSUME NEW a \in Actions, Propose(a) PROVE Paused' /\ Resuming'
    <2>1. Resuming'
      BY <1>2, <1>4 DEF Propose, pauseAi, findExisting, create
    <2>2. CASE pauseAi(a)
      <3>1. ASSUME NEW b \in Transfers, Proposed(b)' PROVE Off(ConvOf[b])' \/ Lifted(b)'
        <4>1. ConvOf[a] \in Conversations /\ ConvOf[b] \in Conversations
          BY PendingAssumption
        <4>2. CASE ConvOf[b] = ConvOf[a]
          BY <1>0, <2>2, <4>1, <4>2 DEF pauseAi, pause, TypeOK, Off
        <4>3. CASE ConvOf[b] # ConvOf[a]
          <5>1. Proposed(b)
            BY <1>0, <2>2, <3>1, <4>3, PendingAssumption DEF pauseAi, TypeOK, Proposed, rows
          <5>2. Off(ConvOf[b])' <=> Off(ConvOf[b])
            BY <1>0, <2>2, <4>1, <4>3 DEF pauseAi, pause, TypeOK, Off
          <5> QED
            BY <1>0, <5>1, <5>2, StaysLifted DEF UInv, Paused
        <4> QED
          BY <4>2, <4>3
      <3> QED
        BY <2>1, <3>1 DEF Paused
    <2>3. CASE findExisting(a) \/ create(a)
      <3>1. UNCHANGED switch /\ \A b \in Transfers : Proposed(b)' => Proposed(b)
        BY <1>0, <2>3, PendingAssumption DEF findExisting, create, TypeOK, Proposed, rows
      <3> QED
        BY <1>1, <2>1, <3>1 DEF Paused, Off, switch
    <2> QED
      BY <1>4, <2>1, <2>2, <2>3 DEF Propose
  <1>5. ASSUME NEW a \in Actions, Expire(a) PROVE Paused' /\ Resuming'
    BY <1>2, <1>3, <1>5 DEF Expire, rows
  <1>6. ASSUME NEW r \in Requests, Decide(r) PROVE Paused' /\ Resuming'
    <2>1. ASSUME NEW a \in Actions, NEW kind \in {"approve", "reject"}, get(r, a, kind)
          PROVE  Paused' /\ Resuming'
      BY <1>0, <1>2, <1>3, <2>1 DEF get, Goto, rows, TypeOK
    <2>2. CASE saveApproved(r) \/ saveExpired(r)
      <3>1. Resuming'
        BY <1>0, <1>2, <2>2 DEF saveApproved, saveExpired, Goto, TypeOK
      <3>2. UNCHANGED switch /\ \A b \in Transfers : Proposed(b)' => Proposed(b)
        BY <1>0, <2>2, PendingAssumption DEF saveApproved, saveExpired, save, TypeOK, Proposed
      <3> QED
        BY <1>1, <3>1, <3>2 DEF Paused, Off, switch
    <2>3. CASE enqueue(r)
      BY <1>0, <1>2, <1>3, <2>3 DEF enqueue, Goto, rows, TypeOK
    <2>4. CASE saveRejected(r)
      <3>1. UNCHANGED switch /\ \A b \in Transfers : Proposed(b)' => Proposed(b)
        BY <1>0, <2>4, PendingAssumption DEF saveRejected, save, TypeOK, Proposed
      <3>2. Paused'
        BY <1>1, <3>1 DEF Paused, Off, switch
      <3>3. subject[r] \in Actions /\ status' = [status EXCEPT ![subject[r]] = "REJECTED"]
            /\ UNCHANGED subject
        BY <1>0, <2>4, PendingAssumption DEF saveRejected, save, TypeOK
      <3>4. Resuming'
        <4> SUFFICES ASSUME NEW q \in Requests, pc'[q] = "resume"
                     PROVE  /\ subject[q] \in Transfers /\ status'[subject[q]] # "PENDING"
                            /\ subject[q] \notin Racing => status'[subject[q]] = "REJECTED"
          BY <3>3 DEF Resuming
        <4>1. CASE q = r
          BY <1>0, <2>4, <3>3, <4>1 DEF saveRejected, Goto, TypeOK
        <4>2. CASE q # r
          <5>1. pc[q] = "resume"
            BY <1>0, <2>4, <4>2 DEF saveRejected, Goto, TypeOK
          <5>2. /\ subject[q] \in Transfers /\ status[subject[q]] # "PENDING"
                /\ subject[q] \notin Racing => status[subject[q]] = "REJECTED"
            BY <5>1 DEF UInv, Resuming
          <5> QED
            BY <1>0, <3>3, <5>2, PendingAssumption DEF TypeOK
        <4> QED
          BY <4>1, <4>2
      <3> QED
        BY <3>2, <3>4
    <2>5. CASE resumeAi(r)
      <3>1. /\ subject[r] \in Transfers /\ status[subject[r]] # "PENDING"
            /\ subject[r] \notin Racing => status[subject[r]] = "REJECTED"
            /\ UNCHANGED <<status, gate, subject>>
        BY <2>5 DEF resumeAi, UInv, Resuming, rows
      <3>2. gate[subject[r]] = "closed"
        BY <1>0, <3>1, PendingAssumption DEF DInv, PInv, Gated
      <3>3. Resuming'
        BY <1>0, <1>2, <2>5 DEF resumeAi, Goto, TypeOK
      <3>4. ASSUME NEW a \in Transfers, Proposed(a)' PROVE Off(ConvOf[a])' \/ Lifted(a)'
        <4>1. Proposed(a) /\ a # subject[r]
          BY <3>1, <3>2, <3>4 DEF Proposed
        <4>2. CASE ConvOf[a] = ConvOf[subject[r]]
          BY <3>1, <4>1, <4>2 DEF Lifted
        <4>3. CASE ConvOf[a] # ConvOf[subject[r]]
          <5>1. Off(ConvOf[a])' <=> Off(ConvOf[a])
            BY <1>0, <2>5, <4>3, PendingAssumption DEF resumeAi, TypeOK, Off
          <5> QED
            BY <1>0, <4>1, <5>1, StaysLifted DEF UInv, Paused
        <4> QED
          BY <4>2, <4>3
      <3> QED
        BY <3>3, <3>4 DEF Paused
    <2> QED
      BY <1>6, <2>1, <2>2, <2>3, <2>4, <2>5 DEF Decide
  <1>7. ASSUME NEW r \in Requests, RequestFails(r) \/ JobFails(r) PROVE Paused' /\ Resuming'
    BY <1>0, <1>2, <1>3, <1>7 DEF RequestFails, JobFails, Goto, rows, TypeOK
  <1>8. ASSUME NEW r \in Requests, Execute(r) PROVE Paused' /\ Resuming'
    <2>1. Resuming'
      BY <1>2, <1>8 DEF Execute, process, executeTransferToHuman, executeHttpSkill, record
    <2>2. CASE process(r) \/ executeHttpSkill(r)
      BY <1>3, <2>1, <2>2 DEF process, executeHttpSkill, rows
    <2>3. CASE executeTransferToHuman(r)
      <3>1. UNCHANGED <<status, gate>>
            /\ \A a \in Transfers : Off(ConvOf[a]) => Off(ConvOf[a])'
        BY <1>0, <2>3, PendingAssumption DEF executeTransferToHuman, pause, rows, switch, TypeOK, Off
      <3>2. \A a \in Transfers : Proposed(a)' => Off(ConvOf[a])' \/ Lifted(a)'
        BY <1>0, <3>1, StaysLifted DEF UInv, Paused, Proposed
      <3> QED
        BY <2>1, <3>2 DEF Paused
    <2>4. CASE record(r)
      <3>1. UNCHANGED switch /\ \A b \in Transfers : Proposed(b)' => Proposed(b)
        BY <1>0, <2>4, PendingAssumption DEF record, TypeOK, Proposed
      <3> QED
        BY <1>1, <2>1, <3>1 DEF Paused, Off, switch
    <2> QED
      BY <1>8, <2>2, <2>3, <2>4 DEF Execute
  <1>9. CASE expireOverdueActions
    <2>1. UNCHANGED switch /\ \A b \in Transfers : Proposed(b)' => Proposed(b)
      BY <1>9, PendingAssumption DEF expireOverdueActions, Proposed
    <2>2. Resuming'
      BY <1>2, <1>9 DEF expireOverdueActions
    <2> QED
      BY <1>1, <2>1, <2>2 DEF Paused, Off, switch
  <1>10. CASE Crash
    <2>1. UNCHANGED switch /\ \A b \in Transfers : Proposed(b)' => Proposed(b)
      BY <1>0, <1>10, PendingAssumption DEF Crash, Proposed, rows, TypeOK
    <2>2. Resuming'
      BY <1>2, <1>10 DEF Crash
    <2> QED
      BY <1>1, <2>1, <2>2 DEF Paused, Off, switch
  <1>11. CASE UNCHANGED vars
    BY <1>2, <1>3, <1>11 DEF vars, rows
  <1>12. ASSUME NEW c \in Conversations, Switch(c) PROVE Paused' /\ Resuming'
    <2>1. UNCHANGED <<status, gate, pc, subject>> /\ \A d \in Conversations : Off(d) => Off(d)'
      BY <1>0, <1>12 DEF Switch, toggleAi, setActiveAgent, pause, switchOn, rows, TypeOK, Off
    <2>2. Resuming'
      BY <1>2, <2>1
    <2>3. \A a \in Transfers : Proposed(a)' => Off(ConvOf[a])' \/ Lifted(a)'
      BY <1>1, <2>1, PendingAssumption DEF Proposed
    <2> QED
      BY <2>2, <2>3 DEF Paused
  <1> QED
    BY <1>4, <1>5, <1>6, <1>7, <1>8, <1>9, <1>10, <1>11, <1>12 DEF Next

\* Under a pending transfer the AI stays paused, for any number of transfers,
\* operators, switches and crashes, unless the rejection of another transfer of
\* the conversation lifted the pause or somebody has used the switch since.
THEOREM PauseHolds == Spec => []PausedUntilDecided
  <1>1. UInv => PausedUntilDecided
    BY DEF UInv, Paused, Off, Proposed, Lifted, PausedUntilDecided
  <1> QED
    BY <1>1, InitUInv, NextUInv, PTL DEF Spec
=============================================================================
