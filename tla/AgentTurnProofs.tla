---------------------------- MODULE AgentTurnProofs ----------------------------
(***************************************************************************)
(* The debounce and the hand-over to a person, for any number of slots,    *)
(* messages, events, attempts and chained runs.                            *)
(***************************************************************************)
EXTENDS AgentTurn, TLAPS

\* The type invariant in two parts: what is counted or chosen, and the switches;
\* every inbound job belongs to a message.
Values ==
    /\ status \in Statuses /\ ai \in {"auto", "on", "off"}
    /\ stuckAttempts \in 0..MaxAttempts
    /\ inbound \in 0..MaxInbound /\ last \in {"none", "in", "out"}
    /\ deciding \in 0..MaxInbound /\ deciding <= inbound
    /\ slot \in [Slots -> Invocations]
    /\ seen \in 0..MaxInbound /\ excused \in 0..MaxInbound
    /\ job \in {"none", "delayed", "active", "finished", "failed"}
    /\ jobAttempts \in 0..MaxAttempts /\ verdict \in Verdicts
    /\ sched \in {"idle", "read", "add", "mark"} /\ schedAttempts \in 0..MaxAttempts
    /\ cancel \in {"idle", "remove", "clear"} /\ events \in 0..MaxEvents

Switches ==
    /\ assigned \in BOOLEAN /\ isStuck \in BOOLEAN /\ jobId \in BOOLEAN
    /\ timer \in BOOLEAN /\ running \in BOOLEAN /\ followup \in BOOLEAN
    /\ routable \in BOOLEAN /\ watched \in BOOLEAN /\ internal \in BOOLEAN

TurnInv == Values /\ Switches

-----------------------------------------------------------------------------
\* The records of which the state is made.
LEMMA Entering ==
  ASSUME NEW o \in Origins, NEW d \in 0..MaxDepth
  PROVE  /\ entering(o, d) \in Invocations
         /\ entering(o, d).origin = o /\ entering(o, d).pc = "start"
  BY DEF Invocations, entering, Pcs

LEMMA Asking ==
  ASSUME NEW o \in Origins
  PROVE  /\ asking(o) \in Invocations
         /\ asking(o).origin = o /\ asking(o).pc = "check"
  BY AgentTurnAssumption DEF AgentTurnAssumption, Invocations, asking, Pcs

LEMMA Records ==
  /\ Idle \in Invocations /\ Idle.pc = "idle"
  /\ \A r \in Invocations, pc \in {"start", "work"} :
        /\ [r EXCEPT !.pc = pc] \in Invocations
        /\ [r EXCEPT !.pc = pc].pc = pc
        /\ [r EXCEPT !.pc = pc].origin = r.origin /\ [r EXCEPT !.pc = pc].depth = r.depth
        /\ r.origin \in Origins /\ r.depth \in 0..MaxDepth
  <1> USE AgentTurnAssumption DEF AgentTurnAssumption, Invocations, Pcs, Origins
  <1>1. Idle \in Invocations /\ Idle.pc = "idle"
    BY DEF Idle
  <1>2. ASSUME NEW r \in Invocations, NEW pc \in {"start", "work"}
        PROVE  /\ [r EXCEPT !.pc = pc] \in Invocations
               /\ [r EXCEPT !.pc = pc].pc = pc
               /\ [r EXCEPT !.pc = pc].origin = r.origin /\ [r EXCEPT !.pc = pc].depth = r.depth
               /\ r.origin \in Origins /\ r.depth \in 0..MaxDepth
    OBVIOUS
  <1> QED
    BY <1>1, <1>2

LEMMA VerdictRecords ==
  /\ NoVerdict \in Verdicts
  /\ Plain("clear") \in Verdicts /\ Plain("stick") \in Verdicts
  /\ \A v \in Verdicts : /\ [v EXCEPT !.do = "wait"] \in Verdicts
                         /\ v.attempts \in 0..MaxAttempts
  <1> USE AgentTurnAssumption DEF AgentTurnAssumption, Verdicts
  <1>1. NoVerdict \in Verdicts
    BY DEF NoVerdict, Plain
  <1>2. Plain("clear") \in Verdicts /\ Plain("stick") \in Verdicts
    BY DEF Plain
  <1>3. ASSUME NEW v \in Verdicts
        PROVE  [v EXCEPT !.do = "wait"] \in Verdicts /\ v.attempts \in 0..MaxAttempts
    OBVIOUS
  <1> QED
    BY <1>1, <1>2, <1>3

LEMMA RetryVerdict ==
  ASSUME NEW n \in 0..MaxAttempts, NEW p \in BOOLEAN
  PROVE  [do |-> "retry", attempts |-> n, pending |-> p] \in Verdicts
  BY DEF Verdicts

\* Type correctness, one action at a time.
LEMMA InitTurnInv == Init => TurnInv
  <1>1. Init => Values
    BY AgentTurnAssumption, Records, VerdictRecords
       DEF AgentTurnAssumption, Init, Values, Statuses
  <1>2. Init => Switches
    BY DEF Init, Switches
  <1> QED
    BY <1>1, <1>2 DEF TurnInv

LEMMA ReturnTyped ==
  ASSUME Values, NEW s \in Slots, return(s)
  PROVE  /\ cancel' \in {"idle", "remove", "clear"}
         /\ job' \in {"none", "delayed", "active", "finished", "failed"}
         /\ verdict' \in Verdicts
         /\ UNCHANGED <<jobAttempts, sched, schedAttempts>>
  BY VerdictRecords DEF Values, return, finally, jobEnds, debounce, queue, calls

LEMMA ReturnSwitches ==
  ASSUME Switches, NEW s \in Slots, return(s)
  PROVE  timer' \in BOOLEAN /\ running' \in BOOLEAN /\ followup' \in BOOLEAN
  BY DEF Switches, return, finally, debounce, queue, calls

\* A slot that takes a new record, or the same one at another point.
LEMMA SlotTyped ==
  ASSUME Values, NEW s \in Slots, NEW v \in Invocations, slot' = [slot EXCEPT ![s] = v]
  PROVE  slot' \in [Slots -> Invocations]
  BY DEF Values

LEMMA SlotMoves ==
  ASSUME Values, NEW s \in Slots, NEW pc \in {"start", "work"},
         slot' = [slot EXCEPT ![s].pc = pc]
  PROVE  /\ slot' = [slot EXCEPT ![s] = [slot[s] EXCEPT !.pc = pc]]
         /\ slot' \in [Slots -> Invocations]
  <1>1. slot[s] \in Invocations /\ slot \in [Slots -> Invocations]
    BY DEF Values
  <1>2. slot' = [slot EXCEPT ![s] = [slot[s] EXCEPT !.pc = pc]]
    OBVIOUS
  <1>3. [slot[s] EXCEPT !.pc = pc] \in Invocations
    BY <1>1, Records
  <1> QED
    BY <1>1, <1>2, <1>3

LEMMA CutOffTyped ==
  ASSUME Values, NEW deciders, cutOff(deciders)
  PROVE  excused' \in 0..MaxInbound
  BY DEF Values, cutOff

\* A record that an invocation chains to.
LEMMA ChainTyped ==
  ASSUME Values, NEW s \in Slots, autoChain(s)
  PROVE  slot' \in [Slots -> Invocations]
  <1>1. slot[s].depth \in 0..MaxDepth
    BY Records DEF Values
  <1>2. slot[s].depth + 1 \in 0..MaxDepth
    BY <1>1, AgentTurnAssumption DEF AgentTurnAssumption, autoChain
  <1>3. entering("detached", slot[s].depth + 1) \in Invocations
    BY <1>2, Entering DEF Origins
  <1> QED
    BY <1>3, SlotTyped DEF autoChain

LEMMA EnterTyped ==
  ASSUME Values, NEW s \in Slots, Enter(s)
  PROVE  slot' \in [Slots -> Invocations]
  <1>1. 0 \in 0..MaxDepth /\ 1 \in 0..MaxDepth /\ "detached" \in Origins
    BY AgentTurnAssumption DEF AgentTurnAssumption, Origins
  <1>2. /\ asking("detached") \in Invocations /\ entering("detached", 0) \in Invocations
        /\ entering("detached", 1) \in Invocations
    BY <1>1, Asking, Entering
  <1> QED
    BY <1>2, SlotTyped DEF Enter, engageAi, setActiveAgent, sendInternal, fireCron

LEMMA StepValues == TurnInv /\ Step => Values'
  <1> SUFFICES ASSUME TurnInv, Step PROVE Values'
    OBVIOUS
  <1>0. Values /\ "watchdog" \in Origins /\ "debounce" \in Origins
    BY DEF TurnInv, Origins
  <1> USE <1>0, AgentTurnAssumption, Records, VerdictRecords
      DEF AgentTurnAssumption, Values, Statuses, conv, dog, mail, debounce,
          runs, queue, calls, env, keepSettings, another
  <1>1. CASE Arrive
    BY <1>1 DEF Arrive
  <1>2. CASE tryAiAgent \/ tryAiAgentThrows
    BY <1>2, CutOffTyped
       DEF tryAiAgent, tryAiAgentThrows, scheduleAgentRun, ensureRoutedToDefaultSector
  <1>3. ASSUME NEW s \in Slots, fireAgentRun(s) \/ checkAgain(s) \/ throws(s) PROVE Values'
    <2>1. CASE fireAgentRun(s)
      <3>1. slot' \in [Slots -> Invocations]
        BY <2>1, Asking, SlotTyped DEF fireAgentRun
      <3> QED
        BY <2>1, <3>1 DEF fireAgentRun
    <2>2. CASE checkAgain(s)
      <3>1. slot' \in [Slots -> Invocations]
        BY <2>2, SlotTyped, SlotMoves DEF checkAgain
      <3>2. job' \in {"none", "delayed", "active", "finished", "failed"} /\ verdict' \in Verdicts
        BY <2>2 DEF checkAgain, finally, jobEnds
      <3>3. UNCHANGED <<conv, dog, mail, deciding, seen, excused, calls, env, jobAttempts>>
        BY <2>2 DEF checkAgain
      <3> QED
        BY <3>1, <3>2, <3>3
    <2>3. CASE throws(s)
      <3>1. slot' \in [Slots -> Invocations]
        BY <2>3, SlotTyped DEF throws
      <3>2. job' \in {"none", "delayed", "active", "finished", "failed"} /\ verdict' \in Verdicts
        BY <2>3 DEF throws, finally, jobEnds
      <3>3. UNCHANGED <<conv, dog, mail, deciding, seen, calls, jobAttempts>>
        BY <2>3 DEF throws
      <3>4. excused' \in 0..MaxInbound /\ events' \in 0..MaxEvents
        BY <2>3, CutOffTyped DEF throws
      <3> QED
        BY <3>1, <3>2, <3>3, <3>4
    <2> QED
      BY <1>3, <2>1, <2>2, <2>3
  <1>4. ASSUME NEW s \in Slots, Run(s) PROVE Values'
    <2>1. CASE begin(s)
      <3>1. slot' \in [Slots -> Invocations]
        BY <2>1, SlotMoves DEF begin
      <3> QED
        BY <2>1, <3>1 DEF begin, promotes
    <2>2. CASE resolvesNobody(s)
      <3>1. slot' \in [Slots -> Invocations] /\ excused' \in 0..MaxInbound
        BY <2>2, SlotTyped, CutOffTyped DEF resolvesNobody
      <3> QED
        BY <2>2, <3>1, ReturnTyped DEF resolvesNobody, promotes
    <2>3. CASE replyToConversation(s)
      BY <2>3 DEF replyToConversation
    <2>4. CASE transferToHuman(s)
      BY <2>4, ReturnTyped DEF transferToHuman
    <2>5. CASE endTurn(s)
      BY <2>5, ReturnTyped DEF endTurn
    <2>6. CASE autoChain(s)
      <3>1. slot' \in [Slots -> Invocations]
        BY <2>6, ChainTyped
      <3> QED
        BY <2>6, <3>1, ReturnTyped DEF autoChain
    <2> QED
      BY <1>4, <2>1, <2>2, <2>3, <2>4, <2>5, <2>6 DEF Run
  <1>5. ASSUME NEW s \in Slots, Enter(s) PROVE Values'
    <2>1. slot' \in [Slots -> Invocations]
      BY <1>5, EnterTyped
    <2> QED
      BY <1>5, <2>1 DEF Enter, engageAi, setActiveAgent, sendInternal, fireCron
  <1>6. CASE Operator
    <2>1. CASE send \/ echo
      BY <2>1 DEF send, echo
    <2>2. CASE assignToMe \/ transferToDepartment
      BY <2>2 DEF assignToMe, transferToDepartment
    <2>3. ASSUME NEW v \in {"auto", "on", "off"}, toggleAi(v) PROVE Values'
      BY <2>3 DEF toggleAi
    <2>4. ASSUME NEW to \in Statuses, transition(to) PROVE Values'
      BY <2>4 DEF transition
    <2> QED
      BY <1>6, <2>1, <2>2, <2>3, <2>4 DEF Operator
  <1>7. CASE Settings \/ Restart
    BY <1>7 DEF Settings, Restart
  <1>8. CASE Schedule
    BY <1>8 DEF Schedule, readForCheck, addCheck, markCheck
  <1>9. CASE Cancel \/ callFails
    BY <1>9 DEF Cancel, cancelCheckRemove, cancelCheckClear, callFails
  <1>10. CASE scanAndEnqueue \/ Evict
    BY <1>10 DEF scanAndEnqueue, Evict
  <1>11. CASE Timer
    <2>1. CASE timerFires
      <3>1. ~exhausted => stuckAttempts + 1 \in 0..MaxAttempts
        BY DEF exhausted
      <3>2. (status = "PENDING") \in BOOLEAN
        OBVIOUS
      <3>3. ~exhausted => [do |-> "retry", attempts |-> stuckAttempts + 1,
                           pending |-> status = "PENDING"] \in Verdicts
        BY <3>1, <3>2, RetryVerdict
      <3>4. verdict' \in Verdicts
        BY <2>1, <3>3 DEF timerFires
      <3> QED
        BY <2>1, <3>4 DEF timerFires
    <2>2. CASE clearJobId \/ markStuck
      BY <2>2 DEF clearJobId, markStuck, jobEnds
    <2>3. ASSUME NEW s \in Slots, countAttempt(s) PROVE Values'
      <3>1. slot' \in [Slots -> Invocations]
        BY <2>3, Asking, SlotTyped DEF countAttempt
      <3> QED
        BY <2>3, <3>1 DEF countAttempt
    <2> QED
      BY <1>11, <2>1, <2>2, <2>3 DEF Timer
  <1>12. CASE timerFails
    BY <1>12 DEF timerFails, jobEnds
  <1> QED
    BY <1>1, <1>2, <1>3, <1>4, <1>5, <1>6, <1>7, <1>8, <1>9, <1>10, <1>11, <1>12 DEF Step

LEMMA StepSwitches == TurnInv /\ Step => Switches'
  <1> SUFFICES ASSUME TurnInv, Step PROVE Switches'
    OBVIOUS
  <1>0. Switches
    BY DEF TurnInv
  <1> USE <1>0 DEF Switches, conv, dog, mail, debounce, runs, queue, calls, env,
          keepSettings, another
  <1>1. CASE Arrive
    BY <1>1 DEF Arrive
  <1>2. CASE tryAiAgent \/ tryAiAgentThrows
    BY <1>2 DEF tryAiAgent, tryAiAgentThrows, scheduleAgentRun, ensureRoutedToDefaultSector
  <1>3. ASSUME NEW s \in Slots, fireAgentRun(s) \/ checkAgain(s) \/ throws(s) PROVE Switches'
    BY <1>3 DEF fireAgentRun, checkAgain, throws, finally
  <1>4. ASSUME NEW s \in Slots, Run(s) PROVE Switches'
    <2>1. CASE begin(s) \/ replyToConversation(s)
      BY <2>1 DEF begin, replyToConversation
    <2>2. CASE transferToHuman(s)
      BY <2>2, ReturnSwitches DEF transferToHuman
    <2>3. CASE endTurn(s) \/ resolvesNobody(s)
      BY <2>3, ReturnSwitches DEF endTurn, resolvesNobody
    <2>4. CASE autoChain(s)
      BY <2>4, ReturnSwitches DEF autoChain
    <2> QED
      BY <1>4, <2>1, <2>2, <2>3, <2>4 DEF Run
  <1>5. ASSUME NEW s \in Slots, Enter(s) PROVE Switches'
    BY <1>5 DEF Enter, engageAi, setActiveAgent, sendInternal, fireCron
  <1>6. CASE Operator
    <2>1. CASE send \/ echo
      BY <2>1 DEF send, echo
    <2>2. CASE assignToMe \/ transferToDepartment
      BY <2>2 DEF assignToMe, transferToDepartment
    <2>3. ASSUME NEW v \in {"auto", "on", "off"}, toggleAi(v) PROVE Switches'
      BY <2>3 DEF toggleAi
    <2>4. ASSUME NEW to \in Statuses, transition(to) PROVE Switches'
      BY <2>4 DEF transition
    <2> QED
      BY <1>6, <2>1, <2>2, <2>3, <2>4 DEF Operator
  <1>7. CASE Settings \/ Restart
    BY <1>7 DEF Settings, Restart
  <1>8. CASE Schedule
    BY <1>8 DEF Schedule, readForCheck, addCheck, markCheck
  <1>9. CASE Cancel \/ callFails
    BY <1>9 DEF Cancel, cancelCheckRemove, cancelCheckClear, callFails
  <1>10. CASE scanAndEnqueue \/ Evict
    BY <1>10 DEF scanAndEnqueue, Evict
  <1>11. CASE Timer
    <2>1. CASE timerFires
      BY <2>1 DEF timerFires, exhausted
    <2>2. CASE clearJobId \/ markStuck
      BY <2>2 DEF clearJobId, markStuck
    <2>3. ASSUME NEW s \in Slots, countAttempt(s) PROVE Switches'
      BY <2>3 DEF countAttempt
    <2> QED
      BY <1>11, <2>1, <2>2, <2>3 DEF Timer
  <1>12. CASE timerFails
    BY <1>12 DEF timerFails
  <1> QED
    BY <1>1, <1>2, <1>3, <1>4, <1>5, <1>6, <1>7, <1>8, <1>9, <1>10, <1>11, <1>12 DEF Step

LEMMA NextTurnInv == TurnInv /\ [Next]_vars => TurnInv'
  <1> SUFFICES ASSUME TurnInv, [Next]_vars PROVE TurnInv'
    OBVIOUS
  <1>1. CASE Next
    BY <1>1, StepValues, StepSwitches DEF Next, TurnInv
  <1>2. CASE UNCHANGED vars
    BY <1>2 DEF vars, turn, TurnInv, Values, Switches, conv, dog, mail, debounce, runs, queue,
                calls, env
  <1> QED
    BY <1>1, <1>2

LEMMA InitTickets == Init => tickets \subseteq Slots \X (0..MaxDepth)
  BY DEF Init

LEMMA NextTickets ==
  tickets \subseteq Slots \X (0..MaxDepth) /\ [Next]_vars
    => (tickets \subseteq Slots \X (0..MaxDepth))'
  <1>1. runsLeft' \subseteq Slots \X (0..MaxDepth)
    BY DEF runsLeft
  <1> QED
    BY <1>1 DEF Next, Record, vars

\* The turn's state is well typed: in particular the watchdog's attempts stay
\* within maxAttempts and chained runs within MAX_CHAIN_DEPTH.
THEOREM TypeCorrect == Spec => []TypeOK
  <1>1. TurnInv /\ tickets \subseteq Slots \X (0..MaxDepth) => TypeOK
    BY DEF TurnInv, Values, Switches, TypeOK
  <1> QED
    BY <1>1, InitTurnInv, NextTurnInv, InitTickets, NextTickets, PTL DEF Spec

-----------------------------------------------------------------------------
\* The debounce.  How the set of its slots changes with one slot.
LEMMA OneSlot ==
  ASSUME NEW s \in Slots, NEW v, slot \in [Slots -> Invocations],
         slot' = [slot EXCEPT ![s] = v]
  PROVE  /\ v.origin # "debounce" \/ v.pc = "idle" => debouncedSlots' = debouncedSlots \ {s}
         /\ v.origin = "debounce" /\ v.pc # "idle" =>
               debouncedSlots' = debouncedSlots \union {s}
  BY DEF debouncedSlots

\* Nothing that the debounce looks at changes.
LEMMA Elsewhere ==
  ASSUME DebounceConsistent, UNCHANGED <<slot, debounce>>
  PROVE  DebounceConsistent'
  BY DEF DebounceConsistent, debouncedSlots, debounce

LEMMA SameSlots ==
  ASSUME DebounceConsistent, UNCHANGED debounce, debouncedSlots' = debouncedSlots
  PROVE  DebounceConsistent'
  BY DEF DebounceConsistent, debounce

\* A run that returns leaves its slot; only fireAgentRun's finally block ends
\* what `running` stands for.
LEMMA Returns ==
  ASSUME DebounceConsistent, NEW s \in Slots,
         slot[s].pc # "idle", return(s), debouncedSlots' = debouncedSlots \ {s}
  PROVE  DebounceConsistent'
  <1>1. CASE slot[s].origin = "debounce"
    <2>1. s \in debouncedSlots
      BY <1>1 DEF debouncedSlots
    <2>2. debouncedSlots' = {}
      BY <2>1 DEF DebounceConsistent
    <2>3. running' = FALSE /\ followup' = FALSE
      BY <1>1 DEF return, finally
    <2> QED
      BY <2>2, <2>3 DEF DebounceConsistent
  <1>2. CASE slot[s].origin # "debounce"
    <2>1. debouncedSlots' = debouncedSlots
      BY <1>2 DEF debouncedSlots
    <2>2. UNCHANGED debounce
      BY <1>2 DEF return
    <2> QED
      BY <2>1, <2>2, SameSlots
  <1> QED
    BY <1>1, <1>2

LEMMA InitDebounce == Init => DebounceConsistent
  BY Records DEF Init, DebounceConsistent, debouncedSlots

LEMMA StepDebounce == TurnInv /\ DebounceConsistent /\ Step => DebounceConsistent'
  <1> SUFFICES ASSUME TurnInv, DebounceConsistent, Step PROVE DebounceConsistent'
    OBVIOUS
  <1>0. slot \in [Slots -> Invocations] /\ Values
    BY DEF TurnInv, Values
  <1>1. CASE tryAiAgent
    <2>1. debouncedSlots' = debouncedSlots
      BY <1>1 DEF tryAiAgent, runs, debouncedSlots
    <2>2. CASE UNCHANGED debounce
      BY <2>1, <2>2, SameSlots
    <2>3. CASE scheduleAgentRun
      BY <2>1, <2>3 DEF scheduleAgentRun, DebounceConsistent
    <2> QED
      BY <1>1, <2>2, <2>3 DEF tryAiAgent
  <1>2. ASSUME NEW s \in Slots, slot[s].pc # "idle", slot' = [slot EXCEPT ![s] = Idle],
               IF slot[s].origin = "debounce" THEN finally ELSE UNCHANGED debounce
        PROVE  DebounceConsistent'
    <2>1. debouncedSlots' = debouncedSlots \ {s}
      BY <1>0, <1>2, OneSlot, Records
    <2>2. CASE slot[s].origin = "debounce"
      <3>1. s \in debouncedSlots
        BY <1>2, <2>2 DEF debouncedSlots
      <3>2. debouncedSlots' = {}
        BY <2>1, <3>1 DEF DebounceConsistent
      <3> QED
        BY <1>2, <2>2, <3>2 DEF finally, DebounceConsistent
    <2>3. CASE slot[s].origin # "debounce"
      <3>1. debouncedSlots' = debouncedSlots
        BY <2>1, <2>3 DEF debouncedSlots
      <3> QED
        BY <1>2, <2>3, <3>1, SameSlots
    <2> QED
      BY <2>2, <2>3
  <1>3. ASSUME NEW s \in Slots, NEW pc \in {"start", "work"}, slot[s].pc # "idle",
               slot' = [slot EXCEPT ![s].pc = pc], UNCHANGED debounce
        PROVE  DebounceConsistent'
    <2> DEFINE v == [slot[s] EXCEPT !.pc = pc]
    <2>1. slot' = [slot EXCEPT ![s] = v]
      BY <1>0, <1>3, SlotMoves
    <2>2. v.pc # "idle" /\ v.origin = slot[s].origin
      BY <1>0, Records
    <2> HIDE DEF v
    <2>3. debouncedSlots' = debouncedSlots
      BY <1>0, <1>3, <2>1, <2>2, OneSlot DEF debouncedSlots
    <2> QED
      BY <1>3, <2>3, SameSlots
  <1>4. ASSUME NEW s \in Slots, NEW v, slot[s].pc = "idle", UNCHANGED debounce,
               slot' = [slot EXCEPT ![s] = v], v.origin # "debounce"
        PROVE  DebounceConsistent'
    <2>1. debouncedSlots' = debouncedSlots
      BY <1>0, <1>4, OneSlot DEF debouncedSlots
    <2> QED
      BY <1>4, <2>1, SameSlots
  <1>5. ASSUME NEW s \in Slots, fireAgentRun(s) PROVE DebounceConsistent'
    <2>1. debouncedSlots = {}
      BY <1>5 DEF fireAgentRun, DebounceConsistent
    <2>2. asking("debounce").origin = "debounce" /\ asking("debounce").pc # "idle"
      BY Asking DEF Origins
    <2>3. debouncedSlots' = debouncedSlots \union {s}
      BY <1>0, <1>5, <2>2, OneSlot DEF fireAgentRun
    <2> QED
      BY <1>5, <2>1, <2>3 DEF fireAgentRun, DebounceConsistent
  <1>6. ASSUME NEW s \in Slots, checkAgain(s) PROVE DebounceConsistent'
    <2>1. CASE slot' = [slot EXCEPT ![s].pc = "start"] /\ UNCHANGED debounce
      BY <1>3, <1>6, <2>1 DEF checkAgain
    <2>2. CASE /\ slot' = [slot EXCEPT ![s] = Idle]
               /\ IF slot[s].origin = "debounce" THEN finally ELSE UNCHANGED debounce
      BY <1>2, <1>6, <2>2 DEF checkAgain
    <2> QED
      BY <1>6, <2>1, <2>2 DEF checkAgain, debounce
  <1>7. ASSUME NEW s \in Slots, throws(s) PROVE DebounceConsistent'
    BY <1>2, <1>7 DEF throws, debounce
  <1>8. ASSUME NEW s \in Slots, Run(s) PROVE DebounceConsistent'
    <2>1. ASSUME slot[s].pc # "idle", return(s), slot' = [slot EXCEPT ![s] = Idle]
          PROVE  DebounceConsistent'
      BY <1>0, <2>1, OneSlot, Returns, Records
    <2>2. CASE begin(s)
      BY <1>3, <2>2 DEF begin
    <2>3. CASE resolvesNobody(s)
      BY <2>1, <2>3 DEF resolvesNobody
    <2>4. CASE replyToConversation(s)
      BY <2>4, Elsewhere DEF replyToConversation, runs
    <2>5. CASE transferToHuman(s)
      BY <2>1, <2>5 DEF transferToHuman
    <2>6. CASE endTurn(s)
      BY <2>1, <2>6 DEF endTurn
    <2>7. CASE autoChain(s)
      <3>1. entering("detached", slot[s].depth + 1).origin # "debounce"
        BY DEF entering
      <3>2. debouncedSlots' = debouncedSlots \ {s}
        BY <1>0, <2>7, <3>1, OneSlot DEF autoChain
      <3> QED
        BY <2>7, <3>2, Returns DEF autoChain
    <2> QED
      BY <1>8, <2>2, <2>3, <2>4, <2>5, <2>6, <2>7 DEF Run
  <1>9. ASSUME NEW s \in Slots, Enter(s) PROVE DebounceConsistent'
    <2>1. asking("detached").origin # "debounce" /\ entering("detached", 0).origin # "debounce"
          /\ entering("detached", 1).origin # "debounce"
      BY DEF asking, entering
    <2> QED
      BY <1>4, <1>9, <2>1 DEF Enter, engageAi, setActiveAgent, sendInternal, fireCron, free
  <1>10. CASE Operator
    <2>1. CASE send \/ echo \/ assignToMe \/ transferToDepartment
      BY <2>1, Elsewhere DEF send, echo, assignToMe, transferToDepartment, runs, debounce
    <2>2. ASSUME NEW v \in {"auto", "on", "off"}, toggleAi(v) PROVE DebounceConsistent'
      BY <2>2, Elsewhere DEF toggleAi, runs
    <2>3. ASSUME NEW to \in Statuses, transition(to) PROVE DebounceConsistent'
      BY <2>3, Elsewhere DEF transition, runs
    <2> QED
      BY <1>10, <2>1, <2>2, <2>3 DEF Operator
  <1>11. CASE \/ Arrive \/ tryAiAgentThrows \/ Settings \/ Schedule \/ Cancel \/ callFails
              \/ scanAndEnqueue \/ timerFails \/ Evict
    BY <1>11, Elsewhere
       DEF Arrive, tryAiAgentThrows, Settings, Schedule, readForCheck, addCheck, markCheck, Cancel,
           cancelCheckRemove, cancelCheckClear, callFails, scanAndEnqueue, timerFails, Evict, runs
  <1>12. CASE Restart
    <2>1. debouncedSlots' = {}
      BY <1>12, Records DEF Restart, debouncedSlots
    <2> QED
      BY <1>12, <2>1 DEF Restart, DebounceConsistent
  <1>13. CASE Timer
    <2>1. ASSUME NEW s \in Slots, countAttempt(s) PROVE DebounceConsistent'
      <3>1. asking("watchdog").origin # "debounce"
        BY DEF asking
      <3> QED
        BY <1>4, <2>1, <3>1 DEF countAttempt, free
    <2>2. CASE timerFires \/ clearJobId \/ markStuck
      BY <2>2, Elsewhere DEF timerFires, clearJobId, markStuck, runs
    <2> QED
      BY <1>13, <2>1, <2>2 DEF Timer
  <1> QED
    BY <1>1, <1>5, <1>6, <1>7, <1>8, <1>9, <1>10, <1>11, <1>12, <1>13 DEF Step

LEMMA NextDebounce == TurnInv /\ DebounceConsistent /\ [Next]_vars => DebounceConsistent'
  <1> SUFFICES ASSUME TurnInv, DebounceConsistent, [Next]_vars PROVE DebounceConsistent'
    OBVIOUS
  <1>1. CASE Next
    BY <1>1, StepDebounce DEF Next
  <1>2. CASE UNCHANGED vars
    BY <1>2, Elsewhere DEF vars, turn, runs
  <1> QED
    BY <1>1, <1>2

\* The debounce keeps its promises: one run at a time, no trigger and no
\* follow-up lost, for any number of messages, operators, errors and restarts.
THEOREM DebounceHolds == Spec => []DebounceConsistent
  BY InitTurnInv, NextTurnInv, InitDebounce, NextDebounce, PTL DEF Spec

-----------------------------------------------------------------------------
\* What may begin under a person's floor: no step but an entry into an idle slot
\* brings a run that was not to be expected.
NoNewRuns == \A p \in runsLeft' : p \in runsLeft \/ slot[p[1]].pc = "idle"

LEMMA OnceStarted ==
  /\ \A d \in 0..MaxDepth : ~mayBegin(Idle, d)
  /\ \A i \in Invocations, d \in 0..MaxDepth :
        /\ i.pc = "start" /\ mayBegin([i EXCEPT !.pc = "work"], d) => mayBegin(i, d)
        /\ i.pc = "work" /\ mayBegin(entering("detached", i.depth + 1), d) => mayBegin(i, d)
  <1>1. ASSUME NEW d \in 0..MaxDepth PROVE ~mayBegin(Idle, d)
    BY Records DEF mayBegin
  <1>2. ASSUME NEW i \in Invocations, NEW d \in 0..MaxDepth, i.pc = "start",
               mayBegin([i EXCEPT !.pc = "work"], d)
        PROVE  mayBegin(i, d)
    <2>1. i.depth < d
      BY <1>2, Records DEF mayBegin
    <2>2. i.depth \in Nat /\ d \in Nat
      <3>1. i.depth \in 0..MaxDepth
        BY Records
      <3> QED
        BY <3>1, AgentTurnAssumption DEF AgentTurnAssumption
    <2>3. i.depth <= d
      BY <2>1, <2>2
    <2> QED
      BY <1>2, <2>3 DEF mayBegin
  <1>3. ASSUME NEW i \in Invocations, NEW d \in 0..MaxDepth, i.pc = "work",
               mayBegin(entering("detached", i.depth + 1), d)
        PROVE  mayBegin(i, d)
    <2>1. i.depth + 1 <= d
      BY <1>3 DEF mayBegin, entering
    <2>2. i.depth \in Nat /\ d \in Nat
      <3>1. i.depth \in 0..MaxDepth
        BY Records
      <3> QED
        BY <3>1, AgentTurnAssumption DEF AgentTurnAssumption
    <2>3. i.depth < d
      BY <2>1, <2>2
    <2> QED
      BY <1>3, <2>3 DEF mayBegin
  <1> QED
    BY <1>1, <1>2, <1>3

LEMMA SameRuns ==
  ASSUME UNCHANGED slot
  PROVE  NoNewRuns
  BY DEF NoNewRuns, runsLeft

LEMMA RunsOfOneSlot ==
  ASSUME slot \in [Slots -> Invocations], NEW s \in Slots, NEW v,
         slot' = [slot EXCEPT ![s] = v],
         \/ slot[s].pc = "idle"
         \/ \A d \in 0..MaxDepth : mayBegin(v, d) => mayBegin(slot[s], d)
  PROVE  NoNewRuns
  <1> SUFFICES ASSUME NEW t \in Slots, NEW d \in 0..MaxDepth, mayBegin(slot'[t], d)
               PROVE  mayBegin(slot[t], d) \/ slot[t].pc = "idle"
    BY DEF NoNewRuns, runsLeft
  <1>1. CASE t = s
    BY <1>1
  <1>2. CASE t # s
    BY <1>2
  <1> QED
    BY <1>1, <1>2

LEMMA FloorStep ==
  ASSUME TurnInv, Step, ~shouldHandle
  PROVE  NoNewRuns
  <1>0. slot \in [Slots -> Invocations] /\ Values
    BY DEF TurnInv, Values
  <1>1. ASSUME NEW s \in Slots, slot' = [slot EXCEPT ![s] = Idle] PROVE NoNewRuns
    BY <1>0, <1>1, OnceStarted, RunsOfOneSlot
  <1>2. ASSUME NEW s \in Slots, NEW v, slot[s].pc = "idle", slot' = [slot EXCEPT ![s] = v]
        PROVE  NoNewRuns
    BY <1>0, <1>2, RunsOfOneSlot
  <1>3. CASE Arrive \/ tryAiAgent \/ tryAiAgentThrows \/ Settings
    BY <1>3, SameRuns DEF Arrive, tryAiAgent, tryAiAgentThrows, Settings, runs
  <1>4. ASSUME NEW s \in Slots, fireAgentRun(s) \/ checkAgain(s) \/ throws(s) PROVE NoNewRuns
    BY <1>1, <1>2, <1>4 DEF fireAgentRun, free, checkAgain, throws
  <1>5. ASSUME NEW s \in Slots, Run(s) PROVE NoNewRuns
    <2>1. slot[s] \in Invocations
      BY <1>0
    <2>2. CASE begin(s)
      <3>1. slot' = [slot EXCEPT ![s] = [slot[s] EXCEPT !.pc = "work"]]
        BY <1>0, <2>2, SlotMoves DEF begin
      <3> QED
        BY <1>0, <2>1, <2>2, <3>1, OnceStarted, RunsOfOneSlot DEF begin
    <2>3. CASE resolvesNobody(s) \/ transferToHuman(s) \/ endTurn(s)
      BY <1>1, <2>3 DEF resolvesNobody, transferToHuman, endTurn
    <2>4. CASE replyToConversation(s)
      BY <2>4, SameRuns DEF replyToConversation, runs
    <2>5. CASE autoChain(s)
      BY <1>0, <2>1, <2>5, OnceStarted, RunsOfOneSlot DEF autoChain
    <2> QED
      BY <1>5, <2>2, <2>3, <2>4, <2>5 DEF Run
  <1>6. ASSUME NEW s \in Slots, Enter(s) PROVE NoNewRuns
    BY <1>2, <1>6 DEF Enter, engageAi, setActiveAgent, sendInternal, fireCron, free
  <1>7. CASE Operator
    BY <1>7, SameRuns
       DEF Operator, send, echo, assignToMe, transferToDepartment, toggleAi, transition, runs
  <1>8. CASE Restart
    BY <1>8, OnceStarted DEF Restart, NoNewRuns, runsLeft
  <1>9. CASE Schedule \/ Cancel \/ callFails \/ scanAndEnqueue \/ timerFails \/ Evict
    BY <1>9, SameRuns
       DEF Schedule, readForCheck, addCheck, markCheck, Cancel, cancelCheckRemove,
           cancelCheckClear, callFails, scanAndEnqueue, timerFails, Evict, runs
  <1>10. CASE Timer
    <2>1. ASSUME NEW s \in Slots, countAttempt(s) PROVE NoNewRuns
      BY <1>2, <2>1 DEF countAttempt, free
    <2>2. CASE timerFires \/ clearJobId \/ markStuck
      BY <2>2, SameRuns DEF timerFires, clearJobId, markStuck, runs
    <2> QED
      BY <1>10, <2>1, <2>2 DEF Timer
  <1> QED
    BY <1>3, <1>4, <1>5, <1>6, <1>7, <1>8, <1>9, <1>10 DEF Step

LEMMA InitFloor == Init => HumanKeepsTheFloor
  BY Records DEF Init, HumanKeepsTheFloor, runsLeft, mayBegin

LEMMA NextFloor == TurnInv /\ HumanKeepsTheFloor /\ [Next]_vars => HumanKeepsTheFloor'
  <1> SUFFICES ASSUME TurnInv, HumanKeepsTheFloor, [Next]_vars, ~shouldHandle'
               PROVE  runsLeft' \subseteq tickets'
    BY DEF HumanKeepsTheFloor
  <1>1. CASE Next /\ shouldHandle
    BY <1>1 DEF Next, Record
  <1>2. CASE Next /\ ~shouldHandle
    <2>1. NoNewRuns
      BY <1>2, FloorStep DEF Next
    <2>2. tickets' = {p \in runsLeft' : p \in tickets \/ slot[p[1]].pc = "idle"}
      BY <1>2 DEF Next, Record
    <2> QED
      BY <1>2, <2>1, <2>2 DEF NoNewRuns, HumanKeepsTheFloor
  <1>3. CASE UNCHANGED vars
    <2>1. UNCHANGED <<slot, conv, routable, tickets>>
      BY <1>3 DEF vars, turn, runs, env
    <2> QED
      BY <2>1 DEF HumanKeepsTheFloor, shouldHandle, runsLeft, mayBegin, conv
  <1> QED
    BY <1>1, <1>2, <1>3

\* When a person takes the floor, the runs past their check and the ones they may
\* chain are all that still begin, for any number of invocations, messages, jobs,
\* errors and requests; only the entries that ask nobody add to them.
THEOREM PersonKeepsTheFloor == Spec => []HumanKeepsTheFloor
  BY InitTurnInv, NextTurnInv, InitFloor, NextFloor, PTL DEF Spec
=============================================================================
