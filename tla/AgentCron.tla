-------------------------------- MODULE AgentCron -------------------------------
(***************************************************************************)
(* The scheduled agent tasks: each minute a tick lists the crons that are  *)
(* due and, one after the other, schedules each anew and fires it; a fired *)
(* cron runs its agent to the end and may pass the baton to the next cron  *)
(* of its conveyor ("esteira").  The queue has two workers, and a run of   *)
(* an agent may well last longer than a minute.                            *)
(***************************************************************************)
EXTENDS Naturals, FiniteSets

CONSTANTS
    Crons,
    Hands,       \* workers of the queue agent-crons
    MaxAsked,    \* bound: due times and "run now" requests of one cron
    MaxEdits,    \* bound: edits of crons
    NoCron       \* nextCronId of the last cron of a conveyor

ASSUME AgentCronAssumption ==
    NoCron \notin Crons /\ MaxAsked \in Nat /\ MaxEdits \in Nat

VARIABLES
    active,      \* isActive
    nextRun,     \* "past": nextRunAt <= now, "future", "null"
    nextCron,    \* nextCronId
    asks,        \* "run now" jobs in the queue
    hand,        \* a worker: where it is, its list, its conveyor, the next cron it read
    asked,       \* history: times a cron became due or was asked for
    fires,       \* history: times a cron was fired, but by a baton
    edits

cronVars == <<active, nextRun, nextCron, asks, hand, asked, fires, edits>>

MAX_ESTEIRA == 6
Open == [at |-> "idle", todo |-> {}, cur |-> NoCron, trail |-> {}, next |-> NoCron]

CronTypeOK ==
    /\ active \in [Crons -> BOOLEAN]
    /\ nextRun \in [Crons -> {"past", "future", "null"}]
    /\ nextCron \in [Crons -> Crons \union {NoCron}]
    /\ asks \subseteq Crons
    /\ hand \in [Hands -> [at : {"idle", "scan", "fire", "run"}, todo : SUBSET Crons,
                           cur : Crons \union {NoCron}, trail : SUBSET Crons,
                           next : Crons \union {NoCron}]]
    /\ asked \in [Crons -> 0..MaxAsked] /\ fires \in [Crons -> Nat]
    /\ edits \in 0..MaxEdits

CronInit ==
    /\ active = [c \in Crons |-> TRUE] /\ nextRun = [c \in Crons |-> "future"]
    /\ nextCron \in {f \in [Crons -> Crons \union {NoCron}] : \A c \in Crons : f[c] # c}
    /\ asks = {} /\ hand = [h \in Hands |-> Open]
    /\ asked = [c \in Crons |-> 0] /\ fires = [c \in Crons |-> 0] /\ edits = 0

-----------------------------------------------------------------------------
\* A due time comes; agent-crons.service.ts: runNow, update.
timeComes(c) ==
    /\ nextRun[c] = "future" /\ asked[c] < MaxAsked
    /\ nextRun' = [nextRun EXCEPT ![c] = "past"]
    /\ asked' = [asked EXCEPT ![c] = @ + 1]
    /\ UNCHANGED <<active, nextCron, asks, hand, fires, edits>>

runNow(c) ==
    /\ c \notin asks /\ asked[c] < MaxAsked
    /\ asks' = asks \union {c}
    /\ asked' = [asked EXCEPT ![c] = @ + 1]
    /\ UNCHANGED <<active, nextRun, nextCron, hand, fires, edits>>

\* A cron may be linked to any other one; with isActive, nextRunAt is computed anew.
updateCron(c) ==
    /\ edits < MaxEdits /\ edits' = edits + 1
    /\ \/ /\ \E d \in (Crons \union {NoCron}) \ {c} : nextCron' = [nextCron EXCEPT ![c] = d]
          /\ UNCHANGED <<active, nextRun>>
       \/ /\ active' = [active EXCEPT ![c] = ~@]
          /\ nextRun' = [nextRun EXCEPT ![c] = IF active[c] THEN "null" ELSE "future"]
          /\ UNCHANGED nextCron
    /\ UNCHANGED <<asks, hand, asked, fires>>

-----------------------------------------------------------------------------
\* agent-cron.processor.ts
puts(h, at, todo, cur, trail) ==
    hand' = [hand EXCEPT ![h] = [at |-> at, todo |-> todo, cur |-> cur, trail |-> trail,
                                 next |-> NoCron]]

dueCrons == {c \in Crons : active[c] /\ nextRun[c] = "past"}

takeAsk(h) ==
    /\ hand[h].at = "idle"
    /\ \E c \in asks : asks' = asks \ {c} /\ puts(h, "fire", {}, c, {})
    /\ UNCHANGED <<active, nextRun, nextCron, asked, fires, edits>>

\* Ticks are a minute apart: the next one meets an idle worker, or one whose
\* agent is still running.
scanDue(h) ==
    /\ hand[h].at = "idle" /\ dueCrons # {}
    /\ \A g \in Hands : hand[g].at \in {"idle", "run"}
    /\ puts(h, "scan", dueCrons, NoCron, {})
    /\ UNCHANGED <<active, nextRun, nextCron, asks, asked, fires, edits>>

\* Scheduled anew before it is fired, as the list says, unconditionally.
reschedule(h) ==
    /\ hand[h].at = "scan"
    /\ \/ /\ hand[h].todo = {} /\ puts(h, "idle", {}, NoCron, {})
          /\ UNCHANGED nextRun
       \/ \E c \in hand[h].todo :
            /\ nextRun' = [nextRun EXCEPT ![c] = "future"]
            /\ puts(h, "fire", hand[h].todo \ {c}, c, {})
    /\ UNCHANGED <<active, nextCron, asks, asked, fires, edits>>

\* cron-trigger.service.ts.  Not found, inactive agent or add-on off: SKIPPED.
stops(h) == \/ hand[h].cur \in hand[h].trail
            \/ Cardinality(hand[h].trail) >= MAX_ESTEIRA

fire(h) ==
    /\ hand[h].at = "fire"
    /\ \/ /\ puts(h, "scan", hand[h].todo, NoCron, {})
          /\ UNCHANGED fires
       \/ /\ ~stops(h)
          /\ hand' = [hand EXCEPT ![h].at = "run", ![h].next = nextCron[hand[h].cur]]
          /\ fires' = IF hand[h].trail = {} THEN [fires EXCEPT ![hand[h].cur] = @ + 1] ELSE fires
    /\ UNCHANGED <<active, nextRun, nextCron, asks, asked, edits>>

\* Mutation: the baton is passed without the trail.
batonAlone(h, next) == puts(h, "fire", hand[h].todo, next, {hand[h].cur})

baton(h, next) == puts(h, "fire", hand[h].todo, next, hand[h].trail \union {hand[h].cur})

\* The run is over; only after COMPLETED the baton passes, to the cron that was
\* next when the run began.
runEnds(h) ==
    /\ hand[h].at = "run"
    /\ \/ puts(h, "scan", hand[h].todo, NoCron, {})
       \/ hand[h].next # NoCron /\ baton(h, hand[h].next)
    /\ UNCHANGED <<active, nextRun, nextCron, asks, asked, fires, edits>>

CronWork(h) == takeAsk(h) \/ scanDue(h) \/ reschedule(h) \/ fire(h) \/ runEnds(h)

CronNext == \/ \E c \in Crons : timeComes(c) \/ runNow(c) \/ updateCron(c)
            \/ \E h \in Hands : CronWork(h)

CronSpec == CronInit /\ [][CronNext]_cronVars

CronFairness == \A h \in Hands : WF_cronVars(CronWork(h))

-----------------------------------------------------------------------------
\* Properties.

\* "a esteira e um ponteiro livre: nada impede alguem ligar A->B->A"
\* (cron-trigger.service.ts:46-49): however the crons are linked, and linked anew
\* while a conveyor runs, the workers come to rest once no cron becomes due or is
\* asked for any more (MaxAsked): no conveyor goes round for ever.
EsteiraEnds == <>[](\A h \in Hands : hand[h].at = "idle")

\* "Reagenda ANTES de disparar pra evitar dupla execucao se o tick seguinte chegar
\* enquanto o agente ainda roda" (agent-cron.processor.ts:51-52): a cron is fired
\* no more often than it became due or was asked for.
NoDoubleFire == \A c \in Crons : fires[c] <= asked[c]
=============================================================================
