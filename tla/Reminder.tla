-------------------------------- MODULE Reminder --------------------------------
(***************************************************************************)
(* The reminders of the personal assistant: each minute a tick lists those *)
(* that are due and, one after the other, writes its row (the next         *)
(* occurrence, or SENT) from the list, unconditionally, and delivers it.   *)
(* The queue has two workers; the assistant's tools change the rows while  *)
(* a tick works through its list.                                          *)
(***************************************************************************)
EXTENDS Naturals

CONSTANTS
    Reminders,
    Ringers,     \* workers of the queue personal-reminders
    Period,      \* length of a recurrence, in the model's hours
    LastHour,    \* bound: the model's time, and the latest hour one may ask for
    MaxSnoozes,  \* bound: snoozes and cancellations
    NoReminder

ASSUME ReminderAssumption ==
    /\ NoReminder \notin Reminders /\ Period \in Nat \ {0}
    /\ LastHour \in Nat /\ MaxSnoozes \in Nat

VARIABLES
    hour,        \* the time
    state,       \* status of each reminder
    remindAt,
    recurring,   \* recurrence # NONE
    ringer,      \* a worker: [at, now, due, cur], the time its tick began, the rest
                 \* of its list with the remindAt it read, the one to deliver
    rung,        \* history: deliveries of each reminder
    dues,        \* history: occurrences of each reminder whose hour has come
    contested,   \* history: reminders two workers had in their lists together
    snoozes

reminderVars == <<hour, state, remindAt, recurring, ringer, rung, dues, contested, snoozes>>

Hours == 0..(LastHour + Period)
Quiet == [at |-> "idle", now |-> 0, due |-> {}, cur |-> NoReminder]

ReminderTypeOK ==
    /\ hour \in 0..LastHour
    /\ state \in [Reminders -> {"PENDING", "SENT", "CANCELLED"}]
    /\ remindAt \in [Reminders -> Hours]
    /\ recurring \in [Reminders -> BOOLEAN]
    /\ ringer \in [Ringers -> [at : {"idle", "list", "deliver"}, now : 0..LastHour,
                               due : SUBSET [id : Reminders, was : Hours],
                               cur : Reminders \union {NoReminder}]]
    /\ rung \in [Reminders -> Nat] /\ dues \in [Reminders -> Nat]
    /\ contested \subseteq Reminders /\ snoozes \in 0..MaxSnoozes

\* createPersonalReminder takes any time, also one that has passed.
ReminderInit ==
    /\ hour = 0 /\ snoozes = 0 /\ contested = {}
    /\ state = [r \in Reminders |-> "PENDING"]
    /\ remindAt \in [Reminders -> 0..1] /\ recurring \in [Reminders -> BOOLEAN]
    /\ ringer = [w \in Ringers |-> Quiet]
    /\ rung = [r \in Reminders |-> 0]
    /\ dues = [r \in Reminders |-> IF remindAt[r] = 0 THEN 1 ELSE 0]

-----------------------------------------------------------------------------
isDue(r) == state[r] = "PENDING" /\ remindAt[r] <= hour

timePasses ==
    /\ hour < LastHour /\ hour' = hour + 1
    /\ dues' = [r \in Reminders |->
                  IF state[r] = "PENDING" /\ remindAt[r] = hour + 1 THEN dues[r] + 1 ELSE dues[r]]
    /\ UNCHANGED <<state, remindAt, recurring, ringer, rung, contested, snoozes>>

\* snoozePersonalReminder: whatever the status was, and to any time.
snooze(r) ==
    /\ snoozes < MaxSnoozes /\ snoozes' = snoozes + 1
    /\ \E when \in 0..LastHour :
         /\ remindAt' = [remindAt EXCEPT ![r] = when]
         /\ dues' = IF when <= hour /\ ~isDue(r) THEN [dues EXCEPT ![r] = @ + 1] ELSE dues
    /\ state' = [state EXCEPT ![r] = "PENDING"]
    /\ UNCHANGED <<hour, recurring, ringer, rung, contested>>

\* cancelPersonalReminder, and the panel's button.
cancelReminder(r) ==
    /\ snoozes < MaxSnoozes /\ snoozes' = snoozes + 1
    /\ state[r] = "PENDING" /\ state' = [state EXCEPT ![r] = "CANCELLED"]
    /\ UNCHANGED <<hour, remindAt, recurring, ringer, rung, dues, contested>>

-----------------------------------------------------------------------------
\* reminder.processor.ts
listed(w) == {e.id : e \in ringer[w].due}

scanReminders(w) ==
    LET due == {r \in Reminders : isDue(r)}
    IN /\ ringer[w].at = "idle" /\ due # {}
       /\ ringer' = [ringer EXCEPT ![w] =
            [at |-> "list", now |-> hour, due |-> {[id |-> r, was |-> remindAt[r]] : r \in due},
             cur |-> NoReminder]]
       /\ contested' = contested \union {r \in due : \E v \in Ringers \ {w} : r \in listed(v)}
       /\ UNCHANGED <<hour, state, remindAt, recurring, rung, dues, snoozes>>

\* Mutation: a missed period is not skipped.
oneLater(from, now) == from + Period

\* recurrence.util.ts, in the loop: the first occurrence after the tick began.
nextOccurrence(from, now) == from + Period * ((now - from) \div Period + 1)

writesReminder(w, e) ==
    LET next == nextOccurrence(e.was, ringer[w].now)
    IN IF recurring[e.id]
       THEN /\ remindAt' = [remindAt EXCEPT ![e.id] = next]
            /\ dues' = IF state[e.id] = "PENDING" /\ next \in (ringer[w].now + 1)..hour
                       THEN [dues EXCEPT ![e.id] = @ + 1] ELSE dues
            /\ UNCHANGED state
       ELSE /\ state' = [state EXCEPT ![e.id] = "SENT"] /\ UNCHANGED <<remindAt, dues>>

fireReminder(w) ==
    /\ ringer[w].at = "list"
    /\ \E e \in ringer[w].due :
         /\ writesReminder(w, e)
         /\ ringer' = [ringer EXCEPT ![w].at = "deliver", ![w].due = @ \ {e}, ![w].cur = e.id]
    /\ UNCHANGED <<hour, recurring, rung, contested, snoozes>>

\* A delivery that throws is logged; an update that throws ends the tick.
deliver(w) ==
    /\ ringer[w].at = "deliver"
    /\ ringer' = [ringer EXCEPT ![w] = IF ringer[w].due = {} THEN Quiet
                                       ELSE [@ EXCEPT !.at = "list", !.cur = NoReminder]]
    /\ \/ rung' = [rung EXCEPT ![ringer[w].cur] = @ + 1]
       \/ UNCHANGED rung
    /\ UNCHANGED <<hour, state, remindAt, recurring, dues, contested, snoozes>>

ringerDies(w) ==
    /\ ringer[w].at # "idle" /\ ringer' = [ringer EXCEPT ![w] = Quiet]
    /\ UNCHANGED <<hour, state, remindAt, recurring, rung, dues, contested, snoozes>>

ReminderNext ==
    \/ timePasses
    \/ \E r \in Reminders : snooze(r) \/ cancelReminder(r)
    \/ \E w \in Ringers : scanReminders(w) \/ fireReminder(w) \/ deliver(w) \/ ringerDies(w)

ReminderSpec == ReminderInit /\ [][ReminderNext]_reminderVars

-----------------------------------------------------------------------------
\* Properties.

\* "Pula periodos perdidos (servidor offline) ... dispara no maximo 1x"
\* (reminder.processor.ts:54-56): however ticks overlap with snoozes, deaths and
\* time, a reminder rings once for each occurrence whose hour came, and the ones
\* missed before a tick began ring once together; but for a reminder that two
\* ticks had in their lists together.
RungOnceEach == \A r \in Reminders : r \notin contested => rung[r] <= dues[r]
=============================================================================
