----------------------------- MODULE SendersProofs -----------------------------
(***************************************************************************)
(* What the minute's ticks promise, for any number of instances, workers   *)
(* and rows: ScheduledPost, Reminder and AgentCron, one after the other;   *)
(* and the types of all that sends, as MCSenders puts it together.         *)
(***************************************************************************)
EXTENDS MCSenders, OutboundProofs, CampaignProofs, FiniteSetTheorems, TLAPS

-----------------------------------------------------------------------------
\* ScheduledPost: type correctness, at most one publication, and a calendar
\* that shows what is on the profile.
Posts == {"none", "PENDING", "PUBLISHING", "PUBLISHED", "FAILED", "CANCELED", "removed"}
Ats == {"idle", "scan", "listed", "publish", "record", "catch"}

\* A post somebody may still claim has an attempt left.
PostTyped ==
    /\ post \in Posts /\ attempts \in 0..MAX_TENTATIVAS
    /\ post \in {"none", "PENDING", "PUBLISHING"} => attempts < MAX_TENTATIVAS
    /\ tick \in [Instances -> Ats] /\ read \in [Instances -> 0..(MAX_TENTATIVAS - 1)]
    /\ due \in {"future", "past"} /\ lease \in {"running", "over"}
    /\ published \in Nat /\ mishaps \subseteq Mishaps

LEMMA PostTypedInit == PostInit => PostTyped
  BY DEF PostInit, PostTyped, Posts, Ats, MAX_TENTATIVAS

\* One tick at a time moves, or none does.
TickTyped == tick \in [Instances -> Ats] /\ read \in [Instances -> 0..(MAX_TENTATIVAS - 1)]

LEMMA TickMoves ==
  ASSUME TickTyped, NEW i \in Instances,
         \/ \E a \in Ats : goes(i, a)
         \/ rests(i)
  PROVE  TickTyped'
  BY DEF TickTyped, goes, rests, Ats, MAX_TENTATIVAS

LEMMA MishapsTyped == mishaps \subseteq Mishaps /\ [PostNext]_postVars => mishaps' \subseteq Mishaps
  <1> SUFFICES ASSUME mishaps \subseteq Mishaps, [PostNext]_postVars,
                      mishaps' # mishaps
               PROVE  \E k \in Mishaps : mishaps' = mishaps \union {k}
    OBVIOUS
  <1>1. ASSUME NEW k, mishap(k), k \in Mishaps
        PROVE  \E l \in Mishaps : mishaps' = mishaps \union {l}
    BY <1>1 DEF mishap
  <1>2. \A k \in {"answerLost", "recordFailed", "crashBeforeRecord", "leaseOutlived",
                 "catchFailed", "crash"} : k \in Mishaps
    BY DEF Mishaps, Blinding
  <1>3. CASE leaseEnds
    BY <1>1, <1>2, <1>3 DEF leaseEnds
  <1>4. ASSUME NEW i \in Instances, Publish(i) \/ instanceDies(i)
        PROVE  \E l \in Mishaps : mishaps' = mishaps \union {l}
    BY <1>1, <1>2, <1>4 DEF Publish, liberarPresos, publicarVencidos, reivindicar, publicar,
       registrar, registrarFalha, instanceDies, postPast
  <1> QED
    BY Zenon, <1>3, <1>4 DEF PostNext, postVars, postPast, criar, dueComes, reagendar, cancelar,
       remover

LEMMA PostTypedStep == PostTyped /\ [PostNext]_postVars => PostTyped'
  <1> SUFFICES ASSUME PostTyped, [PostNext]_postVars PROVE PostTyped'
    OBVIOUS
  <1>0. TickTyped /\ mishaps' \subseteq Mishaps
    BY MishapsTyped DEF PostTyped, TickTyped
  <1>1. TickTyped'
    <2> USE <1>0 DEF ticks
    <2>1. ASSUME NEW i \in Instances, Publish(i) \/ instanceDies(i) PROVE TickTyped'
      <3>1. CASE reivindicar(i) /\ post = "PENDING"
        BY <3>1 DEF reivindicar, TickTyped, PostTyped, Ats, MAX_TENTATIVAS
      <3>2. CASE ~(reivindicar(i) /\ post = "PENDING")
        <4>1. (\E a \in Ats : goes(i, a)) \/ rests(i)
          BY <2>1, <3>2 DEF Ats, Publish, liberarPresos, publicarVencidos, reivindicar, publicar,
             registrar, registrarFalha, instanceDies
        <4> QED
          BY <4>1, TickMoves
      <3> QED
        BY <3>1, <3>2
    <2>2. CASE UNCHANGED ticks
      BY <2>2 DEF TickTyped
    <2> QED
      BY <2>1, <2>2 DEF PostNext, postVars, criar, dueComes, reagendar, cancelar, remover, leaseEnds
  <1>2. /\ post' \in Posts /\ attempts' \in 0..MAX_TENTATIVAS
        /\ post' \in {"none", "PENDING", "PUBLISHING"} => attempts' < MAX_TENTATIVAS
    <2> USE DEF PostTyped, Posts, MAX_TENTATIVAS
    <2>1. ASSUME NEW i \in Instances, Publish(i) \/ instanceDies(i)
          PROVE  /\ post' \in Posts /\ attempts' \in 0..MAX_TENTATIVAS
                 /\ post' \in {"none", "PENDING", "PUBLISHING"} => attempts' < MAX_TENTATIVAS
      <3>1. read[i] \in {0, 1}
        OBVIOUS
      <3> QED
        BY <2>1, <3>1 DEF Publish, liberarPresos, publicarVencidos, reivindicar, publicar,
           registrar, registrarFalha, desiste, instanceDies
    <2> QED
      BY <2>1 DEF PostNext, postVars, criar, dueComes, reagendar, cancelar, remover, leaseEnds
  <1>3. due' \in {"future", "past"} /\ lease' \in {"running", "over"} /\ published' \in Nat
    BY DEF PostTyped, PostNext, postVars, postPast, criar, dueComes, reagendar, cancelar, remover,
       leaseEnds, Publish, liberarPresos, publicarVencidos, reivindicar, publicar, registrar,
       registrarFalha, instanceDies
  <1> QED
    BY <1>0, <1>1, <1>2, <1>3 DEF PostTyped, TickTyped

\* The type invariant of the component.
THEOREM PostTypeCorrect == PostSpec => []PostTypeOK
  <1>1. PostTyped => PostTypeOK
    BY DEF PostTyped, PostTypeOK, Posts, Ats
  <1> QED
    BY <1>1, PostTypedInit, PostTypedStep, PTL DEF PostSpec

-----------------------------------------------------------------------------
\* As long as every outcome is known: whoever publishes holds a running lease
\* and is alone; nothing is on the profile but what is recorded or about to be.
Claimed ==
    ~blinded =>
        /\ \A i \in busy : post = "PUBLISHING" /\ lease = "running"
        /\ \A i, j \in busy : i = j
        /\ \A i \in Instances : tick[i] \in {"publish", "catch"} => published = 0
        /\ \A i \in Instances : tick[i] = "record" => published = 1
        /\ \/ published = 0
           \/ published = 1 /\ post \in {"PUBLISHED", "removed"}
           \/ published = 1 /\ \E i \in Instances : tick[i] = "record"

\* Whatever happened, what is recorded is on the profile.
Recorded ==
    /\ \A i \in Instances : tick[i] = "record" => published > 0
    /\ post = "PUBLISHED" => published > 0

LEMMA RecordedStep == PostTyped /\ Recorded /\ [PostNext]_postVars => Recorded'
  <1> SUFFICES ASSUME PostTyped, Recorded, [PostNext]_postVars PROVE Recorded'
    OBVIOUS
  <1> USE DEF PostTyped, Ats, Recorded, ticks, postPast, goes, rests, mishap
  <1>1. CASE criar \/ dueComes \/ reagendar \/ cancelar \/ remover
    BY <1>1 DEF criar, dueComes, reagendar, cancelar, remover
  <1>2. CASE leaseEnds
    BY <1>2 DEF leaseEnds
  <1>3. ASSUME NEW i \in Instances, Publish(i) \/ instanceDies(i) PROVE Recorded'
    BY <1>3 DEF Publish, liberarPresos, publicarVencidos, reivindicar, publicar, registrar,
       registrarFalha, desiste, instanceDies
  <1>4. CASE UNCHANGED postVars
    BY <1>4 DEF postVars
  <1> QED
    BY <1>1, <1>2, <1>3, <1>4 DEF PostNext

\* An unknown outcome stays unknown.
LEMMA BlindedStays == [PostNext]_postVars /\ blinded => blinded'
  <1> SUFFICES ASSUME [PostNext]_postVars PROVE mishaps \subseteq mishaps'
    BY DEF blinded
  <1> QED
    BY Zenon DEF PostNext, postVars, postPast, criar, dueComes, reagendar, cancelar, remover,
       leaseEnds, Publish, liberarPresos, publicarVencidos, reivindicar, publicar, registrar,
       registrarFalha, instanceDies, mishap

LEMMA ClaimedStep == PostTyped /\ Claimed /\ [PostNext]_postVars => Claimed'
  <1> SUFFICES ASSUME PostTyped, Claimed, [PostNext]_postVars, ~blinded' PROVE Claimed'
    BY DEF Claimed
  <1>0. ~blinded
    BY BlindedStays
  <1> USE <1>0 DEF PostTyped, Ats, Claimed, busy, ticks, postPast, goes, rests, mishap, Blinding,
                   blinded
  <1>1. CASE criar \/ dueComes \/ reagendar \/ cancelar \/ remover
    BY <1>1 DEF criar, dueComes, reagendar, cancelar, remover
  <1>2. CASE leaseEnds
    BY <1>2 DEF leaseEnds
  <1>3. ASSUME NEW i \in Instances, Publish(i) \/ instanceDies(i) PROVE Claimed'
    <2>1. CASE liberarPresos(i)
      BY <2>1 DEF liberarPresos
    <2>2. CASE publicarVencidos(i)
      BY <2>2 DEF publicarVencidos
    <2>3. CASE reivindicar(i)
      BY <2>3 DEF reivindicar
    <2>4. CASE publicar(i)
      BY <2>4 DEF publicar
    <2>5. CASE registrar(i)
      BY <2>5 DEF registrar
    <2>6. CASE registrarFalha(i)
      BY <2>6 DEF registrarFalha, desiste
    <2>7. CASE instanceDies(i)
      BY <2>7 DEF instanceDies
    <2> QED
      BY <1>3, <2>1, <2>2, <2>3, <2>4, <2>5, <2>6, <2>7 DEF Publish
  <1>4. CASE UNCHANGED postVars
    BY <1>4 DEF postVars
  <1> QED
    BY <1>1, <1>2, <1>3, <1>4 DEF PostNext

LEMMA PostInvariant == PostSpec => [](PostTyped /\ Claimed /\ Recorded)
  <1>1. PostInit => Claimed /\ Recorded
    BY DEF PostInit, Claimed, Recorded, busy
  <1> QED
    BY <1>1, PostTypedInit, PostTypedStep, ClaimedStep, RecordedStep, PTL DEF PostSpec

\* What cannot be undone happens once, for any number of instances.
THEOREM OnlyOncePublished == PostSpec => []PublishedOnce
  <1>1. PostTyped /\ Claimed => PublishedOnce
    BY DEF PostTyped, Claimed, PublishedOnce
  <1> QED
    BY <1>1, PostInvariant, PTL

\* The status that the calendar shows is what the profile shows.
THEOREM CalendarHolds == PostSpec => []CalendarIsTrue
  <1>1. PostTyped /\ Claimed /\ Recorded => CalendarIsTrue
    BY DEF PostTyped, Claimed, Recorded, CalendarIsTrue, busy
  <1> QED
    BY <1>1, PostInvariant, PTL

-----------------------------------------------------------------------------
\* Reminder: each occurrence that came is rung once at most.

\* The next occurrence is the first one after the tick began.
LEMMA NextOccurrence ==
    ASSUME NEW from \in Nat, NEW now \in Nat, from <= now
    PROVE  /\ nextOccurrence(from, now) \in Nat
           /\ now < nextOccurrence(from, now) /\ nextOccurrence(from, now) <= now + Period
  <1> DEFINE d == now - from
             q == d \div Period
             m == d % Period
  <1>1. d \in Nat /\ Period \in Nat \ {0}
    BY ReminderAssumption
  <1> HIDE DEF d
  <1>2. q \in Nat /\ m \in 0..(Period - 1) /\ d = Period * q + m
    BY <1>1
  <1> HIDE DEF q, m
  <1>3. Period * q \in Nat /\ Period * (q + 1) = Period * q + Period
    BY <1>1, <1>2
  <1>4. Period * q <= d /\ d < Period * q + Period
    BY <1>1, <1>2, <1>3
  <1>5. nextOccurrence(from, now) = from + (Period * q + Period)
    BY <1>3 DEF nextOccurrence, d, q
  <1>6. now = from + d
    BY DEF d
  <1> HIDE DEF nextOccurrence
  <1> QED
    BY <1>1, <1>3, <1>4, <1>5, <1>6

-----------------------------------------------------------------------------
\* A list keeps the times its tick read, which had come, and each row once; a
\* reminder that is not contested is in one list at most.
Listing ==
    /\ \A w \in Ringers : \A e \in ringer[w].due : e.was <= ringer[w].now
    /\ \A w \in Ringers : \A e, f \in ringer[w].due : e.id = f.id => e = f

Alone ==
    \A r \in Reminders \ contested : \A v, w \in Ringers :
        r \in listed(v) /\ r \in listed(w) => v = w

\* Each occurrence that came is spent once: on a ring, on a delivery in hand,
\* or on an entry of a list or the row itself, which are one and the same.
delivering(r) == {w \in Ringers : ringer[w].at = "deliver" /\ ringer[w].cur = r}
waiting(r) == isDue(r) \/ \E w \in Ringers : r \in listed(w)
owed(r) == IF waiting(r) THEN 1 ELSE 0

Spent(r) == /\ IsFiniteSet(delivering(r))
            /\ rung[r] + Cardinality(delivering(r)) + owed(r) <= dues[r]

Accounted == \A r \in Reminders \ contested : Spent(r)

RingInv == ReminderTypeOK /\ Listing /\ Alone /\ Accounted

\* What a worker is.
Ringing == [at : {"idle", "list", "deliver"}, now : 0..LastHour,
            due : SUBSET [id : Reminders, was : Hours],
            cur : Reminders \union {NoReminder}]

LEMMA EntriesTyped ==
    ASSUME ReminderTypeOK, NEW w \in Ringers
    PROVE  /\ ringer[w] \in Ringing /\ ringer[w].now \in Nat
           /\ \A e \in ringer[w].due : e.id \in Reminders /\ e.was \in Nat
           /\ listed(w) \subseteq Reminders
  <1>1. ringer[w] \in Ringing
    BY DEF ReminderTypeOK, Ringing
  <1>2. \A e \in ringer[w].due : e.id \in Reminders /\ e.was \in Nat
    BY <1>1, ReminderAssumption DEF Ringing, Hours
  <1> QED
    BY <1>1, <1>2 DEF Ringing, listed

LEMMA ReminderInitTyped == ReminderInit => RingInv
  <1> SUFFICES ASSUME ReminderInit PROVE RingInv
    OBVIOUS
  <1> USE DEF ReminderInit, Quiet
  <1>1. ReminderTypeOK
    BY ReminderAssumption DEF ReminderTypeOK, Hours
  <1>2. \A w \in Ringers : ringer[w] = Quiet /\ listed(w) = {}
    BY DEF listed
  <1>3. Listing /\ Alone
    BY <1>2 DEF Listing, Alone
  <1>4. ASSUME NEW r \in Reminders PROVE Spent(r)
    <2>1. delivering(r) = {}
      BY <1>2 DEF delivering
    <2>2. owed(r) <= dues[r] /\ owed(r) \in {0, 1} /\ rung[r] = 0 /\ dues[r] \in Nat
      <3>1. waiting(r) => remindAt[r] = 0
        BY <1>2 DEF waiting, isDue
      <3> QED
        BY <3>1 DEF owed
    <2> QED
      BY <2>1, <2>2, FS_EmptySet DEF Spent
  <1> QED
    BY <1>1, <1>3, <1>4 DEF RingInv, Accounted

\* A step that hands nothing out owes at most one occurrence more than before,
\* and then counts one more.
LEMMA SpentKept ==
    ASSUME ReminderTypeOK, NEW r \in Reminders, Spent(r), rung'[r] = rung[r],
           delivering(r)' = delivering(r), dues'[r] \in Nat,
           \/ dues'[r] >= dues[r] + 1
           \/ dues'[r] >= dues[r] /\ (waiting(r)' => waiting(r))
    PROVE  Spent(r)'
  <1>1. rung[r] \in Nat /\ dues[r] \in Nat /\ Cardinality(delivering(r)) \in Nat
    BY FS_CardinalityType DEF ReminderTypeOK, Spent
  <1>2. owed(r) \in {0, 1} /\ owed(r)' \in {0, 1}
    BY DEF owed
  <1>3. dues'[r] >= dues[r] + 1 \/ owed(r)' <= owed(r)
    BY DEF owed
  <1> QED
    BY <1>1, <1>2, <1>3 DEF Spent

\* The clock, snoozes and cancellations leave the lists alone.
LEMMA OutsideKeeps ==
    ASSUME RingInv, timePasses \/ \E r \in Reminders : snooze(r) \/ cancelReminder(r)
    PROVE  RingInv'
  <1>0. UNCHANGED <<ringer, rung, contested>> /\ ReminderTypeOK
    BY DEF RingInv, timePasses, snooze, cancelReminder
  <1>1. ReminderTypeOK'
    <2>1. CASE timePasses
      BY <2>1, ReminderAssumption DEF RingInv, ReminderTypeOK, timePasses
    <2>2. ASSUME NEW r \in Reminders, snooze(r) PROVE ReminderTypeOK'
      BY <2>2, ReminderAssumption DEF RingInv, ReminderTypeOK, snooze, Hours
    <2>3. ASSUME NEW r \in Reminders, cancelReminder(r) PROVE ReminderTypeOK'
      BY <2>3, ReminderAssumption DEF RingInv, ReminderTypeOK, cancelReminder
    <2> QED
      BY <2>1, <2>2, <2>3
  <1>2. Listing' /\ Alone'
    BY <1>0 DEF RingInv, Listing, Alone, listed
  <1>3. ASSUME NEW s \in Reminders \ contested PROVE Spent(s)'
    <2>1. Spent(s) /\ delivering(s)' = delivering(s) /\ dues[s] \in Nat /\ dues'[s] \in Nat
      BY <1>0, <1>1 DEF RingInv, Accounted, delivering, ReminderTypeOK
    <2>2. (waiting(s)' => waiting(s) \/ isDue(s)') /\ (isDue(s) => waiting(s))
      BY <1>0 DEF waiting, listed
    <2> DEFINE Balanced == \/ dues'[s] >= dues[s] + 1
                           \/ dues'[s] >= dues[s] /\ (isDue(s)' => isDue(s))
    <2>3. Balanced
      <3>0. hour \in Nat /\ remindAt[s] \in Nat
        BY <1>0, ReminderAssumption DEF ReminderTypeOK, Hours
      <3>1. CASE timePasses
        BY <1>0, <2>1, <3>0, <3>1 DEF timePasses, isDue
      <3>2. ASSUME NEW r \in Reminders, snooze(r) PROVE Balanced
        BY <1>0, <2>1, <3>0, <3>2 DEF snooze, isDue, ReminderTypeOK
      <3>3. ASSUME NEW r \in Reminders, cancelReminder(r) PROVE Balanced
        BY <1>0, <2>1, <3>3 DEF cancelReminder, isDue, ReminderTypeOK
      <3> QED
        BY <3>1, <3>2, <3>3
    <2> QED
      BY <1>0, <2>1, <2>2, <2>3, SpentKept
  <1> QED
    BY <1>0, <1>1, <1>2, <1>3 DEF RingInv, Accounted

\* A tick lists what is due; what another tick listed is contested from here on.
LEMMA ScanKeeps ==
    ASSUME RingInv, NEW w \in Ringers, scanReminders(w)
    PROVE  RingInv'
  <1> DEFINE comes == {r \in Reminders : isDue(r)}
             list == {[id |-> r, was |-> remindAt[r]] : r \in comes}
             new == [at |-> "list", now |-> hour, due |-> list, cur |-> NoReminder]
  <1>0. /\ ReminderTypeOK /\ ringer[w].at = "idle" /\ ringer' = [ringer EXCEPT ![w] = new]
        /\ contested' = contested \union {r \in comes : \E v \in Ringers \ {w} : r \in listed(v)}
        /\ UNCHANGED <<hour, state, remindAt, recurring, rung, dues, snoozes>>
    BY DEF RingInv, scanReminders
  <1>1. /\ hour \in 0..LastHour
        /\ \A r \in comes : r \in Reminders /\ remindAt[r] \in Hours /\ remindAt[r] <= hour
    BY <1>0 DEF ReminderTypeOK, isDue
  <1>2. /\ \A e \in list : e.id \in comes /\ e.was = remindAt[e.id]
        /\ list \subseteq [id : Reminders, was : Hours]
        /\ {e.id : e \in list} = comes
        /\ \A e, f \in list : e.id = f.id => e = f
    <2>1. \A e \in list : \E r \in comes : e = [id |-> r, was |-> remindAt[r]]
      OBVIOUS
    <2>2. \A r \in comes : [id |-> r, was |-> remindAt[r]] \in list
      OBVIOUS
    <2> HIDE DEF list
    <2>3. \A e \in list : e.id \in comes /\ e = [id |-> e.id, was |-> remindAt[e.id]]
      BY <2>1
    <2>4. list \subseteq [id : Reminders, was : Hours]
      BY <1>1, <2>1
    <2>5. {e.id : e \in list} = comes
      BY <2>1, <2>2, <2>3
    <2> QED
      BY <2>3, <2>4, <2>5
  <1> HIDE DEF comes, list
  <1>3. new \in Ringing /\ new.at = "list" /\ new.now = hour /\ new.due = list
    BY <1>1, <1>2 DEF Ringing
  <1>4. /\ \A v \in Ringers \ {w} : ringer'[v] = ringer[v]
        /\ ringer'[w] = new
        /\ ringer \in [Ringers -> Ringing]
    BY <1>0 DEF ReminderTypeOK, Ringing
  <1> HIDE DEF new
  <1>5. ReminderTypeOK'
    <2>1. ringer' \in [Ringers -> Ringing]
      BY <1>0, <1>3, <1>4
    <2>2. contested' \subseteq Reminders
      BY <1>0, <1>1 DEF ReminderTypeOK
    <2> QED
      BY <1>0, <2>1, <2>2 DEF ReminderTypeOK, Ringing
  <1>6. listed(w)' = comes /\ \A v \in Ringers \ {w} : listed(v)' = listed(v)
    BY <1>2, <1>3, <1>4 DEF listed
  <1>7. Listing'
    BY <1>1, <1>2, <1>3, <1>4 DEF RingInv, Listing
  <1>8. Alone'
    <2> SUFFICES ASSUME NEW r \in Reminders \ contested', NEW u \in Ringers, NEW v \in Ringers,
                        r \in listed(u)', r \in listed(v)'
                 PROVE  u = v
      BY DEF Alone
    <2>1. r \notin contested /\ (r \in comes => \A x \in Ringers \ {w} : r \notin listed(x))
      BY <1>0
    <2> QED
      BY <1>6, <2>1 DEF RingInv, Alone
  <1>9. ASSUME NEW s \in Reminders \ contested' PROVE Spent(s)'
    <2>1. Spent(s) /\ dues[s] \in Nat /\ dues'[s] = dues[s] /\ rung'[s] = rung[s]
      BY <1>0, <1>9 DEF RingInv, Accounted, ReminderTypeOK
    <2>2. delivering(s)' = delivering(s)
      BY <1>0, <1>3, <1>4 DEF delivering
    <2>3. waiting(s)' => waiting(s)
      BY <1>0, <1>6 DEF waiting, isDue, comes
    <2> QED
      BY <1>0, <2>1, <2>2, <2>3, SpentKept
  <1> QED
    BY <1>5, <1>7, <1>8, <1>9 DEF RingInv, Accounted

\* A worker that dies takes its list with it; the rows stay due.
LEMMA DyingKeeps ==
    ASSUME RingInv, NEW w \in Ringers, ringerDies(w)
    PROVE  RingInv'
  <1>0. /\ ReminderTypeOK /\ ringer' = [ringer EXCEPT ![w] = Quiet]
        /\ UNCHANGED <<hour, state, remindAt, recurring, rung, dues, contested, snoozes>>
    BY DEF RingInv, ringerDies
  <1>1. /\ \A v \in Ringers \ {w} : ringer'[v] = ringer[v]
        /\ ringer'[w] = Quiet /\ ringer \in [Ringers -> Ringing]
        /\ Quiet \in Ringing /\ Quiet.due = {} /\ Quiet.at = "idle"
    BY <1>0, ReminderAssumption DEF ReminderTypeOK, Ringing, Quiet
  <1>2. ringer' \in [Ringers -> Ringing]
    BY <1>0, <1>1
  <1>3. ReminderTypeOK'
    BY <1>0, <1>2 DEF ReminderTypeOK, Ringing
  <1>4. listed(w)' = {} /\ \A v \in Ringers \ {w} : listed(v)' = listed(v)
    BY <1>1 DEF listed
  <1>5. Listing' /\ Alone'
    BY <1>0, <1>1, <1>4 DEF RingInv, Listing, Alone
  <1>6. ASSUME NEW s \in Reminders \ contested PROVE Spent(s)'
    <2>1. Spent(s) /\ rung[s] \in Nat /\ dues[s] \in Nat
      BY <1>0 DEF RingInv, Accounted, ReminderTypeOK
    <2>2. delivering(s)' = delivering(s) \ {w}
      BY <1>1 DEF delivering
    <2>3. /\ IsFiniteSet(delivering(s))' /\ Cardinality(delivering(s)') \in Nat
          /\ Cardinality(delivering(s)') <= Cardinality(delivering(s))
          /\ Cardinality(delivering(s)) \in Nat
      <3> DEFINE D == delivering(s)
      <3>1. IsFiniteSet(D)
        BY <2>1 DEF Spent
      <3> HIDE DEF D
      <3>2. IsFiniteSet(D \ {w}) /\ Cardinality(D) \in Nat /\ Cardinality(D \ {w}) \in Nat
        BY <3>1, FS_RemoveElement, FS_CardinalityType
      <3>3. Cardinality(D \ {w}) <= Cardinality(D)
        BY <3>1, <3>2, FS_RemoveElement
      <3> QED
        BY <2>2, <3>1, <3>2, <3>3 DEF D
    <2>4. owed(s) \in {0, 1} /\ owed(s)' \in {0, 1} /\ owed(s)' <= owed(s)
      BY <1>0, <1>4 DEF owed, waiting, isDue
    <2> QED
      BY <1>0, <2>1, <2>3, <2>4 DEF Spent
  <1> QED
    BY <1>0, <1>3, <1>5, <1>6 DEF RingInv, Accounted

\* Adding to and taking from the deliveries in hand.
LEMMA Count ==
    ASSUME NEW D, IsFiniteSet(D), NEW w
    PROVE  /\ Cardinality(D) \in Nat
           /\ IsFiniteSet(D \union {w}) /\ IsFiniteSet(D \ {w})
           /\ w \notin D => Cardinality(D \union {w}) = Cardinality(D) + 1
           /\ w \in D => Cardinality(D \ {w}) + 1 = Cardinality(D)
  <1>1. Cardinality(D) \in Nat
    BY FS_CardinalityType
  <1>2. IsFiniteSet(D \union {w}) /\ IsFiniteSet(D \ {w})
    BY FS_AddElement, FS_RemoveElement
  <1>3. w \notin D => Cardinality(D \union {w}) = Cardinality(D) + 1
    BY FS_AddElement
  <1>4. w \in D => Cardinality(D \ {w}) + 1 = Cardinality(D)
    <2>1. w \in D => Cardinality(D \ {w}) = Cardinality(D) - 1
      BY FS_RemoveElement
    <2> QED
      BY <1>1, <2>1
  <1> QED
    BY <1>1, <1>2, <1>3, <1>4

\* The tick spends an entry: it writes the row, which is not due any more, or
\* due for an occurrence that came since the tick began, and takes the ring in
\* hand.
LEMMA FireKeeps ==
    ASSUME RingInv, NEW w \in Ringers, fireReminder(w)
    PROVE  RingInv'
  <1>0. ReminderTypeOK /\ UNCHANGED <<hour, recurring, rung, contested, snoozes>>
    BY DEF RingInv, fireReminder
  <1>1. PICK e \in ringer[w].due :
          /\ writesReminder(w, e)
          /\ ringer' = [ringer EXCEPT ![w].at = "deliver", ![w].due = @ \ {e}, ![w].cur = e.id]
    BY DEF fireReminder
  <1> DEFINE r == e.id
             new == [ringer[w] EXCEPT !.at = "deliver", !.due = @ \ {e}, !.cur = r]
             next == nextOccurrence(e.was, ringer[w].now)
  <1>2. /\ ringer[w] \in Ringing /\ ringer[w].at = "list" /\ r \in Reminders
        /\ ringer[w].now \in 0..LastHour /\ e.was \in Nat /\ e.was <= ringer[w].now
    BY <1>0, <1>1, EntriesTyped DEF RingInv, Listing, fireReminder, Ringing
  <1>3. /\ new \in Ringing /\ new.at = "deliver" /\ new.cur = r
        /\ new.due = ringer[w].due \ {e} /\ new.now = ringer[w].now
    BY <1>2 DEF Ringing
  <1>4. /\ \A v \in Ringers \ {w} : ringer'[v] = ringer[v]
        /\ ringer'[w] = new /\ ringer' \in [Ringers -> Ringing]
    <2>1. ringer \in [Ringers -> Ringing]
      BY <1>0 DEF ReminderTypeOK, Ringing
    <2>2. ringer' = [ringer EXCEPT ![w] = new]
      BY <1>1, <1>2, <2>1 DEF Ringing
    <2> HIDE DEF new
    <2> QED
      BY <1>3, <2>1, <2>2
  <1> HIDE DEF new
  <1>5. /\ next \in Hours /\ ringer[w].now < next /\ next \in Nat
    <2>1. ringer[w].now \in Nat /\ ringer[w].now <= LastHour /\ LastHour \in Nat /\ Period \in Nat
      BY <1>2, ReminderAssumption
    <2>2. next \in Nat /\ ringer[w].now < next /\ next <= ringer[w].now + Period
      BY <1>2, <2>1, NextOccurrence
    <2> HIDE DEF next
    <2> QED
      BY <2>1, <2>2 DEF Hours
  <1>6. /\ recurring[r] =>
             /\ remindAt' = [remindAt EXCEPT ![r] = next]
             /\ dues' = IF state[r] = "PENDING" /\ next \in (ringer[w].now + 1)..hour
                        THEN [dues EXCEPT ![r] = @ + 1] ELSE dues
             /\ UNCHANGED state
        /\ ~recurring[r] => state' = [state EXCEPT ![r] = "SENT"] /\ UNCHANGED <<remindAt, dues>>
    BY <1>1 DEF writesReminder
  <1> HIDE DEF next
  <1>7. /\ remindAt' \in [Reminders -> Hours] /\ dues' \in [Reminders -> Nat]
        /\ state' \in [Reminders -> {"PENDING", "SENT", "CANCELLED"}]
        /\ \A s \in Reminders \ {r} :
             state'[s] = state[s] /\ remindAt'[s] = remindAt[s] /\ dues'[s] = dues[s]
    <2>1. CASE recurring[r]
      BY <1>0, <1>2, <1>5, <1>6, <2>1 DEF ReminderTypeOK
    <2>2. CASE ~recurring[r]
      BY <1>0, <1>2, <1>6, <2>2 DEF ReminderTypeOK
    <2> QED
      BY <2>1, <2>2
  <1>8. ReminderTypeOK'
    BY <1>0, <1>4, <1>7 DEF ReminderTypeOK, Ringing
  <1>9. /\ \A v \in Ringers \ {w} : listed(v)' = listed(v)
        /\ listed(w)' = listed(w) \ {r} /\ r \in listed(w)
    BY <1>1, <1>3, <1>4 DEF RingInv, Listing, listed
  <1>10. Listing'
    BY <1>3, <1>4 DEF RingInv, Listing
  <1>11. Alone'
    BY <1>0, <1>9 DEF RingInv, Alone
  <1>12. ASSUME NEW s \in Reminders \ contested, s # r PROVE Spent(s)'
    <2>1. Spent(s) /\ rung'[s] = rung[s] /\ dues[s] \in Nat /\ dues'[s] = dues[s]
      BY <1>0, <1>7, <1>12 DEF RingInv, Accounted, ReminderTypeOK
    <2>2. delivering(s)' = delivering(s)
      BY <1>2, <1>3, <1>4, <1>12 DEF delivering
    <2>3. waiting(s)' => waiting(s)
      BY <1>0, <1>7, <1>9, <1>12 DEF waiting, isDue
    <2> QED
      BY <1>0, <2>1, <2>2, <2>3, SpentKept
  <1>13. ASSUME r \notin contested PROVE Spent(r)'
    <2>1. Spent(r) /\ rung[r] \in Nat /\ dues[r] \in Nat /\ dues'[r] \in Nat /\ hour \in Nat
      BY <1>0, <1>2, <1>7, <1>13, ReminderAssumption DEF RingInv, Accounted, ReminderTypeOK
    <2>2. delivering(r)' = delivering(r) \union {w} /\ w \notin delivering(r)
      BY <1>2, <1>3, <1>4 DEF delivering
    <2>3. /\ IsFiniteSet(delivering(r))' /\ Cardinality(delivering(r)) \in Nat
          /\ Cardinality(delivering(r)') = Cardinality(delivering(r)) + 1
      BY <2>1, <2>2, Count DEF Spent
    <2>4. owed(r) = 1
      BY <1>9 DEF owed, waiting
    <2>5. waiting(r)' => isDue(r)'
      BY <1>2, <1>9, <1>13 DEF RingInv, Alone, waiting
    <2>6. dues'[r] >= dues[r] /\ (isDue(r)' => dues'[r] = dues[r] + 1)
      <3>1. CASE recurring[r]
        <4>1. remindAt'[r] = next /\ state'[r] = state[r] /\ hour' = hour
          BY <1>0, <1>2, <1>6, <3>1 DEF ReminderTypeOK
        <4>2. isDue(r)' => state[r] = "PENDING" /\ next \in (ringer[w].now + 1)..hour
          BY <1>2, <1>5, <2>1, <4>1 DEF isDue
        <4> QED
          BY <1>0, <1>2, <1>6, <2>1, <3>1, <4>2 DEF ReminderTypeOK
      <3>2. CASE ~recurring[r]
        BY <1>0, <1>2, <1>6, <2>1, <3>2 DEF ReminderTypeOK, isDue
      <3> QED
        BY <3>1, <3>2
    <2>7. owed(r)' = 0 \/ (owed(r)' = 1 /\ dues'[r] = dues[r] + 1)
      BY <2>5, <2>6 DEF owed
    <2> QED
      BY <1>0, <2>1, <2>3, <2>4, <2>6, <2>7 DEF Spent
  <1> QED
    BY <1>0, <1>8, <1>10, <1>11, <1>12, <1>13 DEF RingInv, Accounted

\* A delivery in hand becomes a ring, or fails and is forgotten.
LEMMA DeliverKeeps ==
    ASSUME RingInv, NEW w \in Ringers, deliver(w)
    PROVE  RingInv'
  <1> DEFINE new == IF ringer[w].due = {} THEN Quiet
                    ELSE [ringer[w] EXCEPT !.at = "list", !.cur = NoReminder]
             r == ringer[w].cur
  <1>0. /\ ReminderTypeOK /\ ringer[w].at = "deliver"
        /\ UNCHANGED <<hour, state, remindAt, recurring, dues, contested, snoozes>>
        /\ ringer \in [Ringers -> Ringing] /\ ringer[w] \in Ringing
        /\ rung' = [rung EXCEPT ![r] = @ + 1] \/ UNCHANGED rung
        /\ ringer' = [ringer EXCEPT ![w] = new]
    BY DEF RingInv, deliver, ReminderTypeOK, Ringing
  <1>1. /\ new \in Ringing /\ new.at # "deliver" /\ new.due = ringer[w].due
        /\ new.due # {} => new.now = ringer[w].now
    <2>1. CASE ringer[w].due = {}
      BY <2>1, ReminderAssumption DEF Ringing, Quiet
    <2>2. CASE ringer[w].due # {}
      BY <1>0, <2>2 DEF Ringing
    <2> QED
      BY <2>1, <2>2
  <1> HIDE DEF new, r
  <1>2. /\ \A v \in Ringers \ {w} : ringer'[v] = ringer[v]
        /\ ringer'[w] = new /\ ringer' \in [Ringers -> Ringing]
    BY <1>0, <1>1
  <1>3. rung' \in [Reminders -> Nat]
    BY <1>0 DEF ReminderTypeOK
  <1>4. ReminderTypeOK'
    BY <1>0, <1>2, <1>3 DEF ReminderTypeOK, Ringing
  <1>5. \A v \in Ringers : ringer'[v].due = ringer[v].due /\ listed(v)' = listed(v)
    BY <1>1, <1>2 DEF listed
  <1>6. Listing'
    <2>1. \A v \in Ringers : ringer[v].due # {} => ringer'[v].now = ringer[v].now
      BY <1>1, <1>2
    <2> QED
      BY <1>5, <2>1 DEF RingInv, Listing
  <1>7. Alone'
    BY <1>0, <1>5 DEF RingInv, Alone
  <1>8. ASSUME NEW s \in Reminders \ contested PROVE Spent(s)'
    <2>1. Spent(s) /\ rung[s] \in Nat /\ dues[s] \in Nat /\ dues'[s] = dues[s]
      BY <1>0 DEF RingInv, Accounted, ReminderTypeOK
    <2>2. waiting(s)' <=> waiting(s)
      BY <1>0, <1>5 DEF waiting, isDue
    <2>3. CASE s # r
      <3>1. delivering(s)' = delivering(s) /\ rung'[s] = rung[s]
        BY <1>0, <1>1, <1>2, <2>3 DEF delivering, r, ReminderTypeOK
      <3> QED
        BY <1>0, <2>1, <2>2, <3>1, SpentKept
    <2>4. CASE s = r
      <3>1. delivering(s)' = delivering(s) \ {w} /\ w \in delivering(s)
        BY <1>0, <1>1, <1>2, <2>4 DEF delivering, r
      <3>2. /\ IsFiniteSet(delivering(s))' /\ Cardinality(delivering(s)) \in Nat
            /\ Cardinality(delivering(s)') + 1 = Cardinality(delivering(s))
            /\ Cardinality(delivering(s)') \in Nat
        BY <2>1, <3>1, Count DEF Spent
      <3>3. rung'[s] \in {rung[s], rung[s] + 1}
        BY <1>0, <2>4 DEF ReminderTypeOK
      <3>4. owed(s)' = owed(s) /\ owed(s) \in {0, 1}
        BY <2>2 DEF owed
      <3> QED
        BY <2>1, <3>2, <3>3, <3>4 DEF Spent
    <2> QED
      BY <2>3, <2>4
  <1> QED
    BY <1>0, <1>4, <1>6, <1>7, <1>8 DEF RingInv, Accounted

LEMMA RingStep == RingInv /\ [ReminderNext]_reminderVars => RingInv'
  <1> SUFFICES ASSUME RingInv, [ReminderNext]_reminderVars PROVE RingInv'
    OBVIOUS
  <1>1. CASE UNCHANGED reminderVars
    BY <1>1 DEF reminderVars, RingInv, ReminderTypeOK, Listing, Alone, Accounted, Spent, owed,
       waiting, delivering, listed, isDue
  <1> QED
    BY <1>1, OutsideKeeps, ScanKeeps, FireKeeps, DeliverKeeps, DyingKeeps DEF ReminderNext

\* The type invariant of the component.
THEOREM ReminderTypeCorrect == ReminderSpec => []ReminderTypeOK
  <1>1. RingInv => ReminderTypeOK
    BY DEF RingInv
  <1> QED
    BY <1>1, ReminderInitTyped, RingStep, PTL DEF ReminderSpec

\* For any number of workers, snoozes and deaths, and for every period, a
\* reminder that no two ticks listed together rings at most once for each
\* occurrence whose hour came; what was missed while nothing ran rings once.
THEOREM RungOnceHolds == ReminderSpec => []RungOnceEach
  <1>1. RingInv => RungOnceEach
    <2> SUFFICES ASSUME RingInv, NEW r \in Reminders \ contested PROVE rung[r] <= dues[r]
      BY DEF RungOnceEach
    <2>1. Spent(r) /\ rung[r] \in Nat /\ dues[r] \in Nat
      BY DEF RingInv, Accounted, ReminderTypeOK
    <2>2. Cardinality(delivering(r)) \in Nat /\ owed(r) \in {0, 1}
      BY <2>1, FS_CardinalityType DEF Spent, owed
    <2> QED
      BY <2>1, <2>2 DEF Spent
  <1> QED
    BY <1>1, ReminderInitTyped, RingStep, PTL DEF ReminderSpec

-----------------------------------------------------------------------------
\* AgentCron: type correctness, and where a second firing comes from.
HandState == [at : {"idle", "scan", "fire", "run"}, todo : SUBSET Crons,
              cur : Crons \union {NoCron}, trail : SUBSET Crons, next : Crons \union {NoCron}]

\* Only a worker that fires or runs has a cron in hand.
CronTyped ==
    /\ CronTypeOK
    /\ \A h \in Hands : hand[h].at \in {"fire", "run"} => hand[h].cur \in Crons

LEMMA HandTyped ==
  ASSUME CronTyped
  PROVE  /\ hand \in [Hands -> HandState]
         /\ \A h \in Hands : /\ hand[h] \in HandState /\ hand[h].todo \subseteq Crons
                             /\ hand[h].trail \subseteq Crons
                             /\ hand[h].next \in Crons \union {NoCron}
  <1>1. hand \in [Hands -> HandState]
    BY DEF CronTyped, CronTypeOK, HandState
  <1> QED
    BY <1>1 DEF HandState

LEMMA CronTypedInit == CronInit => CronTyped
  BY AgentCronAssumption DEF CronInit, CronTyped, CronTypeOK, Open

\* A worker's step replaces what it holds; the rest of the state keeps its type.
Replaces(h, x) == x \in HandState /\ hand' = [hand EXCEPT ![h] = x]

LEMMA Replaced ==
  ASSUME CronTyped, NEW h \in Hands, NEW x \in HandState, Replaces(h, x)
  PROVE  /\ hand' \in [Hands -> HandState] /\ hand'[h] = x
         /\ \A g \in Hands \ {h} : hand'[g] = hand[g]
  BY HandTyped DEF Replaces

LEMMA ReplacedTyped ==
  ASSUME CronTyped, NEW h \in Hands, NEW x \in HandState, Replaces(h, x),
         x.at \in {"fire", "run"} => x.cur \in Crons,
         asks' \subseteq Crons, nextRun' \in [Crons -> {"past", "future", "null"}],
         fires' \in [Crons -> Nat], UNCHANGED <<active, nextCron, asked, edits>>
  PROVE  CronTyped'
  <1>1. /\ hand' \in [Hands -> HandState] /\ hand'[h] = x
        /\ \A g \in Hands \ {h} : hand'[g] = hand[g]
    BY Replaced
  <1>2. \A g \in Hands : hand'[g].at \in {"fire", "run"} => hand'[g].cur \in Crons
    BY <1>1 DEF CronTyped
  <1> QED
    BY <1>1, <1>2 DEF CronTyped, CronTypeOK, HandState

LEMMA Puts ==
  ASSUME NEW h, NEW at \in {"idle", "scan", "fire", "run"}, NEW todo \in SUBSET Crons,
         NEW cur \in Crons \union {NoCron}, NEW trail \in SUBSET Crons,
         puts(h, at, todo, cur, trail)
  PROVE  \E x \in HandState : /\ Replaces(h, x)
                              /\ x.at = at /\ x.todo = todo /\ x.cur = cur /\ x.trail = trail
  <1> DEFINE new == [at |-> at, todo |-> todo, cur |-> cur, trail |-> trail, next |-> NoCron]
  <1>1. new \in HandState
    BY DEF HandState
  <1>2. Replaces(h, new)
    BY <1>1 DEF Replaces, puts
  <1> QED
    BY <1>1, <1>2

\* The agent of the cron in hand runs.
Fires(h) ==
    /\ hand' = [hand EXCEPT ![h].at = "run", ![h].next = nextCron[hand[h].cur]]
    /\ fires' = IF hand[h].trail = {} THEN [fires EXCEPT ![hand[h].cur] = @ + 1] ELSE fires

LEMMA FiresTyped ==
  ASSUME CronTyped, NEW h \in Hands, hand[h].at = "fire", Fires(h)
  PROVE  /\ fires' \in [Crons -> Nat] /\ hand[h].cur \in Crons
         /\ \E x \in HandState : /\ Replaces(h, x) /\ x.at = "run"
                                 /\ x.todo = hand[h].todo /\ x.cur = hand[h].cur
  <1> DEFINE new == [hand[h] EXCEPT !.at = "run", !.next = nextCron[hand[h].cur]]
  <1>1. /\ hand[h] \in HandState /\ hand[h].cur \in Crons
        /\ nextCron[hand[h].cur] \in Crons \union {NoCron}
    BY HandTyped DEF CronTyped, CronTypeOK
  <1>2. new \in HandState /\ new.at = "run" /\ new.todo = hand[h].todo /\ new.cur = hand[h].cur
    BY <1>1 DEF HandState
  <1>3. hand' = [hand EXCEPT ![h] = new]
    BY <1>1, HandTyped DEF Fires, HandState
  <1>4. fires' \in [Crons -> Nat]
    BY <1>1 DEF Fires, CronTyped, CronTypeOK
  <1> HIDE DEF new
  <1> QED
    BY <1>1, <1>2, <1>3, <1>4 DEF Replaces

\* What the workers' steps keep of a type, whichever of them moves.
LEMMA PutsTyped ==
  ASSUME CronTyped, NEW h \in Hands,
         NEW at \in {"idle", "scan", "fire", "run"}, NEW todo \in SUBSET Crons,
         NEW cur \in Crons \union {NoCron}, NEW trail \in SUBSET Crons,
         puts(h, at, todo, cur, trail), at \in {"fire", "run"} => cur \in Crons,
         asks' \subseteq Crons, nextRun' \in [Crons -> {"past", "future", "null"}],
         UNCHANGED <<active, nextCron, asked, edits, fires>>
  PROVE  CronTyped'
  <1>1. PICK x \in HandState : Replaces(h, x) /\ x.at = at /\ x.cur = cur
    BY Puts
  <1>2. fires' \in [Crons -> Nat]
    BY DEF CronTyped, CronTypeOK
  <1>3. x.at \in {"fire", "run"} => x.cur \in Crons
    BY <1>1
  <1> QED
    BY <1>1, <1>2, <1>3, ReplacedTyped

LEMMA CronTypedStep == CronTyped /\ [CronNext]_cronVars => CronTyped'
  <1> SUFFICES ASSUME CronTyped, [CronNext]_cronVars PROVE CronTyped'
    OBVIOUS
  <1>1. ASSUME NEW c \in Crons, timeComes(c) \/ runNow(c) \/ updateCron(c) PROVE CronTyped'
    <2>1. UNCHANGED <<hand, fires>>
      BY <1>1 DEF timeComes, runNow, updateCron
    <2>2. CASE timeComes(c)
      BY <2>1, <2>2, AgentCronAssumption DEF timeComes, CronTyped, CronTypeOK
    <2>3. CASE runNow(c)
      BY <2>1, <2>3, AgentCronAssumption DEF runNow, CronTyped, CronTypeOK
    <2>4. CASE updateCron(c)
      <3>1. edits' \in 0..MaxEdits /\ UNCHANGED <<asks, asked>>
        BY <2>4, AgentCronAssumption DEF updateCron, CronTyped, CronTypeOK
      <3>2. CASE \E d \in (Crons \union {NoCron}) \ {c} :
                    nextCron' = [nextCron EXCEPT ![c] = d] /\ UNCHANGED <<active, nextRun>>
        BY <2>1, <3>1, <3>2 DEF CronTyped, CronTypeOK
      <3>3. CASE /\ active' = [active EXCEPT ![c] = ~@] /\ UNCHANGED nextCron
                 /\ nextRun' = [nextRun EXCEPT ![c] = IF active[c] THEN "null" ELSE "future"]
        <4>1. (~active[c]) \in BOOLEAN
          OBVIOUS
        <4>2. active' \in [Crons -> BOOLEAN]
          BY <3>3, <4>1, Zenon DEF CronTyped, CronTypeOK
        <4>3. nextRun' \in [Crons -> {"past", "future", "null"}]
          <5>1. (IF active[c] THEN "null" ELSE "future") \in {"past", "future", "null"}
            OBVIOUS
          <5> QED
            BY <3>3, <5>1, Zenon DEF CronTyped, CronTypeOK
        <4> QED
          BY <2>1, <3>1, <3>3, <4>2, <4>3 DEF CronTyped, CronTypeOK
      <3> QED
        BY <2>4, <3>2, <3>3 DEF updateCron
    <2> QED
      BY <1>1, <2>2, <2>3, <2>4
  <1>2. ASSUME NEW h \in Hands, CronWork(h) PROVE CronTyped'
    <2>0. /\ hand[h].todo \in SUBSET Crons /\ hand[h].trail \in SUBSET Crons
          /\ hand[h].next \in Crons \union {NoCron} /\ dueCrons \in SUBSET Crons
          /\ asks \subseteq Crons /\ {} \in SUBSET Crons /\ NoCron \in Crons \union {NoCron}
          /\ nextRun \in [Crons -> {"past", "future", "null"}]
      BY HandTyped DEF dueCrons, CronTyped, CronTypeOK
    <2>1. UNCHANGED <<active, nextCron, asked, edits>>
      BY <1>2 DEF CronWork, takeAsk, scanDue, reschedule, fire, runEnds
    <2>2. CASE takeAsk(h)
      <3>1. PICK c \in asks : asks' = asks \ {c} /\ puts(h, "fire", {}, c, {})
        BY <2>2 DEF takeAsk
      <3>2. c \in Crons /\ asks' \subseteq Crons /\ UNCHANGED <<nextRun, fires>>
        BY <2>0, <2>2, <3>1 DEF takeAsk
      <3> QED
        BY <2>0, <2>1, <3>1, <3>2, PutsTyped
    <2>3. CASE scanDue(h)
      <3>1. puts(h, "scan", dueCrons, NoCron, {}) /\ UNCHANGED <<asks, nextRun, fires>>
        BY <2>3 DEF scanDue
      <3> QED
        BY <2>0, <2>1, <3>1, PutsTyped
    <2>4. CASE reschedule(h)
      <3>0. UNCHANGED <<asks, fires>>
        BY <2>4 DEF reschedule
      <3>1. CASE puts(h, "idle", {}, NoCron, {}) /\ UNCHANGED nextRun
        BY <2>0, <2>1, <3>0, <3>1, PutsTyped
      <3>2. ASSUME NEW c \in hand[h].todo, nextRun' = [nextRun EXCEPT ![c] = "future"],
                   puts(h, "fire", hand[h].todo \ {c}, c, {})
            PROVE  CronTyped'
        <4>1. c \in Crons /\ hand[h].todo \ {c} \in SUBSET Crons
          BY <2>0, <3>2
        <4>2. nextRun' \in [Crons -> {"past", "future", "null"}]
          BY <2>0, <3>2
        <4> QED
          BY <2>0, <2>1, <3>0, <3>2, <4>1, <4>2, PutsTyped
      <3> QED
        BY <2>4, <3>1, <3>2 DEF reschedule
    <2>5. CASE fire(h)
      <3>0. UNCHANGED <<asks, nextRun>>
        BY <2>5 DEF fire
      <3>1. CASE puts(h, "scan", hand[h].todo, NoCron, {}) /\ UNCHANGED fires
        BY <2>0, <2>1, <3>0, <3>1, PutsTyped
      <3>2. CASE Fires(h)
        <4>1. fires' \in [Crons -> Nat] /\ hand[h].cur \in Crons
          BY <2>5, <3>2, FiresTyped DEF fire
        <4>2. PICK x \in HandState : Replaces(h, x) /\ x.at = "run" /\ x.cur = hand[h].cur
          BY <2>5, <3>2, FiresTyped DEF fire
        <4>3. x.cur \in Crons
          BY <4>1, <4>2
        <4> QED
          BY <2>0, <2>1, <3>0, <4>1, <4>2, <4>3, ReplacedTyped
      <3> QED
        BY <2>5, <3>1, <3>2 DEF fire, Fires
    <2>6. CASE runEnds(h)
      <3>0. UNCHANGED <<asks, nextRun, fires>>
        BY <2>6 DEF runEnds
      <3>1. CASE puts(h, "scan", hand[h].todo, NoCron, {})
        BY <2>0, <2>1, <3>0, <3>1, PutsTyped
      <3>2. CASE hand[h].next # NoCron /\ baton(h, hand[h].next)
        <4>1. hand[h].next \in Crons /\ hand[h].trail \union {hand[h].cur} \in SUBSET Crons
          BY <2>0, <2>6, <3>2 DEF runEnds, CronTyped
        <4>2. puts(h, "fire", hand[h].todo, hand[h].next, hand[h].trail \union {hand[h].cur})
          BY <3>2 DEF baton
        <4> QED
          BY <2>0, <2>1, <3>0, <4>1, <4>2, PutsTyped
      <3> QED
        BY <2>6, <3>1, <3>2 DEF runEnds
    <2> QED
      BY <1>2, <2>2, <2>3, <2>4, <2>5, <2>6 DEF CronWork
  <1>3. CASE UNCHANGED cronVars
    BY <1>3 DEF cronVars, CronTyped, CronTypeOK
  <1> QED
    BY <1>1, <1>2, <1>3 DEF CronNext

\* The type invariant of the component.
THEOREM CronTypeCorrect == CronSpec => []CronTypeOK
  <1>1. CronTyped => CronTypeOK
    BY DEF CronTyped
  <1> QED
    BY <1>1, CronTypedInit, CronTypedStep, PTL DEF CronSpec

\* The second firing of a cron is the work of a second worker.  With one worker,
\* what was fired, what is about to be and what is due or asked for never exceed
\* what became due or was asked for.
lifted(c) == \E h \in Hands : hand[h].at = "fire" /\ hand[h].cur = c /\ hand[h].trail = {}
awaited(c) == nextRun[c] = "past" \/ \E h \in Hands : c \in hand[h].todo
one(b) == IF b THEN 1 ELSE 0

Due == \A c \in Crons : fires[c] + one(c \in asks) + one(awaited(c)) + one(lifted(c)) <= asked[c]

OneHand == \A g, h \in Hands : g = h

\* What the only worker holds is all that is held.
LEMMA HeldByOne ==
  ASSUME OneHand, CronTyped, NEW h \in Hands, NEW x \in HandState, Replaces(h, x), NEW c \in Crons
  PROVE  /\ awaited(c) <=> nextRun[c] = "past" \/ c \in hand[h].todo
         /\ lifted(c) <=> hand[h].at = "fire" /\ hand[h].cur = c /\ hand[h].trail = {}
         /\ awaited(c)' <=> nextRun'[c] = "past" \/ c \in x.todo
         /\ lifted(c)' <=> x.at = "fire" /\ x.cur = c /\ x.trail = {}
  <1>1. hand'[h] = x /\ \A g \in Hands : g = h
    BY Replaced DEF OneHand
  <1> QED
    BY <1>1 DEF awaited, lifted

LEMMA DueStep == OneHand /\ CronTyped /\ Due /\ [CronNext]_cronVars => Due'
  <1> SUFFICES ASSUME OneHand, CronTyped, Due, [CronNext]_cronVars, NEW c \in Crons
               PROVE  fires'[c] + one((c \in asks)') + one(awaited(c)') + one(lifted(c)') <= asked'[c]
    BY DEF Due
  <1>0. /\ CronTyped' /\ fires[c] \in Nat /\ asked[c] \in Nat
        /\ nextRun \in [Crons -> {"past", "future", "null"}] /\ asked \in [Crons -> 0..MaxAsked]
        /\ fires \in [Crons -> Nat]
        /\ fires[c] + one(c \in asks) + one(awaited(c)) + one(lifted(c)) <= asked[c]
    BY CronTypedStep DEF CronTyped, CronTypeOK, Due
  <1>1. ASSUME NEW d \in Crons, timeComes(d) \/ runNow(d) \/ updateCron(d)
        PROVE  fires'[c] + one((c \in asks)') + one(awaited(c)') + one(lifted(c)') <= asked'[c]
    <2>1. UNCHANGED <<hand, fires>> /\ (lifted(c)' <=> lifted(c))
      BY <1>1 DEF timeComes, runNow, updateCron, lifted
    <2>2. CASE timeComes(d)
      <3>1. /\ UNCHANGED asks
            /\ asked'[c] = IF c = d THEN asked[c] + 1 ELSE asked[c]
            /\ c # d => (awaited(c)' <=> awaited(c))
        BY <1>0, <2>1, <2>2 DEF timeComes, awaited
      <3> QED
        BY <1>0, <2>1, <3>1 DEF one
    <2>3. CASE runNow(d)
      <3>1. /\ asked'[c] = IF c = d THEN asked[c] + 1 ELSE asked[c]
            /\ c # d => (c \in asks' <=> c \in asks)
            /\ awaited(c)' <=> awaited(c)
        BY <1>0, <2>1, <2>3 DEF runNow, awaited
      <3>2. c = d => c \notin asks
        BY <2>3 DEF runNow
      <3> QED
        BY <1>0, <2>1, <3>1, <3>2 DEF one
    <2>4. CASE updateCron(d)
      <3>1. UNCHANGED <<asks, asked>>
        BY <2>4 DEF updateCron
      <3>2. nextRun'[c] = "past" => nextRun[c] = "past"
        BY <1>0, <2>4 DEF updateCron
      <3>3. awaited(c)' => awaited(c)
        BY <2>1, <3>2 DEF awaited
      <3> QED
        BY <1>0, <2>1, <3>1, <3>3 DEF one
    <2> QED
      BY <1>1, <2>2, <2>3, <2>4
  <1>2. ASSUME NEW h \in Hands, CronWork(h)
        PROVE  fires'[c] + one((c \in asks)') + one(awaited(c)') + one(lifted(c)') <= asked'[c]
    <2>0. /\ hand[h].todo \in SUBSET Crons /\ hand[h].trail \in SUBSET Crons
          /\ hand[h].next \in Crons \union {NoCron} /\ dueCrons \in SUBSET Crons
          /\ asks \subseteq Crons /\ {} \in SUBSET Crons /\ NoCron \in Crons \union {NoCron}
      BY HandTyped DEF dueCrons, CronTyped, CronTypeOK
    <2>1. UNCHANGED asked
      BY <1>2 DEF CronWork, takeAsk, scanDue, reschedule, fire, runEnds
    <2>2. CASE takeAsk(h)
      <3>1. PICK d \in asks : asks' = asks \ {d} /\ puts(h, "fire", {}, d, {})
        BY <2>2 DEF takeAsk
      <3>2. PICK x \in HandState : /\ Replaces(h, x) /\ x.at = "fire" /\ x.todo = {}
                                   /\ x.cur = d /\ x.trail = {}
        BY <2>0, <3>1, Puts
      <3>3. UNCHANGED <<nextRun, fires>> /\ hand[h].at = "idle"
        BY <2>2 DEF takeAsk
      <3>4. /\ ~lifted(c) /\ (lifted(c)' <=> c = d) /\ (awaited(c)' => awaited(c))
            /\ (c \in asks' <=> c \in asks /\ c # d)
        BY <3>1, <3>2, <3>3, HeldByOne
      <3> QED
        BY <1>0, <2>1, <3>1, <3>3, <3>4 DEF one
    <2>3. CASE scanDue(h)
      <3>1. puts(h, "scan", dueCrons, NoCron, {}) /\ UNCHANGED <<asks, nextRun, fires>>
        BY <2>3 DEF scanDue
      <3>2. PICK x \in HandState : Replaces(h, x) /\ x.at = "scan" /\ x.todo = dueCrons
        BY <2>0, <3>1, Puts
      <3>3. ~lifted(c)' /\ (awaited(c)' => awaited(c))
        BY <3>1, <3>2, HeldByOne DEF dueCrons
      <3> QED
        BY <1>0, <2>1, <3>1, <3>3 DEF one
    <2>4. CASE reschedule(h)
      <3>0. UNCHANGED <<asks, fires>> /\ hand[h].at = "scan"
        BY <2>4 DEF reschedule
      <3>1. CASE puts(h, "idle", {}, NoCron, {}) /\ UNCHANGED nextRun
        <4>1. PICK x \in HandState : Replaces(h, x) /\ x.at = "idle" /\ x.todo = {}
          BY <2>0, <3>1, Puts
        <4>2. ~lifted(c)' /\ (awaited(c)' => awaited(c))
          BY <3>1, <4>1, HeldByOne
        <4> QED
          BY <1>0, <2>1, <3>0, <4>2 DEF one
      <3>2. ASSUME NEW d \in hand[h].todo, nextRun' = [nextRun EXCEPT ![d] = "future"],
                   puts(h, "fire", hand[h].todo \ {d}, d, {})
            PROVE  fires'[c] + one((c \in asks)') + one(awaited(c)') + one(lifted(c)') <= asked'[c]
        <4>1. d \in Crons /\ hand[h].todo \ {d} \in SUBSET Crons
          BY <2>0
        <4>2. PICK x \in HandState : /\ Replaces(h, x) /\ x.at = "fire" /\ x.cur = d
                                     /\ x.todo = hand[h].todo \ {d} /\ x.trail = {}
          BY <2>0, <3>2, <4>1, Puts
        <4>3. nextRun'[c] = IF c = d THEN "future" ELSE nextRun[c]
          BY <1>0, <3>2, <4>1
        <4>4. /\ ~lifted(c) /\ (lifted(c)' <=> c = d)
              /\ IF c = d THEN awaited(c) /\ ~awaited(c)' ELSE awaited(c)' => awaited(c)
          BY <3>0, <4>2, <4>3, HeldByOne
        <4> QED
          BY <1>0, <2>1, <3>0, <4>4 DEF one
      <3> QED
        BY <2>4, <3>1, <3>2 DEF reschedule
    <2>5. CASE fire(h)
      <3>0. UNCHANGED <<asks, nextRun>> /\ hand[h].at = "fire"
        BY <2>5 DEF fire
      <3>1. CASE puts(h, "scan", hand[h].todo, NoCron, {}) /\ UNCHANGED fires
        <4>1. PICK x \in HandState : Replaces(h, x) /\ x.at = "scan" /\ x.todo = hand[h].todo
          BY <2>0, <3>1, Puts
        <4>2. ~lifted(c)' /\ (awaited(c)' => awaited(c))
          BY <3>0, <4>1, HeldByOne
        <4> QED
          BY <1>0, <2>1, <3>0, <3>1, <4>2 DEF one
      <3>2. CASE Fires(h)
        <4>1. PICK x \in HandState : Replaces(h, x) /\ x.at = "run" /\ x.todo = hand[h].todo
          BY <3>0, <3>2, FiresTyped
        <4>2. /\ ~lifted(c)' /\ (awaited(c)' => awaited(c))
              /\ lifted(c) <=> hand[h].cur = c /\ hand[h].trail = {}
          BY <3>0, <4>1, HeldByOne
        <4>3. fires'[c] = IF lifted(c) THEN fires[c] + 1 ELSE fires[c]
          BY <1>0, <3>0, <3>2, <4>2, FiresTyped DEF Fires
        <4> QED
          BY <1>0, <2>1, <3>0, <4>2, <4>3 DEF one
      <3> QED
        BY <2>5, <3>1, <3>2 DEF fire, Fires
    <2>6. CASE runEnds(h)
      <3>0. UNCHANGED <<asks, nextRun, fires>>
        BY <2>6 DEF runEnds
      <3>1. CASE puts(h, "scan", hand[h].todo, NoCron, {})
        <4>1. PICK x \in HandState : Replaces(h, x) /\ x.at = "scan" /\ x.todo = hand[h].todo
          BY <2>0, <3>1, Puts
        <4>2. ~lifted(c)' /\ (awaited(c)' => awaited(c))
          BY <3>0, <4>1, HeldByOne
        <4> QED
          BY <1>0, <2>1, <3>0, <4>2 DEF one
      <3>2. CASE hand[h].next # NoCron /\ baton(h, hand[h].next)
        <4>1. hand[h].next \in Crons /\ hand[h].trail \union {hand[h].cur} \in SUBSET Crons
          BY <2>0, <2>6, <3>2 DEF runEnds, CronTyped
        <4>2. puts(h, "fire", hand[h].todo, hand[h].next, hand[h].trail \union {hand[h].cur})
          BY <3>2 DEF baton
        <4>3. PICK x \in HandState : /\ Replaces(h, x) /\ x.todo = hand[h].todo
                                     /\ x.trail = hand[h].trail \union {hand[h].cur}
          BY <2>0, <4>1, <4>2, Puts
        <4>4. ~lifted(c)' /\ (awaited(c)' => awaited(c))
          BY <3>0, <4>3, HeldByOne
        <4> QED
          BY <1>0, <2>1, <3>0, <4>4 DEF one
      <3> QED
        BY <2>6, <3>1, <3>2 DEF runEnds
    <2> QED
      BY <1>2, <2>2, <2>3, <2>4, <2>5, <2>6 DEF CronWork
  <1>3. CASE UNCHANGED cronVars
    BY <1>0, <1>3 DEF cronVars, lifted, awaited
  <1> QED
    BY <1>1, <1>2, <1>3 DEF CronNext

\* A cron is fired no more often than it became due or was asked for, if the queue
\* has one worker (agent-cron.processor.ts has two, and there it is).
THEOREM OneHandFiresOnce == OneHand /\ CronSpec => []NoDoubleFire
  <1> SUFFICES ASSUME OneHand PROVE CronSpec => []NoDoubleFire
    OBVIOUS
  <1>1. CronInit => Due
    BY DEF CronInit, Due, Open, one, lifted, awaited
  <1>2. CronTyped /\ Due /\ [CronNext]_cronVars => Due'
    BY DueStep
  <1>3. CronTyped /\ Due => NoDoubleFire
    BY DEF CronTyped, CronTypeOK, Due, one, NoDoubleFire
  <1> QED
    BY <1>1, <1>2, <1>3, CronTypedInit, CronTypedStep, PTL DEF CronSpec

-----------------------------------------------------------------------------
\* The composition that the run checks: its behaviours are behaviours of each
\* component.
LEMMA PartSteps ==
  [Next]_vars => /\ [OutboundNext]_outboundVars /\ [CampaignNext]_campaignVars
                 /\ [PostNext]_postVars /\ [CronNext]_cronVars /\ [ReminderNext]_reminderVars
  BY Zenon DEF Next, vars

THEOREM PartsKeepTheirSpecs ==
    Spec => OutboundSpec /\ CampaignSpec /\ PostSpec /\ CronSpec /\ ReminderSpec
  <1>1. Init => OutboundInit /\ CampaignInit /\ PostInit /\ CronInit /\ ReminderInit
    BY DEF Init
  <1> QED
    BY <1>1, PartSteps, PTL
       DEF Spec, OutboundSpec, CampaignSpec, PostSpec, CronSpec, ReminderSpec

\* The types of all that sends, for a campaign that finitely many clicks send.
THEOREM SendersTypeCorrect == IsFiniteSet(Clicks) /\ Spec => []TypeOK
  <1> SUFFICES ASSUME IsFiniteSet(Clicks) PROVE Spec => []TypeOK
    OBVIOUS
  <1>1. CampaignSpec => []CampaignTypeOK
    BY CampaignTypeCorrect, Zenon
  <1> QED
    BY <1>1, PartsKeepTheirSpecs, OutboundTypeCorrect, PostTypeCorrect, CronTypeCorrect,
       ReminderTypeCorrect, PTL DEF TypeOK
=============================================================================
