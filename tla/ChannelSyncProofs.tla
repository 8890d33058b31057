--------------------------- MODULE ChannelSyncProofs ---------------------------
(***************************************************************************)
(* The import of a channel's history, for any number of syncs, processors, *)
(* conversations and attempts: a cancellation stops it, and it opens no    *)
(* second conversation but in a race.                                      *)
(***************************************************************************)
EXTENDS ChannelSync, TLAPS

Places == {"idle", "start", "collect", "complete", "fail", "loop", "find", "create", "messages"}
States == [at : Places, sync : Syncs \union {NoSync}, cur : 0..Threads, late : Nat]

Typed ==
    /\ syncStatus \in [Syncs -> Live \union Settled \union {"none"}]
    /\ request \in [Syncs -> {"none", "free", "created", "done"}]
    /\ syncJob \in [Syncs -> {"none", "waiting", "active", "over", "stuck"}]
    /\ failures \in [Syncs -> 0..SyncTries]
    /\ doomed \in Syncs \union {NoSync}
    /\ importer \in [Importers -> States]
    /\ opened \in [1..Threads -> Nat]
    /\ stalls \in [Syncs -> 0..1] /\ cancels \in 0..MaxCancels
    /\ overtaken \subseteq 1..Threads /\ arriving \subseteq 1..Threads

\* A processor that is at work has a sync, and one that imports a conversation.
InHand ==
    \A w \in Importers :
        /\ importer[w].at # "idle" => importer[w].sync \in Syncs
        /\ importer[w].at \in {"find", "create", "messages"} => importer[w].cur > 0

\* A row exists once its request created it, and its job after that.
InOrder ==
    /\ \A s \in Syncs :
         /\ request[s] \in {"none", "free"} => syncStatus[s] = "none" /\ syncJob[s] = "none"
         /\ request[s] = "created" => syncJob[s] = "none"
    /\ doomed # NoSync => request[doomed] \in {"created", "done"}

\* A job in work is in the hands of one processor.
OneHand ==
    /\ \A w \in Importers : importer[w].at # "idle" => syncJob[importer[w].sync] = "active"
    /\ \A v, w \in Importers :
         v # w /\ importer[v].at # "idle" /\ importer[w].at # "idle"
           => importer[v].sync # importer[w].sync

\* The row of an attempt that began an import late reads CANCELLED until the next
\* check, which is why no second import follows.
StopsInTime ==
    \A w \in Importers :
        /\ importer[w].late <= 1
        /\ importer[w].at \in {"idle", "start", "collect", "find"} => importer[w].late = 0
        /\ importer[w].at \in {"loop", "create", "messages"} /\ importer[w].late = 1
             => syncStatus[importer[w].sync] = "CANCELLED"

\* About to create a conversation: there is none, unless one came in between.
NoneYet ==
    /\ \A w \in Importers :
         importer[w].at = "create"
           => opened[importer[w].cur] = 0 \/ importer[w].cur \in overtaken
    /\ \A c \in arriving : opened[c] = 0 \/ c \in overtaken

IInv == Typed /\ InHand /\ InOrder /\ OneHand /\ StopsInTime /\ NoneYet /\ OneConversationEach

-----------------------------------------------------------------------------
LEMMA Numbers == /\ Threads \in Nat /\ SyncTries \in Nat \ {0}
                 /\ MaxCancels \in Nat /\ NoSync \notin Syncs
  BY SyncAssumption DEF SyncAssumption

LEMMA Records ==
  /\ Resting \in States /\ Resting.at = "idle" /\ Resting.late = 0
  /\ \A a \in Places, s \in Syncs \union {NoSync}, c \in 0..Threads, l \in Nat :
        /\ [at |-> a, sync |-> s, cur |-> c, late |-> l] \in States
        /\ [at |-> a, sync |-> s, cur |-> c, late |-> l].at = a
        /\ [at |-> a, sync |-> s, cur |-> c, late |-> l].sync = s
        /\ [at |-> a, sync |-> s, cur |-> c, late |-> l].cur = c
        /\ [at |-> a, sync |-> s, cur |-> c, late |-> l].late = l
  /\ \A r \in States : /\ r.at \in Places /\ r.sync \in Syncs \union {NoSync}
                       /\ r.cur \in 0..Threads /\ r.late \in Nat
  BY Numbers DEF Resting, States, Places

LEMMA IInvInit == SyncInit => IInv
  <1> SUFFICES ASSUME SyncInit PROVE IInv
    OBVIOUS
  <1> USE DEF SyncInit
  <1>0. Resting \in States /\ Resting.at = "idle" /\ Resting.late = 0
    BY Records
  <1>1. Typed
    BY Numbers, <1>0 DEF Typed, Live, Settled
  <1>2. \A w \in Importers : importer[w].at = "idle" /\ importer[w].late = 0
    BY <1>0
  <1> QED
    BY <1>1, <1>2 DEF IInv, InHand, InOrder, OneHand, StopsInTime, NoneYet, OneConversationEach

-----------------------------------------------------------------------------
\* What a step of processor w does to the processors.
Only(w) ==
    importer' \in [Importers -> States] /\ \A v \in Importers \ {w} : importer'[v] = importer[v]

Now(w, a, s, c, l) ==
    /\ importer'[w].at = a /\ importer'[w].sync = s
    /\ importer'[w].cur = c /\ importer'[w].late = l

LEMMA Puts ==
  ASSUME Typed, NEW w \in Importers, NEW a \in Places, NEW s \in Syncs \union {NoSync},
         NEW c \in 0..Threads, NEW l \in Nat, puts(w, a, s, c, l)
  PROVE  Only(w) /\ Now(w, a, s, c, l)
  <1> DEFINE n == [at |-> a, sync |-> s, cur |-> c, late |-> l]
  <1>1. n \in States /\ n.at = a /\ n.sync = s /\ n.cur = c /\ n.late = l
    BY Records
  <1>2. importer' = [importer EXCEPT ![w] = n]
    BY DEF puts
  <1> HIDE DEF n
  <1>3. importer' \in [Importers -> States] /\ importer'[w] = n
        /\ \A v \in Importers \ {w} : importer'[v] = importer[v]
    BY <1>1, <1>2 DEF Typed
  <1> QED
    BY <1>1, <1>3 DEF Only, Now

LEMMA Letters == "find" \in Places /\ 0 \in Nat
  BY DEF Places

LEMMA Fields ==
  ASSUME Typed, NEW w \in Importers
  PROVE  /\ importer[w].at \in Places /\ importer[w].sync \in Syncs \union {NoSync}
         /\ importer[w].cur \in 0..Threads /\ importer[w].late \in Nat
  BY Records DEF Typed

LEMMA Steps ==
  ASSUME Typed, NEW w \in Importers, NEW a \in Places, steps(w, a)
  PROVE  Only(w) /\ Now(w, a, importer[w].sync, importer[w].cur, importer[w].late)
  BY Fields, Puts DEF steps

LEMMA Rests ==
  ASSUME Typed, NEW w \in Importers, importer' = [importer EXCEPT ![w] = Resting]
  PROVE  Only(w) /\ importer'[w].at = "idle" /\ importer'[w].late = 0
  BY Records DEF Typed, Only

-----------------------------------------------------------------------------
\* The requests and the row's other writer.
LEMMA RequestStep ==
  ASSUME IInv, NEW s \in Syncs,
         startSync(s) \/ createSync(s) \/ addSync(s) \/ readActive(s)
  PROVE  IInv'
  <1> USE DEF IInv, retries, convVars
  <1>0. Typed /\ InOrder
    OBVIOUS
  <1>1. CASE startSync(s)
    BY <1>0, <1>1 DEF startSync, asks, Typed, InOrder, InHand, OneHand, StopsInTime, NoneYet,
       OneConversationEach, Live
  <1>2. CASE createSync(s)
    <2>1. /\ syncStatus' = [syncStatus EXCEPT ![s] = "PENDING"]
          /\ request' = [request EXCEPT ![s] = "created"] /\ request[s] = "free"
          /\ UNCHANGED <<syncJob, failures, stalls, doomed, importer,
                         opened, arriving, cancels, overtaken>>
      BY <1>2 DEF createSync, asks
    <2>2. syncJob[s] = "none" /\ Typed'
      BY <1>0, <2>1 DEF Typed, InOrder, Live
    <2>3. InOrder'
      BY <1>0, <2>1, <2>2 DEF Typed, InOrder
    <2>4. \A w \in Importers : importer[w].at # "idle" => importer[w].sync # s
      BY <2>2 DEF OneHand
    <2>5. StopsInTime'
      BY <2>1, <2>4, Fields, <1>0 DEF StopsInTime, Typed, InHand
    <2> QED
      BY <2>1, <2>2, <2>3, <2>5 DEF InHand, OneHand, NoneYet, OneConversationEach
  <1>3. CASE addSync(s)
    <2>1. /\ request' = [request EXCEPT ![s] = "done"] /\ request[s] = "created"
          /\ syncJob' = [syncJob EXCEPT ![s] = "waiting"] \/ syncJob' = syncJob
          /\ UNCHANGED <<syncStatus, failures, stalls, doomed, importer,
                         opened, arriving, cancels, overtaken>>
      BY <1>3 DEF addSync, asks
    <2>2. syncJob[s] = "none" /\ Typed' /\ InOrder'
      BY <1>0, <2>1 DEF Typed, InOrder
    <2>3. OneHand'
      BY <1>0, <2>1, <2>2 DEF OneHand, Typed, InHand
    <2> QED
      BY <2>1, <2>2, <2>3 DEF InHand, StopsInTime, NoneYet, OneConversationEach
  <1>4. CASE readActive(s)
    <2>1. /\ doomed' = s /\ syncStatus[s] \in Live
          /\ cancels' = cancels + 1 /\ cancels < MaxCancels
          /\ UNCHANGED <<syncStatus, request, syncJob, failures, importer, opened, stalls,
                         arriving, overtaken>>
      BY <1>4 DEF readActive
    <2>2. Typed'
      BY <1>0, <2>1, Numbers DEF Typed
    <2>3. request[s] \in {"created", "done"}
      BY <1>0, <2>1 DEF Typed, InOrder, Live
    <2>4. InOrder'
      BY <1>0, <2>1, <2>3 DEF InOrder
    <2> QED
      BY <2>1, <2>2, <2>4 DEF InHand, OneHand, StopsInTime, NoneYet, OneConversationEach
  <1> QED
    BY <1>1, <1>2, <1>3, <1>4

LEMMA CancelStep ==
  ASSUME IInv, cancelSync
  PROVE  IInv'
  <1> USE DEF IInv, retries, convVars
  <1>1. /\ doomed \in Syncs /\ doomed' = NoSync
        /\ syncStatus' = [syncStatus EXCEPT ![doomed] = "CANCELLED"]
        /\ UNCHANGED <<request, syncJob, failures, stalls, importer,
                       opened, arriving, cancels, overtaken>>
    BY DEF cancelSync, Typed
  <1>2. Typed'
    BY <1>1, Numbers DEF Typed, Settled
  <1>3. InOrder'
    BY <1>1, Numbers DEF InOrder, Typed
  <1>4. StopsInTime'
    BY <1>1, Fields DEF StopsInTime, Typed
  <1> QED
    BY <1>1, <1>2, <1>3, <1>4 DEF InHand, OneHand, NoneYet, OneConversationEach

\* A step of w that keeps its job, its row and the conversations.
Keeping == UNCHANGED <<syncStatus, request, syncJob, failures, stalls, doomed, opened, arriving,
                       cancels, overtaken>>

LEMMA KeptStep ==
  ASSUME IInv, NEW w \in Importers, NEW a \in Places \ {"idle", "start", "collect"},
         NEW c \in 0..Threads, NEW l \in 0..1,
         importer[w].at # "idle", Keeping, Only(w), Now(w, a, importer[w].sync, c, l),
         a \in {"find", "create", "messages"} => c > 0,
         a = "find" => l = 0,
         a \in {"loop", "create", "messages"} /\ l = 1
           => syncStatus[importer[w].sync] = "CANCELLED",
         a = "create" => opened[c] = 0
  PROVE  IInv'
  <1> USE DEF IInv
  <1>1. Typed'
    BY DEF Typed, Keeping, Only
  <1>2. InOrder' /\ OneConversationEach'
    BY DEF InOrder, OneConversationEach, Keeping
  <1>3. InHand'
    BY DEF InHand, Only, Now
  <1>4. OneHand'
    BY DEF OneHand, Only, Now, Keeping
  <1>5. StopsInTime'
    BY DEF StopsInTime, Only, Now, Keeping
  <1>6. NoneYet'
    BY DEF NoneYet, Only, Now, Keeping
  <1> QED
    BY <1>1, <1>2, <1>3, <1>4, <1>5, <1>6

LEMMA LateNumber ==
  ASSUME IInv, NEW w \in Importers
  PROVE  importer[w].late \in 0..1
  BY Fields DEF IInv, StopsInTime

LEMMA ImportStep ==
  ASSUME IInv, NEW w \in Importers,
         \/ collectConversations(w) \/ nextConversation(w)
         \/ findConversation(w) \/ importMessages(w)
  PROVE  IInv'
  <1> USE DEF IInv, retries, convVars
  <1>0. /\ Typed /\ importer[w].late \in 0..1 /\ importer[w].cur \in 0..Threads
        /\ importer[w].sync \in Syncs \union {NoSync}
    BY LateNumber, Fields
  <1>1. CASE collectConversations(w)
    <2>1. PICK a \in {"loop", "fail"} : steps(w, a)
      BY <1>1 DEF collectConversations
    <2>2. importer[w].at = "collect" /\ Keeping
      BY <1>1 DEF collectConversations, Keeping
    <2>3. Only(w) /\ Now(w, a, importer[w].sync, importer[w].cur, importer[w].late)
      BY <1>0, <2>1, Steps DEF Places
    <2>4. importer[w].late = 0
      BY <2>2 DEF StopsInTime
    <2> QED
      BY <1>0, <2>2, <2>3, <2>4, KeptStep DEF Places
  <1>2. CASE nextConversation(w)
    <2>1. importer[w].at = "loop" /\ Keeping
      BY <1>2 DEF nextConversation, Keeping
    <2>2. CASE \E a \in {"complete", "fail"} : steps(w, a)
      <3>1. PICK a \in {"complete", "fail"} : steps(w, a)
        BY <2>2
      <3>2. Only(w) /\ Now(w, a, importer[w].sync, importer[w].cur, importer[w].late)
        BY <1>0, <3>1, Steps DEF Places
      <3> QED
        BY <1>0, <2>1, <3>2, KeptStep DEF Places
    <2>3. CASE /\ importer[w].cur < Threads /\ syncStatus[importer[w].sync] # "CANCELLED"
               /\ takesNext(w)
      <3>1. importer[w].cur + 1 \in 0..Threads /\ importer[w].cur + 1 > 0
        BY <1>0, <2>3, Numbers
      <3>2. importer[w].late = 0
        BY <1>0, <2>1, <2>3 DEF StopsInTime
      <3>3. puts(w, "find", importer[w].sync, importer[w].cur + 1, importer[w].late)
        BY <2>3 DEF takesNext
      <3>4. Only(w) /\ Now(w, "find", importer[w].sync, importer[w].cur + 1, importer[w].late)
        BY Zenon, <1>0, <3>1, <3>2, <3>3, Puts, Letters
      <3> QED
        BY <2>1, <3>1, <3>2, <3>4, KeptStep DEF Places
    <2> QED
      BY <1>2, <2>2, <2>3 DEF nextConversation
  <1>3. CASE findConversation(w)
    <2>1. importer[w].at = "find" /\ Keeping
      BY <1>3 DEF findConversation, Keeping
    <2>2. importer[w].late = 0 /\ importer[w].cur > 0
      BY <2>1 DEF StopsInTime, InHand
    <2> DEFINE l == IF syncStatus[importer[w].sync] = "CANCELLED" THEN importer[w].late + 1
                    ELSE importer[w].late
    <2>3. l \in 0..1 /\ (l = 1 => syncStatus[importer[w].sync] = "CANCELLED")
      BY <2>2
    <2>4. PICK a \in {"messages", "create", "loop"} :
              begins(w, a) /\ (a = "create" => ~ opened[importer[w].cur] > 0)
      BY <1>3 DEF findConversation
    <2>5. Only(w) /\ Now(w, a, importer[w].sync, importer[w].cur, l)
      BY <1>0, <2>3, <2>4, Puts DEF begins, Places
    <2>6. a = "create" => opened[importer[w].cur] = 0
      BY <1>0, <2>2, <2>4, Numbers DEF Typed
    <2> HIDE DEF l
    <2> QED
      BY <1>0, <2>1, <2>2, <2>3, <2>5, <2>6, KeptStep DEF Places
  <1>4. CASE importMessages(w)
    <2>1. importer[w].at = "messages" /\ Keeping
      BY <1>4 DEF importMessages, Keeping
    <2>2. Only(w) /\ Now(w, "loop", importer[w].sync, importer[w].cur, importer[w].late)
      BY <1>0, <1>4, Steps DEF Places, importMessages
    <2>3. importer[w].late = 1 => syncStatus[importer[w].sync] = "CANCELLED"
      BY <2>1 DEF StopsInTime
    <2> QED
      BY <1>0, <2>1, <2>2, <2>3, KeptStep DEF Places
  <1> QED
    BY <1>1, <1>2, <1>3, <1>4

\* The job leaves w's hands, and its row may be written.
Leaves(w) ==
    /\ importer' = [importer EXCEPT ![w] = Resting]
    /\ \E how \in {"waiting", "over", "stuck"} :
         syncJob' = [syncJob EXCEPT ![importer[w].sync] = how]
    /\ failures' \in [Syncs -> 0..SyncTries] /\ stalls' \in [Syncs -> 0..1]

LEMMA LeaveStep ==
  ASSUME IInv, NEW w \in Importers, importer[w].at # "idle", Leaves(w),
         \/ UNCHANGED syncStatus
         \/ \E x \in Settled : syncStatus' = [syncStatus EXCEPT ![importer[w].sync] = x],
         UNCHANGED <<request, doomed, opened, arriving, cancels, overtaken>>
  PROVE  IInv'
  <1> USE DEF IInv
  <1> DEFINE s == importer[w].sync
  <1>0. Typed /\ s \in Syncs /\ syncJob[s] = "active"
    BY DEF InHand, OneHand
  <1>1. Only(w) /\ importer'[w].at = "idle" /\ importer'[w].late = 0
    BY <1>0, Rests DEF Leaves
  <1>2. PICK how \in {"waiting", "over", "stuck"} : syncJob' = [syncJob EXCEPT ![s] = how]
    BY DEF Leaves
  <1>3. syncStatus' \in [Syncs -> Live \union Settled \union {"none"}]
        /\ \A t \in Syncs : t # s => syncStatus'[t] = syncStatus[t]
    BY <1>0 DEF Typed
  <1>4. syncJob' \in [Syncs -> {"none", "waiting", "active", "over", "stuck"}]
        /\ \A t \in Syncs : t # s => syncJob'[t] = syncJob[t]
    BY <1>0, <1>2 DEF Typed
  <1>5. \A v \in Importers : v # w /\ importer[v].at # "idle"
                               => importer[v].sync \in Syncs /\ importer[v].sync # s
    BY <1>0 DEF InHand, OneHand
  <1> HIDE DEF s
  <1>6. Typed'
    BY <1>0, <1>1, <1>3, <1>4 DEF Typed, Only, Leaves
  <1>7. request[s] = "done"
    BY <1>0 DEF InOrder, Typed
  <1>8. InOrder'
    BY <1>0, <1>3, <1>4, <1>7 DEF InOrder
  <1>9. InHand' /\ NoneYet' /\ OneConversationEach'
    BY <1>1 DEF InHand, NoneYet, OneConversationEach, Only
  <1>10. OneHand'
    BY <1>1, <1>4, <1>5 DEF OneHand, Only
  <1>11. StopsInTime'
    <2>1. ASSUME NEW v \in Importers, v # w PROVE StopsInTime!(v)'
      BY <1>1, <1>3, <1>5, <2>1 DEF StopsInTime, Only
    <2> QED
      BY <1>1, <2>1 DEF StopsInTime
  <1> QED
    BY <1>6, <1>8, <1>9, <1>10, <1>11

LEMMA Throws ==
  ASSUME IInv, NEW w \in Importers, importer[w].at # "idle", NEW how \in {"over", "stuck"},
         attemptThrows(w, how)
  PROVE  Leaves(w)
  <1>1. importer[w].sync \in Syncs
    BY DEF IInv, InHand
  <1>2. failures[importer[w].sync] \in 0..SyncTries
    BY <1>1 DEF IInv, Typed
  <1>3. failures' \in [Syncs -> 0..SyncTries] /\ stalls' \in [Syncs -> 0..1]
    <2>1. failures \in [Syncs -> 0..SyncTries] /\ stalls \in [Syncs -> 0..1]
      BY DEF IInv, Typed
    <2>2. CASE ends(w, how)
      BY <1>1, <2>1, <2>2, Numbers DEF ends, isOver
    <2>3. CASE /\ failures[importer[w].sync] + 1 < SyncTries
               /\ failures' = [failures EXCEPT ![importer[w].sync] = @ + 1] /\ UNCHANGED stalls
      BY <1>1, <1>2, <2>1, <2>3, Numbers
    <2> QED
      BY <2>2, <2>3 DEF attemptThrows
  <1> QED
    BY <1>3 DEF attemptThrows, goesBack, ends, isOver, Leaves

LEMMA EndStep ==
  ASSUME IInv, NEW w \in Importers, markFailed(w) \/ importerDies(w)
  PROVE  IInv'
  <1>1. CASE markFailed(w)
    <2>1. /\ importer[w].at # "idle"
          /\ UNCHANGED <<request, doomed, opened, arriving, cancels, overtaken>>
      BY <1>1 DEF markFailed, convVars
    <2>2. Leaves(w)
      BY <1>1, <2>1, Throws DEF markFailed
    <2>3. \/ UNCHANGED syncStatus
          \/ \E x \in Settled : syncStatus' = [syncStatus EXCEPT ![importer[w].sync] = x]
      BY <1>1 DEF markFailed, writes, Settled
    <2> QED
      BY <2>1, <2>2, <2>3, LeaveStep
  <1>2. CASE importerDies(w)
    <2>1. importer[w].at # "idle"
          /\ UNCHANGED <<syncStatus, request, doomed, opened, arriving, cancels, overtaken>>
      BY <1>2 DEF importerDies, convVars
    <2>2. importer[w].sync \in Syncs
      BY <2>1 DEF IInv, InHand
    <2>3. failures' \in [Syncs -> 0..SyncTries] /\ stalls' \in [Syncs -> 0..1]
      <3>1. \/ UNCHANGED failures /\ stalls' = [stalls EXCEPT ![importer[w].sync] = 1]
            \/ /\ failures' = [failures EXCEPT ![importer[w].sync] = 0]
               /\ stalls' = [stalls EXCEPT ![importer[w].sync] = 0]
        BY <1>2 DEF importerDies, ends, isOver
      <3>2. /\ failures \in [Syncs -> 0..SyncTries] /\ stalls \in [Syncs -> 0..1]
            /\ 0 \in 0..SyncTries /\ 0 \in 0..1 /\ 1 \in 0..1
        BY Numbers DEF IInv, Typed
      <3> QED
        BY <2>2, <3>1, <3>2
    <2>4. Leaves(w)
      BY <1>2, <2>3 DEF importerDies, goesBack, ends, isOver, Leaves
    <2> QED
      BY <2>1, <2>4, LeaveStep
  <1> QED
    BY <1>1, <1>2

LEMMA CompleteStep ==
  ASSUME IInv, NEW w \in Importers, completeSync(w)
  PROVE  IInv'
  <1>0. /\ importer[w].at = "complete"
        /\ UNCHANGED <<request, doomed, opened, arriving, cancels, overtaken>>
    BY DEF completeSync, convVars
  <1>1. importer[w].sync \in Syncs
    BY <1>0 DEF IInv, InHand
  <1>2. CASE writes(importer[w].sync, "COMPLETED") /\ ends(w, "over")
    <2>1. failures' \in [Syncs -> 0..SyncTries] /\ stalls' \in [Syncs -> 0..1]
      BY <1>1, <1>2, Numbers DEF IInv, Typed, ends, isOver
    <2>2. Leaves(w)
      BY <1>2, <2>1 DEF ends, isOver, Leaves
    <2>3. \E x \in Settled : syncStatus' = [syncStatus EXCEPT ![importer[w].sync] = x]
      BY <1>2 DEF writes, Settled
    <2> QED
      BY <1>0, <2>2, <2>3, LeaveStep
  <1>3. CASE steps(w, "fail") /\ UNCHANGED <<syncStatus, syncJob, retries>>
    <2>1. Keeping
      BY <1>0, <1>3 DEF Keeping, retries
    <2>2. Only(w) /\ Now(w, "fail", importer[w].sync, importer[w].cur, importer[w].late)
      BY <1>3, Steps DEF IInv, Places
    <2> QED
      BY <1>0, <2>1, <2>2, LateNumber, Fields, KeptStep DEF IInv, Places
  <1> QED
    BY <1>2, <1>3 DEF completeSync

LEMMA TakeStep ==
  ASSUME IInv, NEW w \in Importers, NEW s \in Syncs, takeSync(w, s)
  PROVE  IInv'
  <1> USE DEF IInv
  <1>0. /\ Typed /\ importer[w].at = "idle" /\ syncJob[s] = "waiting" /\ request[s] = "done"
        /\ UNCHANGED <<syncStatus, request, doomed, opened, arriving, cancels, overtaken>>
    BY DEF takeSync, Typed, InOrder, convVars
  <1>1. \A v \in Importers : importer[v].at # "idle" => importer[v].sync # s
    BY <1>0 DEF OneHand
  <1>2. CASE isOver(s, "over") /\ UNCHANGED importer
    <2>1. Typed'
      BY <1>0, <1>2, Numbers DEF Typed, isOver
    <2>2. \A t \in Syncs : t # s => syncJob'[t] = syncJob[t]
      BY <1>0, <1>2 DEF isOver, Typed
    <2> QED
      BY <1>0, <1>1, <1>2, <2>1, <2>2
         DEF InOrder, InHand, OneHand, StopsInTime, NoneYet, OneConversationEach
  <1>3. CASE /\ syncJob' = [syncJob EXCEPT ![s] = "active"] /\ puts(w, "start", s, 0, 0)
             /\ UNCHANGED retries
    <2>1. Only(w) /\ Now(w, "start", s, 0, 0)
      <3>1. "start" \in Places /\ 0 \in 0..Threads /\ 0 \in Nat /\ s \in Syncs \union {NoSync}
        BY Numbers DEF Places
      <3> QED
        BY Zenon, <1>0, <1>3, <3>1, Puts
    <2>2. Typed'
      BY <1>0, <1>3, <2>1 DEF Typed, Only, retries
    <2>3. syncJob'[s] = "active" /\ \A t \in Syncs : t # s => syncJob'[t] = syncJob[t]
      BY <1>0, <1>3 DEF Typed
    <2>4. InOrder' /\ OneConversationEach'
      BY <1>0, <2>3 DEF InOrder, OneConversationEach
    <2>5. InHand' /\ NoneYet'
      BY <1>0, <2>1 DEF InHand, NoneYet, Only, Now
    <2>6. OneHand'
      BY <1>1, <2>1, <2>3 DEF OneHand, InHand, Only, Now
    <2>7. StopsInTime'
      BY <1>0, <2>1 DEF StopsInTime, Only, Now
    <2> QED
      BY <2>2, <2>4, <2>5, <2>6, <2>7
  <1> QED
    BY <1>2, <1>3 DEF takeSync

LEMMA RunningStep ==
  ASSUME IInv, NEW w \in Importers, markRunning(w)
  PROVE  IInv'
  <1> USE DEF IInv
  <1>0. /\ Typed /\ importer[w].at = "start"
        /\ UNCHANGED <<request, doomed, opened, arriving, cancels, overtaken>>
    BY DEF markRunning, convVars
  <1>1. CASE attemptThrows(w, "stuck") /\ UNCHANGED syncStatus
    BY <1>0, <1>1, Throws, LeaveStep
  <1>2. CASE /\ writes(importer[w].sync, "RUNNING") /\ steps(w, "collect")
             /\ UNCHANGED <<syncJob, retries>>
    <2> DEFINE s == importer[w].sync
    <2>1. s \in Syncs /\ syncJob[s] = "active" /\ importer[w].late = 0
      BY <1>0 DEF InHand, OneHand, StopsInTime
    <2>2. Only(w) /\ Now(w, "collect", s, importer[w].cur, importer[w].late)
      BY <1>2, Steps DEF Places
    <2>3. \A v \in Importers : v # w /\ importer[v].at # "idle"
                                 => importer[v].sync \in Syncs /\ importer[v].sync # s
      BY <1>0 DEF InHand, OneHand
    <2>4. syncStatus' \in [Syncs -> Live \union Settled \union {"none"}]
          /\ \A t \in Syncs : t # s => syncStatus'[t] = syncStatus[t]
      BY <1>0, <1>2, <2>1 DEF writes, Typed, Live
    <2>5. request[s] = "done" /\ UNCHANGED <<syncJob, failures, stalls>>
      BY <1>0, <1>2, <2>1 DEF InOrder, Typed, retries
    <2> HIDE DEF s
    <2>6. Typed'
      BY <1>0, <2>2, <2>4, <2>5 DEF Typed, Only
    <2>7. InOrder' /\ OneConversationEach'
      BY <1>0, <2>4, <2>5 DEF InOrder, OneConversationEach
    <2>8. InHand' /\ NoneYet'
      BY <1>0, <2>1, <2>2 DEF InHand, NoneYet, Only, Now
    <2>9. OneHand'
      BY <2>1, <2>2, <2>3, <2>5 DEF OneHand, Only, Now
    <2>10. StopsInTime'
      <3>1. ASSUME NEW v \in Importers, v # w PROVE StopsInTime!(v)'
        BY <2>2, <2>3, <2>4, <3>1 DEF StopsInTime, Only
      <3> QED
        BY <2>1, <2>2, <3>1 DEF StopsInTime, Now
    <2> QED
      BY <2>6, <2>7, <2>8, <2>9, <2>10
  <1> QED
    BY <1>1, <1>2 DEF markRunning

\* A conversation comes into being: the others that are about to create one, too,
\* are overtaken.
LEMMA OpenStep ==
  ASSUME IInv, NEW c \in 1..Threads, NEW others \in SUBSET Importers,
         NEW messages \in SUBSET arriving, opens(c, others, messages),
         \A w \in Importers \ others : importer'[w].at # "create",
         \A w \in others : importer'[w] = importer[w],
         arriving' \subseteq arriving, c \in arriving' => c \in messages,
         opened[c] = 0 \/ c \in overtaken
  PROVE  /\ opened' \in [1..Threads -> Nat] /\ overtaken' \subseteq 1..Threads
         /\ NoneYet' /\ OneConversationEach'
  <1> USE DEF IInv
  <1>1. /\ opened \in [1..Threads -> Nat] /\ overtaken \subseteq 1..Threads
        /\ arriving \subseteq 1..Threads
    BY DEF Typed
  <1>2. opened'[c] = opened[c] + 1 /\ \A d \in 1..Threads \ {c} : opened'[d] = opened[d]
    BY <1>1 DEF opens
  <1>3. overtaken \subseteq overtaken' /\ overtaken' \subseteq 1..Threads
    BY <1>1 DEF opens
  <1>4. /\ \A w \in others :
             importer[w].at = "create" /\ importer[w].cur = c => c \in overtaken'
        /\ c \in messages => c \in overtaken'
    BY DEF opens
  <1>5. OneConversationEach'
    BY <1>1, <1>2, <1>3 DEF OneConversationEach
  <1>6. \A w \in Importers : importer[w].at = "create" => importer[w].cur \in 1..Threads
    BY Fields, Numbers DEF InHand
  <1>7. NoneYet'
    <2>1. \A w \in Importers :
            importer'[w].at = "create"
              => opened'[importer'[w].cur] = 0 \/ importer'[w].cur \in overtaken'
      BY <1>2, <1>3, <1>4, <1>6 DEF NoneYet
    <2>2. \A d \in arriving' : opened'[d] = 0 \/ d \in overtaken'
      BY <1>1, <1>2, <1>3, <1>4 DEF NoneYet
    <2> QED
      BY <2>1, <2>2 DEF NoneYet
  <1>8. opened' \in [1..Threads -> Nat]
    BY <1>1 DEF opens
  <1> QED
    BY <1>3, <1>5, <1>7, <1>8

LEMMA CreateStep ==
  ASSUME IInv, NEW w \in Importers, createConversation(w)
  PROVE  IInv'
  <1> USE DEF IInv
  <1> DEFINE c == importer[w].cur
  <1>0. /\ importer[w].at = "create" /\ c \in 1..Threads /\ importer[w].late \in 0..1
        /\ UNCHANGED <<syncStatus, request, syncJob, failures, stalls, doomed, cancels,
                       arriving>>
    BY Fields, Numbers, LateNumber DEF createConversation, retries, convVars, InHand
  <1>1. PICK a \in {"messages", "loop"} :
            /\ steps(w, a)
            /\ opens(c, Importers \ {w}, arriving) \/ UNCHANGED <<opened, overtaken>>
    BY DEF createConversation, convVars
  <1>2. Only(w) /\ Now(w, a, importer[w].sync, c, importer[w].late)
    BY <1>1, Steps DEF Places
  <1>3. importer[w].late = 1 => syncStatus[importer[w].sync] = "CANCELLED"
    BY <1>0 DEF StopsInTime
  <1> HIDE DEF c
  <1>4. CASE UNCHANGED <<opened, overtaken>>
    <2>1. Keeping
      BY <1>0, <1>4 DEF Keeping
    <2> QED
      BY <1>0, <1>2, <1>3, <2>1, Numbers, KeptStep DEF Places
  <1>5. CASE opens(c, Importers \ {w}, arriving)
    <2>1. opened[c] = 0 \/ c \in overtaken
      BY <1>0 DEF NoneYet, c
    <2>2. \A v \in Importers \ (Importers \ {w}) : importer'[v].at # "create"
      BY <1>2 DEF Now
    <2>3. \A v \in Importers \ {w} : importer'[v] = importer[v]
      BY <1>2 DEF Only
    <2>4. /\ opened' \in [1..Threads -> Nat] /\ overtaken' \subseteq 1..Threads
          /\ NoneYet' /\ OneConversationEach'
      BY <1>0, <1>5, <2>1, <2>2, <2>3, OpenStep
    <2>5. Typed'
      BY <1>0, <1>2, <2>4 DEF Typed, Only
    <2>6. InOrder'
      BY <1>0 DEF InOrder
    <2>7. InHand'
      BY <1>0, <1>2 DEF InHand, Only, Now
    <2>8. OneHand'
      BY <1>0, <1>2 DEF OneHand, Only, Now
    <2>9. StopsInTime'
      BY <1>0, <1>2, <1>3 DEF StopsInTime, Only, Now
    <2> QED
      BY <2>4, <2>5, <2>6, <2>7, <2>8, <2>9
  <1> QED
    BY <1>1, <1>4, <1>5

\* The inbound pipeline and the operator.
LEMMA OutsideStep ==
  ASSUME IInv, NEW c \in 1..Threads,
         messageArrives(c) \/ messageOpens(c) \/ closeConversation(c)
  PROVE  IInv'
  <1> USE DEF IInv, retries
  <1>0. UNCHANGED <<syncStatus, request, syncJob, failures, stalls, doomed, importer, cancels>>
    BY DEF messageArrives, messageOpens, closeConversation
  <1>1. arriving' \subseteq 1..Threads
    <2>1. \/ arriving' = arriving \union {c} \/ arriving' = arriving \ {c}
          \/ arriving' = arriving
      BY DEF messageArrives, messageOpens, closeConversation
    <2> QED
      BY <2>1 DEF Typed
  <1>2. /\ opened' \in [1..Threads -> Nat] /\ overtaken' \subseteq 1..Threads
        /\ NoneYet' /\ OneConversationEach'
    <2>1. CASE messageArrives(c)
      BY <1>0, <2>1 DEF messageArrives, NoneYet, OneConversationEach, Typed
    <2>2. CASE messageOpens(c)
      <3>1. opened[c] = 0 \/ c \in overtaken
        BY <2>2 DEF messageOpens, NoneYet
      <3>2. opens(c, Importers, {}) /\ arriving' \subseteq arriving /\ c \notin arriving'
        BY <2>2 DEF messageOpens
      <3> QED
        BY <1>0, <3>1, <3>2, OpenStep
    <2>3. CASE closeConversation(c)
      <3>1. /\ opened \in [1..Threads -> Nat] /\ opened[c] > 0 /\ UNCHANGED arriving
            /\ opened' = [opened EXCEPT ![c] = @ - 1]
            /\ overtaken' = IF opened[c] = 1 THEN overtaken \ {c} ELSE overtaken
            /\ arriving \subseteq 1..Threads /\ overtaken \subseteq 1..Threads
        BY <2>3 DEF closeConversation, Typed
      <3>2. /\ opened' \in [1..Threads -> Nat] /\ opened'[c] = opened[c] - 1
            /\ \A d \in 1..Threads \ {c} : opened'[d] = opened[d]
        BY <3>1
      <3>3. \A d \in 1..Threads :
              opened[d] = 0 \/ d \in overtaken => opened'[d] = 0 \/ d \in overtaken'
        BY <3>1, <3>2
      <3>4. NoneYet'
        <4>1. \A w \in Importers : importer[w].at = "create" => importer[w].cur \in 1..Threads
          BY Fields, Numbers DEF InHand
        <4> QED
          BY <1>0, <3>1, <3>3, <4>1 DEF NoneYet
      <3>5. OneConversationEach'
        BY <3>1, <3>2 DEF OneConversationEach
      <3> QED
        BY <3>1, <3>2, <3>4, <3>5
    <2> QED
      BY <2>1, <2>2, <2>3
  <1> QED
    BY <1>0, <1>1, <1>2 DEF Typed, InHand, InOrder, OneHand, StopsInTime

-----------------------------------------------------------------------------
LEMMA IInvStep == IInv /\ [SyncNext]_syncVars => IInv'
  <1> SUFFICES ASSUME IInv, [SyncNext]_syncVars PROVE IInv'
    OBVIOUS
  <1>1. ASSUME NEW s \in Syncs, startSync(s) \/ createSync(s) \/ addSync(s) \/ readActive(s)
        PROVE  IInv'
    BY <1>1, RequestStep
  <1>2. CASE cancelSync
    BY <1>2, CancelStep
  <1>3. ASSUME NEW w \in Importers, Import(w) \/ importerDies(w) PROVE IInv'
    BY <1>3, TakeStep, RunningStep, ImportStep, CreateStep, CompleteStep, EndStep DEF Import
  <1>4. ASSUME NEW c \in Busy, messageArrives(c) \/ messageOpens(c) \/ closeConversation(c)
        PROVE  IInv'
    BY <1>4, OutsideStep, SyncAssumption DEF SyncAssumption
  <1>5. CASE UNCHANGED syncVars
    BY <1>5 DEF syncVars, retries, convVars, IInv, Typed, InHand, InOrder, OneHand,
       StopsInTime, NoneYet, OneConversationEach
  <1> QED
    BY <1>1, <1>2, <1>3, <1>4, <1>5 DEF SyncNext

\* The invariant holds throughout.
THEOREM SyncInductive == SyncSpec => []IInv
  BY IInvInit, IInvStep, PTL DEF SyncSpec

\* The state of requests, rows, jobs and processors is well typed, for any number of
\* syncs, processors and conversations.
THEOREM SyncTypeCorrect == SyncSpec => []SyncTypeOK
  <1>1. IInv => SyncTypeOK
    BY DEF IInv, Typed, InHand, SyncTypeOK, States, Places, Importing
  <1> QED
    BY <1>1, SyncInductive, PTL

\* After a cancellation an attempt begins at most one more import, the one that had
\* passed isCancelled().
THEOREM SyncStops == SyncSpec => []CancelStopsSync
  <1>1. IInv => CancelStopsSync
    BY DEF IInv, StopsInTime, CancelStopsSync
  <1> QED
    BY <1>1, SyncInductive, PTL

\* A contact has a second open conversation only when one was created between an
\* importer's search and its own creation.
THEOREM OneEachHolds == SyncSpec => []OneConversationEach
  <1>1. IInv => OneConversationEach
    BY DEF IInv
  <1> QED
    BY <1>1, SyncInductive, PTL
=============================================================================
