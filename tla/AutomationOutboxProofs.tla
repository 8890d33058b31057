----------------------- MODULE AutomationOutboxProofs -----------------------
(***************************************************************************)
(* The automation outbox, for any number of events, rules, pollers, faults *)
(* and retries: type correctness, the contact lock, and that the outbox    *)
(* implements EventDelivery.                                               *)
(***************************************************************************)
EXTENDS AutomationOutbox, WellFoundedInduction, TLAPS

\* Whatever a poller or a worker has in hand is a row of the table.
Placed ==
    /\ \A p \in Pollers : \A i \in batch[p] : exists(i)
    /\ \A p \in Pollers : failing[p] # None => exists(failing[p])
    /\ \A i \in Ids : job[i] # "none" => exists(i)

\* Only a failed job has spent its attempts.
Budgeted == \A i \in Ids : job[i] # "failed" => attempts[i] < MaxAttempts

\* A rule is loaded below the cascade cap only, so what it emits stays within it.
Scheduled ==
    /\ \A i \in Ids : todo[i] # {} => exists(i) /\ row[i].depth < MaxDepth
    /\ \A i \in Ids : wpc[i] \in {"run", "close"} => todo[i] # {}

TInv == TypeOK /\ Placed /\ Budgeted /\ Scheduled

-----------------------------------------------------------------------------
\* The first element of a set of ids or rules is one of its elements.
LEMMA NextIn ==
    ASSUME NEW S \in SUBSET Nat, S # {}
    PROVE  next(S) \in S
  <1>1. PICK x \in S : \A y \in S : <<y, x>> \notin OpToRel(<, Nat)
    BY NatLessThanWellFounded, WFMin, Zenon
  <1>2. \A y \in S : x <= y
    <2> TAKE y \in S
    <2>1. ~(y < x)
      BY <1>1 DEF OpToRel
    <2> QED
      BY <2>1
  <1> QED
    BY <1>2 DEF next

\* enqueue adds at most one row, in a place that was free.
LEMMA EnqueueAdds ==
    ASSUME TypeOK, NEW t, NEW c, NEW d
    PROVE  \/ enqueue(row, t, c, d) = row
           \/ /\ t # None
              /\ \E k \in Ids : /\ ~exists(k)
                                /\ enqueue(row, t, c, d) = [row EXCEPT ![k] = newRow(t, c, d)]
  <1>1. ASSUME NEW k \in Ids, NEW l \in Ids, isFresh(k), isFresh(l) PROVE k = l
    <2>1. k <= l /\ l <= k
      BY <1>1 DEF isFresh
    <2>2. k \in Nat /\ l \in Nat
      BY OutboxAssumption
    <2> QED
      BY <2>1, <2>2
  <1> USE DEF TypeOK
  <1>2. CASE t = None \/ isDuplicate(t, c) \/ \A k \in Ids : exists(k)
    BY <1>2 DEF enqueue
  <1>3. CASE ~(t = None \/ isDuplicate(t, c) \/ \A k \in Ids : exists(k))
    <2>1. enqueue(row, t, c, d) = [k \in Ids |-> IF isFresh(k) THEN newRow(t, c, d) ELSE row[k]]
      BY <1>3 DEF enqueue
    <2>2. CASE \E k \in Ids : isFresh(k)
      <3>1. PICK k \in Ids : isFresh(k)
        BY <2>2
      <3>2. \A l \in Ids : isFresh(l) <=> l = k
        BY <3>1, <1>1
      <3>3. ~exists(k)
        BY <3>1 DEF isFresh
      <3> HIDE DEF newRow, isFresh, exists
      <3>4. enqueue(row, t, c, d) = [row EXCEPT ![k] = newRow(t, c, d)]
        BY <2>1, <3>2
      <3> QED
        BY <3>3, <3>4, <1>3
    <2>3. CASE ~\E k \in Ids : isFresh(k)
      BY <2>1, <2>3
    <2> QED
      BY <2>2, <2>3
  <1> QED
    BY <1>2, <1>3

\* A new row has the type of a row.
LEMMA NewRowType ==
    ASSUME NEW t \in Triggers, NEW c \in Contacts, NEW d \in 0..MaxDepth
    PROVE  /\ newRow(t, c, d) \in Rows
           /\ newRow(t, c, d).status = "PENDING"
           /\ newRow(t, c, d).loaded = Rules
  BY DEF newRow, Rows

\* A row that exists has the type of a row.
LEMMA RowType ==
    TypeOK => /\ row \in [Ids -> Rows \union {Absent}]
              /\ \A i \in Ids : row[i].status # "absent" => row[i] \in Rows
  BY DEF TypeOK, Rows, Absent

\* The initial states have the invariant.
LEMMA InitTInv == Init => TInv
  BY OutboxAssumption
     DEF Init, TInv, TypeOK, Placed, Budgeted, Scheduled, exists, Rows, Absent, Live

-----------------------------------------------------------------------------
\* The table after a step that may add a row: typed, and what was there stays.
Kept == \A i \in Ids : exists(i) => row'[i] = row[i]

LEMMA EnqueueKeeps ==
    ASSUME TypeOK, NEW t \in Triggers \union {None}, NEW c \in Contacts,
           NEW d \in 0..MaxDepth, row' = enqueue(row, t, c, d)
    PROVE  row' \in [Ids -> Rows \union {Absent}] /\ Kept
  <1>1. row \in [Ids -> Rows \union {Absent}]
    BY RowType
  <1>2. CASE row' = row
    BY <1>1, <1>2 DEF Kept
  <1>3. ASSUME t # None, NEW k \in Ids, ~exists(k), row' = [row EXCEPT ![k] = newRow(t, c, d)]
        PROVE  row' \in [Ids -> Rows \union {Absent}] /\ Kept
    <2>1. newRow(t, c, d) \in Rows
      BY <1>3, NewRowType
    <2> HIDE DEF newRow
    <2>2. row' \in [Ids -> Rows \union {Absent}]
      BY <1>1, <1>3, <2>1
    <2>3. Kept
      BY <1>1, <1>3 DEF Kept, exists
    <2> QED
      BY <2>2, <2>3
  <1>4. row' = row \/ (t # None /\ \E k \in Ids : ~exists(k) /\ row' = [row EXCEPT ![k] = newRow(t, c, d)])
    <2>1. \/ enqueue(row, t, c, d) = row
          \/ /\ t # None
             /\ \E k \in Ids : ~exists(k) /\ enqueue(row, t, c, d) = [row EXCEPT ![k] = newRow(t, c, d)]
      BY EnqueueAdds
    <2> QED
      BY <2>1
  <1> QED
    BY <1>2, <1>3, <1>4, Zenon

\* Nothing in hand is disturbed by a step that only adds a row.
LEMMA KeptInvariants ==
    ASSUME TInv, row' \in [Ids -> Rows \union {Absent}], Kept,
           UNCHANGED <<batch, failing, job, attempts, todo>>,
           wpc' = wpc \/ \E i \in Ids : todo[i] # {} /\ wpc' = [wpc EXCEPT ![i] = "close"]
    PROVE  Placed' /\ Budgeted' /\ Scheduled'
  <1>1. \A i \in Ids : row[i].status # "absent" => row'[i] = row[i]
    BY DEF Kept, exists
  <1>2. Placed'
    BY <1>1 DEF TInv, TypeOK, Placed, exists
  <1>3. Budgeted'
    BY DEF TInv, Budgeted
  <1>4. Scheduled'
    BY <1>1 DEF TInv, TypeOK, Scheduled, exists
  <1> QED
    BY <1>2, <1>3, <1>4

\* Steps of the transactions that enqueue and of the pollers.
LEMMA PollTInv ==
    ASSUME TInv,
           \/ \E t \in Triggers, c \in Contacts : Commit(t, c)
           \/ \E p \in Pollers : Poll(p) \/ pushThrows(p)
    PROVE  TInv'
  <1> USE DEF workVars, envVars, histVars
  <1>1. ASSUME NEW t \in Triggers, NEW c \in Contacts, Commit(t, c) PROVE TInv'
    <2>1. row' \in [Ids -> Rows \union {Absent}] /\ Kept
      BY <1>1, EnqueueKeeps, OutboxAssumption DEF Commit, TInv
    <2>2. Placed' /\ Budgeted' /\ Scheduled'
      BY <1>1, <2>1, KeptInvariants DEF Commit
    <2> QED
      BY <1>1, <2>1, <2>2 DEF Commit, TInv, TypeOK
  <1>2. ASSUME NEW p \in Pollers, claimBatch(p) PROVE TInv'
    <2>1. \A i \in Ids : i \in candidates => row[i].status # "absent"
      BY DEF candidates
    <2>2. \A i \in candidates : i \in Ids /\ row[i] \in Rows
      BY <2>1, RowType DEF candidates, TInv
    <2>3. \A i \in Ids :
             /\ i \in candidates => row'[i] = [row[i] EXCEPT !.status = "PROCESSING",
                                                !.leasedBy = p, !.expired = FALSE]
             /\ i \notin candidates => row'[i] = row[i]
      BY <1>2 DEF claimBatch
    <2>4. \A i \in candidates :
             row'[i] \in Rows /\ row'[i].status = "PROCESSING" /\ row'[i].depth = row[i].depth
      <3> TAKE i \in candidates
      <3>1. i \in Ids /\ row[i] \in Rows
        BY <2>2
      <3>2. row'[i] = [row[i] EXCEPT !.status = "PROCESSING", !.leasedBy = p, !.expired = FALSE]
        BY <2>3, <3>1
      <3> QED
        BY <3>1, <3>2 DEF Rows
    <2>5. row' \in [Ids -> Rows \union {Absent}]
      BY <1>2, <2>3, <2>4, RowType DEF claimBatch, TInv
    <2>6. \A i \in Ids : /\ row[i].status # "absent" <=> row'[i].status # "absent"
                         /\ row'[i].depth = row[i].depth
      BY <2>1, <2>3, <2>4
    <2>7. TypeOK'
      BY <1>2, <2>2, <2>5 DEF claimBatch, TInv, TypeOK
    <2>8. Placed'
      <3>1. \A q \in Pollers : batch'[q] = IF q = p THEN candidates ELSE batch[q]
        BY <1>2 DEF claimBatch, TInv, TypeOK
      <3>2. \A q \in Pollers : batch[q] \subseteq Ids /\ failing[q] \in Ids \union {None}
        BY DEF TInv, TypeOK
      <3>3. UNCHANGED <<failing, job>>
        BY <1>2 DEF claimBatch
      <3> QED
        BY <2>1, <2>2, <2>6, <3>1, <3>2, <3>3 DEF TInv, Placed, exists
    <2>9. Budgeted' /\ Scheduled'
      BY <1>2, <2>6 DEF claimBatch, TInv, Budgeted, Scheduled, exists
    <2> QED
      BY <2>7, <2>8, <2>9 DEF TInv
  <1>3. ASSUME NEW p \in Pollers, push(p) \/ pushThrows(p) PROVE TInv'
    <2>1. PICK i \in batch[p] :
            /\ job' = job \/ (job[i] = "none" /\ job' = [job EXCEPT ![i] = "waiting"])
            /\ batch' = [batch EXCEPT ![p] = @ \ {i}]
            /\ failing' = failing \/ failing' = [failing EXCEPT ![p] = i]
      BY <1>3 DEF push, pushThrows
    <2>2. i \in Ids
      BY <1>3, <2>1 DEF TInv, TypeOK
    <2>3. exists(i) /\ row' = row /\ i # None
      BY <1>3, <2>1, <2>2, OutboxAssumption DEF TInv, Placed, push, pushThrows
    <2>4. /\ job' = job \/ (job[i] = "none" /\ job' = [job EXCEPT ![i] = "waiting"])
          /\ batch' = [batch EXCEPT ![p] = @ \ {i}]
          /\ failing' = failing \/ failing' = [failing EXCEPT ![p] = i]
          /\ faults' \in 0..MaxFaults
          /\ UNCHANGED <<row, attempts, wpc, todo, locks, enabled, orgOn, switches, ran, skipped>>
      BY <1>3, <2>1, OutboxAssumption DEF push, pushThrows, TInv, TypeOK
    <2>5. TypeOK'
      <3>1. job' \in [Ids -> Live \union {"none", "completed", "failed"}]
        BY <2>2, <2>4 DEF TInv, TypeOK, Live
      <3>2. \A k \in Ids : wpc[k] # "idle" => job'[k] = "active"
        BY <2>2, <2>4 DEF TInv, TypeOK
      <3>3. batch' \in [Pollers -> SUBSET Ids] /\ failing' \in [Pollers -> Ids \union {None}]
        BY <2>2, <2>4 DEF TInv, TypeOK
      <3> QED
        BY <2>4, <3>1, <3>2, <3>3 DEF TInv, TypeOK
    <2>6. Placed'
      BY <2>2, <2>3, <2>4 DEF TInv, TypeOK, Placed, exists
    <2>7. Budgeted' /\ Scheduled'
      BY <2>2, <2>4 DEF TInv, TypeOK, Budgeted, Scheduled, exists
    <2> QED
      BY <2>5, <2>6, <2>7 DEF TInv
  <1>4. ASSUME NEW p \in Pollers, releaseLease(p) PROVE TInv'
    <2> DEFINE i == failing[p]
    <2>1. i \in Ids /\ exists(i) /\ row[i] \in Rows
      BY <1>4, RowType DEF releaseLease, TInv, TypeOK, Placed, exists
    <2>2. \/ row' = row
          \/ row' = [row EXCEPT ![i].status = "PENDING", ![i].leasedBy = None, ![i].expired = FALSE]
      BY <1>4 DEF releaseLease
    <2> HIDE DEF i
    <2>3. row' \in [Ids -> Rows \union {Absent}]
      BY <2>1, <2>2, RowType DEF TInv, Rows
    <2>4. \A k \in Ids : /\ row[k].status # "absent" <=> row'[k].status # "absent"
                         /\ row'[k].depth = row[k].depth
      BY <2>1, <2>2, RowType DEF TInv, exists, Rows
    <2>5. TypeOK'
      BY <1>4, <2>3 DEF releaseLease, TInv, TypeOK
    <2>6. Placed'
      BY <1>4, <2>4 DEF releaseLease, TInv, TypeOK, Placed, exists
    <2>7. Budgeted' /\ Scheduled'
      BY <1>4, <2>4 DEF releaseLease, TInv, Budgeted, Scheduled, exists
    <2> QED
      BY <2>5, <2>6, <2>7 DEF TInv
  <1> QED
    BY <1>1, <1>2, <1>3, <1>4 DEF Poll

\* A worker's job is active, and its row is one of the table.
LEMMA AtWork ==
    ASSUME TInv, NEW i \in Ids, wpc[i] # "idle" \/ job[i] = "waiting"
    PROVE  /\ job[i] \in Live
           /\ row[i] \in Rows /\ row[i].status # "absent"
           /\ attempts[i] + 1 \in 0..MaxAttempts
           /\ attempts[i] + 1 < MaxAttempts \/ attempts[i] + 1 = MaxAttempts
           /\ todo[i] \in SUBSET Nat /\ todo[i] \subseteq Rules
  <1>1. job[i] \in Live
    BY DEF TInv, TypeOK, Live
  <1>2. row[i].status # "absent"
    BY <1>1 DEF TInv, Placed, exists, Live
  <1>3. row[i] \in Rows
    BY <1>2, RowType DEF TInv
  <1>4. attempts[i] < MaxAttempts /\ attempts[i] \in 0..MaxAttempts
    BY <1>1 DEF TInv, TypeOK, Budgeted, Live
  <1>5. todo[i] \in SUBSET Nat /\ todo[i] \subseteq Rules
    BY OutboxAssumption DEF TInv, TypeOK
  <1> QED
    BY <1>1, <1>2, <1>3, <1>4, <1>5, OutboxAssumption

\* A rewrite of a row that exists keeps the table typed and what it holds.
LEMMA RewriteRow ==
    ASSUME TInv, NEW i \in Ids, NEW v \in Rows, row[i].status # "absent",
           v.depth = row[i].depth, row' = [row EXCEPT ![i] = v]
    PROVE  /\ row' \in [Ids -> Rows \union {Absent}]
           /\ \A k \in Ids : /\ row[k].status # "absent" => row'[k].status # "absent"
                             /\ row'[k].depth = row[k].depth
  BY RowType DEF TInv, Rows

\* An attempt that ends in an error.
LEMMA RethrowTInv ==
    ASSUME TInv, NEW i \in Ids, wpc[i] # "idle", Rethrow(i),
           UNCHANGED <<row, batch, failing, ran, skipped, enabled, orgOn, switches>>,
           faults' \in 0..MaxFaults
    PROVE  TInv'
  <1>1. attempts' \in [Ids -> 0..MaxAttempts]
    BY AtWork DEF Rethrow, TInv, TypeOK
  <1>2. job' \in [Ids -> Live \union {"none", "completed", "failed"}]
    BY DEF Rethrow, TInv, TypeOK, Live
  <1>3. wpc' = [wpc EXCEPT ![i] = "idle"] /\ todo' = [todo EXCEPT ![i] = {}]
    BY DEF Rethrow, Goto
  <1>4. locks' \in [Contacts -> Ids \union {None}]
    BY DEF Rethrow, Unlock, TInv, TypeOK
  <1>5. \A k \in Ids : wpc'[k] # "idle" => job'[k] = "active"
    BY <1>3 DEF Rethrow, TInv, TypeOK
  <1>6. TypeOK'
    BY <1>1, <1>2, <1>3, <1>4, <1>5 DEF TInv, TypeOK
  <1>7. Placed'
    <2>1. \A k \in Ids : job'[k] # "none" => job[k] # "none"
      BY AtWork DEF Rethrow, TInv, TypeOK, Live
    <2> QED
      BY <2>1 DEF TInv, Placed, exists
  <1>8. Budgeted'
    BY AtWork DEF Rethrow, TInv, TypeOK, Budgeted
  <1>9. Scheduled'
    BY <1>3 DEF TInv, TypeOK, Scheduled, exists
  <1> QED
    BY <1>6, <1>7, <1>8, <1>9 DEF TInv

\* A rule that pauses leaves the set of enabled rules.
LEMMA PauseType ==
    ASSUME TInv, NEW r, MayPause(r)
    PROVE  enabled' \subseteq Rules /\ switches' \in 0..MaxSwitches
  <1>1. enabled \subseteq Rules /\ switches \in 0..MaxSwitches
    BY DEF TInv, TypeOK
  <1>2. enabled' \subseteq enabled
    BY DEF MayPause
  <1>3. switches' = switches \/ (switches < MaxSwitches /\ switches' = switches + 1)
    BY DEF MayPause
  <1> QED
    BY <1>1, <1>2, <1>3, OutboxAssumption

\* Steps of a worker.
LEMMA WorkTInv ==
    ASSUME TInv, NEW i \in Ids, Work(i) \/ skip(i) \/ jobThrows(i)
    PROVE  TInv'
  <1> USE DEF workVars, envVars, histVars
  <1>1. CASE process(i)
    <2> DEFINE v == [row[i] EXCEPT !.loaded = matching(i)]
    <2>1. row[i] \in Rows /\ row[i].status # "absent" /\ matching(i) \subseteq Rules
      BY <1>1, AtWork DEF process, matching, TInv, TypeOK
    <2>2. v \in Rows /\ v.depth = row[i].depth
      BY <2>1 DEF Rows
    <2>3. row' = [row EXCEPT ![i] = v]
      BY <1>1 DEF process
    <2> HIDE DEF v
    <2>4. /\ row' \in [Ids -> Rows \union {Absent}]
          /\ \A k \in Ids : /\ row[k].status # "absent" => row'[k].status # "absent"
                            /\ row'[k].depth = row[k].depth
      BY <2>1, <2>2, <2>3, RewriteRow
    <2>5. TypeOK'
      BY <1>1, <2>1, <2>4 DEF process, Goto, TInv, TypeOK, Live
    <2>6. Placed' /\ Budgeted'
      BY <1>1, <2>4 DEF process, TInv, TypeOK, Placed, Budgeted, exists
    <2>7. matching(i) # {} => row[i].depth < MaxDepth
      BY <2>1, OutboxAssumption DEF matching, Rows
    <2>8. Scheduled'
      BY <1>1, <2>1, <2>4, <2>7 DEF process, Goto, TInv, TypeOK, Scheduled, exists
    <2> QED
      BY <2>5, <2>6, <2>8 DEF TInv
  <1>2. CASE skip(i)
    <2>1. wpc[i] = "rule" /\ next(todo[i]) \in Rules
      BY <1>2, AtWork, NextIn DEF skip
    <2>2. enabled' \subseteq Rules /\ switches' \in 0..MaxSwitches
      BY <1>2, PauseType DEF skip
    <2>3. /\ skipped' = [skipped EXCEPT ![i] = @ \union {next(todo[i])}]
          /\ todo' = [todo EXCEPT ![i] = @ \ {next(todo[i])}]
          /\ UNCHANGED <<row, batch, failing, job, attempts, wpc, locks, orgOn, faults, ran>>
      BY <1>2 DEF skip
    <2>4. TypeOK'
      BY <2>1, <2>2, <2>3 DEF TInv, TypeOK
    <2>5. Placed' /\ Budgeted' /\ Scheduled'
      BY <2>1, <2>3 DEF TInv, TypeOK, Placed, Budgeted, Scheduled, exists
    <2> QED
      BY <2>4, <2>5 DEF TInv
  <1>3. CASE acquireContactLock(i)
    <2>1. contact(i) \in Contacts
      BY <1>3, AtWork DEF acquireContactLock, contact, Rows
    <2>2. TypeOK'
      BY <1>3, <2>1 DEF acquireContactLock, Goto, TInv, TypeOK
    <2>3. Placed' /\ Budgeted' /\ Scheduled'
      BY <1>3 DEF acquireContactLock, Goto, TInv, TypeOK, Placed, Budgeted, Scheduled, exists
    <2> QED
      BY <2>2, <2>3 DEF TInv
  <1>4. CASE contended(i)
    BY <1>4, RethrowTInv DEF contended, TInv, TypeOK
  <1>5. CASE runActions(i)
    <2> DEFINE r == next(todo[i])
    <2>1. wpc[i] = "run" /\ todo[i] # {} /\ row[i] \in Rows /\ row[i].depth < MaxDepth
      BY <1>5, AtWork DEF runActions, TInv, Scheduled
    <2>2. r \in Rules
      BY <2>1, AtWork, NextIn
    <2>3. contact(i) \in Contacts /\ row[i].depth + 1 \in 0..MaxDepth
      BY <2>1, OutboxAssumption DEF contact, Rows
    <2>4. Emits[r] \in Triggers \union {None}
      BY <2>2, OutboxAssumption
    <2>5. row' = enqueue(row, Emits[r], contact(i), row[i].depth + 1)
      BY <1>5 DEF runActions
    <2>6. row' \in [Ids -> Rows \union {Absent}] /\ Kept
      BY <2>3, <2>4, <2>5, EnqueueKeeps DEF TInv
    <2>7. /\ ran' = [ran EXCEPT ![i] = [ran[i] EXCEPT ![r] = IF @ < 2 THEN @ + 1 ELSE @]]
          /\ wpc' = [wpc EXCEPT ![i] = "close"]
          /\ UNCHANGED <<batch, failing, job, attempts, todo, locks, enabled, orgOn,
                         faults, switches, skipped>>
      BY <1>5 DEF runActions, Goto, TInv, TypeOK
    <2> HIDE DEF r
    <2>8. ran' \in [Ids -> [Rules -> 0..2]]
      <3>1. [ran[i] EXCEPT ![r] = IF @ < 2 THEN @ + 1 ELSE @] \in [Rules -> 0..2]
        BY <2>2 DEF TInv, TypeOK
      <3> QED
        BY <2>7, <3>1 DEF TInv, TypeOK
    <2>9. TypeOK'
      BY <2>1, <2>6, <2>7, <2>8 DEF TInv, TypeOK
    <2>10. Placed' /\ Budgeted' /\ Scheduled'
      <3>1. \E k \in Ids : todo[k] # {} /\ wpc' = [wpc EXCEPT ![k] = "close"]
        BY <2>1, <2>7
      <3>2. UNCHANGED <<batch, failing, job, attempts, todo>>
        BY <2>7
      <3> QED
        BY <2>6, <3>1, <3>2, KeptInvariants
    <2> QED
      BY <2>9, <2>10 DEF TInv
  <1>6. CASE updateCounters(i)
    <2>1. wpc[i] = "close" /\ next(todo[i]) \in Rules
      BY <1>6, AtWork, NextIn DEF updateCounters, TInv, Scheduled
    <2>2. enabled' \subseteq Rules /\ switches' \in 0..MaxSwitches
      BY <1>6, PauseType DEF updateCounters
    <2>3. /\ todo' = [todo EXCEPT ![i] = @ \ {next(todo[i])}]
          /\ wpc' = [wpc EXCEPT ![i] = "rule"]
          /\ UNCHANGED <<row, batch, failing, job, attempts, orgOn, faults, ran, skipped>>
      BY <1>6 DEF updateCounters, Goto
    <2>4. locks' \in [Contacts -> Ids \union {None}]
      BY <1>6 DEF updateCounters, Unlock, TInv, TypeOK
    <2>5. TypeOK'
      BY <2>1, <2>2, <2>3, <2>4 DEF TInv, TypeOK
    <2>6. Placed' /\ Budgeted' /\ Scheduled'
      BY <2>1, <2>3 DEF TInv, TypeOK, Placed, Budgeted, Scheduled, exists
    <2> QED
      BY <2>5, <2>6 DEF TInv
  <1>7. CASE markProcessed(i)
    <2> DEFINE v == [row[i] EXCEPT !.status = "PROCESSED"]
    <2>1. row[i] \in Rows /\ row[i].status # "absent"
      BY <1>7, AtWork DEF markProcessed
    <2>2. v \in Rows /\ v.depth = row[i].depth
      BY <2>1 DEF Rows
    <2>3. row' = [row EXCEPT ![i] = v]
      BY <1>7 DEF markProcessed
    <2> HIDE DEF v
    <2>4. /\ row' \in [Ids -> Rows \union {Absent}]
          /\ \A k \in Ids : /\ row[k].status # "absent" => row'[k].status # "absent"
                            /\ row'[k].depth = row[k].depth
      BY <2>1, <2>2, <2>3, RewriteRow
    <2>5. TypeOK'
      BY <1>7, <2>4 DEF markProcessed, Goto, TInv, TypeOK
    <2>6. Placed' /\ Budgeted' /\ Scheduled'
      BY <1>7, <2>4 DEF markProcessed, Goto, TInv, TypeOK, Placed, Budgeted, Scheduled, exists
    <2> QED
      BY <2>5, <2>6 DEF TInv
  <1>8. CASE complete(i)
    <2>1. job[i] = "active" /\ row[i].status # "absent"
      BY <1>8, AtWork DEF complete, TInv, TypeOK
    <2>2. TypeOK'
      BY <1>8 DEF complete, Goto, TInv, TypeOK
    <2>3. Placed' /\ Budgeted' /\ Scheduled'
      BY <1>8, <2>1 DEF complete, Goto, TInv, TypeOK, Placed, Budgeted, Scheduled, exists
    <2> QED
      BY <2>2, <2>3 DEF TInv
  <1>9. CASE jobThrows(i)
    <2>1. faults' \in 0..MaxFaults
      BY <1>9, OutboxAssumption DEF jobThrows, TInv, TypeOK
    <2> QED
      BY <1>9, <2>1, RethrowTInv DEF jobThrows
  <1> QED
    BY <1>1, <1>2, <1>3, <1>4, <1>5, <1>6, <1>7, <1>8, <1>9 DEF Work

\* Time, retention, crashes and the owner.
LEMMA EnvironmentTInv ==
    ASSUME TInv,
           \/ \E i \in Ids : LeaseExpires(i) \/ Evict(i)
           \/ \E c \in Contacts : LockLapses(c)
           \/ Crash \/ Toggle
    PROVE  TInv'
  <1> USE DEF workVars, envVars, histVars
  <1>1. ASSUME NEW i \in Ids, LeaseExpires(i) PROVE TInv'
    <2> DEFINE v == [row[i] EXCEPT !.expired = TRUE]
    <2>1. row[i] \in Rows /\ row[i].status # "absent"
      BY <1>1, RowType DEF LeaseExpires, TInv
    <2>2. v \in Rows /\ v.depth = row[i].depth
      BY <2>1 DEF Rows
    <2>3. row' = [row EXCEPT ![i] = v]
      BY <1>1 DEF LeaseExpires
    <2> HIDE DEF v
    <2>4. /\ row' \in [Ids -> Rows \union {Absent}]
          /\ \A k \in Ids : /\ row[k].status # "absent" => row'[k].status # "absent"
                            /\ row'[k].depth = row[k].depth
      BY <2>1, <2>2, <2>3, RewriteRow
    <2>5. TypeOK'
      BY <1>1, <2>4 DEF LeaseExpires, TInv, TypeOK
    <2>6. Placed' /\ Budgeted' /\ Scheduled'
      BY <1>1, <2>4 DEF LeaseExpires, TInv, TypeOK, Placed, Budgeted, Scheduled, exists
    <2> QED
      BY <2>5, <2>6 DEF TInv
  <1>2. ASSUME NEW i \in Ids, Evict(i) PROVE TInv'
    <2>1. wpc[i] = "idle"
      BY <1>2 DEF Evict, TInv, TypeOK
    <2>2. TypeOK'
      BY <1>2, <2>1, OutboxAssumption DEF Evict, TInv, TypeOK
    <2>3. Placed' /\ Budgeted' /\ Scheduled'
      BY <1>2, OutboxAssumption DEF Evict, TInv, TypeOK, Placed, Budgeted, Scheduled, exists
    <2> QED
      BY <2>2, <2>3 DEF TInv
  <1>3. ASSUME NEW c \in Contacts, LockLapses(c) PROVE TInv'
    BY <1>3 DEF LockLapses, TInv, TypeOK, Placed, Budgeted, Scheduled, exists
  <1>4. CASE Crash
    <2>1. TypeOK'
      BY <1>4, OutboxAssumption DEF Crash, TInv, TypeOK, Live
    <2>2. Placed' /\ Budgeted' /\ Scheduled'
      BY <1>4 DEF Crash, TInv, TypeOK, Placed, Budgeted, Scheduled, exists
    <2> QED
      BY <2>1, <2>2 DEF TInv
  <1>5. CASE Toggle
    <2>1. TypeOK'
      BY <1>5, OutboxAssumption DEF Toggle, TInv, TypeOK
    <2>2. Placed' /\ Budgeted' /\ Scheduled'
      BY <1>5 DEF Toggle, TInv, TypeOK, Placed, Budgeted, Scheduled, exists
    <2> QED
      BY <2>1, <2>2 DEF TInv
  <1> QED
    BY <1>1, <1>2, <1>3, <1>4, <1>5

LEMMA NextTInv == TInv /\ [Next]_vars => TInv'
  <1> SUFFICES ASSUME TInv, [Next]_vars PROVE TInv'
    OBVIOUS
  <1>1. CASE UNCHANGED vars
    BY <1>1 DEF vars, workVars, envVars, histVars, TInv, TypeOK, Placed, Budgeted, Scheduled, exists
  <1>2. CASE Next
    BY <1>2, PollTInv, WorkTInv, EnvironmentTInv DEF Next
  <1> QED
    BY <1>1, <1>2

\* Rows, batches, jobs, attempts and the rule loop stay well typed: attempts
\* never pass their limit, nor a cascade its depth.
THEOREM TypeCorrect == Spec => []TypeOK
  <1>1. TInv => TypeOK
    BY DEF TInv
  <1> QED
    BY InitTInv, NextTInv, <1>1, PTL DEF Spec

-----------------------------------------------------------------------------
\* What a row says of its event and contact never changes; the rules loaded
\* for it change when its job starts, and then only for that row.
LEMMA RowsKept ==
    ASSUME TInv, [Next]_vars
    PROVE  \A i \in Ids : row[i].status # "absent" =>
              /\ row'[i].contact = row[i].contact /\ row'[i].status # "absent"
              /\ process(i) \/ row'[i].loaded = row[i].loaded
  <1> USE DEF workVars, envVars, histVars
  <1>1. ASSUME NEW t \in Triggers, NEW c \in Contacts, Commit(t, c)
        PROVE  \A i \in Ids : row[i].status # "absent" => row'[i] = row[i]
    BY <1>1, EnqueueKeeps, OutboxAssumption DEF Commit, TInv, Kept, exists
  <1>2. ASSUME NEW p \in Pollers, Poll(p) \/ pushThrows(p)
        PROVE  \A i \in Ids : row[i].status # "absent" =>
                 /\ row'[i].contact = row[i].contact /\ row'[i].status # "absent"
                 /\ row'[i].loaded = row[i].loaded
    <2>1. ASSUME NEW i \in Ids, row[i].status # "absent", claimBatch(p)
          PROVE  /\ row'[i].contact = row[i].contact /\ row'[i].status # "absent"
                 /\ row'[i].loaded = row[i].loaded
      <3>1. row[i] \in Rows
        BY <2>1, RowType DEF TInv
      <3> QED
        BY <2>1, <3>1 DEF claimBatch, Rows
    <2>2. CASE push(p) \/ pushThrows(p)
      BY <2>2 DEF push, pushThrows
    <2>3. ASSUME NEW i \in Ids, row[i].status # "absent", releaseLease(p)
          PROVE  /\ row'[i].contact = row[i].contact /\ row'[i].status # "absent"
                 /\ row'[i].loaded = row[i].loaded
      <3>1. row[i] \in Rows
        BY <2>3, RowType DEF TInv
      <3> QED
        BY <2>3, <3>1, RowType DEF releaseLease, Rows, TInv
    <2> QED
      BY <1>2, <2>1, <2>2, <2>3 DEF Poll
  <1>3. ASSUME NEW k \in Ids, Work(k) \/ skip(k) \/ jobThrows(k)
        PROVE  \A i \in Ids : row[i].status # "absent" =>
                 /\ row'[i].contact = row[i].contact /\ row'[i].status # "absent"
                 /\ process(i) \/ row'[i].loaded = row[i].loaded
    <2>1. ASSUME NEW i \in Ids, row[i].status # "absent", process(k) \/ markProcessed(k)
          PROVE  /\ row'[i].contact = row[i].contact /\ row'[i].status # "absent"
                 /\ process(i) \/ row'[i].loaded = row[i].loaded
      <3>1. row[i] \in Rows
        BY <2>1, RowType DEF TInv
      <3>2. CASE k = i
        BY <2>1, <3>1, <3>2, RowType DEF process, markProcessed, Rows, TInv
      <3>3. CASE k # i
        BY <2>1, <3>3, RowType DEF process, markProcessed, TInv
      <3> QED
        BY <3>2, <3>3
    <2>2. CASE runActions(k)
      <3> DEFINE r == next(todo[k])
      <3>1. wpc[k] = "run" /\ row[k] \in Rows /\ row[k].depth < MaxDepth /\ todo[k] # {}
        BY <2>2, AtWork DEF runActions, TInv, Scheduled
      <3>2. r \in Rules /\ contact(k) \in Contacts /\ row[k].depth + 1 \in 0..MaxDepth
        BY <3>1, AtWork, NextIn, OutboxAssumption DEF contact, Rows
      <3>3. Emits[r] \in Triggers \union {None}
        BY <3>2, OutboxAssumption
      <3>4. Kept
        BY <2>2, <3>2, <3>3, EnqueueKeeps DEF runActions, TInv
      <3> QED
        BY <3>4 DEF Kept, exists
    <2>3. CASE skip(k) \/ acquireContactLock(k) \/ contended(k) \/ updateCounters(k)
               \/ complete(k) \/ jobThrows(k)
      BY <2>3 DEF skip, acquireContactLock, contended, updateCounters, complete, jobThrows
    <2> QED
      BY <1>3, <2>1, <2>2, <2>3 DEF Work
  <1>4. ASSUME NEW k \in Ids, LeaseExpires(k)
        PROVE  \A i \in Ids : row[i].status # "absent" =>
                 /\ row'[i].contact = row[i].contact /\ row'[i].status # "absent"
                 /\ row'[i].loaded = row[i].loaded
    BY <1>4, RowType DEF LeaseExpires, Rows, TInv
  <1>5. CASE (\E k \in Ids : Evict(k)) \/ (\E c \in Contacts : LockLapses(c))
             \/ Crash \/ Toggle \/ UNCHANGED vars
    BY <1>5 DEF Evict, LockLapses, Crash, Toggle, vars
  <1> QED
    BY <1>1, <1>2, <1>3, <1>4, <1>5 DEF Next

-----------------------------------------------------------------------------
\* A worker inside the section holds its contact's lock.  Without
\* ~LockMayLapse the lock can go while the worker stays.
Inside == {"run", "close"}
Locked == \A i \in Ids : wpc[i] \in Inside => locks[row[i].contact] = i

LEMMA LockedStep ==
    ASSUME ~LockMayLapse, TInv, Locked, [Next]_vars
    PROVE  Locked'
  <1> USE DEF workVars, envVars, histVars
  <1>1. \A i \in Ids : wpc[i] \in Inside =>
           row'[i].contact = row[i].contact /\ row[i].contact \in Contacts
    <2> SUFFICES ASSUME NEW i \in Ids, wpc[i] \in Inside
                 PROVE  row'[i].contact = row[i].contact /\ row[i].contact \in Contacts
      OBVIOUS
    <2>1. row[i] \in Rows /\ row[i].status # "absent"
      BY AtWork DEF Inside
    <2> QED
      BY <2>1, RowsKept DEF Rows
  <1>2. CASE wpc' = wpc /\ locks' = locks
    BY <1>1, <1>2 DEF Locked
  <1>3. ASSUME NEW k \in Ids, process(k) \/ markProcessed(k) \/ complete(k)
        PROVE  Locked'
    BY <1>1, <1>3 DEF process, markProcessed, complete, Goto, Locked, Inside, TInv, TypeOK
  <1>4. ASSUME NEW k \in Ids, acquireContactLock(k) PROVE Locked'
    <2>1. row[k] \in Rows /\ row'[k] = row[k]
      BY <1>4, AtWork DEF acquireContactLock
    <2>2. \A i \in Ids : i # None
      BY OutboxAssumption
    <2> QED
      BY <1>1, <1>4, <2>1, <2>2
         DEF acquireContactLock, contact, Goto, Locked, Inside, TInv, TypeOK, Rows
  <1>5. ASSUME NEW k \in Ids, runActions(k) PROVE Locked'
    BY <1>1, <1>5 DEF runActions, Goto, Locked, Inside, TInv, TypeOK
  <1>6. ASSUME NEW k \in Ids, contended(k) \/ updateCounters(k) \/ jobThrows(k)
        PROVE  Locked'
    <2>1. /\ locks' = [c \in Contacts |-> IF locks[c] = k THEN None ELSE locks[c]]
          /\ \/ wpc' = [wpc EXCEPT ![k] = "rule"]
             \/ wpc' = [wpc EXCEPT ![k] = "idle"]
      BY <1>6 DEF contended, updateCounters, jobThrows, Rethrow, Unlock, Goto
    <2> QED
      <3> SUFFICES ASSUME NEW i \in Ids, wpc'[i] \in Inside PROVE locks'[row'[i].contact] = i
        BY DEF Locked
      <3>1. i # k /\ wpc[i] \in Inside
        BY <2>1 DEF Inside, TInv, TypeOK
      <3>2. locks[row[i].contact] = i /\ row'[i].contact = row[i].contact /\ row[i].contact \in Contacts
        BY <1>1, <3>1 DEF Locked
      <3> QED
        BY <2>1, <3>1, <3>2
  <1>7. CASE Crash
    BY <1>7 DEF Crash, Locked, Inside
  <1>8. ASSUME NEW c \in Contacts, LockLapses(c) PROVE Locked'
    BY <1>1, <1>8 DEF LockLapses, Locked, Inside, TInv, TypeOK
  <1>9. ASSUME \/ \E t \in Triggers, c \in Contacts : Commit(t, c)
               \/ \E p \in Pollers : Poll(p) \/ pushThrows(p)
               \/ \E i \in Ids : skip(i) \/ LeaseExpires(i) \/ Evict(i)
               \/ Toggle \/ UNCHANGED vars
        PROVE  wpc' = wpc /\ locks' = locks
    BY <1>9 DEF Commit, Poll, claimBatch, push, releaseLease, pushThrows, skip, LeaseExpires,
                Evict, Toggle, vars
  <1> QED
    BY <1>2, <1>3, <1>4, <1>5, <1>6, <1>7, <1>8, <1>9 DEF Next, Work

\* The rules of one contact run one event at a time, whatever retries, crashes
\* and replicas do, as long as a lock outlives its holder's work.
THEOREM ContactsAreSerialized == ~LockMayLapse /\ Spec => []ContactSerialized
  <1> SUFFICES ASSUME ~LockMayLapse PROVE Spec => []ContactSerialized
    OBVIOUS
  <1>1. Init => TInv /\ Locked
    BY InitTInv DEF Init, Locked, Inside
  <1>2. TInv /\ Locked /\ [Next]_vars => (TInv /\ Locked)'
    BY NextTInv, LockedStep
  <1>3. TInv /\ Locked => ContactSerialized
    BY DEF Locked, Inside, ContactSerialized, contact
  <1> QED
    BY <1>1, <1>2, <1>3, PTL DEF Spec

-----------------------------------------------------------------------------
\* The abstract specification.  Nothing has happened to an event that does not
\* exist; while a worker visits the rules, what is owed is what it has still
\* to visit, and the rule it has just run is owed no more.
Untouched ==
    \A i \in Ids : row[i].status = "absent" =>
        skipped[i] = {} /\ \A r \in Rules : ran[i][r] = 0
Visiting ==
    \A i \in Ids : wpc[i] \in {"rule", "run", "close"} =>
        \A r \in row[i].loaded : ran[i][r] # 0 \/ r \in skipped[i] \/ r \in todo[i]
JustRan == \A i \in Ids : wpc[i] = "close" => ran[i][next(todo[i])] # 0

RInv == Untouched /\ Visiting /\ JustRan

\* What a step of one job's history may be: nothing, one rule run, or one
\* refused.
LEMMA HistoryStep ==
    ASSUME TInv, NEW i \in Ids, runActions(i)
    PROVE  /\ next(todo[i]) \in Rules
           /\ ran'[i][next(todo[i])] # 0
           /\ \A k \in Ids, r \in Rules :
                 ~(k = i /\ r = next(todo[i])) => ran'[k][r] = ran[k][r]
  <1> DEFINE n == next(todo[i])
  <1>1. n \in Rules
    BY AtWork, NextIn DEF runActions, TInv, Scheduled
  <1>2. ran' = [ran EXCEPT ![i][n] = IF ran[i][n] < 2 THEN ran[i][n] + 1 ELSE ran[i][n]]
    BY DEF runActions, histVars
  <1>3. ran \in [Ids -> [Rules -> 0..2]]
    BY DEF TInv, TypeOK
  <1> HIDE DEF n
  <1>4. ran'[i][n] = IF ran[i][n] < 2 THEN ran[i][n] + 1 ELSE ran[i][n]
    BY <1>1, <1>2, <1>3
  <1>5. ran'[i][n] # 0
    <2>1. ran[i][n] \in 0..2
      BY <1>1, <1>3
    <2> QED
      BY <1>4, <2>1
  <1>6. \A k \in Ids, r \in Rules : ~(k = i /\ r = n) => ran'[k][r] = ran[k][r]
    BY <1>1, <1>2, <1>3
  <1> QED
    BY <1>1, <1>5, <1>6 DEF n

\* The steps that leave a job, its rules and its history alone.
Aside ==
    \/ \E t \in Triggers, c \in Contacts : Commit(t, c)
    \/ \E p \in Pollers : Poll(p) \/ pushThrows(p)
    \/ \E i \in Ids : LeaseExpires(i) \/ Evict(i) \/ acquireContactLock(i)
    \/ \E c \in Contacts : LockLapses(c)
    \/ Toggle

LEMMA ProgressStep ==
    ASSUME TInv, RInv, [Next]_vars
    PROVE  RInv'
  <1> USE DEF workVars, envVars, histVars
  <1>t. /\ row \in [Ids -> Rows \union {Absent}] /\ row' \in [Ids -> Rows \union {Absent}]
        /\ wpc \in [Ids -> {"idle", "rule", "run", "close", "done"}]
        /\ todo \in [Ids -> SUBSET Rules]
        /\ skipped \in [Ids -> SUBSET Rules]
        /\ ran \in [Ids -> [Rules -> 0..2]]
        /\ \A i \in Ids : wpc[i] # "idle" => row[i].status # "absent"
        /\ \A i \in Ids : row[i].loaded \subseteq Rules
    <2>1. TInv'
      BY NextTInv
    <2>2. \A i \in Ids : wpc[i] # "idle" => row[i].status # "absent"
      BY AtWork
    <2>3. \A i \in Ids : row[i].loaded \subseteq Rules
      BY DEF TInv, TypeOK, Rows, Absent
    <2> QED
      BY <2>1, <2>2, <2>3 DEF TInv, TypeOK
  <1>k. \A i \in Ids : row[i].status # "absent" =>
           row'[i].status # "absent" /\ (process(i) \/ row'[i].loaded = row[i].loaded)
    BY RowsKept
  <1>1. CASE Aside \/ UNCHANGED vars
    <2>1. UNCHANGED <<todo, ran, skipped>>
      BY <1>1 DEF Aside, Commit, Poll, claimBatch, push, releaseLease, pushThrows, LeaseExpires,
                  Evict, acquireContactLock, LockLapses, Toggle, vars
    <2>2. wpc' = wpc \/ \E i \in Ids : wpc[i] = "rule" /\ wpc' = [wpc EXCEPT ![i] = "run"]
      BY <1>1 DEF Aside, Commit, Poll, claimBatch, push, releaseLease, pushThrows, LeaseExpires,
                  Evict, acquireContactLock, LockLapses, Toggle, Goto, vars
    <2>3. ASSUME NEW i \in Ids, process(i) PROVE wpc[i] = "idle"
      BY <2>3 DEF process, TInv, TypeOK
    <2>4. \A i \in Ids : wpc[i] # "idle" => row'[i].loaded = row[i].loaded
      BY <1>k, <1>t, <2>3
    <2>5. \A i \in Ids : wpc'[i] # "idle" => wpc[i] # "idle"
      BY <2>2, <1>t
    <2>6. Untouched'
      BY <1>k, <2>1 DEF RInv, Untouched
    <2>7. Visiting'
      BY <1>t, <2>1, <2>2, <2>4, <2>5 DEF RInv, Visiting
    <2>8. JustRan'
      BY <1>t, <2>1, <2>2 DEF RInv, JustRan
    <2> QED
      BY <2>6, <2>7, <2>8 DEF RInv
  <1>2. ASSUME NEW i \in Ids, process(i) PROVE RInv'
    <2>1. /\ row[i].status # "absent" /\ row[i] \in Rows
          /\ row' = [row EXCEPT ![i].loaded = matching(i)]
          /\ todo' = [todo EXCEPT ![i] = matching(i)]
          /\ wpc' = [wpc EXCEPT ![i] = "rule"]
          /\ UNCHANGED <<ran, skipped>>
      BY <1>2, AtWork DEF process, Goto
    <2>2. Untouched'
      BY <1>k, <2>1 DEF RInv, Untouched
    <2>3. Visiting'
      <3>1. row'[i].loaded = matching(i) /\ todo'[i] = matching(i)
        BY <1>t, <2>1 DEF Rows
      <3>2. \A k \in Ids \ {i} : row'[k] = row[k] /\ todo'[k] = todo[k] /\ wpc'[k] = wpc[k]
        BY <1>t, <2>1
      <3> QED
        BY <2>1, <3>1, <3>2 DEF RInv, Visiting
    <2>4. JustRan'
      BY <1>t, <2>1 DEF RInv, JustRan
    <2> QED
      BY <2>2, <2>3, <2>4 DEF RInv
  <1>3. ASSUME NEW i \in Ids, skip(i) PROVE RInv'
    <2> DEFINE n == next(todo[i])
    <2>1. /\ wpc[i] = "rule"
          /\ todo' = [todo EXCEPT ![i] = @ \ {n}]
          /\ skipped' = [skipped EXCEPT ![i] = @ \union {n}]
          /\ UNCHANGED <<row, wpc, ran>>
      BY <1>3 DEF skip
    <2> HIDE DEF n
    <2>2. Untouched'
      BY <1>t, <2>1 DEF RInv, Untouched
    <2>3. Visiting'
      BY <1>t, <2>1 DEF RInv, Visiting
    <2>4. JustRan'
      BY <1>t, <2>1 DEF RInv, JustRan
    <2> QED
      BY <2>2, <2>3, <2>4 DEF RInv
  <1>4. ASSUME NEW i \in Ids, runActions(i) PROVE RInv'
    <2> DEFINE n == next(todo[i])
    <2>1. /\ wpc[i] = "run"
          /\ wpc' = [wpc EXCEPT ![i] = "close"]
          /\ UNCHANGED <<todo, skipped>>
      BY <1>4 DEF runActions, Goto
    <2>2. /\ n \in Rules /\ ran'[i][n] # 0
          /\ \A k \in Ids, r \in Rules : ~(k = i /\ r = n) => ran'[k][r] = ran[k][r]
      BY <1>4, HistoryStep
    <2>3. \A k \in Ids : row[k].status # "absent" => row'[k].loaded = row[k].loaded
      <3>1. \A k \in Ids : ~process(k)
        <4> SUFFICES ASSUME NEW k \in Ids, process(k) PROVE FALSE
          OBVIOUS
        <4>1. job[k] = "waiting" /\ job' = [job EXCEPT ![k] = "active"] /\ job' = job
          BY <1>4 DEF process, runActions
        <4> QED
          BY <4>1 DEF TInv, TypeOK
      <3> QED
        BY <1>k, <3>1
    <2>4. Untouched'
      <3>1. \A k \in Ids : row'[k].status = "absent" => row[k].status = "absent" /\ k # i
        BY <1>k, <1>t, <2>1
      <3> QED
        BY <2>1, <2>2, <3>1 DEF RInv, Untouched
    <2>5. Visiting'
      <3> SUFFICES ASSUME NEW k \in Ids, wpc'[k] \in {"rule", "run", "close"},
                          NEW r \in row'[k].loaded
                   PROVE  ran'[k][r] # 0 \/ r \in skipped'[k] \/ r \in todo'[k]
        BY DEF Visiting
      <3>1. wpc[k] \in {"rule", "run", "close"} /\ row'[k].loaded = row[k].loaded
        BY <1>t, <2>1, <2>3
      <3>2. r \in Rules /\ (ran[k][r] # 0 \/ r \in skipped[k] \/ r \in todo[k])
        BY <1>t, <3>1 DEF RInv, Visiting
      <3> HIDE DEF n
      <3> QED
        BY <2>1, <2>2, <3>2
    <2>6. JustRan'
      <3> SUFFICES ASSUME NEW k \in Ids, wpc'[k] = "close" PROVE ran'[k][next(todo'[k])] # 0
        BY DEF JustRan, next
      <3>1. CASE k = i
        BY <2>1, <2>2, <3>1
      <3>2. CASE k # i
        <4>1. wpc[k] = "close" /\ todo'[k] = todo[k]
          BY <1>t, <2>1, <3>2
        <4>2. ran[k][next(todo[k])] # 0
          BY <4>1 DEF RInv, JustRan
        <4>3. next(todo[k]) \in Rules
          BY <4>1, AtWork, NextIn DEF TInv, Scheduled
        <4> QED
          BY <2>2, <3>2, <4>1, <4>2, <4>3
      <3> QED
        BY <3>1, <3>2
    <2> QED
      BY <2>4, <2>5, <2>6 DEF RInv
  <1>5. ASSUME NEW i \in Ids, updateCounters(i) PROVE RInv'
    <2> DEFINE n == next(todo[i])
    <2>1. /\ wpc[i] = "close"
          /\ wpc' = [wpc EXCEPT ![i] = "rule"]
          /\ todo' = [todo EXCEPT ![i] = @ \ {n}]
          /\ UNCHANGED <<row, ran, skipped>>
      BY <1>5 DEF updateCounters, Goto
    <2>2. ran[i][n] # 0
      BY <2>1 DEF RInv, JustRan
    <2> HIDE DEF n
    <2>3. Untouched' /\ Visiting' /\ JustRan'
      BY <1>t, <2>1, <2>2 DEF RInv, Untouched, Visiting, JustRan
    <2> QED
      BY <2>3 DEF RInv
  <1>6. ASSUME NEW i \in Ids, contended(i) \/ jobThrows(i) \/ markProcessed(i) \/ complete(i)
        PROVE  RInv'
    <2>1. /\ wpc' = [wpc EXCEPT ![i] = "idle"] \/ wpc' = [wpc EXCEPT ![i] = "done"]
          /\ todo' = todo \/ todo' = [todo EXCEPT ![i] = {}]
          /\ UNCHANGED <<ran, skipped>>
      BY <1>6 DEF contended, jobThrows, markProcessed, complete, Rethrow, Goto
    <2>2. \A k \in Ids : row'[k].loaded = row[k].loaded
      <3>1. row' = row \/ row' = [row EXCEPT ![i].status = "PROCESSED"]
        BY <1>6 DEF contended, jobThrows, markProcessed, complete
      <3> QED
        BY <1>t, <3>1 DEF Rows, Absent
    <2>3. Untouched'
      BY <1>k, <2>1 DEF RInv, Untouched
    <2>4. Visiting' /\ JustRan'
      BY <1>t, <2>1, <2>2 DEF RInv, Visiting, JustRan
    <2> QED
      BY <2>3, <2>4 DEF RInv
  <1>7. CASE Crash
    BY <1>7 DEF Crash, RInv, Untouched, Visiting, JustRan
  <1> QED
    BY <1>1, <1>2, <1>3, <1>4, <1>5, <1>6, <1>7 DEF Next, Work, Aside

-----------------------------------------------------------------------------
\* What the refinement mapping says of one event.
owed(i) == {r \in row[i].loaded : ran[i][r] = 0 /\ r \notin skipped[i]}
standing(i) == IF row[i].status = "absent" THEN "absent"
               ELSE IF row[i].status = "PROCESSED" THEN "settled" ELSE "open"

LEMMA Bars ==
    /\ stateBar = [i \in Ids |-> standing(i)] /\ dueBar = [i \in Ids |-> owed(i)]
    /\ stateBar' = [i \in Ids |-> standing(i)'] /\ dueBar' = [i \in Ids |-> owed(i)']
  BY DEF stateBar, dueBar, standing, owed, exists

\* A step that changes neither is a stutter.
LEMMA BarsStay ==
    ASSUME UNCHANGED <<ran, skipped>>,
           \A i \in Ids : row'[i].loaded = row[i].loaded /\ standing(i)' = standing(i)
    PROVE  UNCHANGED Delivery!vars
  <1>1. \A i \in Ids : owed(i)' = owed(i)
    BY DEF owed
  <1>2. stateBar' = stateBar /\ dueBar' = dueBar
    BY <1>1, Bars
  <1> QED
    BY <1>2 DEF Delivery!vars

\* A row that appears is an event that is owed every rule.
LEMMA RowAppears ==
    ASSUME TInv, Untouched, NEW k \in Ids, row[k].status = "absent",
           NEW t, NEW c, NEW d, row' = [row EXCEPT ![k] = newRow(t, c, d)],
           ran'[k] = ran[k], skipped'[k] = skipped[k]
    PROVE  /\ standing(k) = "absent" /\ standing(k)' = "open" /\ owed(k)' = Rules
           /\ \A i \in Ids \ {k} : row'[i] = row[i] /\ standing(i)' = standing(i)
  <1>1. row'[k] = newRow(t, c, d) /\ \A i \in Ids \ {k} : row'[i] = row[i]
    BY DEF TInv, TypeOK
  <1>2. row'[k].status = "PENDING" /\ row'[k].loaded = Rules
    BY <1>1 DEF newRow
  <1>3. skipped[k] = {} /\ \A r \in Rules : ran[k][r] = 0
    BY DEF Untouched
  <1>4. owed(k)' = Rules
    BY <1>2, <1>3 DEF owed
  <1> QED
    BY <1>1, <1>2, <1>4 DEF standing

\* A rule that ran or was refused is owed no more.
LEMMA RuleServed ==
    ASSUME NEW i \in Ids, NEW n, row'[i].loaded = row[i].loaded,
           \/ /\ ran'[i][n] # 0 /\ skipped'[i] = skipped[i]
              /\ \A r \in row[i].loaded : r # n => ran'[i][r] = ran[i][r]
           \/ skipped'[i] = skipped[i] \union {n} /\ ran'[i] = ran[i]
    PROVE  owed(i)' = owed(i) \ {n}
  BY DEF owed

\* Every step of the outbox is a step of EventDelivery or a stutter.
LEMMA DeliveryStep ==
    ASSUME TInv, RInv, [Next]_vars
    PROVE  [Delivery!Next]_(Delivery!vars)
  <1> USE DEF workVars, envVars, histVars
  <1>t. /\ row \in [Ids -> Rows \union {Absent}]
        /\ skipped \in [Ids -> SUBSET Rules]
        /\ ran \in [Ids -> [Rules -> 0..2]]
        /\ \A i \in Ids : row[i].loaded \subseteq Rules
    BY DEF TInv, TypeOK, Rows, Absent
  <1>1. ASSUME NEW t \in Triggers, NEW c \in Contacts, Commit(t, c)
        PROVE  Delivery!Next
    <2>0. /\ row' = enqueue(row, t, c, 0) /\ enqueue(row, t, c, 0) # row
          /\ TypeOK
      BY <1>1 DEF Commit, TInv
    <2>1. PICK k \in Ids : ~exists(k) /\ row' = [row EXCEPT ![k] = newRow(t, c, 0)]
      <3>1. \E k \in Ids : /\ ~exists(k)
                           /\ enqueue(row, t, c, 0) = [row EXCEPT ![k] = newRow(t, c, 0)]
        BY <2>0, EnqueueAdds
      <3> QED
        BY <2>0, <3>1
    <2>2. UNCHANGED <<ran, skipped>>
      BY <1>1 DEF Commit
    <2>3. /\ standing(k) = "absent" /\ standing(k)' = "open" /\ owed(k)' = Rules
          /\ \A i \in Ids \ {k} : row'[i] = row[i] /\ standing(i)' = standing(i)
      BY <2>1, <2>2, RowAppears DEF RInv, exists
    <2>4. \A i \in Ids \ {k} : owed(i)' = owed(i)
      BY <2>2, <2>3 DEF owed
    <2>5. /\ stateBar[k] = "absent"
          /\ stateBar' = [stateBar EXCEPT ![k] = "open"]
          /\ dueBar' = [dueBar EXCEPT ![k] = Rules]
      BY <2>3, <2>4, Bars
    <2>6. Delivery!Emit(k)
      BY <2>5 DEF Delivery!Emit, Delivery!Open
    <2> QED
      BY <2>6 DEF Delivery!Next
  <1>2. ASSUME NEW p \in Pollers, claimBatch(p) PROVE UNCHANGED Delivery!vars
    <2> SUFFICES ASSUME NEW i \in Ids
                 PROVE  row'[i].loaded = row[i].loaded /\ standing(i)' = standing(i)
      BY <1>2, BarsStay DEF claimBatch
    <2>1. CASE i \in candidates
      <3>1. row[i] \in Rows /\ row[i].status \in {"PENDING", "PROCESSING"}
        BY <2>1, RowType DEF candidates, TInv
      <3>2. row'[i] = [row[i] EXCEPT !.status = "PROCESSING", !.leasedBy = p, !.expired = FALSE]
        BY <1>2, <2>1 DEF claimBatch
      <3> QED
        BY <3>1, <3>2 DEF Rows, standing
    <2>2. CASE i \notin candidates
      BY <1>2, <2>2 DEF claimBatch, standing
    <2> QED
      BY <2>1, <2>2
  <1>3. ASSUME NEW p \in Pollers, releaseLease(p) PROVE [Delivery!Next]_(Delivery!vars)
    <2>0. PICK i \in Ids : i = failing[p]
      BY <1>3 DEF releaseLease, TInv, TypeOK
    <2>1. row[i].status # "absent" /\ row[i] \in Rows /\ UNCHANGED <<ran, skipped>>
      BY <1>3, <2>0, RowType DEF releaseLease, TInv, Placed, exists
    <2>2. CASE row' = row
      BY <2>1, <2>2, BarsStay DEF standing
    <2>3. CASE row' = [row EXCEPT ![i].status = "PENDING", ![i].leasedBy = None, ![i].expired = FALSE]
      <3>1. /\ row'[i].status = "PENDING" /\ row'[i].loaded = row[i].loaded
            /\ \A k \in Ids \ {i} : row'[k] = row[k]
        BY <1>t, <2>1, <2>3 DEF Rows
      <3>2. CASE row[i].status = "PROCESSED"
        <4>1. \A k \in Ids : owed(k)' = owed(k)
          BY <2>1, <3>1 DEF owed
        <4>2. /\ standing(i) = "settled" /\ standing(i)' = "open"
              /\ \A k \in Ids \ {i} : standing(k)' = standing(k)
          BY <3>1, <3>2 DEF standing
        <4>3. /\ stateBar[i] = "settled" /\ dueBar' = dueBar
              /\ stateBar' = [stateBar EXCEPT ![i] = "open"]
          BY <2>1, <4>1, <4>2, Bars
        <4>4. Delivery!Reopen(i)
          BY <4>3 DEF Delivery!Reopen, Delivery!Open
        <4> QED
          BY <2>1, <4>4 DEF Delivery!Next
      <3>3. CASE row[i].status # "PROCESSED"
        BY <2>1, <3>1, <3>3, BarsStay DEF standing
      <3> QED
        BY <3>2, <3>3
    <2> QED
      BY <1>3, <2>0, <2>2, <2>3 DEF releaseLease
  <1>4. ASSUME NEW i \in Ids, LeaseExpires(i) PROVE UNCHANGED Delivery!vars
    <2>1. row[i] \in Rows /\ row' = [row EXCEPT ![i].expired = TRUE] /\ UNCHANGED <<ran, skipped>>
      BY <1>4, RowType DEF LeaseExpires, TInv
    <2>2. \A k \in Ids : row'[k].loaded = row[k].loaded /\ row'[k].status = row[k].status
      BY <1>t, <2>1 DEF Rows, Absent
    <2> QED
      BY <2>1, <2>2, BarsStay DEF standing
  <1>5. ASSUME NEW i \in Ids, process(i) PROVE Delivery!Next
    <2>1. /\ row[i].status # "absent" /\ row[i] \in Rows
          /\ row' = [row EXCEPT ![i].loaded = matching(i)] /\ UNCHANGED <<ran, skipped>>
          /\ matching(i) \subseteq Rules
      BY <1>5, AtWork DEF process, matching, TInv, TypeOK
    <2>2. /\ row'[i].loaded = matching(i)
          /\ \A k \in Ids : row'[k].status = row[k].status
          /\ \A k \in Ids \ {i} : row'[k] = row[k]
      BY <1>t, <2>1 DEF Rows, Absent
    <2> DEFINE R == {r \in matching(i) : ran[i][r] = 0 /\ r \notin skipped[i]}
    <2>3. /\ owed(i)' = R /\ R \in SUBSET Rules
          /\ \A k \in Ids \ {i} : owed(k)' = owed(k)
      BY <2>1, <2>2 DEF owed
    <2>4. standing(i) # "absent" /\ \A k \in Ids : standing(k)' = standing(k)
      BY <2>1, <2>2 DEF standing
    <2> HIDE DEF R
    <2>5. stateBar[i] # "absent" /\ stateBar' = stateBar /\ dueBar' = [dueBar EXCEPT ![i] = R]
      BY <2>3, <2>4, Bars
    <2>6. Delivery!Load(i, R)
      BY <2>5 DEF Delivery!Load
    <2> QED
      BY <2>3, <2>6 DEF Delivery!Next
  <1>6. ASSUME NEW i \in Ids, skip(i) PROVE Delivery!Next
    <2> DEFINE n == next(todo[i])
    <2>1. n \in Rules /\ row[i].status # "absent"
      BY <1>6, AtWork, NextIn DEF skip
    <2>2. skipped' = [skipped EXCEPT ![i] = @ \union {n}] /\ UNCHANGED <<row, ran>>
      BY <1>6 DEF skip
    <2> HIDE DEF n
    <2>3. owed(i)' = owed(i) \ {n}
      BY <1>t, <2>2, RuleServed
    <2>4. \A k \in Ids \ {i} : owed(k)' = owed(k)
      BY <1>t, <2>2 DEF owed
    <2>5. standing(i) # "absent" /\ \A k \in Ids : standing(k)' = standing(k)
      BY <2>1, <2>2 DEF standing
    <2>6. stateBar[i] # "absent" /\ stateBar' = stateBar /\ dueBar' = [dueBar EXCEPT ![i] = @ \ {n}]
      BY <2>3, <2>4, <2>5, Bars
    <2>7. Delivery!Serve(i, n)
      BY <2>6 DEF Delivery!Serve
    <2> QED
      BY <2>1, <2>7 DEF Delivery!Next
  <1>7. ASSUME NEW i \in Ids, runActions(i) PROVE Delivery!Next
    <2> DEFINE n == next(todo[i])
    <2>1. n \in Rules /\ row[i].status # "absent" /\ skipped' = skipped
      BY <1>7, AtWork, NextIn DEF runActions, TInv, Scheduled
    <2>2. /\ ran'[i][n] # 0
          /\ \A k \in Ids, r \in Rules : ~(k = i /\ r = n) => ran'[k][r] = ran[k][r]
      BY <1>7, HistoryStep
    <2>3. \A k \in Ids \ {i} : ran'[k] = ran[k]
      BY <1>7, <1>t DEF runActions
    <2>4. row' = enqueue(row, Emits[n], contact(i), row[i].depth + 1)
      BY <1>7 DEF runActions
    <2> HIDE DEF n
    <2>5. row'[i] = row[i] => owed(i)' = owed(i) \ {n}
      BY <1>t, <2>1, <2>2, RuleServed
    <2>6. CASE row' = row
      <3>1. \A k \in Ids \ {i} : owed(k)' = owed(k)
        BY <2>1, <2>3, <2>6 DEF owed
      <3>2. standing(i) # "absent" /\ \A k \in Ids : standing(k)' = standing(k)
        BY <2>1, <2>6 DEF standing
      <3>3. stateBar[i] # "absent" /\ stateBar' = stateBar /\ dueBar' = [dueBar EXCEPT ![i] = @ \ {n}]
        BY <2>5, <2>6, <3>1, <3>2, Bars
      <3>4. Delivery!Serve(i, n)
        BY <3>3 DEF Delivery!Serve
      <3> QED
        BY <2>1, <3>4 DEF Delivery!Next
    <2>7. CASE \E k \in Ids : /\ ~exists(k)
                              /\ row' = [row EXCEPT ![k] = newRow(Emits[n], contact(i), row[i].depth + 1)]
      <3>1. PICK k \in Ids : /\ ~exists(k)
                             /\ row' = [row EXCEPT ![k] = newRow(Emits[n], contact(i), row[i].depth + 1)]
        BY <2>7
      <3>2. k # i /\ row[k].status = "absent" /\ ran'[k] = ran[k] /\ skipped'[k] = skipped[k]
        BY <2>1, <2>3, <3>1 DEF exists
      <3>3. /\ standing(k) = "absent" /\ standing(k)' = "open" /\ owed(k)' = Rules
            /\ \A l \in Ids \ {k} : row'[l] = row[l] /\ standing(l)' = standing(l)
        BY <3>1, <3>2, RowAppears DEF RInv
      <3>4. \A l \in Ids \ {k, i} : owed(l)' = owed(l)
        BY <2>1, <2>3, <3>3 DEF owed
      <3>5. standing(i) # "absent" /\ owed(i)' = owed(i) \ {n}
        BY <2>1, <2>5, <3>2, <3>3 DEF standing
      <3>6. /\ stateBar[i] # "absent" /\ stateBar[k] = "absent"
            /\ stateBar' = [stateBar EXCEPT ![k] = "open"]
            /\ dueBar' = [dueBar EXCEPT ![i] = @ \ {n}, ![k] = Rules]
        BY <3>2, <3>3, <3>4, <3>5, Bars
      <3>7. Delivery!ServeAndEmit(i, n, k)
        BY <3>6 DEF Delivery!ServeAndEmit, Delivery!Open
      <3> QED
        BY <2>1, <3>7 DEF Delivery!Next
    <2>8. TypeOK
      BY DEF TInv
    <2>9. \/ row' = row
          \/ \E k \in Ids : /\ ~exists(k)
                            /\ row' = [row EXCEPT ![k] = newRow(Emits[n], contact(i), row[i].depth + 1)]
      <3> DEFINE e == enqueue(row, Emits[n], contact(i), row[i].depth + 1)
      <3>1. \/ e = row
            \/ \E k \in Ids : /\ ~exists(k)
                              /\ e = [row EXCEPT ![k] = newRow(Emits[n], contact(i), row[i].depth + 1)]
        BY <2>8, EnqueueAdds
      <3> QED
        BY <2>4, <3>1
    <2> QED
      BY <2>6, <2>7, <2>9
  <1>8. ASSUME NEW i \in Ids, markProcessed(i) PROVE Delivery!Next
    <2>1. /\ wpc[i] = "rule" /\ todo[i] = {} /\ row[i] \in Rows
          /\ row' = [row EXCEPT ![i].status = "PROCESSED"] /\ UNCHANGED <<ran, skipped>>
      BY <1>8, AtWork DEF markProcessed
    <2>2. /\ row'[i].status = "PROCESSED" /\ row[i].status # "absent"
          /\ \A k \in Ids : row'[k].loaded = row[k].loaded
          /\ \A k \in Ids \ {i} : row'[k] = row[k]
      BY <1>8, <1>t, <2>1, AtWork DEF markProcessed, Rows, Absent
    <2>3. owed(i) = {}
      BY <2>1 DEF owed, RInv, Visiting
    <2>4. \A k \in Ids : owed(k)' = owed(k)
      BY <2>1, <2>2 DEF owed
    <2>5. /\ standing(i) # "absent" /\ standing(i)' = "settled"
          /\ \A k \in Ids \ {i} : standing(k)' = standing(k)
      BY <2>2 DEF standing
    <2>6. /\ stateBar[i] # "absent" /\ dueBar[i] = {} /\ dueBar' = dueBar
          /\ stateBar' = [stateBar EXCEPT ![i] = "settled"]
      BY <2>3, <2>4, <2>5, Bars
    <2>7. Delivery!Settle(i)
      BY <2>6 DEF Delivery!Settle
    <2> QED
      BY <2>7 DEF Delivery!Next
  <1>9. ASSUME \/ \E p \in Pollers : push(p) \/ pushThrows(p)
               \/ \E i \in Ids : \/ acquireContactLock(i) \/ contended(i) \/ updateCounters(i)
                                 \/ complete(i) \/ jobThrows(i) \/ Evict(i)
               \/ \E c \in Contacts : LockLapses(c)
               \/ Crash \/ Toggle \/ UNCHANGED vars
        PROVE  UNCHANGED Delivery!vars
    <2>1. UNCHANGED <<row, ran, skipped>>
      BY <1>9 DEF push, pushThrows, acquireContactLock, contended, updateCounters, complete,
                  jobThrows, Evict, LockLapses, Crash, Toggle, vars
    <2> QED
      BY <2>1, BarsStay DEF standing
  <1> QED
    BY <1>1, <1>2, <1>3, <1>4, <1>5, <1>6, <1>7, <1>8, <1>9 DEF Next, Poll, Work

\* At least once, for any number of pollers, rules, faults and retries: an
\* event reads PROCESSED only when nothing its last execution loaded is owed.
THEOREM OutboxDelivers == Spec => DeliverySpec
  <1>1. Init => TInv /\ RInv
    BY InitTInv DEF Init, RInv, Untouched, Visiting, JustRan, Absent
  <1>2. TInv /\ RInv /\ [Next]_vars => (TInv /\ RInv)'
    BY NextTInv, ProgressStep
  <1>3. Init => Delivery!Init
    <2> SUFFICES ASSUME Init PROVE Delivery!Init
      OBVIOUS
    <2>1. \A i \in Ids : standing(i) = "absent" /\ owed(i) = {}
      BY DEF Init, Absent, standing, owed
    <2>2. stateBar = [i \in Ids |-> "absent"] /\ dueBar = [i \in Ids |-> {}]
      BY <2>1, Bars
    <2> QED
      BY <2>2 DEF Delivery!Init
  <1>4. TInv /\ RInv /\ [Next]_vars => [Delivery!Next]_(Delivery!vars)
    BY DeliveryStep
  <1> QED
    BY <1>1, <1>2, <1>3, <1>4, PTL DEF Spec, DeliverySpec, Delivery!Spec
=============================================================================
