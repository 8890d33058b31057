---------------------------- MODULE EventDelivery ----------------------------
(***************************************************************************)
(* What the automation outbox promises of a domain event: it is owed every *)
(* rule that an execution loaded for it, and it is settled only when an    *)
(* execution has looked and nothing is owed any more.  At least once, not  *)
(* exactly once: a settled event may be taken up again.                    *)
(***************************************************************************)
CONSTANTS Ids, Rules

VARIABLES
    state,   \* absent, open or settled
    due      \* the rules an event is still owed

vars == <<state, due>>

Init ==
    /\ state = [i \in Ids |-> "absent"]
    /\ due = [i \in Ids |-> {}]

Open(i) == state' = [state EXCEPT ![i] = "open"]

\* Until an execution looks, any rule may be owed.
Emit(i) ==
    /\ state[i] = "absent"
    /\ Open(i)
    /\ due' = [due EXCEPT ![i] = Rules]

\* An execution finds out what the event is owed, again on every retry; what
\* earlier executions of the event ran needs no second run.
Load(i, R) ==
    /\ state[i] # "absent"
    /\ due' = [due EXCEPT ![i] = R]
    /\ UNCHANGED state

\* A rule ran or was refused; what it does may be an event of its own.
Serve(i, r) ==
    /\ state[i] # "absent"
    /\ due' = [due EXCEPT ![i] = @ \ {r}]
    /\ UNCHANGED state

ServeAndEmit(i, r, k) ==
    /\ state[i] # "absent" /\ state[k] = "absent"
    /\ due' = [due EXCEPT ![i] = @ \ {r}, ![k] = Rules]
    /\ Open(k)

Settle(i) ==
    /\ state[i] # "absent"
    /\ due[i] = {}
    /\ state' = [state EXCEPT ![i] = "settled"]
    /\ UNCHANGED due

Reopen(i) ==
    /\ state[i] = "settled"
    /\ Open(i)
    /\ UNCHANGED due

Next ==
    \E i \in Ids :
        \/ Emit(i) \/ Settle(i) \/ Reopen(i)
        \/ \E R \in SUBSET Rules : Load(i, R)
        \/ \E r \in Rules : Serve(i, r) \/ \E k \in Ids : ServeAndEmit(i, r, k)

Spec == Init /\ [][Next]_vars
=============================================================================
