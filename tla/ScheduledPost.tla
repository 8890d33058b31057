----------------------------- MODULE ScheduledPost ------------------------------
(***************************************************************************)
(* One scheduled post: the requests that create, move, cancel and remove   *)
(* it, and the instances whose tick lists the posts that are due, claims   *)
(* them one by one, publishes and records the outcome.  The network's own  *)
(* profile is what cannot be undone: `published` counts what went out.     *)
(***************************************************************************)
EXTENDS Naturals, FiniteSets

CONSTANTS
    Instances    \* API processes, each with one tick at a time

VARIABLES
    post,        \* its status, "none" before criar
    due,         \* "past": scheduledFor <= now, "future"
    attempts,
    lease,       \* "over": updatedAt is older than LEASE_MS, "running"
    tick,        \* where an instance's tick is
    read,        \* the attempts it has read with the post
    published,   \* history: times the post went out
    mishaps      \* history and bound: kinds of mishap that have happened

ticks == <<tick, read>>
postPast == <<published, mishaps>>
postVars == <<post, due, attempts, lease, ticks, postPast>>

MAX_TENTATIVAS == 2
\* After these an outcome is unknown, or two publications may be under way.
Blinding == {"answerLost", "recordFailed", "crashBeforeRecord", "leaseOutlived"}
Mishaps == Blinding \union {"catchFailed", "crash"}

PostTypeOK ==
    /\ post \in {"none", "PENDING", "PUBLISHING", "PUBLISHED", "FAILED", "CANCELED",
                "removed"}
    /\ due \in {"future", "past"} /\ lease \in {"running", "over"}
    /\ attempts \in 0..MAX_TENTATIVAS
    /\ tick \in [Instances -> {"idle", "scan", "listed", "publish", "record", "catch"}]
    /\ read \in [Instances -> 0..(MAX_TENTATIVAS - 1)]
    /\ published \in Nat /\ mishaps \subseteq Mishaps

PostInit ==
    /\ post = "none" /\ due = "future" /\ attempts = 0 /\ lease = "running"
    /\ tick = [i \in Instances |-> "idle"] /\ read = [i \in Instances |-> 0]
    /\ published = 0 /\ mishaps = {}

\* Each kind of mishap happens at most once.
mishap(k) == k \notin mishaps /\ mishaps' = mishaps \union {k}

-----------------------------------------------------------------------------
criar ==
    /\ post = "none" /\ post' = "PENDING"
    /\ UNCHANGED <<due, attempts, lease, ticks, postPast>>

dueComes ==
    /\ post = "PENDING" /\ due = "future" /\ due' = "past"
    /\ UNCHANGED <<post, attempts, lease, ticks, postPast>>

reagendar ==
    /\ post = "PENDING" /\ due = "past" /\ due' = "future"
    /\ UNCHANGED <<post, attempts, lease, ticks, postPast>>

\* Mutation: a post that is being published can be cancelled.
cancelarSempre ==
    /\ post \in {"PENDING", "PUBLISHING"} /\ post' = "CANCELED"
    /\ UNCHANGED <<due, attempts, lease, ticks, postPast>>

cancelar ==
    /\ post = "PENDING" /\ post' = "CANCELED"
    /\ UNCHANGED <<due, attempts, lease, ticks, postPast>>

\* Only what is finished.
remover ==
    /\ post \in {"CANCELED", "FAILED", "PUBLISHED"} /\ post' = "removed"
    /\ UNCHANGED <<due, attempts, lease, ticks, postPast>>

goes(i, at) == tick' = [tick EXCEPT ![i] = at] /\ UNCHANGED read
rests(i) == tick' = [tick EXCEPT ![i] = "idle"] /\ read' = [read EXCEPT ![i] = 0]

busy == {i \in Instances : tick[i] \in {"publish", "record", "catch"}}

\* A lease outlives every publication but a very slow one.
leaseEnds ==
    /\ post = "PUBLISHING" /\ lease = "running" /\ lease' = "over"
    /\ IF busy = {} THEN UNCHANGED mishaps ELSE mishap("leaseOutlived")
    /\ UNCHANGED <<post, due, attempts, ticks, published>>

\* Mutation: what hangs in PUBLISHING is left alone.
liberarNada(i) ==
    /\ tick[i] = "idle" /\ post # "none" /\ goes(i, "scan")
    /\ UNCHANGED <<post, due, attempts, lease, postPast>>

\* publicarVencidos: first the posts stuck in PUBLISHING go back to PENDING.
liberarPresos(i) ==
    /\ tick[i] = "idle" /\ post \in {"PENDING", "PUBLISHING"} /\ goes(i, "scan")
    /\ IF post = "PUBLISHING" /\ lease = "over"
       THEN post' = "PENDING" /\ lease' = "running"
       ELSE UNCHANGED <<post, lease>>
    /\ UNCHANGED <<due, attempts, postPast>>

publicarVencidos(i) ==
    /\ tick[i] = "scan"
    /\ goes(i, IF post = "PENDING" /\ due = "past" THEN "listed" ELSE "idle")
    /\ UNCHANGED <<post, due, attempts, lease, postPast>>

\* Mutation: the claim does not look at the status.
reivindicarSempre(i) ==
    /\ tick[i] = "listed"
    /\ post' = "PUBLISHING" /\ lease' = "running"
    /\ tick' = [tick EXCEPT ![i] = "publish"] /\ read' = [read EXCEPT ![i] = attempts]
    /\ UNCHANGED <<due, attempts, postPast>>

\* publicarUm: whoever turns PENDING into PUBLISHING owns the publication.
reivindicar(i) ==
    /\ tick[i] = "listed"
    /\ IF post = "PENDING"
       THEN /\ post' = "PUBLISHING" /\ lease' = "running"
            /\ tick' = [tick EXCEPT ![i] = "publish"]
            /\ read' = [read EXCEPT ![i] = attempts]
       ELSE rests(i) /\ UNCHANGED <<post, lease>>
    /\ UNCHANGED <<due, attempts, postPast>>

\* The network takes the post, refuses it, or takes it and the answer is lost.
publicar(i) ==
    /\ tick[i] = "publish"
    /\ \/ published' = published + 1 /\ goes(i, "record") /\ UNCHANGED mishaps
       \/ goes(i, "catch") /\ UNCHANGED <<published, mishaps>>
       \/ mishap("answerLost") /\ published' = published + 1 /\ goes(i, "catch")
    /\ UNCHANGED <<post, due, attempts, lease>>

\* The outcome; an error of this very update leads to the catch block as well,
\* and so does a row that is gone.
registrar(i) ==
    /\ tick[i] = "record"
    /\ \/ post # "removed" /\ post' = "PUBLISHED" /\ rests(i) /\ UNCHANGED mishaps
       \/ /\ \/ post = "removed" /\ UNCHANGED mishaps
             \/ mishap("recordFailed")
          /\ goes(i, "catch") /\ UNCHANGED post
    /\ UNCHANGED <<due, attempts, lease, published>>

desiste(n) == n >= MAX_TENTATIVAS

\* PENDING again, or FAILED; when this update throws the job fails and the
\* post is left to its lease.
registrarFalha(i) ==
    /\ tick[i] = "catch" /\ rests(i)
    /\ \/ /\ post # "removed"
          /\ attempts' = read[i] + 1
          /\ post' = IF desiste(attempts') THEN "FAILED" ELSE "PENDING"
          /\ UNCHANGED mishaps
       \/ /\ \/ post = "removed" /\ UNCHANGED mishaps
             \/ mishap("catchFailed")
          /\ UNCHANGED <<post, attempts>>
    /\ UNCHANGED <<due, lease, published>>

\* The process dies; the post stays PUBLISHING.
instanceDies(i) ==
    /\ i \in busy /\ rests(i)
    /\ mishap(IF tick[i] = "record" THEN "crashBeforeRecord" ELSE "crash")
    /\ UNCHANGED <<post, due, attempts, lease, published>>

Publish(i) == \/ liberarPresos(i) \/ publicarVencidos(i) \/ reivindicar(i) \/ publicar(i)
              \/ registrar(i) \/ registrarFalha(i)

PostNext == \/ criar \/ dueComes \/ reagendar \/ cancelar \/ remover \/ leaseEnds
            \/ \E i \in Instances : Publish(i) \/ instanceDies(i)

PostSpec == PostInit /\ [][PostNext]_postVars

\* The clock runs and ticks are worked on.
PostFairness == /\ \A i \in Instances : WF_postVars(Publish(i))
                /\ WF_postVars(leaseEnds)

-----------------------------------------------------------------------------
\* Properties.

blinded == mishaps \intersect Blinding # {}

\* "duas instancias da API pegariam o mesmo post e ele sairia duas vezes no perfil"
\* (marketing-schedule.service.ts:174-176): with several instances, stale lists,
\* refusals, a crash and the lease, the post goes out again only when an outcome
\* got lost or a publication outlived its lease.
PublishedOnce == published > 1 => blinded

\* What the calendar shows is so: a post that is CANCELED or FAILED is not on the
\* profile, one that is PUBLISHED is.
CalendarIsTrue ==
    /\ post \in {"CANCELED", "FAILED"} /\ published > 0 => blinded
    /\ post = "PUBLISHED" => published > 0

\* A deploy in the middle of a publication does not leave the post PUBLISHING
\* for ever (marketing-schedule.service.ts:276-277).
PostSettles == post = "PUBLISHING" ~> post # "PUBLISHING"
=============================================================================
