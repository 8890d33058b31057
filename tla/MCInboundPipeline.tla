------------------------- MODULE MCInboundPipeline -------------------------
(* Instances of InboundPipeline for TLC. *)
EXTENDS InboundPipeline, TLC

CONSTANTS m1, m2, w1, w2, w3, alice

\* Two messages of one contact, the first of them delivered twice.
Redelivered == (w1 :> {m1}) @@ (w2 :> {m1}) @@ (w3 :> {m2})
\* One message, delivered twice.
Twice == (w1 :> {m1}) @@ (w2 :> {m1})
FromAlice == (m1 :> alice) @@ (m2 :> alice)
OneFromAlice == m1 :> alice
Ids == 1..3

\* The two deliveries of m1 are interchangeable.
SameDelivery == Permutations({w1, w2})
=============================================================================
