------------------------- MODULE MCAutomationOutbox -------------------------
(* Instances of AutomationOutbox for TLC. *)
EXTENDS AutomationOutbox, TLC

CONSTANTS tag, status

One == 1..1
Two == 1..2

\* Two rules that set each other off: on a tag change the status, on a status
\* add the tag, which a second time is a duplicate.
OnBoth == (1 :> tag) @@ (2 :> status)
Back == (1 :> status) @@ (2 :> tag)

\* Two rules on the same trigger, which emit nothing.
OnTag == (1 :> tag) @@ (2 :> tag)
Silent == (1 :> None) @@ (2 :> None)

\* A single rule.
Sole == 1 :> tag
Nothing == 1 :> None

Replicas == Permutations(Pollers)
=============================================================================
