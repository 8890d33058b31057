------------------------------- MODULE MCIntake --------------------------------
(* What comes in, for TLC: the webhook pipeline and the import of a channel's  *)
(* history.  ChannelSync has its own, coarse view of the conversations that    *)
(* the pipeline opens; the two share no variable, so that a behaviour of one   *)
(* run is a behaviour of one of them.                                          *)
EXTENDS MCInboundPipeline, ChannelSync

VARIABLE part

IntakeInit ==
    /\ part \in {"pipeline", "sync"}
    /\ SyncInit /\ Init
    /\ part = "pipeline" \/ row = [c \in Conversations |-> Absent]

IntakeNext ==
    /\ UNCHANGED part
    /\ \/ part = "pipeline" /\ Next /\ UNCHANGED syncVars
       \/ part = "sync" /\ SyncNext /\ UNCHANGED vars

IntakeSpec == /\ IntakeInit /\ [][IntakeNext]_<<part, vars, syncVars>>
              /\ Fairness /\ SyncFairness
=============================================================================
