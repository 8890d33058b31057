------------------------------ MODULE MCAgentCron ------------------------------
(* Instances of AgentCron for TLC. *)
EXTENDS AgentCron, TLC
=============================================================================
