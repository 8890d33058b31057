-------------------------- MODULE MCPendingAction --------------------------
(* Instances of PendingAction for TLC. *)
EXTENDS PendingAction, TLC

CONSTANTS skill, move1, move2, chat

\* All actions were proposed in one conversation.
OneChat == (skill :> chat) @@ (move1 :> chat) @@ (move2 :> chat)
SkillInChat == skill :> chat
=============================================================================
