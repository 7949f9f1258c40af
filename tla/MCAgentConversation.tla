------------------------- MODULE MCAgentConversation -------------------------
(***************************************************************************)
(* The instance of AgentConversation for TLC: two pieces of text, and two  *)
(* sessions, one before and one after a restart (agent_conversation.cfg).  *)
(***************************************************************************)
EXTENDS AgentConversation
=============================================================================
