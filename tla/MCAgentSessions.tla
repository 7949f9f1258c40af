--------------------------- MODULE MCAgentSessions ---------------------------
(***************************************************************************)
(* The instance of AgentSessions for TLC: one pane and two start calls on  *)
(* it (agent_*.cfg).                                                       *)
(***************************************************************************)
EXTENDS AgentSessions
=============================================================================
