----------------------------- MODULE MCAgentPane -----------------------------
(***************************************************************************)
(* The instance of AgentPane for TLC: its bounds are numbers, given in     *)
(* agent_pane.cfg.                                                         *)
(***************************************************************************)
EXTENDS AgentPane
=============================================================================
