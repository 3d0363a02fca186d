---------------------------- MODULE MCAgentSession ----------------------------
(* The agent session for TLC. *)
EXTENDS AgentSession

CONSTANTS e1, b1, r1, r2, none
===============================================================================
