---------------------------- MODULE MCConversation ----------------------------
(* The conversation for TLC: one worker, one attempt per job, no recovery. *)
EXTENDS Conversation

CONSTANTS w1, none, d1, d2
===============================================================================
