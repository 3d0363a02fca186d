---------------------------- MODULE MCContinuation ----------------------------
(* Which continuation a job resumes, for TLC. *)
EXTENDS Continuation
===============================================================================
