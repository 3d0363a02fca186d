----------------------------- MODULE MCModelCall ------------------------------
(* Callers of model calls for TLC, with the process and the budget of each. *)
EXTENDS ModelCall

CONSTANTS a, b, c3, pa, pb, none

MCProcessOf == [c \in Callers |-> IF c = b THEN pb ELSE pa]
MCLimit     == [c \in Callers |-> IF c = a THEN 4 ELSE 1]
MCCalls     == [c \in Callers |-> IF c = a THEN 2 ELSE 1]
===============================================================================
