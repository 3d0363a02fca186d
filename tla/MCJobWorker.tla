----------------------------- MODULE MCJobWorker ------------------------------
(* Worker processes, children and clients for TLC.                         *)
EXTENDS JobWorker

CONSTANTS w1, w2, none

(* One process after the other, killed or late; two of them side by side   *)
(* in time; and two side by side of which each may be late at any point,   *)
(* so that one takes the job the other is still running.                   *)
OneAfterTheOther == [alone |-> TRUE, punctual |-> FALSE, crashes |-> 1, jobs |-> 1]
SideBySide       == [alone |-> FALSE, punctual |-> TRUE, crashes |-> 0, jobs |-> 2]
LateWorkers      == [alone |-> FALSE, punctual |-> FALSE, crashes |-> 0, jobs |-> 1]
Circumstances    == {OneAfterTheOther, SideBySide, LateWorkers}
===============================================================================
