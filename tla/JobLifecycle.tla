----------------------------- MODULE JobLifecycle -----------------------------
(***************************************************************************)
(* What a client of eyle/runtime/queue.py may rely on, without the table,  *)
(* the heartbeats or the recovery: a job waits, is run by one attempt at a *)
(* time, may go back to waiting, and is closed once.  What closes it is    *)
(* written in the same step, together with the outcome, and stays.         *)
(***************************************************************************)
EXTENDS Naturals

CONSTANTS MaxJobs, MaxAttempts

VARIABLES
    stage,    \* where each job is
    tries,    \* how many attempts were started
    outcome   \* how the job was closed, and by the output of which attempt

vars == <<stage, tries, outcome>>

Ids    == 1..MaxJobs
Open   == [how |-> "open", by |-> 0]
Closes == [how : {"completed", "failed", "cancelled"}, by : 0..MaxAttempts]

Init ==
    /\ stage = [j \in Ids |-> "absent"]
    /\ tries = [j \in Ids |-> 0]
    /\ outcome = [j \in Ids |-> Open]

(* A client submits a job (adicionar). *)
Submit(j) ==
    /\ stage[j] = "absent"
    /\ stage' = [stage EXCEPT ![j] = "waiting"]
    /\ UNCHANGED <<tries, outcome>>

(* A worker takes the oldest waiting job (_reservar_proximo). *)
Start(j) ==
    /\ stage[j] = "waiting"
    /\ \A k \in Ids : stage[k] = "waiting" => j <= k
    /\ tries[j] < MaxAttempts
    /\ stage' = [stage EXCEPT ![j] = "running"]
    /\ tries' = [tries EXCEPT ![j] = @ + 1]
    /\ UNCHANGED outcome

(* The attempt was lost with its worker (recuperar_interrompidos). *)
GiveBack(j) ==
    /\ stage[j] = "running"
    /\ stage' = [stage EXCEPT ![j] = "waiting"]
    /\ UNCHANGED <<tries, outcome>>

(* Only a running job completes; a waiting one can be cancelled, or found  *)
(* unreadable.                                                             *)
Close(j, o) ==
    /\ stage[j] \in {"waiting", "running"}
    /\ o.how = "completed" => stage[j] = "running"
    /\ stage' = [stage EXCEPT ![j] = "closed"]
    /\ outcome' = [outcome EXCEPT ![j] = o]
    /\ UNCHANGED tries

Next == \E j \in Ids :
    \/ Submit(j) \/ Start(j) \/ GiveBack(j)
    \/ \E o \in Closes : Close(j, o)

Spec == Init /\ [][Next]_vars
===============================================================================
