------------------------------- MODULE Limiter -------------------------------
(***************************************************************************)
(* The two gates of a model call (llm/executar.py): a semaphore of the     *)
(* process, then a slot of the table that every process shares             *)
(* (eyle/runtime/limiter.py).  A slot is leased: its row is deleted by the *)
(* next acquire once the lease has lapsed or the owner's process is gone,  *)
(* and a release deletes the row only if it still holds the owner's token. *)
(***************************************************************************)
EXTENDS Naturals, FiniteSets

CONSTANTS
    Callers,        \* threads that make model calls
    Processes,
    ProcessOf,      \* the process of each caller
    MaxConcurrent,  \* llm.max_concurrent_requests, of semaphore and table
    MaxMishaps,     \* bound: kills, late owners and failed releases
    Free            \* a slot without a row

ASSUME LimiterAssumption ==
    /\ ProcessOf \in [Callers -> Processes]
    /\ MaxConcurrent \in Nat \ {0}
    /\ MaxMishaps \in Nat
    /\ Free \notin [by : Callers, held : BOOLEAN, lapsed : BOOLEAN]

VARIABLES
    taken,    \* permits taken of each process's semaphore
    slots,    \* the rows of limiter_slots for the backend
    gone,     \* processes that were killed
    late,     \* history: owners whose lease lapsed before they released it
    mishaps

limiterVars == <<taken, slots, gone, late, mishaps>>

Slot == 0..(MaxConcurrent - 1)
Row  == [by : Callers, held : BOOLEAN, lapsed : BOOLEAN] \* held: token in use

Running(c) == ProcessOf[c] \notin gone

LimiterTypeOK ==
    /\ taken \in [Processes -> 0..MaxConcurrent]
    /\ slots \in [Slot -> Row \union {Free}]
    /\ gone \in SUBSET Processes
    /\ late \in SUBSET Callers
    /\ mishaps \in 0..MaxMishaps

LimiterInit ==
    /\ taken = [p \in Processes |-> 0]
    /\ slots = [s \in Slot |-> Free]
    /\ gone = {}
    /\ late = {}
    /\ mishaps = 0

-------------------------------------------------------------------------------
(* semaforo.acquire, and both ways out of the gates.                       *)
PermitLeft(c) == taken[ProcessOf[c]] < MaxConcurrent

TakePermit(c) ==
    /\ PermitLeft(c)
    /\ taken' = [taken EXCEPT ![ProcessOf[c]] = @ + 1]

GivePermit(c) == taken' = [taken EXCEPT ![ProcessOf[c]] = @ - 1]

(* Mutant of Stale: a dead owner keeps its slot.                           *)
StaleByLeaseOnly(row) == row.lapsed

(* _cleanup_stale, at the head of every acquire.                           *)
Stale(row) == row.lapsed \/ ~Running(row.by)

Cleaned == [s \in Slot |-> IF slots[s] # Free /\ Stale(slots[s])
                           THEN Free ELSE slots[s]]

FreeSlots == {s \in Slot : Cleaned[s] = Free}

(* acquire: the lowest free slot, in one BEGIN IMMEDIATE transaction.      *)
TakeSlot(c) ==
    /\ FreeSlots # {}
    /\ LET s == CHOOSE s \in FreeSlots : \A t \in FreeSlots : s <= t
       IN  slots' = [Cleaned EXCEPT ![s] =
                        [by |-> c, held |-> TRUE, lapsed |-> FALSE]]
    /\ late' = late \ {c}

Own(c, s) == slots[s] # Free /\ slots[s].by = c /\ slots[s].held

(* Mutant of GiveSlot: the owner is not part of the WHERE clause, so that  *)
(* a late owner deletes the row of the caller that took its slot.          *)
GiveAnySlot(c) ==
    slots' = [s \in Slot |-> IF slots[s] # Free /\ (Own(c, s) \/ c \in late)
                             THEN Free ELSE slots[s]]

(* release: the row goes if it still carries this token.                   *)
GiveSlot(c) ==
    slots' = [s \in Slot |-> IF Own(c, s) THEN Free ELSE slots[s]]

(* release failed on the database: a warning, and the row stays until its  *)
(* lease lapses.                                                           *)
GiveSlotFails(c) ==
    /\ mishaps < MaxMishaps
    /\ mishaps' = mishaps + 1
    /\ slots' = [s \in Slot |-> IF Own(c, s)
                                THEN [slots[s] EXCEPT !.held = FALSE]
                                ELSE slots[s]]

-------------------------------------------------------------------------------
(* Time passes the expires_at of a row: of one that was left behind, or of *)
(* one whose owner waits longer than the lease was sized for (a            *)
(* Retry-After of the backend is not part of lease_seconds).               *)
LapseLeft(s) ==
    /\ slots[s] # Free /\ ~slots[s].held /\ ~slots[s].lapsed
    /\ slots' = [slots EXCEPT ![s].lapsed = TRUE]
    /\ UNCHANGED <<taken, gone, late, mishaps>>

LapseHeld(s) ==
    /\ mishaps < MaxMishaps
    /\ slots[s] # Free /\ slots[s].held /\ ~slots[s].lapsed
    /\ mishaps' = mishaps + 1
    /\ slots' = [slots EXCEPT ![s].lapsed = TRUE]
    /\ late' = late \union {slots[s].by}
    /\ UNCHANGED <<taken, gone>>

(* The operating system ends a process: nothing is released.               *)
Kill(p) ==
    /\ p \notin gone /\ mishaps < MaxMishaps
    /\ mishaps' = mishaps + 1
    /\ gone' = gone \union {p}
    /\ UNCHANGED <<taken, slots, late>>
===============================================================================
