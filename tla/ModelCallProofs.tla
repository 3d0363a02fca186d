--------------------------- MODULE ModelCallProofs ----------------------------
(***************************************************************************)
(* The promises of ModelCall, proved for any number of callers, processes  *)
(* and slots, any budgets, estimates and prompt sizes, any number of       *)
(* attempts and any number of mishaps.                                     *)
(*                                                                         *)
(* The invariant says what every place of a call means: who holds a permit *)
(* of the semaphore and a row of the table, how much of the budget the     *)
(* Adapter has been given and has spent, and that a call that goes on has  *)
(* been paid for by nobody yet.                                            *)
(***************************************************************************)
EXTENDS ModelCall, FiniteSetTheorems, WellFoundedInduction, TLAPS

(* Between taking the permit and the finally clause that gives it back.    *)
HoldsPermit == {"slot", "send", "first", "repair", "reply"}

Holders(p) == {c \in Callers : ProcessOf[c] = p /\ call[c].pc \in HoldsPermit}

(* A permit that is taken is held by a caller, killed ones included: none  *)
(* is given back twice.                                                    *)
PermitsCounted ==
    \A p \in Processes :
        IsFiniteSet(Holders(p)) /\ taken[p] = Cardinality(Holders(p))

(* What the Adapter may still spend, with what it has spent, is what the   *)
(* budget left after the estimate, up to the error of one estimate.        *)
WithinCeiling(c) ==
    LET r == call[c] IN
    /\ r.pc = "first" =>
          r.seen = 0 /\ r.cap >= 1 /\ used[c] + r.cap + Estimate = Limit[c]
    /\ r.pc = "repair" =>
          r.cap >= 1 /\ used[c] + r.seen + r.cap + Estimate <= Limit[c] + MaxPrompt
    /\ r.pc = "reply" => used[c] + r.seen <= Limit[c] + Slack
    /\ used[c] <= Limit[c] + Slack

(* Whatever the Adapter has accumulated was billed and is not yet counted. *)
SeenIsBilled(c) == debt[c] >= call[c].seen

(* A call that is on its way has been paid for by no request so far.       *)
OnItsWay == {"permit", "slot", "send", "first", "repair", "reply"}

NothingPaidYet(c) ==
    paid[c] <= 1 /\ (call[c].pc \in OnItsWay => paid[c] = 0)

(* The row of a caller that is inside in time has not lapsed.              *)
OwnRow(c) == \E s \in Slot : Own(c, s) /\ ~slots[s].lapsed

RowsAreFresh == \A c \in Callers : Inside(c) /\ c \notin late => OwnRow(c)

(* The gates, the books of the callers, and both with their types.         *)
GatesOK == LimiterTypeOK /\ PermitsCounted /\ RowsAreFresh
Books(c) == WithinCeiling(c) /\ SeenIsBilled(c) /\ NothingPaidYet(c)
BooksOK  == \A c \in Callers : Books(c)

CallIInv == ModelCallTypeOK /\ GatesOK /\ BooksOK

-------------------------------------------------------------------------------
(* Constants and helpers.                                                  *)
LEMMA Numbers ==
    /\ \A c \in Callers : Limit[c] \in Nat /\ ProcessOf[c] \in Processes
    /\ Estimate \in Nat /\ Estimate > 0 /\ MaxPrompt \in Nat /\ MaxPrompt > 0
    /\ Slack \in Nat
    /\ Slack >= MaxPrompt - Estimate /\ Slack >= 2 * MaxPrompt - Estimate
  BY ModelCallAssumption, LimiterAssumption DEF Slack

(* A free slot is lowest: the choice of acquire has something to choose.   *)
LEMMA LowestSlot ==
    ASSUME NEW S \in SUBSET Slot, S # {}
    PROVE  LET s == CHOOSE s \in S : \A t \in S : s <= t
           IN  s \in S /\ \A t \in S : s <= t
<1>1. S \subseteq Nat
  BY DEF Slot
<1> DEFINE Less == {ss \in Nat \X Nat : ss[1] < ss[2]}
<1>2. IsWellFoundedOn(Less, Nat)
  BY NatLessThanWellFounded, Zenon DEF OpToRel
<1>3. PICK x \in S : \A y \in S : ~(<<y, x>> \in Less)
  BY <1>1, <1>2, WFMin, Zenon
<1>4. \A y \in S : x <= y
  <2> TAKE y \in S
  <2>1. x \in Nat /\ y \in Nat
    BY <1>1
  <2>2. y < x => <<y, x>> \in Less
    BY <2>1
  <2>3. QED
    BY <1>3, <2>1, <2>2
<1>5. QED
  BY <1>4

(* The counts of the semaphore depend on where the callers are.            *)
LEMMA SameHolders ==
    ASSUME NEW p \in Processes,
           \A d \in Callers :
               call'[d].pc \in HoldsPermit <=> call[d].pc \in HoldsPermit
    PROVE  Holders(p)' = Holders(p)
  BY DEF Holders

(* A step that leaves the gates alone, and everybody on the same side.     *)
LEMMA GatesUndisturbed ==
    ASSUME GatesOK, UNCHANGED limiterVars,
           \A d \in Callers :
               /\ call'[d].pc \in HoldsPermit <=> call[d].pc \in HoldsPermit
               /\ Inside(d)' => Inside(d)
    PROVE  GatesOK'
<1> USE DEF GatesOK, limiterVars
<1>1. LimiterTypeOK'
  BY DEF LimiterTypeOK
<1>2. PermitsCounted'
  BY SameHolders DEF PermitsCounted
<1>3. RowsAreFresh'
  BY DEF RowsAreFresh, OwnRow, Own
<1>4. QED
  BY <1>1, <1>2, <1>3

(* A permit given back is one that was held.                               *)
LEMMA PermitReturned ==
    ASSUME ModelCallTypeOK, PermitsCounted, NEW c \in Callers,
           call[c].pc \in HoldsPermit, GivePermit(c),
           call'[c].pc \notin HoldsPermit,
           \A d \in Callers \ {c} : call'[d] = call[d]
    PROVE  taken' \in [Processes -> 0..MaxConcurrent] /\ PermitsCounted'
<1> DEFINE p == ProcessOf[c]
<1>1. p \in Processes
  BY Numbers
<1>2. taken' = [taken EXCEPT ![p] = @ - 1]
  BY DEF GivePermit
<1>3. Holders(p)' = Holders(p) \ {c} /\ c \in Holders(p)
  BY DEF Holders
<1>4. \A q \in Processes \ {p} : Holders(q)' = Holders(q)
  BY DEF Holders
<1>5. /\ IsFiniteSet(Holders(p)')
      /\ Cardinality(Holders(p)') = Cardinality(Holders(p)) - 1
      /\ Cardinality(Holders(p)') \in Nat
  BY <1>1, <1>3, FS_RemoveElement, FS_CardinalityType DEF PermitsCounted
<1>6. taken'[p] = Cardinality(Holders(p)') /\ taken'[p] \in 0..MaxConcurrent
  BY <1>1, <1>2, <1>5, LimiterAssumption
     DEF PermitsCounted, LimiterTypeOK, ModelCallTypeOK
<1>7. \A q \in Processes \ {p} : taken'[q] = taken[q]
  BY <1>2 DEF LimiterTypeOK, ModelCallTypeOK
<1>8. taken' \in [Processes -> 0..MaxConcurrent]
  BY <1>2, <1>6, <1>7 DEF LimiterTypeOK, ModelCallTypeOK
<1>9. QED
  BY <1>4, <1>5, <1>6, <1>7, <1>8 DEF PermitsCounted

(* A caller that leaves takes no row but its own with it.                  *)
LEMMA OthersKeepRows ==
    ASSUME RowsAreFresh, NEW c \in Callers, UNCHANGED <<gone, late>>,
           ~Inside(c)', \A d \in Callers \ {c} : call'[d] = call[d],
           \A s \in Slot : ~Own(c, s) => slots'[s] = slots[s]
    PROVE  RowsAreFresh'
<1> SUFFICES ASSUME NEW d \in Callers, Inside(d)', d \notin late'
             PROVE  OwnRow(d)'
  BY DEF RowsAreFresh
<1>1. d # c /\ Inside(d) /\ d \notin late
  BY DEF Inside, Running
<1>2. PICK s \in Slot : Own(d, s) /\ ~slots[s].lapsed
  BY <1>1 DEF RowsAreFresh, OwnRow
<1>3. ~Own(c, s)
  BY <1>1, <1>2 DEF Own
<1>4. QED
  BY <1>2, <1>3 DEF OwnRow, Own

(* The finally clause gives back what the caller holds, and nothing else.  *)
LEMMA LeaveGates ==
    ASSUME ModelCallTypeOK, GatesOK, NEW c \in Callers,
           call[c].pc \in HoldsPermit,
           NEW pc \in {"idle", "stopped"}, Leave(c, pc)
    PROVE  GatesOK'
<1> USE DEF GatesOK
<1>1. call' = [call EXCEPT ![c] = Quiet(pc, 0)] /\ gone' = gone
      /\ late' = late
  BY DEF Leave
<1>2. /\ call'[c].pc = pc
      /\ \A d \in Callers \ {c} : call'[d] = call[d]
  BY <1>1 DEF ModelCallTypeOK, Quiet
<1>3. taken' \in [Processes -> 0..MaxConcurrent] /\ PermitsCounted'
  BY <1>2, PermitReturned DEF HoldsPermit, Leave
<1>4. /\ slots' \in [Slot -> Row \union {Free}] /\ mishaps' \in 0..MaxMishaps
      /\ \A s \in Slot : ~Own(c, s) => slots'[s] = slots[s]
  <2>1. CASE GiveSlot(c) /\ UNCHANGED mishaps
    BY <2>1 DEF GiveSlot, LimiterTypeOK
  <2>2. CASE GiveSlotFails(c)
    <3>1. \A s \in Slot : Own(c, s) =>
              slots[s] \in Row /\ [slots[s] EXCEPT !.held = FALSE] \in Row
      BY DEF LimiterTypeOK, Own, Row
    <3>2. slots' \in [Slot -> Row \union {Free}]
      BY <2>2, <3>1 DEF GiveSlotFails, LimiterTypeOK
    <3>3. mishaps' \in 0..MaxMishaps
      BY <2>2, LimiterAssumption DEF GiveSlotFails, LimiterTypeOK
    <3>4. QED
      BY <2>2, <3>2, <3>3 DEF GiveSlotFails
  <2>3. QED
    BY <2>1, <2>2 DEF Leave
<1>5. RowsAreFresh'
  BY <1>1, <1>2, <1>4, OthersKeepRows DEF Inside
<1>6. QED
  BY <1>1, <1>3, <1>4, <1>5 DEF LimiterTypeOK

(* A failed attempt stays inside or leaves.                                *)
LEMMA FailGates ==
    ASSUME ModelCallTypeOK, GatesOK, NEW c \in Callers, Running(c),
           call[c].pc \in {"first", "repair", "reply"},
           NEW transient \in BOOLEAN, Fail(c, transient)
    PROVE  GatesOK'
<1>1. CASE Leave(c, "stopped")
  BY <1>1, LeaveGates DEF HoldsPermit
<1>2. CASE /\ call' = [call EXCEPT ![c] = Quiet("send", call[c].try + 1)]
           /\ UNCHANGED limiterVars
  <2>1. call'[c].pc = "send" /\ \A d \in Callers \ {c} : call'[d] = call[d]
    BY <1>2 DEF ModelCallTypeOK, Quiet
  <2>2. QED
    BY <1>2, <2>1, GatesUndisturbed
       DEF HoldsPermit, Inside, Running, limiterVars
<1>3. QED
  BY <1>1, <1>2 DEF Fail

(* semaforo.acquire: one more permit, held by the caller.                  *)
LEMMA PermitGates ==
    ASSUME ModelCallTypeOK, GatesOK, NEW c \in Callers, Permit(c)
    PROVE  GatesOK'
<1> DEFINE p == ProcessOf[c]
<1> USE DEF GatesOK
<1>1. p \in Processes
  BY Numbers
<1>2. /\ call'[c].pc = "slot" /\ call[c].pc = "permit"
      /\ \A d \in Callers \ {c} : call'[d] = call[d]
  BY DEF Permit, At, GoTo, ModelCallTypeOK, Call
<1>3. taken[p] < MaxConcurrent /\ taken' = [taken EXCEPT ![p] = @ + 1]
  BY DEF Permit, TakePermit, PermitLeft
<1>4. Holders(p)' = Holders(p) \union {c} /\ c \notin Holders(p)
  BY <1>2 DEF Holders, HoldsPermit
<1>5. \A q \in Processes \ {p} : Holders(q)' = Holders(q)
  BY <1>2 DEF Holders
<1>6. /\ IsFiniteSet(Holders(p)')
      /\ Cardinality(Holders(p)') = Cardinality(Holders(p)) + 1
  BY <1>1, <1>4, FS_AddElement DEF PermitsCounted
<1>7. taken'[p] = Cardinality(Holders(p)') /\ taken'[p] \in 0..MaxConcurrent
  BY <1>1, <1>3, <1>6, LimiterAssumption DEF PermitsCounted, LimiterTypeOK
<1>8. \A q \in Processes \ {p} : taken'[q] = taken[q]
  BY <1>3 DEF LimiterTypeOK
<1>9. taken' \in [Processes -> 0..MaxConcurrent]
  BY <1>3, <1>7, <1>8 DEF LimiterTypeOK
<1>10. PermitsCounted'
  BY <1>5, <1>6, <1>7, <1>8 DEF PermitsCounted
<1>11. RowsAreFresh'
  BY <1>2 DEF RowsAreFresh, OwnRow, Own, Inside, Running, Permit
<1>12. QED
  BY <1>9, <1>10, <1>11 DEF LimiterTypeOK, Permit

(* acquire: the caller gets a row that nobody inside in time relied on.    *)
LEMMA AcquireGates ==
    ASSUME ModelCallTypeOK, GatesOK, NEW c \in Callers, Acquire(c)
    PROVE  GatesOK'
<1> DEFINE s0 == CHOOSE s \in FreeSlots : \A t \in FreeSlots : s <= t
           mine == [by |-> c, held |-> TRUE, lapsed |-> FALSE]
<1> USE DEF GatesOK
<1>1. s0 \in FreeSlots /\ s0 \in Slot
  BY LowestSlot DEF Acquire, TakeSlot, FreeSlots
<1>2. slots' = [Cleaned EXCEPT ![s0] = mine] /\ late' = late \ {c}
      /\ UNCHANGED <<taken, gone, mishaps>>
  BY DEF Acquire, TakeSlot
<1>3. Cleaned \in [Slot -> Row \union {Free}] /\ mine \in Row
  BY DEF Cleaned, LimiterTypeOK, Row
<1>4. LimiterTypeOK'
  BY <1>1, <1>2, <1>3 DEF LimiterTypeOK
<1>5. /\ call[c].pc = "slot" /\ call'[c].pc = "send"
      /\ \A d \in Callers \ {c} : call'[d] = call[d]
  BY DEF Acquire, At, ModelCallTypeOK, Quiet
<1>6. PermitsCounted'
  BY <1>2, <1>5, SameHolders DEF PermitsCounted, HoldsPermit
<1>7. RowsAreFresh'
  <2> SUFFICES ASSUME NEW d \in Callers, Inside(d)', d \notin late'
               PROVE  OwnRow(d)'
    BY DEF RowsAreFresh
  <2>1. mine # Free /\ mine.by = c /\ mine.held /\ ~mine.lapsed
    BY <1>3, LimiterAssumption DEF Row
  <2>2. CASE d = c
    <3>1. slots'[s0] = mine
      BY <1>1, <1>2, <1>3
    <3>2. QED
      BY <1>1, <2>1, <2>2, <3>1 DEF OwnRow, Own
  <2>3. CASE d # c
    <3>1. Inside(d) /\ d \notin late
      BY <1>2, <1>5, <2>3 DEF Inside, Running
    <3>2. PICK s \in Slot : Own(d, s) /\ ~slots[s].lapsed
      BY <3>1 DEF RowsAreFresh, OwnRow
    <3>3. Cleaned[s] = slots[s] /\ slots[s] # Free
      BY <3>1, <3>2 DEF Cleaned, Stale, Own, Inside
    <3>4. s # s0
      BY <1>1, <3>3 DEF FreeSlots
    <3>5. slots'[s] = slots[s]
      BY <1>2, <1>3, <3>3, <3>4
    <3>6. QED
      BY <3>2, <3>5 DEF OwnRow, Own
  <2>4. QED
    BY <2>2, <2>3
<1>8. QED
  BY <1>4, <1>6, <1>7

(* Time and the operating system: a row of a caller in time is held.       *)
LEMMA MishapGates ==
    ASSUME GatesOK, UNCHANGED callVars,
           \/ \E s \in Slot : Lapse(s)
           \/ \E p \in Processes : Kill(p)
    PROVE  GatesOK'
<1> USE DEF GatesOK, callVars
<1>1. PermitsCounted'
  BY SameHolders DEF PermitsCounted, Lapse, LapseLeft, LapseHeld, Kill
<1>2. CASE \E p \in Processes : Kill(p)
  <2>1. PICK p \in Processes : Kill(p)
    BY <1>2
  <2>2. LimiterTypeOK'
    BY <2>1, LimiterAssumption DEF Kill, LimiterTypeOK
  <2>3. RowsAreFresh'
    BY <2>1 DEF Kill, RowsAreFresh, OwnRow, Own, Inside, Running
  <2>4. QED
    BY <1>1, <2>2, <2>3
<1>3. CASE \E s \in Slot : Lapse(s)
  <2>1. PICK s \in Slot : Lapse(s)
    BY <1>3
  <2>2. /\ slots' = [slots EXCEPT ![s].lapsed = TRUE]
        /\ slots[s] \in Row /\ gone' = gone /\ taken' = taken
    BY <2>1 DEF Lapse, LapseLeft, LapseHeld, LimiterTypeOK
  <2>3. slots' \in [Slot -> Row \union {Free}]
    BY <2>2 DEF LimiterTypeOK, Row
  <2>4. late' \in SUBSET Callers /\ mishaps' \in 0..MaxMishaps
    BY <2>1, <2>2, LimiterAssumption
       DEF Lapse, LapseLeft, LapseHeld, LimiterTypeOK, Row
  <2>5. RowsAreFresh'
    <3> SUFFICES ASSUME NEW d \in Callers, Inside(d)', d \notin late'
                 PROVE  OwnRow(d)'
      BY DEF RowsAreFresh
    <3>1. Inside(d) /\ d \notin late
      BY <2>1, <2>2 DEF Lapse, LapseLeft, LapseHeld, Inside, Running
    <3>2. PICK t \in Slot : Own(d, t) /\ ~slots[t].lapsed
      BY <3>1 DEF RowsAreFresh, OwnRow
    <3>3. t # s
      BY <2>1, <3>2 DEF Lapse, LapseLeft, LapseHeld, Own
    <3>4. slots'[t] = slots[t]
      BY <2>2, <3>3 DEF LimiterTypeOK
    <3>5. QED
      BY <3>2, <3>4 DEF OwnRow, Own
  <2>6. QED
    BY <1>1, <2>2, <2>3, <2>4, <2>5 DEF LimiterTypeOK
<1>4. QED
  BY <1>2, <1>3

(* Every step of a caller or of the Adapter.                               *)
LEMMA StepGates ==
    ASSUME ModelCallTypeOK, GatesOK, NEW c \in Callers,
           ClientStep(c) \/ AdapterStep(c) \/ Timeout(c) \/ Dropped(c)
    PROVE  GatesOK'
<1> DEFINE Aside == /\ UNCHANGED limiterVars
                    /\ \A d \in Callers :
                         /\ call'[d].pc \in HoldsPermit
                              <=> call[d].pc \in HoldsPermit
                         /\ Inside(d)' => Inside(d)
<1> USE DEF ModelCallTypeOK, Call, At, GoTo, Quiet
<1>a. Aside => GatesOK'
  BY GatesUndisturbed
<1>1. CASE Begin(c) \/ PermitTimeout(c)
  <2>1. /\ call[c].pc \in {"idle", "permit"}
        /\ call'[c].pc \in {"permit", "stopped"}
        /\ \A d \in Callers \ {c} : call'[d] = call[d]
        /\ UNCHANGED limiterVars
    BY <1>1 DEF Begin, PermitTimeout
  <2>2. QED
    BY <2>1, <1>a DEF HoldsPermit, Inside, Running, limiterVars
<1>2. CASE Permit(c)
  BY <1>2, PermitGates
<1>3. CASE Acquire(c)
  BY <1>3, AcquireGates
<1>4. CASE Send(c)
  BY <1>4, <1>a DEF Send, HoldsPermit, Inside, Running, limiterVars
<1>5. CASE SendRefused(c)
  BY <1>5, LeaveGates DEF SendRefused, HoldsPermit
<1>6. CASE Receive(c)
  <2>1. call[c].pc \in HoldsPermit
    BY <1>6 DEF Receive, HoldsPermit
  <2>2. \E pc \in {"idle", "stopped"} : Leave(c, pc)
    BY <1>6 DEF Receive
  <2>3. QED
    BY <2>1, <2>2, LeaveGates
<1>7. CASE ReceiveMalformed(c)
  BY <1>7, LeaveGates DEF ReceiveMalformed, HoldsPermit
<1>8. CASE ReceiveError(c)
  BY <1>8, FailGates DEF ReceiveError, Transient
<1>9. CASE AdapterStep(c)
  <2>1. /\ call[c].pc \in {"first", "repair"}
        /\ UNCHANGED limiterVars
    BY <1>9 DEF AdapterStep, Generate, Refuse, Lose, AtAdapter
  <2>2. /\ call'[c].pc \in {"repair", "reply"}
        /\ \A d \in Callers \ {c} : call'[d] = call[d]
    <3>1. CASE Generate(c)
      <4>1. PICK p, k, told, form :
                call' = [call EXCEPT ![c] =
                            Answered(call[c], p, k, told, form)]
        BY <3>1 DEF Generate
      <4>2. Answered(call[c], p, k, told, form).pc \in {"repair", "reply"}
        BY DEF Answered
      <4>3. QED
        BY <4>1, <4>2
    <3>2. CASE Refuse(c) \/ Lose(c)
      BY <3>2 DEF Refuse, Lose, Reply
    <3>3. QED
      BY <1>9, <3>1, <3>2 DEF AdapterStep
  <2>3. QED
    BY <2>1, <2>2, <1>a DEF HoldsPermit, Inside, Running, limiterVars
<1>10. CASE SlotTimeout(c)
  <2>1. /\ call[c].pc = "slot" /\ call'[c].pc = "stopped"
        /\ \A d \in Callers \ {c} : call'[d] = call[d]
    BY <1>10 DEF SlotTimeout
  <2>2. taken' \in [Processes -> 0..MaxConcurrent] /\ PermitsCounted'
    BY <1>10, <2>1, PermitReturned DEF SlotTimeout, HoldsPermit, GatesOK
  <2>3. RowsAreFresh'
    BY <1>10, <2>1, OthersKeepRows DEF SlotTimeout, Inside, GatesOK
  <2>4. QED
    BY <1>10, <2>2, <2>3 DEF SlotTimeout, GatesOK, LimiterTypeOK
<1>11. CASE ReadTimeout(c) \/ Dropped(c)
  BY <1>11, FailGates, ModelCallAssumption, ZenonT(240)
     DEF ReadTimeout, Dropped, AtAdapter
<1>12. QED
  BY <1>1, <1>2, <1>3, <1>4, <1>5, <1>6, <1>7, <1>8, <1>9, <1>10, <1>11
     DEF ClientStep, Timeout

LEMMA NextGates ==
    ASSUME ModelCallTypeOK, GatesOK, [ModelCallNext]_allVars
    PROVE  GatesOK'
<1>1. CASE UNCHANGED allVars
  BY <1>1, GatesUndisturbed
     DEF allVars, callVars, limiterVars, Inside, Running
<1>2. CASE ModelCallNext
  BY <1>2, StepGates, MishapGates DEF ModelCallNext
<1>3. QED
  BY <1>1, <1>2
-------------------------------------------------------------------------------
(* The callers' part of the types.                                         *)
CallerTypes ==
    /\ call \in [Callers -> Call]
    /\ used \in [Callers -> Nat] /\ unknown \in [Callers -> BOOLEAN]
    /\ done \in [Callers -> Nat] /\ debt \in [Callers -> Int]
    /\ paid \in [Callers -> Nat]

(* A step writes one entry of each ledger, or none.                        *)
OneEntry(c, r, u, k, n, b, p) ==
    /\ call' = [call EXCEPT ![c] = r]
    /\ used' = [used EXCEPT ![c] = u] /\ unknown' = [unknown EXCEPT ![c] = k]
    /\ done' = [done EXCEPT ![c] = n] /\ debt' = [debt EXCEPT ![c] = b]
    /\ paid' = [paid EXCEPT ![c] = p]

(* What Books says of the entry that is written.                           *)
EntryOK(c, r, u, b, p) ==
    /\ r.pc = "first" => r.seen = 0 /\ r.cap >= 1 /\ u + r.cap + Estimate = Limit[c]
    /\ r.pc = "repair" =>
          r.cap >= 1 /\ u + r.seen + r.cap + Estimate <= Limit[c] + MaxPrompt
    /\ r.pc = "reply" => u + r.seen <= Limit[c] + Slack
    /\ u <= Limit[c] + Slack
    /\ b >= r.seen
    /\ p <= 1 /\ (r.pc \in OnItsWay => p = 0)

(* One entry in order keeps all of them in order.                          *)
LEMMA EntryKeepsBooks ==
    ASSUME CallerTypes, BooksOK, NEW c \in Callers,
           NEW r \in Call, NEW u \in Nat, NEW k \in BOOLEAN, NEW n \in Nat,
           NEW b \in Int, NEW p \in Nat,
           OneEntry(c, r, u, k, n, b, p), EntryOK(c, r, u, b, p)
    PROVE  CallerTypes' /\ BooksOK'
<1>1. CallerTypes'
  BY DEF CallerTypes, OneEntry
<1>2. /\ call'[c] = r /\ used'[c] = u /\ debt'[c] = b /\ paid'[c] = p
      /\ \A d \in Callers \ {c} :
            /\ call'[d] = call[d] /\ used'[d] = used[d]
            /\ debt'[d] = debt[d] /\ paid'[d] = paid[d]
  BY DEF CallerTypes, OneEntry
<1>3. Books(c)'
  BY <1>2 DEF EntryOK, Books, WithinCeiling, SeenIsBilled, NothingPaidYet
<1>4. \A d \in Callers \ {c} : Books(d)'
  BY <1>2 DEF BooksOK, Books, WithinCeiling, SeenIsBilled, NothingPaidYet
<1>5. QED
  BY <1>1, <1>3, <1>4 DEF BooksOK

(* The record of a caller after its call, and after an attempt.            *)
LEMMA QuietRecord ==
    ASSUME NEW pc \in {"idle", "stopped", "send"}, NEW n \in 0..Tries
    PROVE  /\ Quiet(pc, n) \in Call
           /\ Quiet(pc, n).pc = pc /\ Quiet(pc, n).seen = 0
  BY DEF Quiet, Call

LEMMA LeaveEntry ==
    ASSUME NEW c \in Callers, NEW pc \in {"idle", "stopped"}, Leave(c, pc)
    PROVE  /\ done' = done
           /\ \E r \in Call : /\ call' = [call EXCEPT ![c] = r]
                              /\ r.pc = pc /\ r.seen = 0
<1>1. 0 \in 0..Tries
  BY ModelCallAssumption
<1>2. QED
  BY <1>1, QuietRecord, ZenonT(240) DEF Leave

LEMMA FailEntry ==
    ASSUME CallerTypes, NEW c \in Callers, NEW transient \in BOOLEAN,
           Fail(c, transient)
    PROVE  /\ done' = done
           /\ \E r \in Call : /\ call' = [call EXCEPT ![c] = r]
                              /\ r.pc \in {"send", "stopped"} /\ r.seen = 0
                              /\ ~transient => r.pc = "stopped"
<1>1. CASE Leave(c, "stopped")
  BY <1>1, LeaveEntry
<1>2. CASE ~Leave(c, "stopped")
  <2> DEFINE r == Quiet("send", call[c].try + 1)
  <2>1. transient /\ call[c].try < Tries
    BY <1>2 DEF Fail
  <2>2. call[c].try + 1 \in 0..Tries
    BY <2>1, ModelCallAssumption DEF Call, CallerTypes
  <2>3. r \in Call /\ r.pc = "send" /\ r.seen = 0
    BY <2>2, QuietRecord
  <2>4. call' = [call EXCEPT ![c] = r] /\ done' = done
    BY <1>2 DEF Fail
  <2>5. QED
    BY <2>1, <2>3, <2>4
<1>3. QED
  BY <1>1, <1>2

(* A generation is paid for out of the ceiling, but for its prompt.        *)
LEMMA GenerateBooks ==
    ASSUME CallerTypes, BooksOK, NEW c \in Callers, Generate(c)
    PROVE  CallerTypes' /\ BooksOK'
<1> DEFINE m == call[c]
<1>1. PICK p \in Prompts, k \in Lengths(m.cap), told \in BOOLEAN,
           form \in {"fits", "misfit", "cut", "malformed"} :
           /\ call' = [call EXCEPT ![c] = Answered(m, p, k, told, form)]
           /\ Bill(c, IF told THEN p + k ELSE 1)
  BY ZenonT(240) DEF Generate
<1> DEFINE again == Again(m, k, told, form)
           cap  == IF again THEN m.cap - k ELSE m.cap
           seen == IF told THEN m.seen + p + k ELSE m.seen
           r == Answered(m, p, k, told, form)
           b == debt[c] + (IF told THEN p + k ELSE 1)
<1>2. /\ m.pc \in {"first", "repair"} /\ m.cap \in Nat /\ m.cap >= 1
      /\ m.seen \in Nat /\ used[c] \in Nat /\ debt[c] \in Int /\ m \in Call
      /\ Books(c)
  BY DEF Generate, AtAdapter, CallerTypes, Call, BooksOK, Books, WithinCeiling
<1>3. p \in Nat /\ p <= MaxPrompt /\ k \in Nat /\ k <= m.cap
  BY <1>2, Numbers DEF Prompts, Lengths
<1>4. cap \in Nat /\ seen \in Nat
  BY <1>2, <1>3 DEF Again
<1>5. /\ r \in Call
      /\ r.pc = (IF again THEN "repair" ELSE "reply")
      /\ r.cap = cap /\ r.seen = seen
  BY <1>2, <1>4, ZenonT(240) DEF Call, Answered, Again
<1>6. OneEntry(c, r, used[c], unknown[c], done[c], b, paid[c])
  <2>1. /\ used' = [used EXCEPT ![c] = used[c]]
        /\ unknown' = [unknown EXCEPT ![c] = unknown[c]]
        /\ done' = [done EXCEPT ![c] = done[c]]
        /\ paid' = [paid EXCEPT ![c] = paid[c]]
    BY DEF Generate, CallerTypes
  <2>2. QED
    BY <1>1, <2>1 DEF OneEntry, Bill
<1>7. EntryOK(c, r, used[c], b, paid[c])
  <2>1. r.pc = "repair" => /\ r.cap >= 1
                           /\ used[c] + r.seen + r.cap + Estimate
                                <= Limit[c] + MaxPrompt
    BY <1>2, <1>3, <1>5, Numbers DEF Again, Books, WithinCeiling
  <2>2. CASE m.pc = "first"
    <3>1. used[c] + m.cap + Estimate = Limit[c] /\ m.seen = 0
      BY <1>2, <2>2 DEF Books, WithinCeiling
    <3>2. used[c] + r.seen <= Limit[c] + Slack
      BY <1>2, <1>3, <1>5, <3>1, Numbers
    <3>3. QED
      BY <1>2, <1>3, <1>5, <2>1, <2>2, <3>2, Numbers
         DEF Again, Books, WithinCeiling, SeenIsBilled, NothingPaidYet, EntryOK,
             OnItsWay
  <2>3. CASE m.pc = "repair"
    BY <1>2, <1>3, <1>5, <2>1, <2>3, Numbers
       DEF Again, Books, WithinCeiling, SeenIsBilled, NothingPaidYet, EntryOK,
           OnItsWay
  <2>4. QED
    BY <1>2, <2>2, <2>3
<1>8. b \in Int
  BY <1>2, <1>3
<1>9. QED
  <2>1. /\ used[c] \in Nat /\ unknown[c] \in BOOLEAN /\ done[c] \in Nat
        /\ paid[c] \in Nat
    BY DEF CallerTypes
  <2>2. QED
    BY <1>5, <1>6, <1>7, <1>8, <2>1, EntryKeepsBooks, Zenon

(* A step that counts nothing, and may leave a debt.                       *)
Moves(c, r, n) ==
    /\ call' = [call EXCEPT ![c] = r]
    /\ debt' = [debt EXCEPT ![c] = @ + n]
    /\ UNCHANGED <<used, unknown, done, paid>>

MoveOK(c, r) ==
    /\ r \in Call
    /\ r.seen <= call[c].seen
    /\ r.pc \in OnItsWay => call[c].pc \in OnItsWay
    /\ r.pc = "first" => /\ r.seen = 0 /\ r.cap >= 1
                         /\ used[c] + r.cap + Estimate = Limit[c]
    /\ r.pc = "reply" => call[c].pc \in {"first", "repair"}
    /\ r.pc # "repair"

LEMMA MoveKeepsBooks ==
    ASSUME CallerTypes, BooksOK, NEW c \in Callers, NEW r, NEW n \in {0, 1},
           Moves(c, r, n), MoveOK(c, r)
    PROVE  CallerTypes' /\ BooksOK'
<1> USE DEF Moves, MoveOK
<1> DEFINE b == debt[c] + n
<1>1. /\ used[c] \in Nat /\ unknown[c] \in BOOLEAN /\ done[c] \in Nat
      /\ debt[c] \in Int /\ paid[c] \in Nat /\ b \in Int
      /\ call[c] \in Call /\ call[c].cap \in Nat /\ call[c].seen \in Nat
      /\ r.seen \in Nat /\ Books(c)
  BY DEF CallerTypes, BooksOK, Call
<1>2. OneEntry(c, r, used[c], unknown[c], done[c], b, paid[c])
  BY DEF OneEntry, CallerTypes
<1>3. r.pc = "reply" => used[c] + r.seen <= Limit[c] + Slack
  BY <1>1, Numbers DEF Books, WithinCeiling
<1>4. EntryOK(c, r, used[c], b, paid[c])
  BY <1>1, <1>3
     DEF EntryOK, Books, WithinCeiling, SeenIsBilled, NothingPaidYet
<1>5. QED
  BY <1>1, <1>2, <1>4, EntryKeepsBooks, Zenon

(* The gates and the timeouts of the client.                               *)
LEMMA GateBooks ==
    ASSUME CallerTypes, BooksOK, NEW c \in Callers,
           \/ Permit(c) \/ PermitTimeout(c) \/ Acquire(c) \/ SlotTimeout(c)
           \/ Send(c) \/ SendRefused(c) \/ ReceiveMalformed(c)
    PROVE  CallerTypes' /\ BooksOK'
<1>0. /\ UNCHANGED <<used, unknown, done, paid>>
      /\ call[c] \in Call /\ call[c].seen \in Nat /\ call[c].try \in 0..Tries
  BY LeaveEntry DEF Permit, PermitTimeout, Acquire, SlotTimeout, Send,
        SendRefused, ReceiveMalformed, CallerTypes, Call, ledgerVars
<1>1. debt' = [debt EXCEPT ![c] = @ + 0]
  <2>1. debt' = debt
    BY DEF Permit, PermitTimeout, Acquire, SlotTimeout, Send, SendRefused,
           ReceiveMalformed, ledgerVars
  <2>2. QED
    BY <2>1 DEF CallerTypes
<1>2. CASE Permit(c) \/ PermitTimeout(c) \/ SlotTimeout(c)
  <2>1. PICK pc \in {"slot", "stopped"} :
            /\ call' = [call EXCEPT ![c] = [call[c] EXCEPT !.pc = pc]]
            /\ pc = "slot" => call[c].pc = "permit"
    BY <1>2 DEF Permit, PermitTimeout, SlotTimeout, GoTo, At
  <2> DEFINE r == [call[c] EXCEPT !.pc = pc]
  <2>2. r \in Call /\ r.pc = pc /\ r.seen = call[c].seen
    BY <1>0 DEF Call
  <2>3. Moves(c, r, 0) /\ MoveOK(c, r)
    BY <1>0, <1>1, <2>1, <2>2 DEF Moves, MoveOK, OnItsWay
  <2>4. QED
    BY <2>3, MoveKeepsBooks
<1>3. CASE Acquire(c)
  <2>1. /\ Quiet("send", 1) \in Call
        /\ Quiet("send", 1).pc = "send" /\ Quiet("send", 1).seen = 0
    BY ModelCallAssumption, QuietRecord
  <2>2. call[c].pc = "slot" /\ call' = [call EXCEPT ![c] = Quiet("send", 1)]
    BY <1>3 DEF Acquire, At
  <2>3. Moves(c, Quiet("send", 1), 0) /\ MoveOK(c, Quiet("send", 1))
    BY <1>0, <1>1, <2>1, <2>2 DEF Moves, MoveOK, OnItsWay
  <2>4. QED
    BY <2>3, MoveKeepsBooks
<1>4. CASE Send(c)
  <2> DEFINE r == [Quiet("first", call[c].try) EXCEPT !.cap = Ceiling(c)]
  <2>1. Ceiling(c) \in Nat /\ Ceiling(c) >= 1
        /\ used[c] + Ceiling(c) + Estimate = Limit[c]
    BY <1>4, Numbers DEF Send, Ceiling, CallerTypes
  <2>2. /\ r \in Call /\ r.pc = "first" /\ r.seen = 0
        /\ r.cap = Ceiling(c)
    BY <1>0, <2>1 DEF Quiet, Call
  <2>3. call[c].pc = "send" /\ call' = [call EXCEPT ![c] = r]
    BY <1>4 DEF Send, At
  <2>4. Moves(c, r, 0) /\ MoveOK(c, r)
    BY <1>0, <1>1, <2>1, <2>2, <2>3 DEF Moves, MoveOK, OnItsWay
  <2>5. QED
    BY <2>4, MoveKeepsBooks
<1>5. CASE SendRefused(c) \/ ReceiveMalformed(c)
  <2>1. PICK r \in Call : /\ call' = [call EXCEPT ![c] = r]
                          /\ r.pc = "stopped" /\ r.seen = 0
    BY <1>5, LeaveEntry DEF SendRefused, ReceiveMalformed
  <2>2. Moves(c, r, 0) /\ MoveOK(c, r)
    BY <1>0, <1>1, <2>1 DEF Moves, MoveOK, OnItsWay
  <2>3. QED
    BY <2>2, MoveKeepsBooks
<1>6. QED
  BY <1>2, <1>3, <1>4, <1>5

(* An answer that is no generation, and an answer that does not come.      *)
LEMMA LossBooks ==
    ASSUME CallerTypes, BooksOK, NEW c \in Callers,
           Refuse(c) \/ Lose(c) \/ Dropped(c) \/ ReadTimeout(c)
    PROVE  CallerTypes' /\ BooksOK'
<1>0. /\ call[c].pc \in {"first", "repair"} /\ UNCHANGED <<used, unknown, paid>>
      /\ call[c] \in Call /\ call[c].seen \in Nat
  BY DEF Refuse, Lose, Dropped, ReadTimeout, AtAdapter, CallerTypes, Call
<1>1. PICK n \in {0, 1} : debt' = [debt EXCEPT ![c] = @ + n]
  <2>1. UNCHANGED debt => debt' = [debt EXCEPT ![c] = @ + 0]
    BY DEF CallerTypes
  <2>2. QED
    BY <2>1 DEF Refuse, Lose, Dropped, ReadTimeout, MayBill, Bill
<1>2. CASE Refuse(c) \/ Lose(c)
  <2>1. PICK how \in {"refused", "denied", "timeout", "connect"},
             risk \in BOOLEAN : Reply(c, how, risk)
    BY <1>2 DEF Refuse, Lose
  <2> DEFINE r == [call[c] EXCEPT !.pc = "reply", !.how = how, !.risk = risk]
  <2>2. r \in Call /\ r.pc = "reply" /\ r.seen = call[c].seen
    BY <1>0 DEF Call
  <2>3. call' = [call EXCEPT ![c] = r]
    BY <2>1 DEF Reply, CallerTypes, Call
  <2>4. done' = done
    BY <1>2 DEF Refuse, Lose
  <2>5. Moves(c, r, n) /\ MoveOK(c, r)
    BY <1>0, <1>1, <2>2, <2>3, <2>4 DEF Moves, MoveOK, OnItsWay
  <2>6. QED
    BY <2>5, MoveKeepsBooks
<1>3. CASE Dropped(c) \/ ReadTimeout(c)
  <2>1. PICK transient \in BOOLEAN : Fail(c, transient)
    BY <1>3, ModelCallAssumption DEF Dropped, ReadTimeout
  <2>2. PICK r \in Call : /\ call' = [call EXCEPT ![c] = r]
                          /\ r.pc \in {"send", "stopped"} /\ r.seen = 0
    BY <2>1, FailEntry
  <2>3. done' = done
    BY <2>1, FailEntry
  <2>4. Moves(c, r, n) /\ MoveOK(c, r)
    BY <1>0, <1>1, <2>2, <2>3 DEF Moves, MoveOK, OnItsWay
  <2>5. QED
    BY <2>4, MoveKeepsBooks
<1>4. QED
  BY <1>2, <1>3

(* A request that is accounted for pays for its call at most once: before  *)
(* it nothing was paid, and if it paid the call is over.                   *)
LEMMA AccountBooks ==
    ASSUME CallerTypes, BooksOK, NEW c \in Callers, NEW r \in Call,
           NEW k \in BOOLEAN,
           call[c].pc = "reply", Account(c),
           call' = [call EXCEPT ![c] = r], done' = done,
           unknown' = [unknown EXCEPT ![c] = k],
           r.pc \in {"idle", "stopped", "send"}, r.seen = 0,
           r.pc = "send" => ~Told(c)
    PROVE  CallerTypes' /\ BooksOK'
<1> DEFINE u == used[c] + call[c].seen
           b == debt[c] - call[c].seen
           p == paid[c] + (IF Told(c) THEN 1 ELSE 0)
<1>1. /\ used[c] \in Nat /\ done[c] \in Nat /\ debt[c] \in Int
      /\ paid[c] \in Nat /\ call[c].seen \in Nat /\ call[c].told \in BOOLEAN
      /\ Books(c)
  BY DEF CallerTypes, BooksOK, Call
<1>2. u \in Nat /\ b \in Int /\ p \in Nat
  BY <1>1
<1>3. OneEntry(c, r, u, k, done[c], b, p)
  BY DEF OneEntry, CallerTypes, Account
<1>4. paid[c] = 0 /\ u <= Limit[c] + Slack /\ b >= 0
  BY <1>1 DEF Books, WithinCeiling, SeenIsBilled, NothingPaidYet, OnItsWay
<1>5. EntryOK(c, r, u, b, p)
  BY <1>1, <1>2, <1>4 DEF EntryOK, OnItsWay
<1>6. QED
  BY <1>1, <1>2, <1>3, <1>5, EntryKeepsBooks, Zenon

LEMMA ReceiveBooks ==
    ASSUME CallerTypes, BooksOK, NEW c \in Callers,
           Receive(c) \/ ReceiveError(c)
    PROVE  CallerTypes' /\ BooksOK'
<1>1. call[c].pc = "reply" /\ Account(c)
  BY DEF Receive, ReceiveError, At
<1>2. \E k \in BOOLEAN : unknown' = [unknown EXCEPT ![c] = k]
  <2>1. /\ unknown[c] \in BOOLEAN /\ Told(c) \in BOOLEAN
        /\ call[c].risk \in BOOLEAN
    BY DEF CallerTypes, Call, Told
  <2>2. CASE Receive(c)
    BY <2>1, <2>2 DEF Receive
  <2>3. CASE ReceiveError(c)
    BY <2>1, <2>3 DEF ReceiveError
  <2>4. QED
    BY <2>2, <2>3
<1>3. /\ done' = done
      /\ \E r \in Call : /\ call' = [call EXCEPT ![c] = r]
                         /\ r.pc \in {"idle", "stopped", "send"} /\ r.seen = 0
                         /\ r.pc = "send" => ~Told(c)
  <2>1. CASE Receive(c)
    <3>1. PICK pc \in {"idle", "stopped"} : Leave(c, pc)
      BY <2>1 DEF Receive
    <3>2. QED
      BY <3>1, LeaveEntry
  <2>2. CASE ReceiveError(c)
    <3>1. Transient(c) \in BOOLEAN /\ Fail(c, Transient(c))
          /\ (Transient(c) => ~Told(c))
      BY <2>2 DEF ReceiveError, Transient
    <3>2. QED
      BY <3>1, FailEntry
  <2>3. QED
    BY <2>1, <2>2
<1>4. QED
  BY <1>1, <1>2, <1>3, AccountBooks

(* A new call of an execution: nothing of it is paid for.                  *)
LEMMA BeginBooks ==
    ASSUME CallerTypes, BooksOK, NEW c \in Callers, Begin(c)
    PROVE  CallerTypes' /\ BooksOK'
<1>1. PICK pc \in {"permit", "stopped"} :
          call' = [call EXCEPT ![c] = [call[c] EXCEPT !.pc = pc]]
  BY DEF Begin, GoTo
<1> DEFINE r == [call[c] EXCEPT !.pc = pc]
<1>2. /\ used[c] \in Nat /\ unknown[c] \in BOOLEAN /\ debt[c] \in Int
      /\ done[c] + 1 \in Nat /\ 0 \in Nat /\ Books(c) /\ call[c] \in Call
      /\ call[c].seen \in Nat
  BY DEF CallerTypes, BooksOK, Call
<1>3. r \in Call /\ r.pc = pc /\ r.seen = call[c].seen
  BY <1>2 DEF Call
<1>4. OneEntry(c, r, used[c], unknown[c], done[c] + 1, debt[c], 0)
  <2>1. /\ used' = [used EXCEPT ![c] = used[c]]
        /\ unknown' = [unknown EXCEPT ![c] = unknown[c]]
        /\ debt' = [debt EXCEPT ![c] = debt[c]]
    BY DEF Begin, CallerTypes
  <2>2. QED
    BY <1>1, <2>1 DEF OneEntry, Begin
<1>5. EntryOK(c, r, used[c], debt[c], 0)
  BY <1>2, <1>3 DEF EntryOK, Books, WithinCeiling, SeenIsBilled
<1>6. QED
  BY <1>2, <1>3, <1>4, <1>5, EntryKeepsBooks, Zenon

LEMMA NextBooks ==
    ASSUME CallerTypes, BooksOK, [ModelCallNext]_allVars
    PROVE  CallerTypes' /\ BooksOK'
<1>1. CASE UNCHANGED callVars
  BY <1>1 DEF callVars, CallerTypes, BooksOK, Books, WithinCeiling,
              SeenIsBilled, NothingPaidYet
<1>2. ASSUME NEW c \in Callers,
             ClientStep(c) \/ AdapterStep(c) \/ Timeout(c) \/ Dropped(c)
      PROVE  CallerTypes' /\ BooksOK'
  BY <1>2, BeginBooks, GateBooks, GenerateBooks, LossBooks, ReceiveBooks
     DEF ClientStep, AdapterStep, Timeout
<1>3. QED
  BY <1>1, <1>2 DEF ModelCallNext, allVars

-------------------------------------------------------------------------------
LEMMA CallInit == ModelCallInit => CallIInv
<1> SUFFICES ASSUME ModelCallInit PROVE CallIInv
  OBVIOUS
<1>1. 0 \in 0..Tries /\ 0 \in 0..MaxConcurrent /\ 0 \in 0..MaxMishaps
  BY ModelCallAssumption, LimiterAssumption
<1>2. Quiet("idle", 0) \in Call
      /\ Quiet("idle", 0).pc = "idle" /\ Quiet("idle", 0).seen = 0
  BY <1>1, QuietRecord
<1>3. LimiterTypeOK
  BY <1>1 DEF ModelCallInit, LimiterInit, LimiterTypeOK
<1>4. CallerTypes
  BY <1>2 DEF ModelCallInit, CallerTypes
<1>5. \A c \in Callers : call[c].pc = "idle" /\ call[c].seen = 0
  BY <1>2 DEF ModelCallInit
<1>6. PermitsCounted
  <2>1. \A p \in Processes : Holders(p) = {}
    BY <1>5 DEF Holders, HoldsPermit
  <2>2. QED
    BY <2>1, FS_EmptySet DEF PermitsCounted, ModelCallInit, LimiterInit
<1>7. RowsAreFresh
  BY <1>5 DEF RowsAreFresh, Inside
<1>8. BooksOK
  BY <1>5, Numbers DEF BooksOK, Books, WithinCeiling, SeenIsBilled,
                       NothingPaidYet, OnItsWay, ModelCallInit
<1>9. QED
  BY <1>3, <1>4, <1>6, <1>7, <1>8
     DEF CallIInv, GatesOK, ModelCallTypeOK, CallerTypes

LEMMA CallStep == CallIInv /\ [ModelCallNext]_allVars => CallIInv'
<1> SUFFICES ASSUME CallIInv, [ModelCallNext]_allVars PROVE CallIInv'
  OBVIOUS
<1>1. ModelCallTypeOK /\ GatesOK /\ CallerTypes /\ BooksOK
  BY DEF CallIInv, ModelCallTypeOK, CallerTypes
<1>2. GatesOK'
  BY <1>1, NextGates
<1>3. CallerTypes' /\ BooksOK'
  BY <1>1, NextBooks
<1>4. QED
  BY <1>2, <1>3 DEF CallIInv, GatesOK, ModelCallTypeOK, CallerTypes

(* The inductive invariant holds throughout.                               *)
THEOREM CallInvariance == ModelCallSpec => []CallIInv
  BY CallInit, CallStep, PTL DEF ModelCallSpec

(* The ledger of an execution never runs ahead of what the provider billed *)
(* and passes the budget by one request at the most, however many calls,   *)
(* attempts, repairs and timeouts of _chamar_llm there are.                *)
THEOREM LedgerTheorem == ModelCallSpec => []LedgerIsSound
<1>1. CallIInv => LedgerIsSound
  <2> SUFFICES ASSUME CallIInv PROVE LedgerIsSound
    OBVIOUS
  <2>1. \A c \in Callers : debt[c] >= call[c].seen /\ call[c].seen >= 0
                           /\ debt[c] \in Int /\ call[c].seen \in Int
    BY DEF CallIInv, BooksOK, Books, SeenIsBilled, ModelCallTypeOK, Call
  <2>2. QED
    BY <2>1 DEF CallIInv, BooksOK, Books, WithinCeiling, LedgerIsSound,
                NeverCountedTwice, OverrunIsOneRequest
<1>2. QED
  BY <1>1, CallInvariance, PTL

(* No logical call is paid for twice: usage that _adapter_error_contract   *)
(* or an answer reports is the last of its call.                           *)
THEOREM OnePaidTheorem == ModelCallSpec => []OnePaidRequest
<1>1. CallIInv => OnePaidRequest
  BY DEF CallIInv, BooksOK, Books, NothingPaidYet, OnePaidRequest
<1>2. QED
  BY <1>1, CallInvariance, PTL

(* A caller between acquire and release keeps its row while its lease      *)
(* runs, whatever the other processes clean up or release late.            *)
THEOREM SlotTheorem == ModelCallSpec => []SlotIsKept
<1>1. CallIInv => SlotIsKept
  BY DEF CallIInv, GatesOK, RowsAreFresh, OwnRow, SlotIsKept
<1>2. QED
  BY <1>1, CallInvariance, PTL

(* The callers that are inside with a lease that still runs.               *)
InTime == {c \in Callers : Inside(c) /\ c \notin late}

GateHolds == IsFiniteSet(InTime) /\ Cardinality(InTime) <= MaxConcurrent

(* What the table of limiter.py is for: of all processes together, no more *)
(* than MaxConcurrent callers are in front of the provider in time.        *)
THEOREM GateTheorem == ModelCallSpec => []GateHolds
<1>1. CallIInv => GateHolds
  <2> SUFFICES ASSUME CallIInv PROVE GateHolds
    OBVIOUS
  <2> DEFINE row == [c \in InTime |-> CHOOSE s \in Slot : Own(c, s)]
  <2>1. \A c \in InTime : row[c] \in Slot /\ Own(c, row[c])
    BY DEF InTime, CallIInv, GatesOK, RowsAreFresh, OwnRow
  <2>2. row \in Injection(InTime, Slot)
    BY <2>1 DEF Own, Injection, IsInjective
  <2>3. IsFiniteSet(Slot) /\ Cardinality(Slot) = MaxConcurrent
    BY FS_Interval, LimiterAssumption DEF Slot
  <2>4. QED
    BY <2>2, <2>3, FS_Injection DEF GateHolds
<1>2. QED
  BY <1>1, CallInvariance, PTL
===============================================================================
