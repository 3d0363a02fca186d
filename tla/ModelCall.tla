------------------------------ MODULE ModelCall ------------------------------
(***************************************************************************)
(* One logical model call of an execution (_chamar_llm_impl of             *)
(* llm/executar.py): the token budget, the two gates of Limiter, up to     *)
(* Tries requests to the local Adapter, and the accounting of what each    *)
(* one used.  The Adapter (execute_structured of server/server.py) makes   *)
(* one generation and at most one repair per request.  The provider        *)
(* behind it bills a prompt and a completion for each generation, whether  *)
(* or not its answer gets back.                                            *)
(*                                                                         *)
(* A token is a unit; the client's estimate of a prompt is Estimate, and   *)
(* the provider bills between one and MaxPrompt for it, and for a          *)
(* completion either one unit or the whole ceiling it was given (Lengths). *)
(***************************************************************************)
EXTENDS Limiter, Integers

CONSTANTS
    Limit,              \* provider_token_limit of each execution
    Estimate,           \* budgeted_prompt_tokens of a request
    MaxPrompt,          \* the most the provider bills for a prompt
    Tries,              \* llm.retry_max_attempts
    RetryReadTimeouts,  \* llm.retry_read_timeouts
    MaxCalls            \* bound: logical calls of each execution

ASSUME ModelCallAssumption ==
    /\ Limit \in [Callers -> Nat \ {0}] /\ Estimate \in Nat \ {0}
    /\ MaxPrompt \in Nat \ {0}
    /\ Tries \in Nat \ {0} /\ MaxCalls \in [Callers -> Nat]
    /\ RetryReadTimeouts \in BOOLEAN

VARIABLES
    call,    \* each caller: where it is, and its request
    used,    \* provider_total_tokens_actual of its execution
    unknown, \* provider_usage_unknown of its execution
    done,    \* logical calls begun
    debt,    \* history: tokens billed and not counted in used
    paid     \* history: requests of this logical call that reported usage

ledgerVars == <<used, unknown, debt, paid>>
callVars   == <<call, used, unknown, done, debt, paid>>
allVars    == <<limiterVars, callVars>>

Prompts == 1..MaxPrompt

Lengths(cap) == {1, cap}

(* The largest overrun of one request: both prompts at their dearest, the  *)
(* first of them expected at Estimate.                                     *)
Slack == IF 2 * MaxPrompt > Estimate THEN 2 * MaxPrompt - Estimate ELSE 0

Call ==
    [pc   : {"idle", "permit", "slot", "send", "first", "repair", "reply", "stopped"},
     try  : 0..Tries,
     cap  : Nat,     \* completion tokens left to the Adapter
     seen : Nat,     \* usage the Adapter has accumulated
     told : BOOLEAN, \* whether any usage was reported to it
     risk : BOOLEAN, \* billing_may_have_occurred, retry_cost_risk
     how  : {"none", "fits", "misfit", "cut", "malformed",
             "refused", "denied", "timeout", "connect"}]

Quiet(pc, try) == [pc |-> pc, try |-> try, cap |-> 0, seen |-> 0,
                   told |-> FALSE, risk |-> FALSE, how |-> "none"]

ModelCallInit ==
    /\ LimiterInit
    /\ call = [c \in Callers |-> Quiet("idle", 0)]
    /\ used = [c \in Callers |-> 0]
    /\ unknown = [c \in Callers |-> FALSE]
    /\ done = [c \in Callers |-> 0]
    /\ debt = [c \in Callers |-> 0]
    /\ paid = [c \in Callers |-> 0]

At(c, pc)   == Running(c) /\ call[c].pc = pc
GoTo(c, pc) == call' = [call EXCEPT ![c].pc = pc]

-------------------------------------------------------------------------------
(* The head of _chamar_llm_impl: the Adapter answers its health check, or  *)
(* did within the last five minutes, and _ensure_provider_token_budget.    *)
BudgetLeft(c) == ~unknown[c] /\ used[c] < Limit[c]

Begin(c) ==
    /\ At(c, "idle") /\ done[c] < MaxCalls[c]
    /\ \/ BudgetLeft(c) /\ GoTo(c, "permit")
       \/ GoTo(c, "stopped")        \* not ready, or no budget left
    /\ done' = [done EXCEPT ![c] = @ + 1]
    /\ paid' = [paid EXCEPT ![c] = 0]
    /\ UNCHANGED <<limiterVars, used, unknown, debt>>

Permit(c) ==
    /\ At(c, "permit")
    /\ TakePermit(c)
    /\ GoTo(c, "slot")
    /\ UNCHANGED <<slots, gone, late, mishaps, done, ledgerVars>>

PermitTimeout(c) ==
    /\ At(c, "permit") /\ ~PermitLeft(c)
    /\ GoTo(c, "stopped")
    /\ UNCHANGED <<limiterVars, done, ledgerVars>>

Acquire(c) ==
    /\ At(c, "slot")
    /\ TakeSlot(c)
    /\ call' = [call EXCEPT ![c] = Quiet("send", 1)]
    /\ UNCHANGED <<taken, gone, mishaps, done, ledgerVars>>

SlotTimeout(c) ==
    /\ At(c, "slot") /\ FreeSlots = {}
    /\ GivePermit(c)
    /\ GoTo(c, "stopped")
    /\ UNCHANGED <<slots, gone, late, mishaps, done, ledgerVars>>

(* The finally clause: the slot and the permit are given back.             *)
Leave(c, pc) ==
    /\ GivePermit(c)
    /\ \/ GiveSlot(c) /\ UNCHANGED mishaps
       \/ GiveSlotFails(c)
    /\ call' = [call EXCEPT ![c] = Quiet(pc, 0)]
    /\ UNCHANGED <<gone, late, done>>

-------------------------------------------------------------------------------
(* chamar_backend: the completion ceiling is what the budget leaves after  *)
(* the estimate of the prompt.                                             *)
CeilingOfLimit(c) == Limit[c] - Estimate

Ceiling(c) == Limit[c] - used[c] - Estimate

Send(c) ==
    /\ At(c, "send") /\ BudgetLeft(c) /\ Ceiling(c) > 0
    /\ call' = [call EXCEPT ![c] =
                   [Quiet("first", call[c].try) EXCEPT !.cap = Ceiling(c)]]
    /\ UNCHANGED <<limiterVars, done, ledgerVars>>

SendRefused(c) ==
    /\ At(c, "send") /\ ~(BudgetLeft(c) /\ Ceiling(c) > 0)
    /\ Leave(c, "stopped")
    /\ UNCHANGED ledgerVars

-------------------------------------------------------------------------------
(* The Adapter.                                                            *)
AtAdapter(c) == call[c].pc \in {"first", "repair"}

Bill(c, n) == debt' = [debt EXCEPT ![c] = @ + n]

(* A generation whose usage is never told: a debt of one, if it was billed *)
(* at all, since no one subtracts it again.                                *)
MayBill(c) == \E n \in {0, 1} : Bill(c, n)

Reply(c, how, risk) ==
    call' = [call EXCEPT ![c].pc = "reply", ![c].how = how, ![c].risk = risk]

(* A first answer that does not fit is sent back for repair while usage is *)
(* known and completion tokens are left.                                   *)
Again(r, k, told, form) ==
    r.pc = "first" /\ told /\ form \in {"misfit", "malformed"} /\ r.cap > k

Answered(r, p, k, told, form) ==
    LET again == Again(r, k, told, form) IN
    [r EXCEPT !.pc   = IF again THEN "repair" ELSE "reply",
              !.cap  = IF again THEN r.cap - k ELSE r.cap,
              !.seen = IF told THEN r.seen + p + k ELSE r.seen,
              !.told = r.told \/ told,
              !.how  = IF again THEN "none" ELSE form,
              !.risk = ~told /\ (r.pc = "first" => form # "fits")]

(* The provider answers with a JSON object, with or without usage: the     *)
(* answer fits the schema, or does not, or was cut by the ceiling, or is   *)
(* no chat completion at all.                                              *)
Generate(c) ==
    /\ AtAdapter(c)
    /\ \E p \in Prompts, k \in Lengths(call[c].cap), told \in BOOLEAN,
          form \in {"fits", "misfit", "cut", "malformed"} :
          /\ form = "cut" => k = call[c].cap
          /\ call' = [call EXCEPT ![c] = Answered(call[c], p, k, told, form)]
          /\ Bill(c, IF told THEN p + k ELSE 1)
    /\ UNCHANGED <<limiterVars, used, unknown, done, paid>>

(* call_once gets something else: an HTTP status of 400 or more, or a 200  *)
(* that is not JSON, which becomes a 502 although the provider generated.  *)
Refuse(c) ==
    /\ AtAdapter(c)
    /\ \/ Reply(c, "refused", FALSE) /\ MayBill(c)
       \/ Reply(c, "denied", FALSE) /\ UNCHANGED debt
    /\ UNCHANGED <<limiterVars, used, unknown, done, paid>>

(* _transport_failure: a timeout or a broken connection may have been      *)
(* billed, and says so; a connection never made was not.                   *)
Lose(c) ==
    /\ AtAdapter(c)
    /\ \/ /\ \E how \in {"timeout", "connect"} : Reply(c, how, TRUE)
          /\ MayBill(c)
       \/ Reply(c, "connect", FALSE) /\ UNCHANGED debt
    /\ UNCHANGED <<limiterVars, used, unknown, done, paid>>

-------------------------------------------------------------------------------
(* A failed attempt: another one, or the end of the call and of the        *)
(* execution (the agent ends on any error but a misfit).                   *)
FailForever(c, transient) ==
    \/ /\ transient
       /\ call' = [call EXCEPT ![c] = Quiet("send", call[c].try + 1)]
       /\ UNCHANGED <<limiterVars, done>>
    \/ ~transient /\ Leave(c, "stopped")

Fail(c, transient) ==
    \/ /\ transient /\ call[c].try < Tries
       /\ call' = [call EXCEPT ![c] = Quiet("send", call[c].try + 1)]
       /\ UNCHANGED <<limiterVars, done>>
    \/ ~(transient /\ call[c].try < Tries) /\ Leave(c, "stopped")

Told(c) == call[c].told

(* Mutant of Account: a cut answer, counted on arrival, is counted again   *)
(* by the handler of the error it raises.                                  *)
AccountCutAgain(c) ==
    LET n == IF call[c].how = "cut" THEN 2 * call[c].seen ELSE call[c].seen
    IN  /\ used' = [used EXCEPT ![c] = @ + n]
        /\ debt' = [debt EXCEPT ![c] = @ - n]
        /\ paid' = [paid EXCEPT ![c] = @ + (IF Told(c) THEN 1 ELSE 0)]

(* _finalizar_requisicao_llm, once per request.                            *)
Account(c) ==
    /\ used' = [used EXCEPT ![c] = @ + call[c].seen]
    /\ debt' = [debt EXCEPT ![c] = @ - call[c].seen]
    /\ paid' = [paid EXCEPT ![c] = @ + (IF Told(c) THEN 1 ELSE 0)]

(* A 200: usage that is absent makes the execution's usage unknown; usage  *)
(* over the limit ends the execution, as does a cut answer, which also     *)
(* reads the risk the Adapter declared.  The agent asks again on a misfit. *)
Receive(c) ==
    /\ At(c, "reply") /\ call[c].how \in {"fits", "misfit", "cut"}
    /\ Account(c)
    /\ LET cut == call[c].how = "cut" IN
       /\ unknown' = [unknown EXCEPT ![c] = @ \/ ~Told(c) \/ (cut /\ call[c].risk)]
       /\ Leave(c, IF cut \/ (~unknown'[c] /\ used'[c] > Limit[c])
                   THEN "stopped" ELSE "idle")

(* BACKEND_RESPONSE_INVALID: raised before any usage is read.              *)
ReceiveMalformed(c) ==
    /\ At(c, "reply") /\ call[c].how = "malformed"
    /\ Leave(c, "stopped")
    /\ UNCHANGED ledgerVars

(* An HTTP error: _adapter_error_contract reads usage and risk from it; a  *)
(* request that was or may have been billed is not sent again.             *)
TransientAlways(c) == call[c].how \in {"refused", "connect"}

Transient(c) ==
    /\ call[c].how \in {"refused", "connect"}
    /\ ~call[c].risk /\ ~Told(c)

ReceiveError(c) ==
    /\ At(c, "reply") /\ call[c].how \in {"refused", "denied", "timeout", "connect"}
    /\ Account(c)
    /\ unknown' = [unknown EXCEPT ![c] = @ \/ (call[c].risk /\ ~Told(c))]
    /\ Fail(c, Transient(c))

(* The connection to the Adapter breaks, or the read timeout of the client *)
(* passes: whatever the Adapter was doing may still be billed.             *)
Dropped(c) ==
    /\ Running(c) /\ AtAdapter(c)
    /\ MayBill(c)
    /\ Fail(c, TRUE)
    /\ UNCHANGED <<used, unknown, paid>>

ReadTimeout(c) ==
    /\ Running(c) /\ AtAdapter(c)
    /\ MayBill(c)
    /\ Fail(c, RetryReadTimeouts)
    /\ UNCHANGED <<used, unknown, paid>>

-------------------------------------------------------------------------------
ClientStep(c) ==
    \/ Begin(c) \/ Permit(c) \/ Acquire(c) \/ Send(c) \/ SendRefused(c)
    \/ Receive(c) \/ ReceiveMalformed(c) \/ ReceiveError(c)

AdapterStep(c) == Generate(c) \/ Refuse(c) \/ Lose(c)

Timeout(c) == PermitTimeout(c) \/ SlotTimeout(c) \/ ReadTimeout(c)

Lapse(s) == LapseLeft(s) \/ LapseHeld(s)

ModelCallNext ==
    \/ \E c \in Callers : ClientStep(c) \/ AdapterStep(c) \/ Timeout(c) \/ Dropped(c)
    \/ /\ \/ \E s \in Slot : Lapse(s)
          \/ \E p \in Processes : Kill(p)
       /\ UNCHANGED callVars

ModelCallSpec == ModelCallInit /\ [][ModelCallNext]_allVars

(* The client goes on, the Adapter answers or times out upstream (its HTTP *)
(* client has a timeout), and a row left behind lapses in the end.  None   *)
(* of the client's own timeouts is assumed.                                *)
ModelCallFairSpec ==
    /\ ModelCallSpec
    /\ \A c \in Callers : WF_allVars(ClientStep(c)) /\ WF_allVars(AdapterStep(c))
    /\ \A s \in Slot : WF_allVars(LapseLeft(s) /\ UNCHANGED callVars)

-------------------------------------------------------------------------------
(* The type of every variable of the callers and of the limiter.           *)
ModelCallTypeOK ==
    /\ LimiterTypeOK
    /\ call \in [Callers -> Call]
    /\ used \in [Callers -> Nat]
    /\ unknown \in [Callers -> BOOLEAN]
    /\ done \in [Callers -> Nat]
    /\ debt \in [Callers -> Int]
    /\ paid \in [Callers -> Nat]

(* No token is counted twice, whichever of the success path, the handler   *)
(* of the error it may raise and the handler of an HTTP error with usage   *)
(* accounts for it: the ledger never runs ahead of the provider's bill.    *)
NeverCountedTwice == \A c \in Callers : debt[c] >= 0

(* The ledger passes the budget by no more than what one request can: the  *)
(* error of one prompt estimate and the prompt of one repair, however the  *)
(* budget was used before (_ensure_provider_token_budget, the ceiling of   *)
(* chamar_backend, _remaining_completion_cap of the Adapter).              *)
OverrunIsOneRequest == \A c \in Callers : used[c] <= Limit[c] + Slack

(* The ledger of tokens is sound: no token twice, and over the budget by   *)
(* one request at the most.                                                *)
LedgerIsSound == ModelCallTypeOK /\ NeverCountedTwice /\ OverrunIsOneRequest

(* At most one request of a logical call is paid for, as far as anybody    *)
(* says: whatever the Adapter reports as used, in an answer or in an error *)
(* after a repair, ends the retries (docstring of _adapter_error_contract: *)
(* "Retrying either blindly can multiply token cost.").                    *)
OnePaidRequest == \A c \in Callers : paid[c] <= 1

(* A caller between acquire and release keeps its row for as long as its   *)
(* lease runs: no cleanup, late release or dead process takes it away, so  *)
(* that no more callers than MaxConcurrent are inside with a valid lease.  *)
Inside(c) == Running(c) /\ call[c].pc \in {"send", "first", "repair", "reply"}

SlotIsKept ==
    \A c \in Callers : Inside(c) /\ c \notin late => \E s \in Slot : Own(c, s)

(* Waiting for the gates ends without any timeout of the client: a killed  *)
(* or late owner, or a release that failed, blocks nobody for good.        *)
CallsEnd ==
    \A c \in Callers :
        call[c].pc = "permit" ~> call[c].pc \in {"idle", "stopped"} \/ ~Running(c)
===============================================================================
