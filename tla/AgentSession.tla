----------------------------- MODULE AgentSession -----------------------------
(***************************************************************************)
(* One logical execution of the agent: the ECC loop of core/agent.py (_run)*)
(* with its fixed-point tracker (execution_progress.py), its provider token*)
(* budget (execution_context.py, llm/executar.py) and the continuations the*)
(* service persists for it (service.py): at most one recoverable checkpoint*)
(* and any number of gates, where a confirmation or a choice waits for the *)
(* user.  The process that runs the job may be killed between any two      *)
(* steps, and the job may then be run again with the same input.           *)
(*                                                                         *)
(* An action is the signature of one selected operation; the Runtime result*)
(* of an operation is a member of Results, and its fingerprint is the pair *)
(* of both.  Replays of a cached observation (already_observed) and blocked*)
(* actions (recovery_required) never count as new, so they have no result. *)
(* Prompts, memory, evidence and the wording of feedback are left out.     *)
(***************************************************************************)
EXTENDS Integers, FiniteSets

CONSTANTS
    Explores,    \* operations of the Explore Surface
    Builds,      \* operations of the Build Surface
    Results,     \* what an operation may return
    NoResult,    \* no result in this reality epoch
    Limit,       \* provider_token_budget_per_message
    Costs,       \* tokens the provider may report for one call
    MaxEffects,  \* bound: physical effects the execution prepares
    MaxGates,    \* bound: gates that wait at once
    MaxGens,     \* bound: generations of the checkpoint, out of its reach
    MaxCrashes,  \* bound: runs killed, or ended by an exception
    MaxSilent    \* bound: tokens billed for answers that were lost

ASSUME AgentSessionAssumption ==
    /\ NoResult \notin Results
    /\ Explores \cap Builds = {}
    /\ Limit \in Nat \ {0}
    /\ Costs \subseteq Nat \ {0}
    /\ \E c \in Costs : \A d \in Costs : d <= c  \* the context is finite
    /\ MaxEffects \in Nat /\ MaxGates \in Nat
    /\ MaxGens \in Nat /\ MaxCrashes \in Nat /\ MaxSilent \in Nat

VARIABLES
    phase,     \* what the process that runs the job does next
    session,   \* the AgentSession it holds
    exec,      \* the ExecutionContext it holds
    wire,      \* wire_retry_surface, a local variable of _run
    origin,    \* the continuation this run resumed
    input,     \* what the current job was asked
    recovery,  \* the recovery file: at most one checkpoint
    gates,     \* the pending files that wait for the user
    applied,   \* physical effects applied to the world
    prepared,  \* physical effects prepared so far
    spent,     \* tokens really billed
    crashes,   \* runs killed, or ended by an exception, so far
    silent     \* those of spent whose answer was lost, unknown to the ledger

private == <<session, exec, wire>>
store   == <<recovery, gates>>
world   == <<applied, prepared, spent, crashes, silent>>
vars    == <<phase, private, origin, input, store, world>>

Actions  == Explores \union Builds
Epoch    == 0..MaxEffects
Effects  == 1..MaxEffects
Surface  == {"navigation", "explore", "build"}
GateId   == 1..MaxGates
Blocks   == Actions \X Epoch

Session == [epoch   : Epoch,                          \* reality_epoch
            surface : Surface,                        \* cognitive_surface
            op      : {0} \union Effects,             \* pending_operation
            last    : [Actions -> Results \union {NoResult}],  \* the ledger
            seen    : SUBSET (Actions \X Results),    \* seen_result_fingerprints
            blocked : SUBSET Blocks,                  \* blocked_actions
            marked  : SUBSET Blocks]                  \* checkpointed_blocks

Execution == [used : Nat,          \* provider_total_tokens_actual
              unknown : BOOLEAN,   \* provider_usage_unknown
              salvage : BOOLEAN]   \* salvage_checkpoint_emitted

NoLedger   == [a \in Actions |-> NoResult]
NewSession == [epoch |-> 0, surface |-> "navigation", op |-> 0, last |-> NoLedger,
               seen |-> {}, blocked |-> {}, marked |-> {}]
NewExec    == [used |-> 0, unknown |-> FALSE, salvage |-> FALSE]

NoCheckpoint == [gen |-> 0, session |-> NewSession, exec |-> NewExec]
Checkpoint   == [gen : 0..MaxGens, session : Session, exec : Execution]
Gate  == [id : GateId, kind : {"confirm", "choice"}, session : Session, exec : Execution]

None    == [kind |-> "none", id |-> 0]
Origin  == [kind : {"none", "recovery", "gate"}, id : Nat]
Ask     == [control |-> "ask", id |-> 0]
Input   == [control : {"ask", "aplicar", "cancelar", "option"}, id : {0} \union GateId]

Persisting == {"checkpoint", "confirm", "choice"}

AgentInit ==
    /\ phase = "start" /\ input = Ask
    /\ session = NewSession /\ exec = NewExec
    /\ wire = "none" /\ origin = None
    /\ recovery = NoCheckpoint /\ gates = {}
    /\ applied = {} /\ prepared = 0 /\ spent = 0 /\ crashes = 0 /\ silent = 0

-------------------------------------------------------------------------------
(* The budget: the final 15% of the limit, the call, and its billing.      *)
InSalvageBand == exec.used > 0 /\ (Limit - exec.used) * 100 <= Limit * 15
MustSalvage   == InSalvageBand /\ ~exec.salvage

(* Mutant of MayCall: the budget that is counted is all that stops a call. *)
ChamarSemSaber == phase = "think" /\ ~MustSalvage /\ exec.used < Limit

(* A request is refused when the budget is gone or the usage of an answer  *)
(* is not known.                                                           *)
MayCall == /\ phase = "think" /\ ~MustSalvage
           /\ ~exec.unknown /\ exec.used < Limit

(* A request that is answered: the provider reports the c tokens it bills, *)
(* or bills them and reports nothing, which is noted.                      *)
Billed(c, unreported) ==
    IF unreported THEN [exec EXCEPT !.unknown = TRUE]
    ELSE [exec EXCEPT !.used = @ + c]

Call(c, unreported) ==
    /\ MayCall /\ c \in Costs
    /\ exec' = Billed(c, unreported)
    /\ spent' = spent + c /\ UNCHANGED silent

(* A call whose answer the loop may use.                                   *)
Answered(surface) ==
    /\ session.surface = surface
    /\ \E c \in Costs, unreported \in BOOLEAN :
           Call(c, unreported) /\ exec'.used <= Limit

Keep == UNCHANGED <<origin, input, store, applied, crashes>>

(* A run that can no longer resume: the service clears its continuation.   *)
Finish == phase' = "clear"

CallFails ==
    /\ phase = "think" /\ ~MustSalvage
    /\ Finish
    /\ \/ \E c \in Costs, unreported \in BOOLEAN : Call(c, unreported)
       \/ UNCHANGED <<exec, spent, silent>>
    /\ UNCHANGED <<session, wire, prepared>> /\ Keep

(* A request that is billed and whose answer never arrives: the connection *)
(* breaks or the read times out.  Its usage is neither counted nor noted as*)
(* unknown; the request is sent again, or the call has failed.             *)
LoseAnswer(c) ==
    /\ MayCall /\ c \in Costs /\ silent + c <= MaxSilent
    /\ spent' = spent + c /\ silent' = silent + c
    /\ UNCHANGED phase \/ Finish
    /\ UNCHANGED <<session, exec, wire, prepared>> /\ Keep

(* A structured answer that does not fit the wire of its surface: one fresh*)
(* decision on the same surface, then failure.                             *)
WireInvalid ==
    /\ Answered(session.surface)
    /\ IF wire = session.surface THEN Finish /\ UNCHANGED wire
       ELSE wire' = session.surface /\ UNCHANGED phase
    /\ UNCHANGED <<session, prepared>> /\ Keep

-------------------------------------------------------------------------------
(* Navigation: conclude, ask the user to choose, or open a surface.        *)
Concluir ==
    /\ Answered("navigation")
    /\ \/ Finish
       \/ phase' = "choice" /\ Cardinality(gates) < MaxGates
    /\ UNCHANGED <<session, wire, prepared>> /\ Keep

SetSurface(s) ==
    /\ session' = [session EXCEPT !.surface = s]
    /\ UNCHANGED <<phase, wire, prepared>> /\ Keep

Navigate == Answered("navigation") /\ \E s \in {"explore", "build"} : SetSurface(s)
ReturnToEcc == \E s \in {"explore", "build"} : Answered(s) /\ SetSurface("navigation")

-------------------------------------------------------------------------------
(* ExecutionProgress.observe, for a result r of action a (none when it was *)
(* replayed or blocked): new information clears every block; without it the*)
(* action is blocked in the current reality epoch.                         *)
IsBlocked(a) == <<a, session.epoch>> \in session.blocked

Observe(s, a, fingerprints, meaningful) ==
    [s EXCEPT !.seen = @ \union fingerprints,
              !.blocked = IF meaningful THEN {}
                          ELSE {b \in @ : b[1] # a} \union {<<a, s.epoch>>}]

AfterAction(a, s) == IF a \in Builds THEN [s EXCEPT !.surface = "navigation"] ELSE s

NewBlock(s, a) == <<a, s.epoch>> \notin s.marked

(* Mutants of MarkBlock: the checkpoint is built before the mark; the mark *)
(* names the epoch after the action's.                                     *)
SemMarca(s, a) == s
MarcaEpocaSeguinte(s, a) == [s EXCEPT !.marked = @ \union {<<a, s.epoch + 1>>}]

(* checkpoint_needed_for_block, whose mark is persisted with the session.  *)
MarkBlock(s, a) == [s EXCEPT !.marked = @ \union {<<a, s.epoch>>}]

(* What the loop does once an action's outcome is known.                   *)
Outcome(a, s, fingerprints, meaningful) ==
    LET t == AfterAction(a, Observe(s, a, fingerprints, meaningful))
        stalled == ~meaningful /\ NewBlock(t, a)
    IN  /\ session' = IF stalled THEN MarkBlock(t, a) ELSE t
        /\ phase' = IF stalled THEN "checkpoint" ELSE "think"
        /\ wire' = IF meaningful THEN "none" ELSE wire

SurfaceOf(a) == IF a \in Explores THEN "explore" ELSE "build"

(* recovery_required: the action is blocked and is not dispatched.         *)
Blocked(a, task) ==
    /\ Answered(SurfaceOf(a)) /\ IsBlocked(a)
    /\ Outcome(a, session, {}, task)
    /\ UNCHANGED prepared /\ Keep

(* already_observed: the observation is cached in this epoch and fresh.    *)
Replay(a, task) ==
    /\ Answered(SurfaceOf(a)) /\ ~IsBlocked(a)
    /\ session.last[a] # NoResult
    /\ Outcome(a, session, {}, task)
    /\ UNCHANGED prepared /\ Keep

(* The operation is refused before it is executed.                         *)
Refuse(a, r, task) ==
    /\ Answered(SurfaceOf(a)) /\ ~IsBlocked(a)
    /\ Outcome(a, session, {<<a, r>>}, task \/ <<a, r>> \notin session.seen)
    /\ UNCHANGED prepared /\ Keep

(* The operation is executed; the same result as the last one of the epoch *)
(* is no progress by itself.                                               *)
Execute(a, r, task) ==
    /\ Answered(SurfaceOf(a)) /\ ~IsBlocked(a)
    /\ Outcome(a, [session EXCEPT !.last[a] = r], {<<a, r>>},
               task \/ session.last[a] # r \/ <<a, r>> \notin session.seen)
    /\ UNCHANGED prepared /\ Keep

(* Mutant of AdvanceEpoch: the epoch does not follow the world.            *)
SemEpoca(s) == s

(* A persistent change opens a new reality epoch: older observations are   *)
(* no longer looked up.                                                    *)
AdvanceEpoch(s) == [s EXCEPT !.epoch = @ + 1, !.last = NoLedger]

(* A mutation that needs no confirmation (export_sandbox_zip).             *)
Mutate(a, r, task) ==
    /\ a \in Builds /\ prepared < MaxEffects
    /\ Answered("build") /\ ~IsBlocked(a)
    /\ prepared' = prepared + 1
    /\ applied' = applied \union {prepared + 1}
    /\ Outcome(a, AdvanceEpoch(session), {<<a, r>>}, TRUE)
    /\ UNCHANGED <<origin, input, store, crashes>>

(* A mutation that needs confirmation: prepared, never executed here.      *)
Prepare(a) ==
    /\ a \in Builds /\ prepared < MaxEffects /\ Cardinality(gates) < MaxGates
    /\ Answered("build") /\ ~IsBlocked(a)
    /\ prepared' = prepared + 1
    /\ session' = [session EXCEPT !.op = prepared + 1, !.surface = "navigation"]
    /\ phase' = "confirm"
    /\ UNCHANGED wire /\ Keep

Operate ==
    \E a \in Actions, task \in BOOLEAN :
        \/ Blocked(a, task) \/ Replay(a, task) \/ Prepare(a)
        \/ \E r \in Results : Refuse(a, r, task) \/ Execute(a, r, task) \/ Mutate(a, r, task)

Salvage ==
    /\ phase = "think" /\ MustSalvage
    /\ exec' = [exec EXCEPT !.salvage = TRUE]
    /\ phase' = "checkpoint"
    /\ UNCHANGED <<session, wire, prepared, spent, silent>> /\ Keep

-------------------------------------------------------------------------------
(* The service persists what the run returned (salvar_agent_pendente): the *)
(* checkpoint replaces the file of the execution, a gate has a file of its *)
(* own; then it clears the continuation this run had resumed.              *)
SalvarCheckpoint ==
    /\ phase = "checkpoint" /\ recovery.gen < MaxGens
    /\ recovery' = [gen |-> recovery.gen + 1, session |-> session, exec |-> exec]
    /\ phase' = "replace"
    /\ UNCHANGED <<private, origin, input, gates, world>>

SalvarGate(i) ==
    /\ phase \in {"confirm", "choice"}
    /\ i \in GateId \ {g.id : g \in gates}
    /\ gates' = gates \union {[id |-> i, kind |-> phase, session |-> session, exec |-> exec]}
    /\ phase' = "clear"
    /\ UNCHANGED <<private, origin, input, recovery, world>>

(* limpar_agent_pendente: the continuation with this id, if it is still    *)
(* there; a checkpoint that was replaced has another id.                   *)
Limpar(o) ==
    /\ recovery' = IF o.kind = "recovery" /\ o.id = recovery.gen
                   THEN NoCheckpoint ELSE recovery
    /\ gates' = {g \in gates : ~(o.kind = "gate" /\ o.id = g.id)}

(* Mutants of Rehydrate: the mark of the salvage checkpoint is not carried;*)
(* the ledger of billed tokens starts again.                               *)
SemSalvage(x)  == [x EXCEPT !.salvage = FALSE]
OrcamentoNovo(x) == [x EXCEPT !.used = 0]

(* from_continuation_state: what a continuation carries of the execution.  *)
Rehydrate(x) == x

(* _run starts again on a persisted session: its local variables are new.  *)
Resume(o, s, x) ==
    /\ session' = s /\ exec' = Rehydrate(x)
    /\ wire' = "none" /\ origin' = o
    /\ phase' = "think"

Retomar ==
    /\ phase = "replace"
    /\ Limpar(origin)
    /\ Resume([kind |-> "recovery", id |-> recovery.gen], session, exec)
    /\ UNCHANGED <<input, world>>

Forget ==
    /\ session' = NewSession /\ exec' = NewExec
    /\ wire' = "none" /\ origin' = None

(* The reply is recorded and the job is over.                              *)
Encerrar ==
    /\ phase = "clear"
    /\ Limpar(origin)
    /\ phase' = "idle" /\ input' = Ask
    /\ Forget
    /\ UNCHANGED world

-------------------------------------------------------------------------------
(* processar: what the job resumes.  The checkpoint comes first.           *)
StartRecovery ==
    /\ phase = "start" /\ recovery.gen > 0
    /\ Resume([kind |-> "recovery", id |-> recovery.gen], recovery.session, recovery.exec)
    /\ UNCHANGED <<input, store, world>>

(* The pending file the text refers to: the one it names; with no code in  *)
(* the text, the only one there is.                                        *)
Found == IF input.control = "ask"
         THEN IF Cardinality(gates) = 1 THEN gates ELSE {}
         ELSE {g \in gates : g.id = input.id}

AtGates == phase = "start" /\ recovery.gen = 0

Fresh(left) ==
    /\ gates' = left
    /\ phase' = "think" /\ Forget
    /\ UNCHANGED <<input, recovery, world>>

NoSuchGate(left) ==
    /\ gates' = left
    /\ phase' = "idle" /\ input' = Ask
    /\ UNCHANGED <<private, origin, recovery, world>>

(* The file is not there; or it is and has expired, or a plain text        *)
(* supersedes the proposal: then it is removed.  An answer to a choice that*)
(* is gone is a request of its own, the start of another execution.        *)
StartWithout ==
    /\ AtGates
    /\ IF input.control = "ask" THEN Fresh(gates \ Found)
                                ELSE NoSuchGate(gates \ Found)

(* The text answers a choice: it names an option or is taken as one.       *)
StartChoice(g) ==
    /\ AtGates /\ g \in Found /\ g.kind = "choice"
    /\ input.control \in {"ask", "option"}
    /\ Resume([kind |-> "gate", id |-> g.id], g.session, g.exec)
    /\ UNCHANGED <<input, store, world>>

(* A text that no option resolves: the question is asked again.            *)
Unresolved(g) ==
    /\ AtGates /\ g \in Found /\ g.kind = "choice"
    /\ input.control = "ask"
    /\ NoSuchGate(gates)

StartCancel(g) ==
    /\ AtGates /\ g \in Found /\ input.control = "cancelar"
    /\ phase' = "clear" /\ origin' = [kind |-> "gate", id |-> g.id]
    /\ UNCHANGED <<private, input, store, world>>

(* confirm_pending: the provider applies the effect if its preimage still  *)
(* holds, and may fail and roll back; a change opens a new epoch.          *)
StartConfirm(g) ==
    /\ AtGates /\ g \in Found /\ g.kind = "confirm" /\ input.control = "aplicar"
    /\ LET s == [g.session EXCEPT !.op = 0] IN
       \/ /\ g.session.op \notin applied
          /\ applied' = applied \union {g.session.op}
          /\ Resume([kind |-> "gate", id |-> g.id], AdvanceEpoch(s), g.exec)
       \/ /\ UNCHANGED applied
          /\ Resume([kind |-> "gate", id |-> g.id], s, g.exec)
    /\ UNCHANGED <<input, store, prepared, spent, crashes, silent>>

-------------------------------------------------------------------------------
(* The user answers a gate.                                                *)
Answer(g, c) ==
    /\ phase = "idle" /\ g \in gates
    /\ c \in IF g.kind = "confirm" THEN {"aplicar", "cancelar"} ELSE {"option", "cancelar"}
    /\ phase' = "start" /\ input' = [control |-> c, id |-> g.id]
    /\ UNCHANGED <<private, origin, store, world>>

(* The process is killed and the job is run again; or it is not, because it*)
(* was cancelled or had no attempt left, or no kill but an exception ended *)
(* the run: the job is over, and the files stay as they are.               *)
Crash ==
    /\ phase # "idle" /\ crashes < MaxCrashes
    /\ crashes' = crashes + 1 /\ Forget
    /\ \/ phase' = "start" /\ UNCHANGED input
       \/ phase' = "idle" /\ input' = Ask
    /\ UNCHANGED <<store, applied, prepared, spent, silent>>

Start ==
    \/ StartRecovery \/ StartWithout
    \/ \E g \in gates : StartChoice(g) \/ Unresolved(g) \/ StartCancel(g) \/ StartConfirm(g)

Think ==
    \/ CallFails \/ WireInvalid \/ \E c \in Costs : LoseAnswer(c)
    \/ Concluir \/ Navigate \/ ReturnToEcc \/ Operate \/ Salvage

Persist == SalvarCheckpoint \/ Retomar \/ Encerrar \/ \E i \in GateId : SalvarGate(i)

Run  == Start \/ Think \/ Persist
Next == Run \/ Crash \/ \E g \in gates, c \in {"aplicar", "cancelar", "option"} : Answer(g, c)

AgentSpec     == AgentInit /\ [][Next]_vars
(* The job's process goes on as long as it can.                            *)
AgentFairSpec == AgentSpec /\ WF_vars(Run)

-------------------------------------------------------------------------------
(* Every variable keeps its type: above all, what was persisted can be     *)
(* rehydrated (AgentSession.from_dict, validate_pending_continuation).     *)
AgentTypeOK ==
    /\ phase \in Persisting \union {"start", "think", "replace", "clear", "idle"}
    /\ session \in Session /\ exec \in Execution
    /\ wire \in Surface \union {"none"}
    /\ origin \in Origin /\ input \in Input
    /\ recovery \in Checkpoint /\ gates \subseteq Gate
    /\ applied \subseteq Effects /\ prepared \in {0} \union Effects
    /\ spent \in Nat /\ crashes \in 0..MaxCrashes /\ silent \in 0..MaxSilent

Running == phase \in Persisting \union {"think", "replace"}

(* The reality epoch of a running session counts the persistent effects of *)
(* the execution, across checkpoints and gates; a kill can make it lag, and*)
(* never lead (_advance_epoch, from_dict).                                 *)
EpochCountsEffects ==
    Running => /\ session.epoch <= Cardinality(applied)
               /\ crashes = 0 => session.epoch = Cardinality(applied)

(* What a session is persisted with can be rehydrated, and its epoch is    *)
(* that of the world it acted on.                                          *)
SessionIsTrue == AgentTypeOK /\ EpochCountsEffects

MaxCost == CHOOSE c \in Costs : \A d \in Costs : d <= c

(* Checkpoints, gates and resumes never buy tokens: what one execution is  *)
(* really billed stays under its limit plus one call, for each time its    *)
(* process was run, and passes that by the answers that were lost and by   *)
(* nothing else (_ensure_provider_token_budget, continuation_state).       *)
BudgetHolds == spent < (crashes + 1) * (Limit + MaxCost) + silent

(* No checkpoint loop: a checkpoint that replaces another has either marked*)
(* a new block or just entered the salvage band (checkpoint_needed_for_    *)
(* block, salvage_checkpoint_emitted), also after a kill.                  *)
CheckpointsAdvance ==
    [][ recovery.gen > 0 /\ recovery'.gen > recovery.gen =>
            \/ ~recovery.exec.salvage /\ recovery'.exec.salvage
            \/ recovery.session.marked # recovery'.session.marked
               /\ recovery.session.marked \subseteq recovery'.session.marked ]_vars

(* Every job comes to rest: it has answered, or waits for the user at a    *)
(* gate, whatever the model decides on each turn.                          *)
JobsRest == phase = "start" ~> phase = "idle"
===============================================================================
