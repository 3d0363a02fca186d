------------------------------- MODULE JobQueue -------------------------------
(***************************************************************************)
(* The persistent job table of eyle/runtime/queue.py: one SQLite row per   *)
(* job, one heartbeat row per worker.  Every operator below is one SQLite  *)
(* transaction, so it is one step.  The calls that the code spreads over   *)
(* several transactions (concluir, falhar, recuperar_interrompidos) are    *)
(* several steps, and other actors run between them.                       *)
(*                                                                         *)
(* The specification at the end is open: any client may call any operation *)
(* with any job at any time.  What it promises holds for every client.     *)
(***************************************************************************)
EXTENDS Naturals, FiniteSets

CONSTANTS
    MaxJobs,      \* bound: the AUTOINCREMENT ids are 1..MaxJobs
    MaxAttempts,  \* bound: a job is reserved at most this many times
    Workers,      \* worker ids; an id is never reused (pid + uuid)
    NoWorker,     \* NULL in the column worker_id
    Recoverers    \* processes that run recuperar_interrompidos

ASSUME JobQueueAssumption ==
    /\ MaxJobs \in Nat
    /\ MaxAttempts \in Nat \ {0}
    /\ NoWorker \notin Workers

VARIABLES
    job,    \* the table jobs
    beat,   \* the age of the row of table worker_heartbeat of each worker
    dead,   \* workers whose process no longer exists
    rec     \* local variables of the running recuperar_interrompidos calls

queueVars == <<job, beat, dead, rec>>

JobId    == 1..MaxJobs
Attempt  == 1..MaxAttempts
Active   == {"pending", "processing"}
Terminal == {"completed", "failed", "cancelled"}
Phases   == {"none", "starting", "agent", "cancelling", "cancelled",
             "completed", "failed"}

(* A result is the attempt that produced it; 0 is NULL.  The column erro,  *)
(* the timestamps and the text of the cancel reason are left out.          *)
Row == [status   : {"absent"} \union Active \union Terminal,
        worker   : Workers \union {NoWorker},
        attempts : 0..MaxAttempts,
        cancel   : BOOLEAN,
        phase    : Phases,
        result   : 0..MaxAttempts,
        valid    : BOOLEAN]

NoRow == [status |-> "absent", worker |-> NoWorker, attempts |-> 0,
          cancel |-> FALSE, phase |-> "none", result |-> 0, valid |-> TRUE]

Recovery == [pc : {"start", "write"}, toCancel : SUBSET JobId,
             toRequeue : SUBSET JobId]

Pending(j) == job[j].status = "pending"
Processing(j) == job[j].status = "processing"

(* Mutant of Oldest: the newest first (ORDER BY id DESC).                  *)
NewestFirst(j) == Pending(j) /\ \A k \in JobId : Pending(k) => k <= j

Oldest(j) == Pending(j) /\ \A k \in JobId : Pending(k) => j <= k

(* cancelamento_solicitado: the reason is not modelled, only that one is   *)
(* returned.                                                               *)
CancelamentoSolicitado(j) == job[j].status = "cancelled" \/ job[j].cancel

-------------------------------------------------------------------------------
QueueInit ==
    /\ job = [j \in JobId |-> NoRow]
    /\ beat = [w \in Workers |-> "none"]
    /\ dead = {}
    /\ rec = [r \in Recoverers |->
                 [pc |-> "start", toCancel |-> {}, toRequeue |-> {}]]

(* adicionar: the next id of the sequence; the payload may turn out not to *)
(* be a JSON object when it is read back (another version wrote it).       *)
Adicionar(j, valid) ==
    /\ job[j].status = "absent"
    /\ \A k \in JobId : k < j => job[k].status # "absent"
    /\ job' = [job EXCEPT ![j] = [NoRow EXCEPT !.status = "pending",
                                               !.valid = valid]]
    /\ UNCHANGED <<beat, dead, rec>>

(* _reservar_proximo, one turn of its loop, on an unreadable payload.      *)
ReservarInvalido(j) ==
    /\ Oldest(j) /\ ~job[j].valid
    /\ job' = [job EXCEPT ![j].status = "failed"]
    /\ UNCHANGED <<beat, dead, rec>>

(* Mutant of Reservar: id and worker_id swapped in the UPDATE.             *)
ReservarTrocado(w, j) ==
    /\ Oldest(j) /\ job[j].valid /\ job[j].attempts < MaxAttempts
    /\ job' = [job EXCEPT ![j].status = "processing", ![j].worker = j,
                          ![j].attempts = @ + 1, ![j].phase = "starting",
                          ![j].cancel = FALSE]
    /\ UNCHANGED <<beat, dead, rec>>

(* _reservar_proximo, the turn that returns an event.  The update clears   *)
(* the cancel request of the row.                                          *)
Reservar(w, j) ==
    /\ Oldest(j) /\ job[j].valid
    /\ job[j].attempts < MaxAttempts
    /\ job' = [job EXCEPT ![j].status = "processing",
                          ![j].worker = w,
                          ![j].attempts = @ + 1,
                          ![j].phase = "starting",
                          ![j].cancel = FALSE]
    /\ UNCHANGED <<beat, dead, rec>>

(* atualizar_progresso: silently refused once the job is closed or its     *)
(* cancellation was requested.                                             *)
AtualizarProgresso(j, phase) ==
    /\ job' = IF job[j].status \in Active /\ ~job[j].cancel
              THEN [job EXCEPT ![j].phase = phase]
              ELSE job
    /\ UNCHANGED <<beat, dead, rec>>

(* cancelar_job: a pending job is closed at once, a running one is only    *)
(* asked to stop.                                                          *)
CancelarPendente(j) ==
    /\ Pending(j)
    /\ job' = [job EXCEPT ![j].status = "cancelled", ![j].cancel = TRUE,
                          ![j].phase = "cancelled"]
    /\ UNCHANGED <<beat, dead, rec>>

SinalizarCancelamento(j) ==
    /\ Processing(j)
    /\ job' = [job EXCEPT ![j].cancel = TRUE, ![j].phase = "cancelling"]
    /\ UNCHANGED <<beat, dead, rec>>

CancelarJob(j) == CancelarPendente(j) \/ SinalizarCancelamento(j)

(* Mutant of MarcarCancelado: the UPDATE without its status filter.        *)
MarcarSempre(j, result) ==
    /\ job' = [job EXCEPT ![j].status = "cancelled", ![j].cancel = TRUE,
                          ![j].phase = "cancelled", ![j].result = result]
    /\ UNCHANGED <<beat, dead, rec>>

(* marcar_cancelado: closes an active job; otherwise the UPDATE matches no *)
(* row.                                                                    *)
MarcarCancelado(j, result) ==
    /\ job' = IF job[j].status \in Active
              THEN [job EXCEPT ![j].status = "cancelled", ![j].cancel = TRUE,
                               ![j].phase = "cancelled", ![j].result = result]
              ELSE job
    /\ UNCHANGED <<beat, dead, rec>>

(* Mutant of PodeFechar: the UPDATE without AND cancel_requested = 0.      *)
FecharApesarDoPedido(j) == Processing(j)

(* The last UPDATE of concluir and of falhar, and whether it matched.      *)
PodeFechar(j) == Processing(j) /\ ~job[j].cancel

Fechar(j, status, result) ==
    /\ job' = IF PodeFechar(j)
              THEN [job EXCEPT ![j].status = status, ![j].result = result]
              ELSE job
    /\ UNCHANGED <<beat, dead, rec>>

(* registrar_heartbeat, and time going by without one for stale_worker_    *)
(* seconds.                                                                *)
Heartbeat(w) ==
    /\ w \notin dead
    /\ beat' = [beat EXCEPT ![w] = "fresh"]
    /\ UNCHANGED <<job, dead, rec>>

Envelhecer(w) ==
    /\ beat[w] = "fresh"
    /\ beat' = [beat EXCEPT ![w] = "stale"]
    /\ UNCHANGED <<job, dead, rec>>

(* The operating system ends the process of a worker.                      *)
Morrer(w) ==
    /\ w \notin dead
    /\ dead' = dead \union {w}
    /\ UNCHANGED <<job, beat, rec>>

-------------------------------------------------------------------------------
(* Mutant of Abandonado: the heartbeat alone, without the check that the   *)
(* process of the holder still exists.                                     *)
SemBatimento(j) == job[j].worker = NoWorker \/ beat[job[j].worker] # "fresh"

(* recuperar_interrompidos: one SELECT, then one UPDATE per selected row,  *)
(* each in its own autocommitted transaction.                              *)
Abandonado(j) ==
    LET w == job[j].worker
    IN  w = NoWorker \/ beat[w] # "fresh" \/ w \in dead

RecuperarLer(r) ==
    /\ rec[r].pc = "start"
    /\ LET lidos == {j \in JobId : Processing(j)} IN
       rec' = [rec EXCEPT ![r] =
                 [pc |-> "write",
                  toCancel |-> {j \in lidos : job[j].cancel},
                  toRequeue |-> {j \in lidos : ~job[j].cancel /\ Abandonado(j)}]]
    /\ UNCHANGED <<job, beat, dead>>

RecuperarCancelar(r, j) ==
    /\ rec[r].pc = "write" /\ j \in rec[r].toCancel
    /\ rec' = [rec EXCEPT ![r].toCancel = @ \ {j}]
    /\ job' = IF Processing(j)
              THEN [job EXCEPT ![j].status = "cancelled", ![j].worker = NoWorker]
              ELSE job
    /\ UNCHANGED <<beat, dead>>

(* Mutant of RecuperarRecolocar: a lost attempt is not counted.            *)
RecolocarSemContar(r, j) ==
    /\ rec[r].pc = "write" /\ rec[r].toCancel = {} /\ j \in rec[r].toRequeue
    /\ rec' = [rec EXCEPT ![r].toRequeue = @ \ {j}]
    /\ job' = IF Processing(j)
              THEN [job EXCEPT ![j].status = "pending", ![j].worker = NoWorker,
                               ![j].attempts = @ - 1]
              ELSE job
    /\ UNCHANGED <<beat, dead>>

RecuperarRecolocar(r, j) ==
    /\ rec[r].pc = "write" /\ rec[r].toCancel = {} /\ j \in rec[r].toRequeue
    /\ rec' = [rec EXCEPT ![r].toRequeue = @ \ {j}]
    /\ job' = IF Processing(j)
              THEN [job EXCEPT ![j].status = "pending", ![j].worker = NoWorker]
              ELSE job
    /\ UNCHANGED <<beat, dead>>

RecuperarFim(r) ==
    /\ rec[r].pc = "write"
    /\ rec[r].toCancel = {} /\ rec[r].toRequeue = {}
    /\ rec' = [rec EXCEPT ![r].pc = "start"]
    /\ UNCHANGED <<job, beat, dead>>

Recuperar(r) ==
    \/ RecuperarLer(r)
    \/ \E j \in JobId : RecuperarCancelar(r, j) \/ RecuperarRecolocar(r, j)
    \/ RecuperarFim(r)

-------------------------------------------------------------------------------
(* Any client, any call.                                                   *)
TableStep(j) ==
    \/ \E valid \in BOOLEAN : Adicionar(j, valid)
    \/ ReservarInvalido(j)
    \/ \E w \in Workers : w \notin dead /\ Reservar(w, j)
    \/ \E phase \in {"agent", "completed", "failed"} :
          AtualizarProgresso(j, phase)
    \/ CancelarJob(j)
    \/ \E a \in 0..MaxAttempts :
          \/ MarcarCancelado(j, a)
          \/ \E s \in {"completed", "failed"} : Fechar(j, s, a)

WorkerStep(w) == Heartbeat(w) \/ Envelhecer(w) \/ Morrer(w)

QueueNext ==
    \/ \E j \in JobId : TableStep(j)
    \/ \E w \in Workers : WorkerStep(w)
    \/ \E r \in Recoverers : Recuperar(r)

QueueSpec == QueueInit /\ [][QueueNext]_queueVars

-------------------------------------------------------------------------------
(* Every variable has its type.                                            *)
QueueTypeOK ==
    /\ job \in [JobId -> Row]
    /\ beat \in [Workers -> {"none", "fresh", "stale"}]
    /\ dead \in SUBSET Workers
    /\ rec \in [Recoverers -> Recovery]

(* A closed job is never touched again, whatever call arrives late: a      *)
(* worker that lost its job, a second cancel, a recovery that selected the *)
(* row before it was closed (the WHERE clauses of queue.py).               *)
ClosedJobIsFinal ==
    [][\A j \in JobId : job[j].status \in Terminal => job'[j] = job[j]]_job

(* No job ends completed or failed while a request to cancel it stands:    *)
(* the request wins over a result that arrives after it.  Recovery can put *)
(* a row with the request back to pending, so this rests on the payload of *)
(* such a row having been readable before.                                 *)
CancelBeatsResult ==
    \A j \in JobId : job[j].status \in {"completed", "failed"} => ~job[j].cancel

(* The table implements the abstract life cycle of a job: the columns the  *)
(* abstract specification does not know (holder, progress, cancel request, *)
(* heartbeats, the two phases of recovery) only add stuttering steps.      *)
StageOf(row) ==
    CASE row.status = "absent"     -> "absent"
      [] row.status = "pending"    -> "waiting"
      [] row.status = "processing" -> "running"
      [] OTHER                     -> "closed"

OutcomeOf(row) ==
    IF row.status \in Terminal
    THEN [how |-> row.status, by |-> row.result]
    ELSE [how |-> "open", by |-> 0]

jobStage   == [j \in JobId |-> StageOf(job[j])]
jobTries   == [j \in JobId |-> job[j].attempts]
jobOutcome == [j \in JobId |-> OutcomeOf(job[j])]

Lifecycle == INSTANCE JobLifecycle
    WITH stage <- jobStage, tries <- jobTries, outcome <- jobOutcome

LifecycleSpec == Lifecycle!Spec
===============================================================================
