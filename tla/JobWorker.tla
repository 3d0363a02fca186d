------------------------------ MODULE JobWorker ------------------------------
(***************************************************************************)
(* The actors on the job table: worker processes (eyle/runtime/worker.py), *)
(* each with one consumer thread, the child process that runs a job, and   *)
(* the web client that submits jobs and cancels them.  A worker process    *)
(* may be killed at any point; its child is not a daemon and survives it.  *)
(* A process that starts runs recuperar_interrompidos before it consumes.  *)
(*                                                                         *)
(* A heartbeat and the table read that follows it are one step: only the   *)
(* recovery reads heartbeats, and it only asks whether they are recent.    *)
(***************************************************************************)
EXTENDS JobQueue

CONSTANTS
    Settings   \* the circumstances a behaviour may run in

(* alone: a process starts only after every other one has died; punctual:  *)
(* a running process never misses stale_worker_seconds; crashes and jobs:  *)
(* bounds on the processes killed and on the jobs submitted.               *)
ASSUME JobWorkerAssumption ==
    /\ Workers \subseteq Recoverers
    /\ Settings \subseteq [alone : BOOLEAN, punctual : BOOLEAN,
                            crashes : Nat, jobs : JobId]

VARIABLES
    con,      \* the consumer of each process: where it is, and its job
    child,    \* the child process of each consumer
    replies,  \* assistant messages with a source_job_id: <<job, attempt>>
    purge,    \* deletions that have cancelled a job, not yet its replies
    asked,    \* history: whether a cancellation of a job was accepted, and
              \* whether a recovery was about to put the job back at the last
    setting   \* the circumstances of this behaviour; it never changes

workerVars == <<con, child, replies, purge, asked, setting>>
allVars    == <<queueVars, workerVars>>

NoJob == 0

Consumer == [pc : {"off", "recovering", "idle", "reserved", "running", "close",
                   "progress", "update", "missed", "cancel", "turn_end"},
             job : JobId \union {NoJob}, att : 0..MaxAttempts,
             out : {"none", "completed", "failed", "exception"}]

Child == [st  : {"none", "running", "replied", "sent"},
          job : JobId \union {NoJob}, att : 0..MaxAttempts,
          out : {"none", "completed", "failed", "exception"}]

NoChild == [st |-> "none", job |-> NoJob, att |-> 0, out |-> "none"]

Alive(w) == w \notin dead
Idle     == [pc |-> "idle", job |-> NoJob, att |-> 0, out |-> "none"]

(* The consumer w goes on at pc, in a step that touches only the table. *)
GoTo(w, pc) ==
    /\ con' = [con EXCEPT ![w].pc = pc]
    /\ UNCHANGED <<child, replies, purge, asked, setting>>

WorkerInit ==
    /\ QueueInit
    /\ con = [w \in Workers |-> [Idle EXCEPT !.pc = "off"]]
    /\ child = [w \in Workers |-> NoChild]
    /\ replies = {}
    /\ purge = {}
    /\ asked = [j \in JobId |-> "no"]
    /\ setting \in Settings

-------------------------------------------------------------------------------
(* loop: the recovery of a new process, then its consumer. *)
Iniciar(w) ==
    /\ con[w].pc = "off" /\ Alive(w)
    /\ setting.alone => \A v \in Workers \ {w} : con[v].pc = "off" \/ ~Alive(v)
    /\ RecuperarLer(w)
    /\ GoTo(w, "recovering")

Recuperando(w) ==
    /\ con[w].pc = "recovering" /\ Alive(w)
    /\ \/ /\ \E j \in JobId : RecuperarCancelar(w, j) \/ RecuperarRecolocar(w, j)
          /\ UNCHANGED workerVars
       \/ /\ RecuperarFim(w)
          /\ GoTo(w, "turn_end")

(* _consumer_loop between two turns: the heartbeat, then the next job. *)
FimDoTurno(w) ==
    /\ con[w].pc = "turn_end" /\ Alive(w)
    /\ Heartbeat(w)
    /\ con' = [con EXCEPT ![w] = Idle]
    /\ UNCHANGED <<child, replies, purge, asked, setting>>

Ocioso(w) ==
    /\ con[w].pc = "idle" /\ Alive(w)
    /\ ~\E j \in JobId : Pending(j)
    /\ Heartbeat(w)
    /\ UNCHANGED workerVars

Pegar(w) ==
    /\ con[w].pc = "idle" /\ Alive(w)
    /\ \E j \in JobId :
          \/ /\ ReservarInvalido(j)
             /\ UNCHANGED workerVars
          \/ /\ Reservar(w, j)
             /\ con' = [con EXCEPT ![w] = [pc |-> "reserved", job |-> j,
                                           att |-> job[j].attempts + 1,
                                           out |-> "none"]]
             /\ UNCHANGED <<child, replies, purge, asked, setting>>

(* processar_proximo: heartbeat, first cancel check, start of the child. *)
Comecar(w) ==
    /\ con[w].pc = "reserved" /\ Alive(w)
    /\ Heartbeat(w)
    /\ LET j == con[w].job IN
       IF CancelamentoSolicitado(j)
       THEN GoTo(w, "cancel")
       ELSE /\ con' = [con EXCEPT ![w].pc = "running"]
            /\ child' = [child EXCEPT ![w] =
                           [st |-> "running", job |-> j, att |-> con[w].att,
                            out |-> "none"]]
            /\ UNCHANGED <<replies, purge, asked, setting>>

(* executar_evento_isolado: the polling loop of the parent. *)
Bater(w) ==
    /\ con[w].pc = "running" /\ Alive(w)
    /\ Heartbeat(w)
    /\ UNCHANGED workerVars

Interromper(w) ==
    /\ con[w].pc = "running" /\ Alive(w)
    /\ CancelamentoSolicitado(con[w].job)
    /\ child' = [child EXCEPT ![w] = NoChild]
    /\ con' = [con EXCEPT ![w].pc = "cancel"]
    /\ UNCHANGED <<queueVars, replies, purge, asked, setting>>

Receber(w) ==
    /\ con[w].pc = "running" /\ Alive(w)
    /\ child[w].st = "sent"
    /\ con' = [con EXCEPT
          ![w].pc = IF CancelamentoSolicitado(con[w].job) THEN "cancel" ELSE "close",
          ![w].out = child[w].out]
    /\ child' = [child EXCEPT ![w] = NoChild]
    /\ UNCHANGED <<queueVars, replies, purge, asked, setting>>

-------------------------------------------------------------------------------
(* concluir and falhar: cancel check, progress, guarded UPDATE.  Only a    *)
(* structured failure hands its result to marcar_cancelado, and only an    *)
(* exception has no result to store.                                       *)
FecharChecar(w) ==
    /\ con[w].pc = "close" /\ Alive(w)
    /\ LET j == con[w].job IN
       IF CancelamentoSolicitado(j)
       THEN /\ MarcarCancelado(j, IF con[w].out = "failed" THEN con[w].att ELSE 0)
            /\ GoTo(w, "missed")
       ELSE /\ UNCHANGED queueVars
            /\ GoTo(w, "progress")

StatusFinal(w) == IF con[w].out = "completed" THEN "completed" ELSE "failed"

FecharProgresso(w) ==
    /\ con[w].pc = "progress" /\ Alive(w)
    /\ AtualizarProgresso(con[w].job, StatusFinal(w))
    /\ GoTo(w, "update")

(* Mutant of FecharAtualizar: an UPDATE by id alone.                       *)
FecharSemGuarda(w) ==
    /\ con[w].pc = "update" /\ Alive(w)
    /\ job' = [job EXCEPT ![con[w].job].status = StatusFinal(w),
                          ![con[w].job].result = con[w].att]
    /\ UNCHANGED <<beat, dead, rec>>
    /\ GoTo(w, "turn_end")

FecharAtualizar(w) ==
    /\ con[w].pc = "update" /\ Alive(w)
    /\ LET j == con[w].job IN
       /\ Fechar(j, StatusFinal(w),
                 IF con[w].out = "exception" THEN 0 ELSE con[w].att)
       /\ GoTo(w, IF PodeFechar(j) THEN "turn_end" ELSE "missed")

(* The call returned False: cancelled meanwhile, or no longer this job's   *)
(* holder, in which case the turn ends as if the job had been closed.      *)
NaoFechou(w) ==
    /\ con[w].pc = "missed" /\ Alive(w)
    /\ UNCHANGED queueVars
    /\ GoTo(w, IF CancelamentoSolicitado(con[w].job) THEN "cancel" ELSE "turn_end")

(* Mutant of FinalizarCancelamento: the missing call made first.           *)
FinalizarSemMarcar(w) ==
    /\ con[w].pc = "cancel" /\ Alive(w)
    /\ UNCHANGED queueVars
    /\ GoTo(w, "turn_end")

(* _finalizar_cancelamento: after marcar_cancelado it calls                *)
(* queue.cancelar_tarefas_agente_por_job, which queue.py does not define:  *)
(* the AttributeError ends the turn, and the calls that follow (the purge  *)
(* of the job's replies, the deferred deletions) are never reached.        *)
FinalizarCancelamento(w) ==
    /\ con[w].pc = "cancel" /\ Alive(w)
    /\ MarcarCancelado(con[w].job, 0)
    /\ GoTo(w, "turn_end")

-------------------------------------------------------------------------------
(* The child process: it publishes progress and records the assistant      *)
(* reply, then sends its result through the pipe.  It may also fail before *)
(* the reply (ErroLLM, an exception, an exit without a result).  Nothing   *)
(* stops it when its parent is killed.                                     *)
FilhoResponder(w) ==
    /\ child[w].st = "running"
    /\ AtualizarProgresso(child[w].job, "agent")
    /\ replies' = replies \union {<<child[w].job, child[w].att>>}
    /\ child' = [child EXCEPT ![w].st = "replied"]
    /\ UNCHANGED <<con, purge, asked, setting>>

(* Mutant of FilhoTerminar: the result is sent before the reply is stored. *)
FilhoTerminarAntes(w, out) ==
    /\ child[w].st \in {"running", "replied"}
    /\ child' = [child EXCEPT ![w].st = "sent", ![w].out = out]
    /\ UNCHANGED <<queueVars, con, replies, purge, asked, setting>>

FilhoTerminar(w, out) ==
    /\ \/ child[w].st = "replied"
       \/ child[w].st = "running" /\ out # "completed"
    /\ child' = [child EXCEPT ![w].st = "sent", ![w].out = out]
    /\ UNCHANGED <<queueVars, con, replies, purge, asked, setting>>

-------------------------------------------------------------------------------
(* The web client: POST /enviar, and the cancel half of DELETE /mensagem   *)
(* (cancelar_jobs_da_mensagem, then remover_respostas_do_job).             *)
Enviar(j, valid) ==
    /\ j <= setting.jobs
    /\ Adicionar(j, valid)
    /\ UNCHANGED workerVars

(* A recovery has read j as abandoned and has not written it yet: it will  *)
(* put j back although a request to cancel it arrives now.                 *)
ARecolocar(j) == \E r \in Recoverers \ dead : j \in rec[r].toRequeue

Cancelar(j) ==
    /\ CancelarJob(j)
    /\ asked' = [asked EXCEPT ![j] = IF ARecolocar(j) THEN "overtaken" ELSE "heard"]
    /\ purge' = purge \union {j}
    /\ UNCHANGED <<con, child, replies, setting>>

RemoverRespostas(j) ==
    /\ j \in purge
    /\ replies' = {r \in replies : r[1] # j}
    /\ purge' = purge \ {j}
    /\ UNCHANGED <<queueVars, con, child, asked, setting>>

(* The operating system kills a process, or runs it too slowly. *)
Matar(w) ==
    /\ con[w].pc # "off"
    /\ Cardinality(dead) < setting.crashes
    /\ Morrer(w)
    /\ UNCHANGED workerVars

Atrasar(w) ==
    /\ ~setting.punctual /\ Alive(w)
    /\ Envelhecer(w)
    /\ UNCHANGED workerVars

-------------------------------------------------------------------------------
Turno(w) ==
    \/ Recuperando(w) \/ FimDoTurno(w) \/ Ocioso(w) \/ Pegar(w) \/ Comecar(w)
    \/ Bater(w) \/ Interromper(w) \/ Receber(w) \/ FecharChecar(w)
    \/ FecharProgresso(w) \/ FecharAtualizar(w) \/ NaoFechou(w)
    \/ FinalizarCancelamento(w)

Filho(w) ==
    \/ FilhoResponder(w)
    \/ \E out \in {"completed", "failed", "exception"} : FilhoTerminar(w, out)

Cliente(j) ==
    \/ \E valid \in BOOLEAN : Enviar(j, valid)
    \/ Cancelar(j)
    \/ RemoverRespostas(j)

WorkerNext ==
    \/ \E w \in Workers :
          Iniciar(w) \/ Turno(w) \/ Filho(w) \/ Matar(w) \/ Atrasar(w)
    \/ \E j \in JobId : Cliente(j)

WorkerSpec == WorkerInit /\ [][WorkerNext]_allVars

(* The threads of a live process run, a child ends (its LLM calls and      *)
(* operations have timeouts of their own), a killed service is started     *)
(* again, and a deletion request runs to its end.  Nobody has to submit,   *)
(* cancel or kill.                                                         *)
WorkerFairness ==
    /\ \A w \in Workers :
          /\ WF_allVars(Iniciar(w))
          /\ WF_allVars(Turno(w))
          /\ WF_allVars(Interromper(w) \/ Receber(w))
          /\ WF_allVars(Filho(w))
    /\ \A j \in JobId : WF_allVars(RemoverRespostas(j))

WorkerFairSpec == WorkerSpec /\ WorkerFairness

-------------------------------------------------------------------------------
(* The type of every variable of the workers.                              *)
WorkerTypeOK ==
    /\ con \in [Workers -> Consumer]
    /\ child \in [Workers -> Child]
    /\ replies \subseteq JobId \X Attempt
    /\ purge \subseteq JobId
    /\ asked \in [JobId -> {"no", "heard", "overtaken"}]
    /\ setting \in Settings

(* concluir and falhar check neither the worker nor the attempt, and a     *)
(* worker that is late goes on after another one has taken its job.  What  *)
(* the rows still say of the runners: the recorded holder of a running job *)
(* has it in hand, so no job is stuck with a worker that goes on beating   *)
(* but has forgotten it.                                                   *)
Busy(w)  == con[w].pc \notin {"off", "recovering", "idle", "turn_end"}

Holds(w) == con[w].pc \in {"reserved", "running", "close", "progress", "update"}

HolderHasTheJob ==
    \A j \in JobId : Processing(j) =>
        \E w \in Workers :
            /\ job[j].worker = w /\ Busy(w)
            /\ con[w].job = j /\ con[w].att = job[j].attempts

(* And an attempt has one runner, dead, late or in time: no two consumers  *)
(* hold the same attempt of a job, whatever recoveries came between them.  *)
AttemptHasOneRunner ==
    \A w \in Workers : Holds(w) =>
        /\ con[w].att <= job[con[w].job].attempts
        /\ \A v \in Workers \ {w} :
              Holds(v) /\ con[v].job = con[w].job => con[v].att # con[w].att

(* Every variable has its type, and the runners of the jobs, late ones     *)
(* included, are those the rows say.                                       *)
RunnersMatchRows == WorkerTypeOK /\ HolderHasTheJob /\ AttemptHasOneRunner

(* A completed job has its answer in the conversation, whichever attempt   *)
(* completed it, the last one or a late one: the reply of that attempt was *)
(* recorded before the pipe delivered the result (concluir, registrar_     *)
(* conclusao), and no cancellation removed it but one that a recovery      *)
(* undid.                                                                  *)
CompletedHasReply ==
    \A j \in JobId :
        job[j].status = "completed" /\ asked[j] # "overtaken"
            => <<j, job[j].result>> \in replies

(* An accepted request to cancel a job decides it: the job is not run to   *)
(* a result afterwards (service.py, solicitar_remocao_mensagem: "o job     *)
(* originado pela propria mensagem recebe cancelamento imediato").  Workers*)
(* may die or be late; a request is only lost when it arrives between the  *)
(* two halves of a recovery that took the job for abandoned.               *)
CancelDecides ==
    \A j \in JobId :
        asked[j] = "heard" => job[j].status \notin {"completed", "failed"}

(* Every submitted job is closed, even when its worker is killed.          *)
JobsClose ==
    \A j \in JobId : job[j].status \in Active ~> job[j].status \in Terminal
===============================================================================
