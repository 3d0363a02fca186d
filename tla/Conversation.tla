----------------------------- MODULE Conversation -----------------------------
(***************************************************************************)
(* The conversation file (eyle/runtime/service.py, web/routes.py): how a   *)
(* message is recorded together with the snapshot its job freezes, and how *)
(* a message is deleted while jobs that use it may be running.             *)
(*                                                                         *)
(* Each operator under "with lock_para(conversa.json)" is one step; the    *)
(* calls between two locks are steps of their own.  The workers are any    *)
(* client of the job table: here they reserve, reply and close.            *)
(*                                                                         *)
(* A message's text is its birth number uid, never reused; its id is       *)
(* max + 1 of the ids present, as in the code.  The snapshot filter on     *)
(* failed answers is left out: it only makes snapshots smaller.            *)
(***************************************************************************)
EXTENDS JobQueue, FiniteSetsExt

CONSTANTS
    MaxMsgs,    \* bound: messages ever recorded
    Deleters,   \* concurrent DELETE /mensagem requests, each used once
    MaxClears,  \* bound: DELETE /conversa requests
    MaxLosses,  \* bound: POSTs lost between the message and its job, and
                \* messages whose copy to the memory fails
    Copies      \* how the copy of a message to Chat Memory may end

ASSUME ConversationAssumption ==
    /\ MaxMsgs \in Nat /\ MaxClears \in Nat /\ MaxLosses \in Nat
    /\ Copies \subseteq {"none", "node", "pending"}

VARIABLES
    msgs,      \* conversa.json: id -> message
    born,      \* messages recorded so far
    conv,      \* conversation_state.json: rotated by each clear
    post,      \* POSTs that recorded the message and not yet the job
    payload,   \* the payload of each job: origin and frozen snapshot
    answered,  \* jobs that recorded their reply
    del,       \* local variables of each deletion request
    clear,     \* the pending DELETE /conversa
    lost,      \* POSTs lost, or whose copy to the memory failed
    memory     \* Chat Memory: the text of the node of each message

convVars == <<msgs, born, conv, post, payload, answered, del, clear, lost,
              memory>>
cVars    == <<queueVars, convVars>>

MsgId == 1..MaxMsgs
Uid   == 1..MaxMsgs
NoMsg == [uid |-> 0, job |-> 0, pdel |-> FALSE, after |-> {},
          copy |-> "none"]
Message == [uid : 0..MaxMsgs, job : 0..MaxJobs, pdel : BOOLEAN,
            after : SUBSET JobId, copy : Copies \union {"none"}]

(* A node of Chat Memory is named by the digest of conversation and id.    *)
NodeId == (1..(MaxClears + 1)) \X MsgId

NoPayload == [uid |-> 0, id |-> 0, frozen |-> {}]
Payload   == [uid : 0..MaxMsgs, id : 0..MaxMsgs, frozen : SUBSET (MsgId \X Uid)]

NoDel    == [pc |-> "start", id |-> 0, jobs |-> {}, cancelled |-> {}, purge |-> {}]
Deletion == [pc : {"start", "list", "cancel", "purge", "block", "mark",
                   "remove", "finish", "done"},
             id : 0..MaxMsgs,
             jobs : SUBSET JobId, cancelled : SUBSET JobId, purge : SUBSET JobId]

Present(i)   == msgs[i].uid # 0
ActiveJob(j) == job[j].status \in Active
NovoId       == 1 + Max({0} \union {i \in MsgId : Present(i)})

(* What a job submitted now would freeze. *)
Historico(m) == {<<i, m[i].uid>> : i \in {k \in MsgId : m[k].uid # 0 /\ ~m[k].pdel}}

ConversationInit ==
    /\ QueueInit
    /\ msgs = [i \in MsgId |-> NoMsg]
    /\ born = 0
    /\ conv = 1
    /\ post = {}
    /\ payload = [j \in JobId |-> NoPayload]
    /\ answered = {}
    /\ del = [d \in Deleters |-> NoDel]
    /\ clear = "no"
    /\ lost = 0
    /\ memory = [n \in NodeId |-> 0]

-------------------------------------------------------------------------------
(* ingest_chat_message: a node that is there already is kept as it is.     *)
Ingerir(n, uid) ==
    memory' = IF memory[n] = 0 THEN [memory EXCEPT ![n] = uid] ELSE memory

(* registrar_mensagem_com_snapshot, under the file's lock: the message is  *)
(* saved, then its copy to Chat Memory is attempted, then it is saved      *)
(* again with the name of the node or with chat_memory_ingest_pending.     *)
(* "none" is an error of another kind (sqlite3.OperationalError, a kill),  *)
(* which ends the caller after the first save.                             *)
Registrar(j, copy) ==
    /\ born < MaxMsgs
    /\ born' = born + 1
    /\ msgs' = [msgs EXCEPT ![NovoId] =
                  [NoMsg EXCEPT !.uid = born + 1, !.job = j, !.copy = copy]]
    /\ IF copy = "node"
       THEN Ingerir(<<conv, NovoId>>, born + 1) /\ UNCHANGED lost
       ELSE lost < MaxLosses /\ lost' = lost + 1 /\ UNCHANGED memory

(* POST /enviar: the message and its snapshot under the lock; then the job *)
(* (queue.adicionar), unless the request is lost between the two.          *)
PostMensagem(copy) ==
    /\ Registrar(0, copy)
    /\ post' = IF copy = "none" THEN post
               ELSE post \union {[uid |-> born + 1, id |-> NovoId,
                                  frozen |-> Historico(msgs')]}
    /\ UNCHANGED <<queueVars, conv, payload, answered, del, clear>>

(* Mutant of PostJob: the snapshot taken when the job is inserted.         *)
PostJobTarde(p, j) ==
    /\ p \in post
    /\ Adicionar(j, TRUE)
    /\ payload' = [payload EXCEPT ![j] = [p EXCEPT !.frozen = Historico(msgs)]]
    /\ post' = post \ {p}
    /\ UNCHANGED <<msgs, born, conv, answered, del, clear, lost, memory>>

(* Mutant of PostJob: the job names a message that was never recorded.     *)
PostJobSemPayload(p, j) ==
    /\ p \in post
    /\ Adicionar(j, TRUE)
    /\ payload' = [payload EXCEPT ![j] = [p EXCEPT !.id = MaxMsgs + p.id]]
    /\ post' = post \ {p}
    /\ UNCHANGED <<msgs, born, conv, answered, del, clear, lost, memory>>

PostJob(p, j) ==
    /\ p \in post
    /\ Adicionar(j, TRUE)
    /\ payload' = [payload EXCEPT ![j] = p]
    /\ post' = post \ {p}
    /\ UNCHANGED <<msgs, born, conv, answered, del, clear, lost, memory>>

PostPerdido(p) ==
    /\ p \in post /\ lost < MaxLosses
    /\ post' = post \ {p}
    /\ lost' = lost + 1
    /\ UNCHANGED <<queueVars, msgs, born, conv, payload, answered, del, clear, memory>>

-------------------------------------------------------------------------------
(* A worker takes a job, its child records the assistant message, and the  *)
(* worker closes the job, as cancelled when that was asked of it.          *)
Rodar(w, j) == Reservar(w, j) /\ UNCHANGED convVars

Responder(j, copy) ==
    /\ Processing(j) /\ j \notin answered
    /\ Registrar(j, copy)
    /\ answered' = IF copy = "none" THEN answered ELSE answered \union {j}
    /\ UNCHANGED <<queueVars, conv, post, payload, del, clear>>

Concluir(j) ==
    /\ PodeFechar(j)
    /\ \/ j \in answered /\ Fechar(j, "completed", job[j].attempts)
       \/ Fechar(j, "failed", 0)
    /\ UNCHANGED convVars

Parar(j) ==
    /\ Processing(j) /\ job[j].cancel
    /\ MarcarCancelado(j, 0)
    /\ UNCHANGED convVars

-------------------------------------------------------------------------------
(* finalizar_remocoes_pendentes, run by GET /conversa, by an idle worker   *)
(* and at the end of every deletion request.                               *)
AindaAtivos(i) == {j \in msgs[i].after : ActiveJob(j)}

(* Mutant of Finalizadas: a deletion waits until one of its jobs ends.     *)
FinalizadasCedo ==
    [i \in MsgId |->
        IF ~msgs[i].pdel THEN msgs[i]
        ELSE IF AindaAtivos(i) = msgs[i].after /\ msgs[i].after # {}
             THEN msgs[i] ELSE NoMsg]

(* Mutant of Finalizadas: jobs that have ended stay in the list.           *)
FinalizadasNunca ==
    [i \in MsgId |-> IF msgs[i].pdel /\ msgs[i].after = {} THEN NoMsg ELSE msgs[i]]

Finalizadas ==
    [i \in MsgId |->
        IF ~msgs[i].pdel THEN msgs[i]
        ELSE IF AindaAtivos(i) = {} THEN NoMsg
        ELSE [msgs[i] EXCEPT !.after = AindaAtivos(i)]]

FinalizarRemocoes ==
    /\ msgs' = Finalizadas
    /\ UNCHANGED <<queueVars, born, conv, post, payload, answered, del,
                   clear,
                   lost, memory>>

(* solicitar_remocao_mensagem.  First the mark, under the lock.            *)
Solicitar(d, i) ==
    /\ del[d].pc = "start" /\ Present(i)
    /\ msgs' = [msgs EXCEPT ![i].pdel = TRUE]
    /\ del' = [del EXCEPT ![d].pc = "list", ![d].id = i]
    /\ UNCHANGED <<queueVars, born, conv, post, payload, answered, clear,
                   lost, memory>>

(* jobs_da_mensagem_ativos, by message id.                                 *)
ListarJobs(d) ==
    /\ del[d].pc = "list"
    /\ del' = [del EXCEPT ![d].pc = "cancel",
                          ![d].jobs = {j \in JobId : ActiveJob(j)
                                          /\ payload[j].id = del[d].id}]
    /\ UNCHANGED <<queueVars, msgs, born, conv, post, payload, answered,
                   clear,
                   lost, memory>>

(* cancelar_job for each; "cancelled" are those it changed or found        *)
(* cancelled, whose replies are removed next.                              *)
CancelarUm(d, j) ==
    /\ del[d].pc = "cancel" /\ j \in del[d].jobs
    /\ LET ok == ActiveJob(j) \/ job[j].status = "cancelled" IN
       del' = [del EXCEPT ![d].jobs = @ \ {j},
                          ![d].cancelled = IF ok THEN @ \union {j} ELSE @,
                          ![d].purge = IF ok THEN @ \union {j} ELSE @]
    /\ IF ActiveJob(j) THEN CancelarJob(j) ELSE UNCHANGED queueVars
    /\ UNCHANGED <<msgs, born, conv, post, payload, answered, clear, lost, memory>>

RemoverRespostasDoJob(d, j) ==
    /\ del[d].pc = "cancel" /\ del[d].jobs = {} /\ j \in del[d].purge
    /\ msgs' = [i \in MsgId |-> IF msgs[i].job = j THEN NoMsg ELSE msgs[i]]
    /\ del' = [del EXCEPT ![d].purge = @ \ {j}]
    /\ UNCHANGED <<queueVars, born, conv, post, payload, answered, clear,
                   lost, memory>>

(* jobs_ativos_usando_mensagem: who has frozen a message of this id.       *)
Usando(i) == {j \in JobId : ActiveJob(j) /\ \E f \in payload[j].frozen : f[1] = i}

Bloqueadores(d) ==
    /\ del[d].pc = "cancel" /\ del[d].jobs = {} /\ del[d].purge = {}
    /\ LET aguardando == Usando(del[d].id) \ del[d].cancelled IN
       del' = [del EXCEPT ![d].pc = IF aguardando # {} THEN "mark" ELSE "remove",
                          ![d].jobs = aguardando]
    /\ UNCHANGED <<queueVars, msgs, born, conv, post, payload, answered,
                   clear,
                   lost, memory>>

(* _marcar_remocao_pendente, or remover_mensagem: both by id.              *)
MarcarOuRemover(d) ==
    /\ del[d].pc \in {"mark", "remove"}
    /\ LET i == del[d].id IN
       msgs' = IF ~Present(i) THEN msgs
               ELSE IF del[d].pc = "remove" THEN [msgs EXCEPT ![i] = NoMsg]
               ELSE [msgs EXCEPT ![i].pdel = TRUE,
                                 ![i].after = @ \union del[d].jobs]
    /\ del' = [del EXCEPT ![d].pc = "finish"]
    /\ UNCHANGED <<queueVars, born, conv, post, payload, answered, clear,
                   lost, memory>>

FinalizarPedido(d) ==
    /\ del[d].pc = "finish"
    /\ msgs' = Finalizadas
    /\ del' = [del EXCEPT ![d] = [NoDel EXCEPT !.pc = "done"]]
    /\ UNCHANGED <<queueVars, born, conv, post, payload, answered, clear,
                   lost, memory>>

(* limpar_conversa_preservando_memoria: refused while a job is active; the *)
(* table is read before the lock is taken.                                 *)
LimparVerificar ==
    /\ clear = "no" /\ conv <= MaxClears
    /\ \A j \in JobId : ~ActiveJob(j)
    /\ clear' = "free"
    /\ UNCHANGED <<queueVars, msgs, born, conv, post, payload, answered,
                   del,
                   lost, memory>>

LimparConversa ==
    /\ clear = "free"
    /\ msgs' = [i \in MsgId |-> NoMsg]
    /\ conv' = conv + 1
    /\ clear' = "no"
    /\ UNCHANGED <<queueVars, born, post, payload, answered, del, lost, memory>>

-------------------------------------------------------------------------------
Apagar(d) ==
    \/ ListarJobs(d) \/ Bloqueadores(d) \/ MarcarOuRemover(d) \/ FinalizarPedido(d)
    \/ \E j \in JobId : CancelarUm(d, j) \/ RemoverRespostasDoJob(d, j)

Trabalho(j) ==
    \/ \E w \in Workers : Rodar(w, j)
    \/ \E copy \in Copies : Responder(j, copy)
    \/ Concluir(j) \/ Parar(j)

ConversationNext ==
    \/ \E copy \in Copies : PostMensagem(copy)
    \/ \E p \in post : PostPerdido(p) \/ \E j \in JobId : PostJob(p, j)
    \/ \E j \in JobId : Trabalho(j)
    \/ FinalizarRemocoes
    \/ \E d \in Deleters : Apagar(d) \/ \E i \in MsgId : Solicitar(d, i)
    \/ LimparVerificar \/ LimparConversa

ConversationSpec == ConversationInit /\ [][ConversationNext]_cVars

(* The workers work, a deletion request runs to its end, and somebody      *)
(* reads the conversation or a worker is idle now and then.                *)
ConversationFairSpec ==
    /\ ConversationSpec
    /\ WF_cVars(FinalizarRemocoes)
    /\ \A d \in Deleters : WF_cVars(Apagar(d))
    /\ \A j \in JobId :
          WF_cVars(\E w \in Workers : Rodar(w, j)) /\ WF_cVars(Concluir(j))
          /\ WF_cVars(Parar(j))

-------------------------------------------------------------------------------
(* The type of every variable of the conversation.                         *)
ConversationTypeOK ==
    /\ msgs \in [MsgId -> Message]
    /\ born \in 0..MaxMsgs
    /\ post \subseteq Payload
    /\ payload \in [JobId -> Payload]
    /\ del \in [Deleters -> Deletion]
    /\ answered \subseteq JobId /\ clear \in {"no", "free"}
    /\ conv \in 1..(MaxClears + 1) /\ lost \in 0..MaxLosses
    /\ memory \in [NodeId -> 0..MaxMsgs]

(* A job never sees a message recorded after the one that started it,      *)
(* however many requests are in flight (registrar_mensagem_com_snapshot:   *)
(* "o snapshot atomico impede que outra requisicao web inclua uma mensagem *)
(* posterior").                                                            *)
SnapshotIsPast ==
    \A j \in JobId : \A f \in payload[j].frozen : f[2] <= payload[j].uid

(* Every variable has its type, and the messages a job was given are those *)
(* before its own.                                                         *)
SnapshotsAreSound == ConversationTypeOK /\ SnapshotIsPast

(* finalizar_remocoes_pendentes removes a message once the jobs that froze *)
(* it have ended (service.py: "Remove mensagens quando todos os jobs que   *)
(* congelaram seu contexto terminam").  The code does not keep this: the   *)
(* mark is saved with no job in its list, the jobs are listed without the  *)
(* lock, and a reader that comes in between finds nothing to wait for.     *)
(* The job of the message itself, which the request cancels, is left out.  *)
UsedBy(i) == {j \in JobId : /\ ActiveJob(j) /\ payload[j].id # i
                            /\ <<i, msgs[i].uid>> \in payload[j].frozen}

FrozenMessageStays ==
    [][FinalizarRemocoes =>
          \A i \in MsgId : Present(i) /\ UsedBy(i) # {}
             => msgs'[i].uid = msgs[i].uid]_cVars

(* From the moment the jobs are written down it does: the message stays    *)
(* until all of them have ended, whoever reads the conversation and        *)
(* whatever other requests delete.  Two ways out are the code's: a reply   *)
(* goes with the job that wrote it, and a second request for the same id   *)
(* that found no job earlier removes the message.                          *)
DeferredDeleteWaits ==
    [][\A i \in MsgId :
          msgs[i].pdel /\ AindaAtivos(i) # {} /\ msgs[i].job = 0
             => \/ msgs'[i].uid = msgs[i].uid \/ conv' # conv
                \/ \E d \in Deleters : del[d].pc = "remove" /\ del[d].id = i]_cVars

(* A message that names a node of Chat Memory finds its own text there     *)
(* (memory_graph.py, ingest_chat_message: "The node body is the exact      *)
(* conversational fact.").  The code does not keep this: the message after *)
(* a deleted one takes its id, and finds the node of the deleted one.      *)
MessageFindsItsText ==
    \A i \in MsgId : msgs[i].copy = "node" => memory[<<conv, i>>] = msgs[i].uid

(* A message whose deletion was requested eventually goes.                 *)
PendingDeleteGoes ==
    \A i \in MsgId : msgs[i].pdel ~> ~msgs[i].pdel
===============================================================================
