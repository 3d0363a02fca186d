------------------------------- MODULE JobProofs -------------------------------
(***************************************************************************)
(* Proofs about the open job table, for every number of jobs and attempts, *)
(* every set of workers and every number of concurrent recoveries; then    *)
(* about its two groups of clients.  The workers, their children and those *)
(* who watch them, for every number of processes and jobs and every        *)
(* circumstance, only ever do what the open job table allows, so what is   *)
(* shown of the table is true of the whole system, however many processes  *)
(* die or are late.  The conversation file, for every number of messages,  *)
(* jobs, deletion requests, clears and losses, needs nothing of the job    *)
(* table but its calls.                                                    *)
(***************************************************************************)
EXTENDS JobWorker, Conversation, FiniteSetTheorems, WellFoundedInduction, TLAPS

-------------------------------------------------------------------------------
(* The open job table.                                                     *)

(* A row that ran has a readable payload.  A request on a waiting row can  *)
(* only be left over from a running one, which recovery put back.          *)
ReadableOnceRun ==
    \A j \in JobId :
        Processing(j) \/ (Pending(j) /\ job[j].cancel) => job[j].valid

AbsentNeverTried ==
    \A j \in JobId : job[j].status = "absent" => job[j].attempts = 0

QueueIInv ==
    /\ QueueTypeOK
    /\ CancelBeatsResult
    /\ ReadableOnceRun
    /\ AbsentNeverTried

-------------------------------------------------------------------------------
(* The shape of every step: either the table is left alone, or exactly one *)
(* row changes, by one of the transitions below.                           *)
RowStep(old, new) ==
    \/ /\ old.status = "absent"
       /\ \E v \in BOOLEAN :
             new = [NoRow EXCEPT !.status = "pending", !.valid = v]
    \/ /\ old.status = "pending" /\ ~old.valid
       /\ new = [old EXCEPT !.status = "failed"]
    \/ /\ old.status = "pending" /\ old.valid /\ old.attempts < MaxAttempts
       /\ \E w \in Workers :
             new = [old EXCEPT !.status = "processing", !.worker = w,
                               !.attempts = @ + 1, !.phase = "starting",
                               !.cancel = FALSE]
    \/ /\ old.status \in Active
       /\ \E p \in Phases : new = [old EXCEPT !.phase = p]
    \/ /\ old.status = "pending"
       /\ new = [old EXCEPT !.status = "cancelled", !.cancel = TRUE,
                            !.phase = "cancelled"]
    \/ /\ old.status = "processing"
       /\ new = [old EXCEPT !.cancel = TRUE, !.phase = "cancelling"]
    \/ /\ old.status \in Active
       /\ \E a \in 0..MaxAttempts :
             new = [old EXCEPT !.status = "cancelled", !.cancel = TRUE,
                               !.phase = "cancelled", !.result = a]
    \/ /\ old.status = "processing" /\ ~old.cancel
       /\ \E a \in 0..MaxAttempts, s \in {"completed", "failed"} :
             new = [old EXCEPT !.status = s, !.result = a]
    \/ /\ old.status = "processing"
       /\ \/ new = [old EXCEPT !.status = "cancelled", !.worker = NoWorker]
          \/ new = [old EXCEPT !.status = "pending", !.worker = NoWorker]

(* What one step of any client can do to the table. *)
LEMMA OneRowAtATime ==
    ASSUME QueueTypeOK, [QueueNext]_queueVars
    PROVE  \/ UNCHANGED job
           \/ \E j \in JobId : /\ RowStep(job[j], job'[j])
                               /\ job' = [job EXCEPT ![j] = job'[j]]
                               /\ (Processing(j)' /\ Pending(j)) => Oldest(j)
<1> USE DEF QueueTypeOK
<1>1. CASE UNCHANGED queueVars
  BY <1>1 DEF queueVars
<1>2. ASSUME NEW j \in JobId, TableStep(j)
      PROVE  \/ UNCHANGED job
             \/ /\ RowStep(job[j], job'[j])
                /\ job' = [job EXCEPT ![j] = job'[j]]
                /\ (Processing(j)' /\ Pending(j)) => Oldest(j)
  <2>1. ASSUME NEW valid \in BOOLEAN, Adicionar(j, valid)
        PROVE  /\ RowStep(job[j], job'[j])
               /\ job' = [job EXCEPT ![j] = job'[j]] /\ ~Pending(j)
    BY <2>1 DEF Adicionar, RowStep, Pending
  <2>2. CASE ReservarInvalido(j)
    BY <2>2 DEF ReservarInvalido, RowStep, Pending, Processing, Oldest, Row
  <2>3. ASSUME NEW w \in Workers, Reservar(w, j)
        PROVE  /\ RowStep(job[j], job'[j])
               /\ job' = [job EXCEPT ![j] = job'[j]] /\ Oldest(j)
    BY <2>3 DEF Reservar, RowStep, Oldest, Pending
  <2>4. ASSUME NEW phase \in {"agent", "completed", "failed"},
               AtualizarProgresso(j, phase)
        PROVE  \/ UNCHANGED job
               \/ /\ RowStep(job[j], job'[j])
                  /\ job' = [job EXCEPT ![j] = job'[j]]
                  /\ ~(Processing(j)' /\ Pending(j))
    <3>1. phase \in Phases
      BY DEF Phases
    <3>2. CASE job[j].status \in Active /\ ~job[j].cancel
      <4>1. job' = [job EXCEPT ![j].phase = phase]
        BY <2>4, <3>2 DEF AtualizarProgresso
      <4>2. job'[j] = [job[j] EXCEPT !.phase = phase]
        BY <4>1
      <4>3. RowStep(job[j], job'[j])
        BY <3>1, <3>2, <4>2 DEF RowStep
      <4>4. job' = [job EXCEPT ![j] = job'[j]] /\ ~(Processing(j)' /\ Pending(j))
        BY <4>1, SMTT(240) DEF Pending, Processing, Row
      <4>5. QED
        BY <4>3, <4>4
    <3>3. QED
      BY <2>4, <3>2 DEF AtualizarProgresso
  <2>5. CASE CancelarJob(j)
    BY <2>5, ZenonT(240) DEF CancelarJob, CancelarPendente, SinalizarCancelamento, RowStep,
                Pending, Processing, Row
  <2>6. ASSUME NEW a \in 0..MaxAttempts, MarcarCancelado(j, a)
        PROVE  \/ UNCHANGED job
               \/ /\ RowStep(job[j], job'[j])
                  /\ job' = [job EXCEPT ![j] = job'[j]] /\ ~Processing(j)'
    BY <2>6, ZenonT(240) DEF MarcarCancelado, RowStep, Active, Processing, Row
  <2>7. ASSUME NEW a \in 0..MaxAttempts, NEW s \in {"completed", "failed"},
               Fechar(j, s, a)
        PROVE  \/ UNCHANGED job
               \/ /\ RowStep(job[j], job'[j])
                  /\ job' = [job EXCEPT ![j] = job'[j]] /\ ~Pending(j)
    BY <2>7 DEF Fechar, PodeFechar, RowStep, Processing, Pending
  <2>8. QED
    BY <1>2, <2>1, <2>2, <2>3, <2>4, <2>5, <2>6, <2>7 DEF TableStep
<1>3. ASSUME NEW w \in Workers, WorkerStep(w)
      PROVE  UNCHANGED job
  BY <1>3 DEF WorkerStep, Heartbeat, Envelhecer, Morrer
<1>4. ASSUME NEW r \in Recoverers, Recuperar(r)
      PROVE  \/ UNCHANGED job
             \/ \E j \in JobId : /\ RowStep(job[j], job'[j])
                                 /\ job' = [job EXCEPT ![j] = job'[j]]
                                 /\ ~Processing(j)'
  <2>1. ASSUME NEW j \in JobId, RecuperarCancelar(r, j)
        PROVE  \/ UNCHANGED job
               \/ /\ RowStep(job[j], job'[j])
                  /\ job' = [job EXCEPT ![j] = job'[j]] /\ ~Processing(j)'
    BY <2>1, ZenonT(240) DEF RecuperarCancelar, RowStep, Processing, Row
  <2>2. ASSUME NEW j \in JobId, RecuperarRecolocar(r, j)
        PROVE  \/ UNCHANGED job
               \/ /\ RowStep(job[j], job'[j])
                  /\ job' = [job EXCEPT ![j] = job'[j]] /\ ~Processing(j)'
    BY <2>2, ZenonT(240) DEF RecuperarRecolocar, RowStep, Processing, Row
  <2>3. QED
    BY <1>4, <2>1, <2>2 DEF Recuperar, RecuperarLer, RecuperarFim
<1>5. QED
  BY <1>1, <1>2, <1>3, <1>4 DEF QueueNext

(* What a row transition keeps, whatever row it starts from.               *)
RowFacts(old, new) ==
    /\ new \in Row
    /\ old.status \notin Terminal
    /\ new.status # "absent"
    /\ /\ old.status = "pending" /\ old.cancel => old.valid
       /\ old.status = "processing" => old.valid
       => /\ new.status \in {"completed", "failed"} => ~new.cancel
          /\ new.status = "pending" /\ new.cancel => new.valid
          /\ new.status = "processing" => new.valid

LEMMA RowStepKeeps ==
    ASSUME NEW old \in Row, NEW new, RowStep(old, new)
    PROVE  RowFacts(old, new)
<1> USE JobQueueAssumption DEF RowFacts, Row, Phases, Terminal, Active
<1>1. ASSUME NEW v \in BOOLEAN, old.status = "absent",
             new = [NoRow EXCEPT !.status = "pending", !.valid = v]
      PROVE  RowFacts(old, new)
  <2>1. new = [status |-> "pending", worker |-> NoWorker, attempts |-> 0,
               cancel |-> FALSE, phase |-> "none", result |-> 0, valid |-> v]
    BY <1>1 DEF NoRow
  <2>2. 0 \in 0..MaxAttempts
    OBVIOUS
  <2>3. new \in Row
    BY <2>1, <2>2
  <2>4. new.status = "pending" /\ ~new.cancel
    BY <2>1
  <2>5. old.status = "absent"
    BY <1>1
  <2>6. QED
    BY <2>3, <2>4, <2>5
<1>2. CASE /\ old.status = "pending" /\ ~old.valid
           /\ new = [old EXCEPT !.status = "failed"]
  BY <1>2
<1>3. ASSUME NEW w \in Workers, old.status = "pending", old.valid,
             old.attempts < MaxAttempts,
             new = [old EXCEPT !.status = "processing", !.worker = w,
                               !.attempts = @ + 1, !.phase = "starting",
                               !.cancel = FALSE]
      PROVE  RowFacts(old, new)
  <2>1. old.attempts + 1 \in 0..MaxAttempts
    BY <1>3
  <2>2. new \in Row
    BY <1>3, <2>1
  <2>3. QED
    BY <1>3, <2>2
<1>4. ASSUME NEW p \in Phases, old.status \in Active,
             new = [old EXCEPT !.phase = p]
      PROVE  RowFacts(old, new)
  BY <1>4
<1>5. CASE /\ old.status = "pending"
           /\ new = [old EXCEPT !.status = "cancelled", !.cancel = TRUE,
                                !.phase = "cancelled"]
  BY <1>5
<1>6. CASE /\ old.status = "processing"
           /\ new = [old EXCEPT !.cancel = TRUE, !.phase = "cancelling"]
  BY <1>6
<1>7. ASSUME NEW a \in 0..MaxAttempts, old.status \in Active,
             new = [old EXCEPT !.status = "cancelled", !.cancel = TRUE,
                               !.phase = "cancelled", !.result = a]
      PROVE  RowFacts(old, new)
  BY <1>7
<1>8. ASSUME NEW a \in 0..MaxAttempts, NEW s \in {"completed", "failed"},
             old.status = "processing", ~old.cancel,
             new = [old EXCEPT !.status = s, !.result = a]
      PROVE  RowFacts(old, new)
  BY <1>8
<1>9. CASE /\ old.status = "processing"
           /\ \/ new = [old EXCEPT !.status = "cancelled", !.worker = NoWorker]
              \/ new = [old EXCEPT !.status = "pending", !.worker = NoWorker]
  BY <1>9, ZenonT(240)
<1>10. QED
  BY <1>1, <1>2, <1>3, <1>4, <1>5, <1>6, <1>7, <1>8, <1>9 DEF RowStep

-------------------------------------------------------------------------------
LEMMA QueueInitOK == QueueInit => QueueIInv
  BY JobQueueAssumption
     DEF QueueInit, QueueIInv, QueueTypeOK, CancelBeatsResult, ReadableOnceRun,
         AbsentNeverTried, NoRow, Row, Recovery, Processing, Pending,
         Phases, Active, Terminal

(* The bookkeeping outside the table keeps its type. *)
LEMMA BookkeepingOK ==
    ASSUME QueueTypeOK, [QueueNext]_queueVars
    PROVE  /\ beat' \in [Workers -> {"none", "fresh", "stale"}]
           /\ dead' \in SUBSET Workers
           /\ rec' \in [Recoverers -> Recovery]
<1> USE DEF QueueTypeOK
<1>1. CASE UNCHANGED queueVars
  BY <1>1 DEF queueVars
<1>2. ASSUME NEW j \in JobId, TableStep(j)
      PROVE  UNCHANGED <<beat, dead, rec>>
  BY <1>2 DEF TableStep, Adicionar, ReservarInvalido, Reservar,
              AtualizarProgresso, CancelarJob, CancelarPendente,
              SinalizarCancelamento, MarcarCancelado, Fechar
<1>3. ASSUME NEW w \in Workers, WorkerStep(w)
      PROVE  /\ beat' \in [Workers -> {"none", "fresh", "stale"}]
             /\ dead' \in SUBSET Workers /\ rec' = rec
  BY <1>3 DEF WorkerStep, Heartbeat, Envelhecer, Morrer
<1>4. ASSUME NEW r \in Recoverers, Recuperar(r)
      PROVE  UNCHANGED <<beat, dead>> /\ rec' \in [Recoverers -> Recovery]
  <2>1. CASE RecuperarLer(r)
    BY <2>1 DEF RecuperarLer, Recovery
  <2>2. ASSUME NEW j \in JobId, RecuperarCancelar(r, j)
        PROVE  UNCHANGED <<beat, dead>> /\ rec' \in [Recoverers -> Recovery]
    BY <2>2 DEF RecuperarCancelar, Recovery
  <2>3. ASSUME NEW j \in JobId, RecuperarRecolocar(r, j)
        PROVE  UNCHANGED <<beat, dead>> /\ rec' \in [Recoverers -> Recovery]
    BY <2>3 DEF RecuperarRecolocar, Recovery
  <2>4. CASE RecuperarFim(r)
    BY <2>4 DEF RecuperarFim, Recovery
  <2>5. QED
    BY <1>4, <2>1, <2>2, <2>3, <2>4 DEF Recuperar
<1>5. QED
  BY <1>1, <1>2, <1>3, <1>4 DEF QueueNext

LEMMA QueueStepOK ==
    ASSUME QueueIInv, [QueueNext]_queueVars
    PROVE  QueueIInv'
<1> USE DEF QueueIInv
<1>1. CASE UNCHANGED job
  BY <1>1, BookkeepingOK
     DEF QueueTypeOK, CancelBeatsResult, ReadableOnceRun, AbsentNeverTried,
         Processing, Pending
<1>2. ASSUME NEW j \in JobId, RowStep(job[j], job'[j]),
             job' = [job EXCEPT ![j] = job'[j]]
      PROVE  QueueIInv'
  <2>1. job[j] \in Row
    BY DEF QueueTypeOK
  <2>2. RowFacts(job[j], job'[j])
    BY <1>2, <2>1, RowStepKeeps
  <2>3. \A k \in JobId : k # j => job'[k] = job[k]
    BY <1>2 DEF QueueTypeOK
  <2>4. QueueTypeOK'
    BY <1>2, <2>2, BookkeepingOK DEF QueueTypeOK, RowFacts
  <2>5. CancelBeatsResult' /\ ReadableOnceRun' /\ AbsentNeverTried'
    BY <2>2, <2>3 DEF RowFacts, CancelBeatsResult, ReadableOnceRun,
                      AbsentNeverTried, Processing, Pending
  <2>6. QED
    BY <2>4, <2>5
<1>3. QED
  BY <1>1, <1>2, OneRowAtATime

(* Every variable of the job table keeps its type. *)
THEOREM TypeCorrect == QueueSpec => []QueueTypeOK
<1>1. QueueIInv /\ [QueueNext]_queueVars => QueueIInv'
  BY QueueStepOK
<1>2. QueueIInv => QueueTypeOK
  BY DEF QueueIInv
<1>3. QED
  BY QueueInitOK, <1>1, <1>2, PTL DEF QueueSpec

(* A standing cancel request is never overtaken by a result: no job is     *)
(* completed or failed with the request set (concluir, falhar).            *)
THEOREM CancelWins == QueueSpec => []CancelBeatsResult
<1>1. QueueIInv /\ [QueueNext]_queueVars => QueueIInv'
  BY QueueStepOK
<1>2. QueueIInv => CancelBeatsResult
  BY DEF QueueIInv
<1>3. QED
  BY QueueInitOK, <1>1, <1>2, PTL DEF QueueSpec

(* A closed row is never written again, by any call of any client.         *)
THEOREM ClosedIsFinal == QueueSpec => ClosedJobIsFinal
<1>1. ASSUME QueueIInv, [QueueNext]_queueVars
      PROVE  [\A j \in JobId : job[j].status \in Terminal => job'[j] = job[j]]_job
  <2>1. ASSUME NEW j \in JobId, RowStep(job[j], job'[j]),
               job' = [job EXCEPT ![j] = job'[j]]
        PROVE  \A k \in JobId : job[k].status \in Terminal => job'[k] = job[k]
    <3>1. job[j].status \notin Terminal
      BY <1>1, <2>1, RowStepKeeps, SMTT(240) DEF QueueIInv, QueueTypeOK, RowFacts
    <3>2. QED
      BY <1>1, <2>1, <3>1 DEF QueueIInv, QueueTypeOK
  <2>2. QED
    BY <1>1, <2>1, OneRowAtATime DEF QueueIInv
<1>2. QueueIInv /\ [QueueNext]_queueVars => QueueIInv'
  BY QueueStepOK
<1>3. QED
  BY QueueInitOK, <1>1, <1>2, PTL DEF QueueSpec, ClosedJobIsFinal

-------------------------------------------------------------------------------
(* What a row transition is in the abstract life cycle.                    *)
AbstractRowStep(old, new) ==
    \/ /\ StageOf(new) = StageOf(old)
       /\ new.attempts = old.attempts
       /\ OutcomeOf(new) = OutcomeOf(old)
    \/ /\ StageOf(old) = "absent" /\ StageOf(new) = "waiting"
       /\ new.attempts = old.attempts /\ OutcomeOf(new) = OutcomeOf(old)
    \/ /\ StageOf(old) = "waiting" /\ StageOf(new) = "running"
       /\ old.attempts < MaxAttempts /\ new.attempts = old.attempts + 1
       /\ OutcomeOf(new) = OutcomeOf(old)
    \/ /\ StageOf(old) = "running" /\ StageOf(new) = "waiting"
       /\ new.attempts = old.attempts /\ OutcomeOf(new) = OutcomeOf(old)
    \/ /\ StageOf(old) \in {"waiting", "running"} /\ StageOf(new) = "closed"
       /\ new.attempts = old.attempts
       /\ OutcomeOf(new) \in Lifecycle!Closes
       /\ OutcomeOf(new).how = "completed" => StageOf(old) = "running"

LEMMA RowStepMaps ==
    ASSUME NEW old \in Row, NEW new, RowStep(old, new),
           old.status = "absent" => old.attempts = 0
    PROVE  AbstractRowStep(old, new)
<1> USE JobQueueAssumption
    DEF AbstractRowStep, StageOf, OutcomeOf, Row, Terminal, Active,
        Lifecycle!Closes
<1>1. ASSUME NEW v \in BOOLEAN, old.status = "absent",
             new = [NoRow EXCEPT !.status = "pending", !.valid = v]
      PROVE  AbstractRowStep(old, new)
  <2>1. new.status = "pending" /\ new.attempts = 0
    BY <1>1 DEF NoRow
  <2>2. old.status = "absent" /\ old.attempts = 0
    BY <1>1
  <2>3. QED
    BY <2>1, <2>2
<1>2. CASE /\ old.status = "pending" /\ ~old.valid
           /\ new = [old EXCEPT !.status = "failed"]
  BY <1>2
<1>3. ASSUME NEW w \in Workers, old.status = "pending", old.valid,
             old.attempts < MaxAttempts,
             new = [old EXCEPT !.status = "processing", !.worker = w,
                               !.attempts = @ + 1, !.phase = "starting",
                               !.cancel = FALSE]
      PROVE  AbstractRowStep(old, new)
  BY <1>3
<1>4. ASSUME NEW p \in Phases, old.status \in Active,
             new = [old EXCEPT !.phase = p]
      PROVE  AbstractRowStep(old, new)
  BY <1>4
<1>5. CASE /\ old.status = "pending"
           /\ new = [old EXCEPT !.status = "cancelled", !.cancel = TRUE,
                                !.phase = "cancelled"]
  BY <1>5
<1>6. CASE /\ old.status = "processing"
           /\ new = [old EXCEPT !.cancel = TRUE, !.phase = "cancelling"]
  BY <1>6
<1>7. ASSUME NEW a \in 0..MaxAttempts, old.status \in Active,
             new = [old EXCEPT !.status = "cancelled", !.cancel = TRUE,
                               !.phase = "cancelled", !.result = a]
      PROVE  AbstractRowStep(old, new)
  BY <1>7
<1>8. ASSUME NEW a \in 0..MaxAttempts, NEW s \in {"completed", "failed"},
             old.status = "processing", ~old.cancel,
             new = [old EXCEPT !.status = s, !.result = a]
      PROVE  AbstractRowStep(old, new)
  BY <1>8
<1>9. CASE /\ old.status = "processing"
           /\ \/ new = [old EXCEPT !.status = "cancelled", !.worker = NoWorker]
              \/ new = [old EXCEPT !.status = "pending", !.worker = NoWorker]
  BY <1>9, ZenonT(240)
<1>10. QED
  BY <1>1, <1>2, <1>3, <1>4, <1>5, <1>6, <1>7, <1>8, <1>9, ZenonT(240) DEF RowStep

LEMMA QueueInitMaps == QueueInit => Lifecycle!Init
  BY DEF QueueInit, NoRow, Lifecycle!Init, Lifecycle!Ids, Lifecycle!Open, JobId,
         jobStage, jobTries, jobOutcome, StageOf, OutcomeOf, Terminal

LEMMA QueueStepMaps ==
    ASSUME QueueIInv, [QueueNext]_queueVars
    PROVE  [Lifecycle!Next]_(Lifecycle!vars)
<1> USE DEF jobStage, jobTries, jobOutcome
<1>1. CASE UNCHANGED job
  BY <1>1 DEF Lifecycle!vars, StageOf, OutcomeOf
<1>2. ASSUME NEW j \in JobId, RowStep(job[j], job'[j]),
             job' = [job EXCEPT ![j] = job'[j]],
             (Processing(j)' /\ Pending(j)) => Oldest(j)
      PROVE  [Lifecycle!Next]_(Lifecycle!vars)
  <2>1. job[j] \in Row /\ (job[j].status = "absent" => job[j].attempts = 0)
    BY DEF QueueIInv, QueueTypeOK, AbsentNeverTried
  <2>2. AbstractRowStep(job[j], job'[j])
    BY <1>2, <2>1, RowStepMaps
  <2>3. /\ jobStage' = [jobStage EXCEPT ![j] = StageOf(job'[j])]
        /\ jobTries' = [jobTries EXCEPT ![j] = job'[j].attempts]
        /\ jobOutcome' = [jobOutcome EXCEPT ![j] = OutcomeOf(job'[j])]
    BY <1>2, ZenonT(240) DEF QueueIInv, QueueTypeOK, StageOf, OutcomeOf
  <2>4. /\ jobStage[j] = StageOf(job[j])
        /\ jobTries[j] = job[j].attempts
        /\ jobOutcome[j] = OutcomeOf(job[j])
    OBVIOUS
  <2>5. CASE /\ StageOf(job'[j]) = StageOf(job[j])
             /\ job'[j].attempts = job[j].attempts
             /\ OutcomeOf(job'[j]) = OutcomeOf(job[j])
    BY <2>3, <2>4, <2>5 DEF Lifecycle!vars
  <2>6. CASE /\ StageOf(job[j]) = "absent" /\ StageOf(job'[j]) = "waiting"
             /\ job'[j].attempts = job[j].attempts
             /\ OutcomeOf(job'[j]) = OutcomeOf(job[j])
    <3>1. Lifecycle!Submit(j)
      BY <2>3, <2>4, <2>6 DEF Lifecycle!Submit
    <3>2. QED
      BY <3>1 DEF Lifecycle!Next, Lifecycle!Ids, JobId
  <2>7. CASE /\ StageOf(job[j]) = "waiting" /\ StageOf(job'[j]) = "running"
             /\ job[j].attempts < MaxAttempts
             /\ job'[j].attempts = job[j].attempts + 1
             /\ OutcomeOf(job'[j]) = OutcomeOf(job[j])
    <3>1. Pending(j) /\ Processing(j)'
      BY <2>7 DEF StageOf, Pending, Processing
    <3>2. \A k \in JobId : jobStage[k] = "waiting" => j <= k
      BY <1>2, <3>1 DEF Oldest, Pending, StageOf
    <3>3. Lifecycle!Start(j)
      BY <2>3, <2>4, <2>7, <3>2 DEF Lifecycle!Start, Lifecycle!Ids, JobId
    <3>4. QED
      BY <3>3 DEF Lifecycle!Next, Lifecycle!Ids, JobId
  <2>8. CASE /\ StageOf(job[j]) = "running" /\ StageOf(job'[j]) = "waiting"
             /\ job'[j].attempts = job[j].attempts
             /\ OutcomeOf(job'[j]) = OutcomeOf(job[j])
    <3>1. Lifecycle!GiveBack(j)
      BY <2>3, <2>4, <2>8 DEF Lifecycle!GiveBack
    <3>2. QED
      BY <3>1 DEF Lifecycle!Next, Lifecycle!Ids, JobId
  <2>9. CASE /\ StageOf(job[j]) \in {"waiting", "running"}
             /\ StageOf(job'[j]) = "closed"
             /\ job'[j].attempts = job[j].attempts
             /\ OutcomeOf(job'[j]) \in Lifecycle!Closes
             /\ OutcomeOf(job'[j]).how = "completed"
                   => StageOf(job[j]) = "running"
    <3>1. Lifecycle!Close(j, OutcomeOf(job'[j]))
      BY <2>3, <2>4, <2>9 DEF Lifecycle!Close
    <3>2. QED
      BY <2>9, <3>1 DEF Lifecycle!Next, Lifecycle!Ids, JobId
  <2>10. QED
    BY <2>2, <2>5, <2>6, <2>7, <2>8, <2>9 DEF AbstractRowStep
<1>3. QED
  BY <1>1, <1>2, OneRowAtATime DEF QueueIInv

(* The job table implements the abstract life cycle: whatever the workers, *)
(* the heartbeats and the recoveries do, a client sees a job that waits,   *)
(* runs, possibly waits again, and is closed once with one outcome.        *)
THEOREM ImplementsLifecycle == QueueSpec => LifecycleSpec
<1>1. QueueIInv /\ [QueueNext]_queueVars => QueueIInv'
  BY QueueStepOK
<1>2. QueueIInv /\ [QueueNext]_queueVars => [Lifecycle!Next]_(Lifecycle!vars)
  BY QueueStepMaps
<1>3. QED
  BY QueueInitOK, QueueInitMaps, <1>1, <1>2, PTL
     DEF QueueSpec, LifecycleSpec, Lifecycle!Spec

-------------------------------------------------------------------------------
(* The workers on it.                                                      *)
(* A consumer in the middle of a turn has a job and its attempt, and so    *)
(* does a child that runs: the calls they make are about a row that is     *)
(* there.                                                                  *)
BetweenTurns == {"off", "recovering", "idle", "turn_end"}

BusyHasJob ==
    \A w \in Workers :
        /\ con[w].pc \notin BetweenTurns =>
              con[w].job \in JobId /\ con[w].att \in Attempt
        /\ child[w].st # "none" =>
              child[w].job \in JobId /\ child[w].att \in Attempt

WorkerIInv == QueueIInv /\ WorkerTypeOK /\ BusyHasJob

-------------------------------------------------------------------------------
LEMMA WorkerInitOK == WorkerInit => WorkerIInv
<1> SUFFICES ASSUME WorkerInit PROVE WorkerIInv
  OBVIOUS
<1>1. QueueIInv
  BY QueueInitOK DEF WorkerInit
<1>2. WorkerTypeOK /\ BusyHasJob
  BY JobQueueAssumption
     DEF WorkerInit, WorkerTypeOK, BusyHasJob, BetweenTurns, Consumer, Child,
         Idle, NoChild, NoJob
<1>3. QED
  BY <1>1, <1>2 DEF WorkerIInv

(* Each step of a turn is one transaction of the table, or none.           *)
LEMMA TurnIsTableStep ==
    ASSUME WorkerIInv, NEW w \in Workers, Turno(w)
    PROVE  [QueueNext]_queueVars
<1> USE DEF WorkerIInv, BusyHasJob, BetweenTurns
<1>r. w \in Recoverers
  BY JobWorkerAssumption
<1>1. CASE Recuperando(w)
  BY <1>1, <1>r DEF Recuperando, QueueNext, Recuperar, workerVars
<1>2. CASE FimDoTurno(w) \/ Ocioso(w) \/ Bater(w)
  BY <1>2 DEF FimDoTurno, Ocioso, Bater, QueueNext, WorkerStep
<1>3. CASE Pegar(w)
  BY <1>3 DEF Pegar, Alive, QueueNext, TableStep
<1>4. CASE Comecar(w)
  BY <1>4 DEF Comecar, QueueNext, WorkerStep
<1>5. CASE Interromper(w) \/ Receber(w)
  BY <1>5 DEF Interromper, Receber
<1>6. CASE FecharChecar(w)
  <2>1. /\ con[w].job \in JobId
        /\ con[w].att \in 0..MaxAttempts /\ 0 \in 0..MaxAttempts
    BY <1>6, JobQueueAssumption DEF FecharChecar, Attempt
  <2>2. \/ UNCHANGED queueVars
        \/ \E a \in 0..MaxAttempts : MarcarCancelado(con[w].job, a)
    BY <1>6, <2>1 DEF FecharChecar
  <2>3. QED
    BY <2>1, <2>2 DEF QueueNext, TableStep
<1>7. CASE FecharProgresso(w)
  <2>1. /\ con[w].job \in JobId
        /\ StatusFinal(w) \in {"agent", "completed", "failed"}
    BY <1>7 DEF FecharProgresso, StatusFinal
  <2>2. AtualizarProgresso(con[w].job, StatusFinal(w))
    BY <1>7 DEF FecharProgresso
  <2>3. QED
    BY <2>1, <2>2 DEF QueueNext, TableStep
<1>8. CASE FecharAtualizar(w)
  <2>1. con[w].job \in JobId /\ StatusFinal(w) \in {"completed", "failed"}
    BY <1>8 DEF FecharAtualizar, StatusFinal
  <2>2. con[w].att \in 0..MaxAttempts /\ 0 \in 0..MaxAttempts
    BY <1>8, JobQueueAssumption DEF FecharAtualizar, Attempt
  <2>3. \E a \in 0..MaxAttempts : Fechar(con[w].job, StatusFinal(w), a)
    BY <1>8, <2>2 DEF FecharAtualizar
  <2>4. QED
    BY <2>1, <2>3 DEF QueueNext, TableStep
<1>9. CASE NaoFechou(w)
  BY <1>9 DEF NaoFechou
<1>10. CASE FinalizarCancelamento(w)
  <2>1. con[w].job \in JobId /\ 0 \in 0..MaxAttempts
    BY <1>10, JobQueueAssumption DEF FinalizarCancelamento
  <2>2. MarcarCancelado(con[w].job, 0)
    BY <1>10 DEF FinalizarCancelamento
  <2>3. QED
    BY <2>1, <2>2 DEF QueueNext, TableStep
<1>11. QED
  BY <1>1, <1>2, <1>3, <1>4, <1>5, <1>6, <1>7, <1>8, <1>9, <1>10 DEF Turno

LEMMA StepIsTableStep ==
    ASSUME WorkerIInv, [WorkerNext]_allVars
    PROVE  [QueueNext]_queueVars
<1>1. CASE UNCHANGED allVars
  BY <1>1 DEF allVars, queueVars
<1>2. ASSUME NEW w \in Workers, Iniciar(w)
      PROVE  [QueueNext]_queueVars
  BY <1>2, JobWorkerAssumption DEF Iniciar, QueueNext, Recuperar
<1>3. ASSUME NEW w \in Workers, Filho(w)
      PROVE  [QueueNext]_queueVars
  BY <1>3 DEF WorkerIInv, BusyHasJob, Filho, FilhoResponder, FilhoTerminar,
              QueueNext, TableStep
<1>4. ASSUME NEW w \in Workers, Matar(w) \/ Atrasar(w)
      PROVE  [QueueNext]_queueVars
  BY <1>4 DEF Matar, Atrasar, QueueNext, WorkerStep
<1>5. ASSUME NEW j \in JobId, Cliente(j)
      PROVE  [QueueNext]_queueVars
  BY <1>5 DEF Cliente, Enviar, Cancelar, RemoverRespostas, QueueNext, TableStep
<1>6. QED
  BY <1>1, <1>2, <1>3, <1>4, <1>5, TurnIsTableStep DEF WorkerNext

-------------------------------------------------------------------------------
(* A consumer that moves on keeps its type, and a job if it is busy.       *)
LEMMA MovingKeeps ==
    ASSUME WorkerTypeOK, BusyHasJob, NEW w \in Workers, NEW c \in Consumer,
           c.pc \notin BetweenTurns => c.job \in JobId /\ c.att \in Attempt,
           con' = [con EXCEPT ![w] = c],
           UNCHANGED <<child, replies, purge, asked, setting>>
    PROVE  WorkerTypeOK' /\ BusyHasJob'
  BY DEF WorkerTypeOK, BusyHasJob

LEMMA GoingKeeps ==
    ASSUME WorkerTypeOK, BusyHasJob, NEW w \in Workers, NEW pc, GoTo(w, pc),
           \/ pc \in BetweenTurns
           \/ /\ con[w].pc \notin BetweenTurns
              /\ pc \in {"reserved", "running", "close", "progress", "update",
                         "missed", "cancel"}
    PROVE  WorkerTypeOK' /\ BusyHasJob'
<1> DEFINE c == [con[w] EXCEPT !.pc = pc]
<1>1. con[w] \in Consumer
  BY DEF WorkerTypeOK
<1>2. /\ c \in Consumer
      /\ c.pc \notin BetweenTurns => c.job \in JobId /\ c.att \in Attempt
  BY <1>1 DEF Consumer, BusyHasJob, BetweenTurns
<1>3. /\ con' = [con EXCEPT ![w] = c]
      /\ UNCHANGED <<child, replies, purge, asked, setting>>
  BY DEF GoTo, WorkerTypeOK
<1> HIDE DEF c
<1>4. QED
  BY <1>2, <1>3, MovingKeeps

(* So does one that starts or ends its child.                              *)
LEMMA ChildKeeps ==
    ASSUME WorkerTypeOK, BusyHasJob, NEW w \in Workers,
           NEW c \in Consumer, NEW k \in Child,
           c.pc \notin BetweenTurns => c.job \in JobId /\ c.att \in Attempt,
           k.st # "none" => k.job \in JobId /\ k.att \in Attempt,
           con' = [con EXCEPT ![w] = c], child' = [child EXCEPT ![w] = k],
           UNCHANGED <<replies, purge, asked, setting>>
    PROVE  WorkerTypeOK' /\ BusyHasJob'
  BY DEF WorkerTypeOK, BusyHasJob

LEMMA StandingKeeps ==
    ASSUME WorkerTypeOK, BusyHasJob, UNCHANGED workerVars
    PROVE  WorkerTypeOK' /\ BusyHasJob'
  BY DEF WorkerTypeOK, BusyHasJob, workerVars

(* The number of an attempt is the one the reservation wrote, so it is in  *)
(* bounds.                                                                 *)
LEMMA TakingKeeps ==
    ASSUME WorkerIInv, NEW w \in Workers, Pegar(w)
    PROVE  WorkerTypeOK' /\ BusyHasJob'
<1> USE DEF WorkerIInv
<1>1. CASE UNCHANGED workerVars
  BY <1>1, StandingKeeps
<1>2. ASSUME NEW j \in JobId, Reservar(w, j),
             con' = [con EXCEPT ![w] = [pc |-> "reserved", job |-> j,
                                        att |-> job[j].attempts + 1,
                                        out |-> "none"]],
             UNCHANGED <<child, replies, purge, asked, setting>>
      PROVE  WorkerTypeOK' /\ BusyHasJob'
  <2> DEFINE c == [pc |-> "reserved", job |-> j, att |-> job[j].attempts + 1,
                   out |-> "none"]
  <2>1. job[j].attempts \in 0..MaxAttempts /\ job[j].attempts < MaxAttempts
    BY <1>2 DEF QueueIInv, QueueTypeOK, Row, Reservar
  <2>2. /\ job[j].attempts + 1 \in Attempt
        /\ job[j].attempts + 1 \in 0..MaxAttempts
    BY <2>1, JobQueueAssumption DEF Attempt
  <2>3. c \in Consumer /\ c.job \in JobId /\ c.att \in Attempt
    BY <2>2 DEF Consumer
  <2>4. con' = [con EXCEPT ![w] = c]
    BY <1>2
  <2> HIDE DEF c
  <2>5. QED
    BY <1>2, <2>3, <2>4, MovingKeeps
<1>3. QED
  BY <1>1, <1>2 DEF Pegar

LEMMA TurnKeeps ==
    ASSUME WorkerIInv, NEW w \in Workers, Turno(w)
    PROVE  WorkerTypeOK' /\ BusyHasJob'
<1> USE DEF WorkerIInv
<1>c. con[w] \in Consumer /\ child[w] \in Child
  BY DEF WorkerTypeOK
<1>1. CASE Recuperando(w)
  BY <1>1, StandingKeeps, GoingKeeps DEF Recuperando, BetweenTurns
<1>2. CASE FimDoTurno(w)
  <2>1. Idle \in Consumer /\ Idle.pc \in BetweenTurns
    BY JobQueueAssumption DEF Idle, Consumer, BetweenTurns, NoJob
  <2>2. QED
    BY <1>2, <2>1, MovingKeeps DEF FimDoTurno
<1>3. CASE Ocioso(w) \/ Bater(w)
  BY <1>3, StandingKeeps DEF Ocioso, Bater
<1>4. CASE Pegar(w)
  BY <1>4, TakingKeeps
<1>5. CASE Comecar(w)
  <2> DEFINE c == [con[w] EXCEPT !.pc = "running"]
             k == [st |-> "running", job |-> con[w].job, att |-> con[w].att,
                   out |-> "none"]
  <2>1. con[w].pc = "reserved" /\ con[w].pc \notin BetweenTurns
    BY <1>5 DEF Comecar, BetweenTurns
  <2>2. con[w].job \in JobId /\ con[w].att \in Attempt
    BY <2>1 DEF BusyHasJob
  <2>3. c \in Consumer /\ c.job = con[w].job /\ c.att = con[w].att
    BY <1>c DEF Consumer
  <2>4. k \in Child /\ k.job \in JobId /\ k.att \in Attempt
    BY <1>c, <2>2 DEF Child, Consumer
  <2>5. CASE GoTo(w, "cancel")
    BY <2>1, <2>5, GoingKeeps
  <2>6. CASE ~GoTo(w, "cancel")
    <3>1. /\ con' = [con EXCEPT ![w] = c]
          /\ child' = [child EXCEPT ![w] = k]
          /\ UNCHANGED <<replies, purge, asked, setting>>
      BY <1>5, <2>6 DEF Comecar
    <3> HIDE DEF c, k
    <3>2. QED
      BY <2>2, <2>3, <2>4, <3>1, ChildKeeps
  <2>7. QED
    BY <2>5, <2>6
<1>6. CASE Interromper(w) \/ Receber(w)
  <2>1. con[w].pc \notin BetweenTurns
    BY <1>6 DEF Interromper, Receber, BetweenTurns
  <2>2. con[w].job \in JobId /\ con[w].att \in Attempt
    BY <2>1 DEF BusyHasJob
  <2>3. NoChild \in Child /\ NoChild.st = "none"
    BY JobQueueAssumption DEF NoChild, Child, NoJob
  <2>4. PICK c \in Consumer : /\ c.job = con[w].job /\ c.att = con[w].att
                              /\ con' = [con EXCEPT ![w] = c]
    <3>1. CASE Interromper(w)
      <4>1. [con[w] EXCEPT !.pc = "cancel"] \in Consumer
        BY <1>c DEF Consumer
      <4>2. QED
        BY <1>c, <3>1, <4>1 DEF Interromper, Consumer
    <3>2. CASE Receber(w)
      <4> DEFINE c == [con[w] EXCEPT
             !.pc = IF CancelamentoSolicitado(con[w].job) THEN "cancel" ELSE "close",
             !.out = child[w].out]
      <4>1. c \in Consumer /\ c.job = con[w].job /\ c.att = con[w].att
        BY <1>c DEF Consumer, Child
      <4>2. con' = [con EXCEPT ![w] = c]
        BY <3>2 DEF Receber
      <4>3. QED
        BY <4>1, <4>2
    <3>3. QED
      BY <1>6, <3>1, <3>2
  <2>5. /\ child' = [child EXCEPT ![w] = NoChild]
        /\ UNCHANGED <<replies, purge, asked, setting>>
    BY <1>6 DEF Interromper, Receber
  <2>6. QED
    BY <2>2, <2>3, <2>4, <2>5, ChildKeeps
<1>7. CASE FecharChecar(w)
  BY <1>7, GoingKeeps DEF FecharChecar, BetweenTurns
<1>8. CASE FecharProgresso(w)
  BY <1>8, GoingKeeps DEF FecharProgresso, BetweenTurns
<1>9. CASE FecharAtualizar(w)
  <2>1. con[w].pc \notin BetweenTurns
    BY <1>9 DEF FecharAtualizar, BetweenTurns
  <2>2. GoTo(w, "turn_end") \/ GoTo(w, "missed")
    BY <1>9 DEF FecharAtualizar
  <2>3. QED
    BY <2>1, <2>2, GoingKeeps DEF BetweenTurns
<1>10. CASE NaoFechou(w)
  <2>1. con[w].pc \notin BetweenTurns
    BY <1>10 DEF NaoFechou, BetweenTurns
  <2>2. GoTo(w, "cancel") \/ GoTo(w, "turn_end")
    BY <1>10 DEF NaoFechou
  <2>3. QED
    BY <2>1, <2>2, GoingKeeps DEF BetweenTurns
<1>11. CASE FinalizarCancelamento(w)
  BY <1>11, GoingKeeps DEF FinalizarCancelamento, BetweenTurns
<1>12. QED
  BY <1>1, <1>2, <1>3, <1>4, <1>5, <1>6, <1>7, <1>8, <1>9, <1>10, <1>11
  DEF Turno

LEMMA WorkerStepOK ==
    ASSUME WorkerIInv, [WorkerNext]_allVars
    PROVE  WorkerIInv'
<1> USE DEF WorkerIInv
<1>1. QueueIInv'
  BY StepIsTableStep, QueueStepOK
<1>2. WorkerTypeOK' /\ BusyHasJob'
  <2>1. CASE UNCHANGED workerVars
    BY <2>1, StandingKeeps
  <2>2. ASSUME NEW w \in Workers, Iniciar(w)
        PROVE  WorkerTypeOK' /\ BusyHasJob'
    BY <2>2, GoingKeeps DEF Iniciar, BetweenTurns
  <2>3. ASSUME NEW w \in Workers, Filho(w)
        PROVE  WorkerTypeOK' /\ BusyHasJob'
    <3>1. child[w] \in Child
      BY DEF WorkerTypeOK
    <3>2. CASE FilhoResponder(w)
      <4> DEFINE k == [child[w] EXCEPT !.st = "replied"]
      <4>1. k \in Child /\ k.job = child[w].job /\ k.att = child[w].att
        BY <3>1 DEF Child
      <4>2. /\ child[w].st # "none" /\ child' = [child EXCEPT ![w] = k]
            /\ replies' = replies \union {<<child[w].job, child[w].att>>}
            /\ UNCHANGED <<con, purge, asked, setting>>
        BY <3>2 DEF FilhoResponder
      <4>3. child[w].job \in JobId /\ child[w].att \in Attempt
        BY <4>2 DEF BusyHasJob
      <4> HIDE DEF k
      <4>4. QED
        BY <4>1, <4>2, <4>3 DEF WorkerTypeOK, BusyHasJob
    <3>3. ASSUME NEW out \in {"completed", "failed", "exception"}, FilhoTerminar(w, out)
          PROVE  WorkerTypeOK' /\ BusyHasJob'
      <4> DEFINE k == [child[w] EXCEPT !.st = "sent", !.out = out]
      <4>1. k \in Child /\ k.job = child[w].job /\ k.att = child[w].att
        BY <3>1 DEF Child
      <4>2. /\ child[w].st # "none" /\ child' = [child EXCEPT ![w] = k]
            /\ UNCHANGED <<con, replies, purge, asked, setting>>
        BY <3>3 DEF FilhoTerminar
      <4>3. child[w].job \in JobId /\ child[w].att \in Attempt
        BY <4>2 DEF BusyHasJob
      <4> HIDE DEF k
      <4>4. QED
        BY <4>1, <4>2, <4>3 DEF WorkerTypeOK, BusyHasJob
    <3>4. QED
      BY <2>3, <3>2, <3>3 DEF Filho
  <2>4. ASSUME NEW w \in Workers, Matar(w) \/ Atrasar(w)
        PROVE  WorkerTypeOK' /\ BusyHasJob'
    BY <2>4, StandingKeeps DEF Matar, Atrasar
  <2>5. ASSUME NEW j \in JobId, Cliente(j)
        PROVE  WorkerTypeOK' /\ BusyHasJob'
    BY <2>5, StandingKeeps
       DEF Cliente, Enviar, Cancelar, RemoverRespostas, WorkerTypeOK,
           BusyHasJob
  <2>6. QED
    BY <2>1, <2>2, <2>3, <2>4, <2>5, TurnKeeps
    DEF WorkerNext, allVars, workerVars
<1>3. QED
  BY <1>1, <1>2

-------------------------------------------------------------------------------
(* A request that was heard stays in the row until the job is closed as    *)
(* cancelled, and no live recovery is about to put the row back: one that  *)
(* reads later reads the request.                                          *)
RequestStands ==
    \A j \in JobId : asked[j] = "heard" =>
        \/ job[j].status = "cancelled"
        \/ Processing(j) /\ job[j].cancel /\ ~ARecolocar(j)

(* A step that is no request keeps every request, if each row it touches   *)
(* keeps its own.                                                          *)
LEMMA RowsKeepRequests ==
    ASSUME WorkerIInv, RequestStands, UNCHANGED <<rec, asked>>,
           dead \subseteq dead',
           \A j \in JobId :
              /\ job[j].status = "cancelled" => job'[j].status = "cancelled"
              /\ Processing(j) /\ job[j].cancel =>
                    \/ job'[j].status = "cancelled"
                    \/ job'[j].status = "processing" /\ job'[j].cancel
    PROVE  RequestStands'
  BY DEF RequestStands, ARecolocar, Processing

LEMMA TurnKeepsRequests ==
    ASSUME WorkerIInv, RequestStands, NEW w \in Workers, Turno(w)
    PROVE  RequestStands'
<1> USE DEF WorkerIInv, QueueIInv, QueueTypeOK
<1>j. /\ job \in [JobId -> Row]
      /\ \A j \in JobId : job[j] = [job[j] EXCEPT !.phase = job[j].phase]
  BY DEF Row
<1>1. CASE Recuperando(w)
  <2>r. w \in Recoverers \ dead
    BY <1>1, JobWorkerAssumption DEF Recuperando, Alive
  <2>1. ASSUME NEW j \in JobId, RecuperarCancelar(w, j), UNCHANGED workerVars
        PROVE  RequestStands'
    <3>1. \A r \in Recoverers : rec'[r].toRequeue = rec[r].toRequeue
      BY <2>1 DEF RecuperarCancelar, Recovery
    <3>2. /\ asked' = asked /\ dead' = dead
          /\ \A k \in JobId : \/ job'[k] = job[k]
                               \/ job'[k].status = "cancelled"
      BY <2>1, <1>j DEF RecuperarCancelar, workerVars, Row
    <3>3. QED
      BY <3>1, <3>2 DEF RequestStands, ARecolocar, Processing
  <2>2. ASSUME NEW j \in JobId, RecuperarRecolocar(w, j), UNCHANGED workerVars
        PROVE  RequestStands'
    <3>1. \A r \in Recoverers : rec'[r].toRequeue \subseteq rec[r].toRequeue
      BY <2>2 DEF RecuperarRecolocar, Recovery
    <3>2. asked' = asked /\ dead' = dead /\ ARecolocar(j)
      BY <2>2, <2>r DEF RecuperarRecolocar, workerVars, ARecolocar
    <3>3. \A k \in JobId : asked[k] = "heard" => job'[k] = job[k]
      BY <2>2, <3>2, <1>j
         DEF RecuperarRecolocar, RequestStands, Processing, Row
    <3>4. QED
      BY <3>1, <3>2, <3>3 DEF RequestStands, ARecolocar, Processing
  <2>3. CASE RecuperarFim(w) /\ GoTo(w, "turn_end")
    <3>1. \A r \in Recoverers : rec'[r].toRequeue = rec[r].toRequeue
      BY <2>3 DEF RecuperarFim, Recovery
    <3>2. UNCHANGED <<job, dead, asked>>
      BY <2>3 DEF RecuperarFim, GoTo
    <3>3. QED
      BY <3>1, <3>2 DEF RequestStands, ARecolocar, Processing
  <2>4. QED
    BY <1>1, <2>1, <2>2, <2>3 DEF Recuperando
<1>2. CASE FimDoTurno(w) \/ Ocioso(w) \/ Bater(w) \/ Interromper(w)
           \/ Receber(w) \/ NaoFechou(w) \/ Comecar(w)
  <2>1. UNCHANGED <<job, dead, rec, asked>>
    BY <1>2 DEF FimDoTurno, Ocioso, Bater, Interromper, Receber, NaoFechou,
                Comecar, Heartbeat, workerVars, queueVars, GoTo
  <2>2. QED
    BY <2>1 DEF RequestStands, ARecolocar, Processing
<1>3. CASE Pegar(w)
  <2>1. UNCHANGED <<dead, rec, asked>>
    BY <1>3 DEF Pegar, Reservar, ReservarInvalido, workerVars
  <2>2. \A j \in JobId : job[j].status # "pending" => job'[j] = job[j]
    BY <1>3, <1>j DEF Pegar, Reservar, ReservarInvalido, Oldest, Pending
  <2>3. QED
    BY <2>1, <2>2, RowsKeepRequests DEF Processing
<1>4. CASE FecharChecar(w) \/ FinalizarCancelamento(w)
  <2>1. UNCHANGED <<dead, rec, asked>>
    BY <1>4, SMTT(240) DEF FecharChecar, FinalizarCancelamento, MarcarCancelado,
                queueVars, GoTo
  <2>2. \A j \in JobId : job'[j] = job[j] \/ job'[j].status = "cancelled"
    BY <1>4, <1>j DEF FecharChecar, FinalizarCancelamento, MarcarCancelado,
                      queueVars, Row
  <2>3. QED
    BY <2>1, <2>2, RowsKeepRequests, SMTT(240) DEF Processing
<1>5. CASE FecharProgresso(w)
  <2>1. UNCHANGED <<dead, rec, asked>>
    BY <1>5 DEF FecharProgresso, AtualizarProgresso, GoTo
  <2>2. \A j \in JobId : /\ job'[j].status = job[j].status
                         /\ job'[j].cancel = job[j].cancel
    BY <1>5, <1>j DEF FecharProgresso, AtualizarProgresso, Row
  <2>3. QED
    BY <2>1, <2>2, RowsKeepRequests DEF Processing
<1>6. CASE FecharAtualizar(w)
  <2>1. UNCHANGED <<dead, rec, asked>>
    BY <1>6, SMTT(240) DEF FecharAtualizar, Fechar, GoTo
  <2>2. \A j \in JobId : job[j].cancel \/ ~Processing(j) => job'[j] = job[j]
    BY <1>6, <1>j DEF FecharAtualizar, Fechar, PodeFechar, Processing
  <2>3. QED
    BY <2>1, <2>2, RowsKeepRequests DEF Processing
<1>7. QED
  BY <1>1, <1>2, <1>3, <1>4, <1>5, <1>6 DEF Turno

LEMMA RequestsStand ==
    ASSUME WorkerIInv, RequestStands, [WorkerNext]_allVars
    PROVE  RequestStands'
<1> USE DEF WorkerIInv, QueueIInv, QueueTypeOK
<1>j. job \in [JobId -> Row] /\ asked \in [JobId -> {"no", "heard", "overtaken"}]
  BY DEF WorkerTypeOK
<1>1. CASE UNCHANGED <<job, rec, dead, asked>>
  BY <1>1 DEF RequestStands, ARecolocar, Processing
<1>2. ASSUME NEW w \in Workers, Iniciar(w)
      PROVE  RequestStands'
  <2>1. UNCHANGED <<job, dead, asked>>
    BY <1>2 DEF Iniciar, RecuperarLer, GoTo
  <2>2. \A r \in Recoverers, j \in JobId :
           Processing(j) /\ job[j].cancel /\ j \in rec'[r].toRequeue
              => j \in rec[r].toRequeue
    BY <1>2 DEF Iniciar, RecuperarLer, Recovery
  <2>3. QED
    BY <2>1, <2>2 DEF RequestStands, ARecolocar, Processing
<1>3. ASSUME NEW w \in Workers, Filho(w)
      PROVE  RequestStands'
  <2>1. UNCHANGED <<dead, rec, asked>>
    BY <1>3 DEF Filho, FilhoResponder, FilhoTerminar, AtualizarProgresso, queueVars
  <2>2. \A j \in JobId : /\ job'[j].status = job[j].status
                         /\ job'[j].cancel = job[j].cancel
    BY <1>3, <1>j, SMTT(240) DEF Filho, FilhoResponder, FilhoTerminar, AtualizarProgresso,
                      queueVars, Row
  <2>3. QED
    BY <2>1, <2>2, RowsKeepRequests DEF Processing
<1>4. ASSUME NEW w \in Workers, Matar(w) \/ Atrasar(w)
      PROVE  RequestStands'
  BY <1>4, RowsKeepRequests
     DEF Matar, Atrasar, Morrer, Envelhecer, workerVars, Processing
<1>5. ASSUME NEW j \in JobId, Cliente(j)
      PROVE  RequestStands'
  <2>1. CASE \E valid \in BOOLEAN : Enviar(j, valid)
    <3>1. \A k \in JobId : job[k].status # "absent" => job'[k] = job[k]
      BY <2>1, <1>j DEF Enviar, Adicionar
    <3>2. UNCHANGED <<dead, rec, asked>>
      BY <2>1 DEF Enviar, Adicionar, workerVars
    <3>3. QED
      BY <3>1, <3>2, RowsKeepRequests DEF Processing
  <2>2. CASE Cancelar(j)
    <3>1. UNCHANGED <<dead, rec>>
      BY <2>2 DEF Cancelar, CancelarJob, CancelarPendente, SinalizarCancelamento
    <3>2. \A k \in JobId \ {j} : job'[k] = job[k] /\ asked'[k] = asked[k]
      BY <2>2, <1>j
         DEF Cancelar, CancelarJob, CancelarPendente, SinalizarCancelamento
    <3>3. \/ job'[j].status = "cancelled"
          \/ job'[j].status = "processing" /\ job'[j].cancel
      BY <2>2, <1>j DEF Cancelar, CancelarJob, CancelarPendente,
                        SinalizarCancelamento, Processing, Row
    <3>4. asked'[j] = "heard" => ~ARecolocar(j)
      BY <2>2, <1>j DEF Cancelar
    <3>5. QED
      BY <3>1, <3>2, <3>3, <3>4 DEF RequestStands, ARecolocar, Processing
  <2>3. CASE RemoverRespostas(j)
    BY <2>3, <1>1, SMTT(240) DEF RemoverRespostas, queueVars
  <2>4. QED
    BY <1>5, <2>1, <2>2, <2>3 DEF Cliente
<1>6. QED
  BY <1>1, <1>2, <1>3, <1>4, <1>5, TurnKeepsRequests
     DEF WorkerNext, allVars, queueVars, workerVars

-------------------------------------------------------------------------------
(* What follows holds in every circumstance: processes that die, that are  *)
(* late and go on after another one took their job, or that start side by  *)
(* side.  A consumer whose last UPDATE matched nothing has lost the row or *)
(* was asked to cancel it.                                                 *)
MissedIsAsked ==
    \A w \in Workers : con[w].pc = "missed" =>
        LET row == job[con[w].job] IN
        row.status = "processing" /\ row.worker = w => row.cancel

(* A process that polls has a child, which works on the same attempt.      *)
ChildrenServe ==
    \A w \in Workers : con[w].pc = "running" =>
        /\ child[w].st # "none"
        /\ child[w].job = con[w].job /\ child[w].att = con[w].att

(* An answer on its way to the table is in the conversation already,       *)
(* unless somebody asked to cancel its job.                                *)
Answered(j, att) == asked[j] # "no" \/ <<j, att>> \in replies

AnswersAreStored ==
    /\ \A w \in Workers :
          child[w].st = "replied" \/ (child[w].st = "sent" /\ child[w].out = "completed")
             => Answered(child[w].job, child[w].att)
    /\ \A w \in Workers :
          con[w].pc \in {"close", "progress", "update"} /\ con[w].out = "completed"
             => Answered(con[w].job, con[w].att)
    /\ \A j \in JobId :
          job[j].status = "completed" => Answered(j, job[j].result)
    /\ \A j \in purge : asked[j] # "no"

RunnerIInv ==
    /\ WorkerIInv /\ RequestStands
    /\ HolderHasTheJob /\ MissedIsAsked /\ AttemptHasOneRunner
    /\ ChildrenServe /\ AnswersAreStored

(* What a row transition does to the holder, the attempt and the request.  *)
RowOutcome(old, new) ==
    /\ old.status \notin Terminal
    /\ new.attempts \in 0..MaxAttempts /\ old.attempts <= new.attempts
    /\ old.status = "processing" =>
          /\ new.attempts = old.attempts
          /\ new.status = "processing" => /\ new.worker = old.worker
                                          /\ old.cancel => new.cancel

LEMMA RowOutcomes ==
    ASSUME NEW old \in Row, NEW new, RowStep(old, new),
           old.status = "absent" => old.attempts = 0
    PROVE  RowOutcome(old, new)
<1>1. old.attempts \in 0..MaxAttempts /\ MaxAttempts \in Nat
  BY JobQueueAssumption DEF Row
<1>2. /\ old.status \notin Terminal
      /\ \/ new.attempts = old.attempts
         \/ /\ old.status = "pending" /\ old.attempts < MaxAttempts
            /\ new.attempts = old.attempts + 1
  BY ZenonT(60) DEF RowStep, Row, NoRow, Terminal, Active
<1>3. old.status = "processing" /\ new.status = "processing" =>
         new.worker = old.worker /\ (old.cancel => new.cancel)
  BY DEF RowStep, Row, Active
<1>4. QED
  BY <1>1, <1>2, <1>3 DEF RowOutcome

LEMMA EveryRow ==
    ASSUME WorkerIInv, [WorkerNext]_allVars, NEW j \in JobId
    PROVE  job'[j] = job[j] \/ RowOutcome(job[j], job'[j])
<1>1. QueueTypeOK /\ [QueueNext]_queueVars
  BY StepIsTableStep DEF WorkerIInv, QueueIInv
<1>2. CASE UNCHANGED job
  BY <1>2
<1>3. ASSUME NEW k \in JobId, RowStep(job[k], job'[k]),
             job' = [job EXCEPT ![k] = job'[k]]
      PROVE  job'[j] = job[j] \/ RowOutcome(job[j], job'[j])
  <2>1. RowOutcome(job[k], job'[k])
    BY <1>1, <1>3, RowOutcomes DEF QueueTypeOK, WorkerIInv, QueueIInv, AbsentNeverTried
  <2>2. j # k => job'[j] = job[j]
    BY <1>1, <1>3 DEF QueueTypeOK
  <2>3. QED
    BY <2>1, <2>2
<1>4. QED
  BY <1>1, <1>2, <1>3, OneRowAtATime

(* The ways the step of a turn leaves the other processes alone, and what  *)
(* it makes of its own consumer.                                           *)
TurnEffect(w) ==
    /\ Alive(w) /\ con[w].pc # "off" /\ con'[w].pc # "off"
    /\ con'[w].pc \in {"idle", "recovering"} =>
          con[w].pc \in {con'[w].pc, "turn_end"}
    /\ con[w].pc = "recovering" => con'[w].pc \in {"recovering", "turn_end"}
    /\ UNCHANGED <<dead, replies, purge, asked, setting>>
    /\ \A v \in Workers \ {w} : con'[v] = con[v] /\ child'[v] = child[v]

LEMMA GoingIsLocal ==
    ASSUME WorkerIInv, NEW w \in Workers, NEW pc, GoTo(w, pc)
    PROVE  /\ con'[w].pc = pc
           /\ con'[w].job = con[w].job /\ con'[w].att = con[w].att
           /\ con'[w].out = con[w].out
           /\ UNCHANGED <<child, replies, purge, asked, setting>>
           /\ \A v \in Workers \ {w} : con'[v] = con[v]
  BY DEF GoTo, WorkerIInv, WorkerTypeOK, Consumer

LEMMA TurnsAreLocal ==
    ASSUME WorkerIInv, NEW w \in Workers, Turno(w)
    PROVE  TurnEffect(w)
<1> USE DEF TurnEffect
<1>t. con \in [Workers -> Consumer] /\ child \in [Workers -> Child]
  BY DEF WorkerIInv, WorkerTypeOK
<1>1. CASE Recuperando(w)
  <2>1. /\ Alive(w) /\ con[w].pc = "recovering" /\ dead' = dead
        /\ UNCHANGED workerVars \/ GoTo(w, "turn_end")
    BY <1>1 DEF Recuperando, RecuperarCancelar, RecuperarRecolocar, RecuperarFim
  <2>2. CASE UNCHANGED workerVars
    BY <2>1, <2>2 DEF workerVars
  <2>3. CASE GoTo(w, "turn_end")
    BY <2>1, <2>3, GoingIsLocal
  <2>4. QED
    BY <2>1, <2>2, <2>3
<1>2. CASE FimDoTurno(w) \/ Ocioso(w) \/ Bater(w)
  BY <1>2, <1>t DEF FimDoTurno, Ocioso, Bater, Heartbeat, Idle, workerVars
<1>3. CASE Pegar(w)
  BY <1>3, <1>t DEF Pegar, Reservar, ReservarInvalido, workerVars
<1>4. CASE Comecar(w)
  <2>1. Alive(w) /\ con[w].pc = "reserved" /\ dead' = dead
    BY <1>4 DEF Comecar, Heartbeat
  <2>2. CASE GoTo(w, "cancel")
    BY <2>1, <2>2, GoingIsLocal
  <2>3. CASE ~GoTo(w, "cancel")
    <3>1. /\ con' = [con EXCEPT ![w].pc = "running"]
          /\ \E k : child' = [child EXCEPT ![w] = k]
          /\ UNCHANGED <<replies, purge, asked, setting>>
      BY <1>4, <2>3 DEF Comecar
    <3>2. QED
      BY <1>t, <2>1, <3>1
  <2>4. QED
    BY <2>2, <2>3
<1>5. CASE Interromper(w)
  BY <1>5, <1>t DEF Interromper, queueVars
<1>6. CASE Receber(w)
  <2> DEFINE c == [con[w] EXCEPT
         !.pc = IF CancelamentoSolicitado(con[w].job) THEN "cancel" ELSE "close",
         !.out = child[w].out]
  <2>1. con' = [con EXCEPT ![w] = c]
    BY <1>6 DEF Receber
  <2>2. c.pc \in {"cancel", "close"}
    BY <1>t DEF Consumer
  <2>3. /\ Alive(w) /\ con[w].pc = "running"
        /\ UNCHANGED <<dead, replies, purge, asked, setting>>
        /\ child' = [child EXCEPT ![w] = NoChild]
    BY <1>6 DEF Receber, queueVars
  <2> HIDE DEF c
  <2>4. QED
    BY <1>t, <2>1, <2>2, <2>3
<1>7. ASSUME NEW pc, GoTo(w, pc), dead' = dead, Alive(w),
             pc \notin {"off", "idle", "recovering"},
             con[w].pc \notin {"off", "recovering"}
      PROVE  TurnEffect(w)
  BY <1>7, GoingIsLocal
<1>8. CASE FecharChecar(w)
  BY <1>8, <1>7 DEF FecharChecar, MarcarCancelado, queueVars
<1>9. CASE FecharProgresso(w)
  BY <1>9, <1>7 DEF FecharProgresso, AtualizarProgresso
<1>10. CASE FecharAtualizar(w)
  BY <1>10, <1>7 DEF FecharAtualizar, Fechar
<1>11. CASE NaoFechou(w)
  BY <1>11, <1>7 DEF NaoFechou, queueVars
<1>12. CASE FinalizarCancelamento(w)
  BY <1>12, <1>7 DEF FinalizarCancelamento, MarcarCancelado
<1>13. QED
  BY <1>1, <1>2, <1>3, <1>4, <1>5, <1>6, <1>8, <1>9, <1>10, <1>11, <1>12
     DEF Turno

(* The steps of the children, the clients and the operating system leave   *)
(* the consumers alone.                                                    *)
LEMMA OthersAreLocal ==
    ASSUME WorkerIInv,
           \/ UNCHANGED allVars
           \/ \E w \in Workers : Filho(w) \/ Matar(w) \/ Atrasar(w)
           \/ \E j \in JobId : Cliente(j)
    PROVE  UNCHANGED <<con, setting, rec>> /\ dead \subseteq dead'
<1>1. CASE UNCHANGED allVars
  BY <1>1, SMTT(240) DEF allVars, queueVars, workerVars
<1>2. ASSUME NEW w \in Workers, Filho(w) \/ Matar(w) \/ Atrasar(w)
      PROVE  UNCHANGED <<con, setting, rec>> /\ dead \subseteq dead'
  BY <1>2, SMTT(240) DEF Filho, FilhoResponder, FilhoTerminar, AtualizarProgresso, Matar,
              Morrer, Atrasar, Envelhecer, queueVars, workerVars
<1>3. ASSUME NEW j \in JobId, Cliente(j)
      PROVE  UNCHANGED <<con, setting, rec>> /\ dead \subseteq dead'
  BY <1>3, ZenonT(240) DEF Cliente, Enviar, Adicionar, Cancelar, CancelarJob,
              CancelarPendente, SinalizarCancelamento, RemoverRespostas,
              queueVars, workerVars
<1>4. QED
  BY <1>1, <1>2, <1>3

(* Only a live idle consumer starts a job.                                 *)
Takes(w, j) ==
    /\ con[w].pc = "idle" /\ Alive(w) /\ Reservar(w, j)
    /\ con'[w] = [pc |-> "reserved", job |-> j, att |-> job[j].attempts + 1,
                  out |-> "none"]

LEMMA TakingReserves ==
    ASSUME NEW w \in Workers, NEW j \in JobId, Takes(w, j)
    PROVE  con'[w].pc = "reserved"
  BY DEF Takes

LEMMA OnlyTakingStarts ==
    ASSUME WorkerIInv, [WorkerNext]_allVars,
           NEW j \in JobId, ~Processing(j), job'[j].status = "processing"
    PROVE  \E w \in Workers : Takes(w, j)
<1>j. job \in [JobId -> Row] /\ con \in [Workers -> Consumer]
  BY DEF WorkerIInv, QueueIInv, QueueTypeOK, WorkerTypeOK
<1> USE <1>j DEF Row, Processing
<1>1. ASSUME NEW w \in Workers, Turno(w)
      PROVE  Takes(w, j)
  <2>1. CASE Recuperando(w)
    BY <2>1 DEF Recuperando, RecuperarCancelar, RecuperarRecolocar, RecuperarFim
  <2>2. CASE FimDoTurno(w) \/ Ocioso(w) \/ Bater(w) \/ Comecar(w)
             \/ Interromper(w) \/ Receber(w) \/ NaoFechou(w)
    BY <2>2 DEF FimDoTurno, Ocioso, Bater, Comecar, Heartbeat, Interromper,
                Receber, NaoFechou, queueVars
  <2>3. CASE Pegar(w)
    <3>1. ASSUME NEW k \in JobId, ReservarInvalido(k)
          PROVE  FALSE
      BY <3>1 DEF ReservarInvalido
    <3>2. PICK k \in JobId :
             /\ Reservar(w, k)
             /\ con' = [con EXCEPT ![w] = [pc |-> "reserved", job |-> k,
                                           att |-> job[k].attempts + 1,
                                           out |-> "none"]]
      BY <2>3, <3>1 DEF Pegar
    <3>3. k = j
      BY <3>2 DEF Reservar
    <3>4. QED
      BY <2>3, <3>2, <3>3 DEF Pegar, Takes
  <2>4. CASE FecharChecar(w) \/ FinalizarCancelamento(w)
    BY <2>4 DEF FecharChecar, FinalizarCancelamento, MarcarCancelado, queueVars
  <2>5. CASE FecharProgresso(w)
    BY <2>5 DEF FecharProgresso, AtualizarProgresso
  <2>6. CASE FecharAtualizar(w)
    BY <2>6 DEF FecharAtualizar, Fechar, StatusFinal
  <2>7. QED
    BY <1>1, <2>1, <2>2, <2>3, <2>4, <2>5, <2>6 DEF Turno
<1>2. ASSUME NEW w \in Workers, Iniciar(w) \/ Filho(w) \/ Matar(w) \/ Atrasar(w)
      PROVE  FALSE
  BY <1>2 DEF Iniciar, RecuperarLer, Filho, FilhoResponder, FilhoTerminar,
              AtualizarProgresso, Matar, Morrer, Atrasar, Envelhecer, queueVars
<1>3. ASSUME NEW k \in JobId, Cliente(k)
      PROVE  FALSE
  <2>1. ASSUME NEW valid \in BOOLEAN, Enviar(k, valid)
        PROVE  FALSE
    <3>1. /\ [NoRow EXCEPT !.status = "pending", !.valid = valid].status = "pending"
          /\ job' = [job EXCEPT ![k] = [NoRow EXCEPT !.status = "pending",
                                                    !.valid = valid]]
      BY <2>1 DEF Enviar, Adicionar, NoRow
    <3>2. QED
      BY <3>1
  <2>2. CASE Cancelar(k)
    BY <2>2 DEF Cancelar, CancelarJob, Pending, CancelarPendente,
                SinalizarCancelamento
  <2>3. CASE RemoverRespostas(k)
    BY <2>3 DEF RemoverRespostas, queueVars
  <2>4. QED
    BY <1>3, <2>1, <2>2, <2>3 DEF Cliente
<1>4. CASE UNCHANGED allVars
  BY <1>4 DEF allVars, queueVars
<1>5. QED
  BY <1>1, <1>2, <1>3, <1>4 DEF WorkerNext

(* What becomes of the job a consumer has, and of its child.               *)
Closing == {"close", "progress", "update"}

GoesOn(w) ==
    \/ \E j \in JobId : Takes(w, j)
    \/ con'[w].pc \notin {"reserved", "running"} \union Closing
    \/ /\ Holds(w) /\ con'[w].job = con[w].job /\ con'[w].att = con[w].att
       /\ con'[w].pc \in Closing =>
             \/ con[w].pc \in Closing /\ con'[w].out = con[w].out
             \/ /\ con[w].pc = "running" /\ child[w].st = "sent"
                /\ con'[w].out = child[w].out
       /\ con'[w].pc = "running" =>
             \/ con[w].pc = "running" /\ child'[w] = child[w]
             \/ child'[w] = [st |-> "running", job |-> con[w].job,
                             att |-> con[w].att, out |-> "none"]

ChildSettles(w) ==
    child'[w] = child[w] \/ child'[w].st \in {"none", "running"}

LEMMA TurnsGoOn ==
    ASSUME WorkerIInv, NEW w \in Workers, Turno(w)
    PROVE  GoesOn(w) /\ ChildSettles(w)
<1> USE DEF GoesOn, ChildSettles
<1>t. con \in [Workers -> Consumer] /\ child \in [Workers -> Child]
  BY DEF WorkerIInv, WorkerTypeOK
<1>1. CASE Recuperando(w)
  <2>1. con[w].pc = "recovering" /\ (UNCHANGED workerVars \/ GoTo(w, "turn_end"))
    BY <1>1 DEF Recuperando
  <2>2. CASE UNCHANGED workerVars
    BY <2>1, <2>2 DEF workerVars, Closing
  <2>3. CASE GoTo(w, "turn_end")
    BY <2>3, GoingIsLocal DEF Closing
  <2>4. QED
    BY <2>1, <2>2, <2>3
<1>2. CASE FimDoTurno(w)
  BY <1>2, <1>t DEF FimDoTurno, Idle, Closing
<1>3. CASE Ocioso(w) \/ Bater(w)
  BY <1>3 DEF Ocioso, Bater, workerVars, Closing, Holds
<1>4. CASE Pegar(w)
  <2>1. child' = child
    BY <1>4 DEF Pegar, workerVars
  <2>2. CASE UNCHANGED workerVars
    BY <1>4, <2>2 DEF Pegar, workerVars, Closing
  <2>3. ASSUME NEW j \in JobId, Reservar(w, j),
               con' = [con EXCEPT ![w] = [pc |-> "reserved", job |-> j,
                                          att |-> job[j].attempts + 1,
                                          out |-> "none"]]
        PROVE  Takes(w, j)
    BY <1>4, <1>t, <2>3 DEF Pegar, Takes
  <2>4. QED
    BY <1>4, <2>1, <2>2, <2>3 DEF Pegar
<1>5. CASE Comecar(w)
  <2>1. con[w].pc = "reserved" /\ Holds(w)
    BY <1>5 DEF Comecar, Holds
  <2>2. CASE GoTo(w, "cancel")
    BY <2>2, GoingIsLocal DEF Closing
  <2>3. CASE ~GoTo(w, "cancel")
    <3> DEFINE k == [st |-> "running", job |-> con[w].job, att |-> con[w].att,
                     out |-> "none"]
    <3>1. /\ con' = [con EXCEPT ![w].pc = "running"]
          /\ child' = [child EXCEPT ![w] = k]
      BY <1>5, <2>3 DEF Comecar
    <3>2. child'[w] = k /\ k.st = "running"
      BY <1>t, <3>1
    <3> HIDE DEF k
    <3>3. /\ con'[w].pc = "running" /\ con'[w].job = con[w].job
          /\ con'[w].att = con[w].att
      BY <1>t, <3>1 DEF Consumer
    <3>4. GoesOn(w)
      BY <2>1, <3>2, <3>3 DEF Closing, k
    <3>5. QED
      BY <3>2, <3>4
  <2>4. QED
    BY <2>2, <2>3
<1>6. CASE Interromper(w)
  BY <1>6, <1>t DEF Interromper, Closing, NoChild
<1>7. CASE Receber(w)
  <2> DEFINE c == [con[w] EXCEPT
         !.pc = IF CancelamentoSolicitado(con[w].job) THEN "cancel" ELSE "close",
         !.out = child[w].out]
  <2>1. con' = [con EXCEPT ![w] = c] /\ child' = [child EXCEPT ![w] = NoChild]
    BY <1>7 DEF Receber
  <2>2. /\ c.pc \in {"cancel", "close"} /\ c.job = con[w].job
        /\ c.att = con[w].att /\ c.out = child[w].out
    BY <1>t DEF Consumer
  <2> HIDE DEF c
  <2>3. con'[w] = c /\ child'[w] = NoChild
    BY <1>t, <2>1
  <2>4. con[w].pc = "running" /\ child[w].st = "sent" /\ Holds(w)
    BY <1>7 DEF Receber, Holds
  <2>5. QED
    BY <2>2, <2>3, <2>4 DEF Closing, NoChild
<1>8. ASSUME NEW pc, GoTo(w, pc),
             \/ pc \in {"missed", "cancel", "turn_end"}
             \/ con[w].pc \in Closing /\ pc \in Closing
      PROVE  GoesOn(w) /\ ChildSettles(w)
  BY <1>8, GoingIsLocal DEF Closing, Holds
<1>9. CASE FecharChecar(w)
  BY <1>9, <1>8 DEF FecharChecar, Closing
<1>10. CASE FecharProgresso(w)
  BY <1>10, <1>8 DEF FecharProgresso, Closing
<1>11. CASE FecharAtualizar(w)
  BY <1>11, <1>8 DEF FecharAtualizar
<1>12. CASE NaoFechou(w)
  BY <1>12, <1>8 DEF NaoFechou
<1>13. CASE FinalizarCancelamento(w)
  BY <1>13, <1>8 DEF FinalizarCancelamento
<1>14. QED
  BY <1>1, <1>2, <1>3, <1>4, <1>5, <1>6, <1>7, <1>9, <1>10, <1>11, <1>12, <1>13
     DEF Turno

-------------------------------------------------------------------------------
(* What the rows say of the runners.                                       *)
Same(w) == con'[w].job = con[w].job /\ con'[w].att = con[w].att

(* A consumer only moves by a turn of its own, or to start.                *)
LEMMA OnlyItsTurn ==
    ASSUME WorkerIInv, [WorkerNext]_allVars, NEW w \in Workers
    PROVE  con'[w] = con[w] \/ Turno(w) \/ con'[w].pc = "recovering"
<1>1. ASSUME NEW v \in Workers, Iniciar(v)
      PROVE  con'[w] = con[w] \/ con'[w].pc = "recovering"
  BY <1>1, GoingIsLocal DEF Iniciar
<1>2. ASSUME NEW v \in Workers, v # w, Turno(v)
      PROVE  con'[w] = con[w]
  BY <1>2, TurnsAreLocal DEF TurnEffect
<1>3. QED
  BY <1>1, <1>2, OthersAreLocal DEF WorkerNext

(* A consumer that holds a job held it before, or has just taken it.       *)
LEMMA HoldingStays ==
    ASSUME WorkerIInv, [WorkerNext]_allVars, NEW w \in Workers, Holds(w)'
    PROVE  (Holds(w) /\ Same(w)) \/ \E j \in JobId : Takes(w, j)
<1>1. con'[w].pc \in {"reserved", "running"} \union Closing
  BY DEF Holds, Closing
<1>2. CASE con'[w] = con[w]
  BY <1>1, <1>2 DEF Holds, Same, Closing
<1>3. CASE Turno(w)
  BY <1>1, <1>3, TurnsGoOn DEF GoesOn, Same
<1>4. QED
  BY <1>1, <1>2, <1>3, OnlyItsTurn DEF Closing

(* What the reservation writes.                                            *)
LEMMA TakingWrites ==
    ASSUME WorkerIInv, NEW w \in Workers, NEW j \in JobId, Takes(w, j)
    PROVE  /\ job'[j].status = "processing" /\ job'[j].worker = w
           /\ job'[j].attempts = job[j].attempts + 1
           /\ con'[w].pc = "reserved" /\ con'[w].job = j
           /\ con'[w].att = job[j].attempts + 1
  BY DEF Takes, Reservar, WorkerIInv, QueueIInv, QueueTypeOK, Row

(* A turn that leaves the job it is recorded for closes it.                *)
LEMMA LeavingCloses ==
    ASSUME WorkerIInv, MissedIsAsked, NEW w \in Workers, Turno(w), Busy(w),
           Processing(con[w].job), job[con[w].job].worker = w
    PROVE  job'[con[w].job].status # "processing" \/ (Busy(w)' /\ Same(w))
<1> DEFINE j == con[w].job
<1>t. /\ con \in [Workers -> Consumer] /\ job \in [JobId -> Row] /\ j \in JobId
  BY DEF WorkerIInv, WorkerTypeOK, QueueIInv, QueueTypeOK, BusyHasJob,
         BetweenTurns, Busy
<1>g. ASSUME NEW pc, GoTo(w, pc), pc \notin BetweenTurns
      PROVE  Busy(w)' /\ Same(w)
  BY <1>g, GoingIsLocal DEF Busy, Same, BetweenTurns
<1>1. CASE Recuperando(w) \/ FimDoTurno(w) \/ Ocioso(w) \/ Pegar(w)
  BY <1>1 DEF Recuperando, FimDoTurno, Ocioso, Pegar, Busy
<1>2. CASE Bater(w)
  BY <1>2 DEF Bater, workerVars, Busy, Same
<1>3. CASE Comecar(w)
  <2>1. GoTo(w, "cancel") \/ con' = [con EXCEPT ![w].pc = "running"]
    BY <1>3 DEF Comecar
  <2>2. QED
    BY <1>t, <1>g, <2>1 DEF Busy, Same, Consumer, BetweenTurns
<1>4. CASE Interromper(w) \/ Receber(w)
  <2>1. \E pc \in {"cancel", "close"} : \E out :
           con' = [con EXCEPT ![w].pc = pc, ![w].out = out]
    <3>1. CASE Interromper(w)
      <4>1. con' = [con EXCEPT ![w].pc = "cancel", ![w].out = con[w].out]
        BY <1>t, <3>1 DEF Interromper, Consumer
      <4>2. QED
        BY <4>1
    <3>2. CASE Receber(w)
      BY <3>2 DEF Receber
    <3>3. QED
      BY <1>4, <3>1, <3>2
  <2>2. QED
    BY <1>t, <2>1 DEF Busy, Same, Consumer
<1>5. CASE FecharChecar(w) \/ FecharProgresso(w)
  BY <1>5, <1>g DEF FecharChecar, FecharProgresso, BetweenTurns
<1>6. CASE FecharAtualizar(w)
  <2>1. CASE GoTo(w, "missed")
    BY <1>g, <2>1 DEF BetweenTurns
  <2>2. CASE GoTo(w, "turn_end")
    <3>1. PodeFechar(j)
      BY <1>6, <1>t, <2>2, GoingIsLocal DEF FecharAtualizar
    <3>2. PICK a \in {0, con[w].att} : Fechar(j, StatusFinal(w), a)
      BY <1>6 DEF FecharAtualizar
    <3>3. job'[j].status = StatusFinal(w)
      BY <1>t, <3>1, <3>2 DEF Fechar
    <3>4. QED
      BY <3>3 DEF StatusFinal
  <2>3. QED
    BY <1>6, <2>1, <2>2 DEF FecharAtualizar
<1>7. CASE NaoFechou(w)
  <2>1. job[j].cancel
    BY <1>7 DEF NaoFechou, MissedIsAsked, Processing
  <2>2. GoTo(w, "cancel")
    BY <1>7, <2>1 DEF NaoFechou, CancelamentoSolicitado
  <2>3. QED
    BY <1>g, <2>2 DEF BetweenTurns
<1>8. CASE FinalizarCancelamento(w)
  <2>1. MarcarCancelado(j, 0)
    BY <1>8 DEF FinalizarCancelamento
  <2>2. QED
    BY <1>t, <2>1 DEF MarcarCancelado, Active
<1>9. QED
  BY <1>1, <1>2, <1>3, <1>4, <1>5, <1>6, <1>7, <1>8 DEF Turno

LEMMA HolderHasTheJobKept ==
    ASSUME RunnerIInv, [WorkerNext]_allVars
    PROVE  HolderHasTheJob'
<1> USE DEF RunnerIInv
<1> SUFFICES ASSUME NEW j \in JobId, job'[j].status = "processing"
             PROVE  \E w \in Workers :
                       /\ job'[j].worker = w /\ Busy(w)'
                       /\ con'[w].job = j /\ con'[w].att = job'[j].attempts
  BY DEF HolderHasTheJob, Processing
<1>1. CASE Processing(j)
  <2>1. PICK w \in Workers :
           /\ job[j].worker = w /\ Busy(w)
           /\ con[w].job = j /\ con[w].att = job[j].attempts
    BY <1>1 DEF HolderHasTheJob
  <2>2. job'[j].worker = w /\ job'[j].attempts = job[j].attempts
    BY <1>1, <2>1, EveryRow DEF RowOutcome, Processing
  <2>3. Busy(w)' /\ Same(w)
    <3>1. CASE con'[w] = con[w]
      BY <2>1, <3>1 DEF Busy, Same
    <3>2. CASE Turno(w)
      BY <1>1, <2>1, <3>2, LeavingCloses
    <3>3. CASE con'[w] # con[w] /\ ~Turno(w)
      <4>1. PICK v \in Workers : Iniciar(v)
        BY <3>3, OthersAreLocal, TurnsAreLocal DEF WorkerNext, TurnEffect
      <4>2. con[v].pc = "off" /\ (v # w => con'[w] = con[w])
        BY <4>1, GoingIsLocal DEF Iniciar
      <4>3. QED
        BY <2>1, <3>3, <4>2 DEF Busy
    <3>4. QED
      BY <3>1, <3>2, <3>3
  <2>4. QED
    BY <2>1, <2>2, <2>3 DEF Same
<1>2. CASE ~Processing(j)
  <2>1. PICK w \in Workers : Takes(w, j)
    BY <1>2, OnlyTakingStarts
  <2>2. QED
    BY <2>1, TakingWrites DEF Busy
<1>3. QED
  BY <1>1, <1>2

(* A turn that comes to missed has found the row closed, lost or asked.    *)
LEMMA MissingIsAsked ==
    ASSUME WorkerIInv, NEW w \in Workers, Turno(w), con'[w].pc = "missed"
    PROVE  /\ con'[w].job = con[w].job
           /\ job'[con[w].job].status # "processing" \/ job'[con[w].job].cancel
<1> DEFINE j == con[w].job
<1>t. con \in [Workers -> Consumer] /\ job \in [JobId -> Row]
  BY DEF WorkerIInv, WorkerTypeOK, QueueIInv, QueueTypeOK
<1>g. ASSUME NEW pc, GoTo(w, pc)
      PROVE  pc = "missed" /\ con'[w].job = j
  BY <1>g, GoingIsLocal
<1>1. CASE FecharChecar(w)
  <2>1. CancelamentoSolicitado(j)
    BY <1>1, <1>g DEF FecharChecar
  <2>2. PICK a \in {0, con[w].att} : MarcarCancelado(j, a)
    BY <1>1, <2>1 DEF FecharChecar
  <2>3. con[w].pc \notin BetweenTurns
    BY <1>1 DEF FecharChecar, BetweenTurns
  <2>4. j \in JobId
    BY <2>3 DEF WorkerIInv, BusyHasJob
  <2>5. job'[j].status # "processing"
    BY <1>t, <2>2, <2>4 DEF MarcarCancelado, Active
  <2>6. GoTo(w, "missed")
    BY <1>1, <2>1 DEF FecharChecar
  <2>7. QED
    BY <1>g, <2>5, <2>6
<1>2. CASE FecharAtualizar(w)
  <2>1. PICK a \in {0, con[w].att} : Fechar(j, StatusFinal(w), a)
    BY <1>2 DEF FecharAtualizar
  <2>2. ~PodeFechar(j) /\ GoTo(w, "missed")
    BY <1>2, <1>g DEF FecharAtualizar
  <2>3. job' = job
    BY <2>1, <2>2 DEF Fechar
  <2>4. QED
    BY <1>g, <2>2, <2>3 DEF PodeFechar, Processing
<1>3. CASE Recuperando(w)
  <2>1. con[w].pc = "recovering" /\ (con' = con \/ GoTo(w, "turn_end"))
    BY <1>3 DEF Recuperando, workerVars
  <2>2. QED
    BY <1>g, <2>1
<1>4. CASE FimDoTurno(w) \/ Ocioso(w) \/ Bater(w) \/ Pegar(w)
  BY <1>4, <1>t DEF FimDoTurno, Idle, Ocioso, Bater, Pegar, workerVars
<1>5. CASE Comecar(w)
  <2>1. GoTo(w, "cancel") \/ con' = [con EXCEPT ![w].pc = "running"]
    BY <1>5 DEF Comecar
  <2>2. QED
    BY <1>t, <1>g, <2>1 DEF Consumer
<1>6. CASE Interromper(w)
  BY <1>6, <1>t DEF Interromper, Consumer
<1>7. CASE Receber(w)
  <2>1. \E pc \in {"cancel", "close"} : \E out :
           con' = [con EXCEPT ![w].pc = pc, ![w].out = out]
    BY <1>7 DEF Receber
  <2>2. QED
    BY <1>t, <2>1 DEF Consumer
<1>8. CASE FecharProgresso(w) \/ NaoFechou(w) \/ FinalizarCancelamento(w)
  BY <1>8, <1>g DEF FecharProgresso, NaoFechou, FinalizarCancelamento
<1>9. QED
  BY <1>1, <1>2, <1>3, <1>4, <1>5, <1>6, <1>7, <1>8 DEF Turno

LEMMA MissedIsAskedKept ==
    ASSUME RunnerIInv, [WorkerNext]_allVars
    PROVE  MissedIsAsked'
<1> USE DEF RunnerIInv
<1> SUFFICES ASSUME NEW w \in Workers, con'[w].pc = "missed",
                    job'[con'[w].job].status = "processing",
                    job'[con'[w].job].worker = w
             PROVE  job'[con'[w].job].cancel
  BY DEF MissedIsAsked
<1>1. CASE Turno(w)
  BY <1>1, MissingIsAsked
<1>2. CASE con'[w] = con[w]
  <2> DEFINE j == con[w].job
  <2>1. con[w].pc = "missed" /\ j \in JobId
    BY <1>2 DEF WorkerIInv, BusyHasJob, BetweenTurns
  <2>2. CASE Processing(j)
    <3>1. \/ job'[j] = job[j]
          \/ job'[j].worker = job[j].worker /\ (job[j].cancel => job'[j].cancel)
      BY <1>2, <2>1, <2>2, EveryRow DEF RowOutcome, Processing
    <3>2. job[j].worker = w
      BY <1>2, <3>1
    <3>3. job[j].cancel
      BY <2>1, <2>2, <3>2 DEF MissedIsAsked, Processing
    <3>4. QED
      BY <1>2, <3>1, <3>3
  <2>3. CASE ~Processing(j)
    <3>1. PICK v \in Workers : Takes(v, j)
      BY <1>2, <2>1, <2>3, OnlyTakingStarts
    <3>2. v = w
      BY <1>2, <2>1, <3>1, TakingWrites
    <3>3. QED
      BY <2>1, <3>1, <3>2 DEF Takes
  <2>4. QED
    BY <2>2, <2>3
<1>3. QED
  BY <1>1, <1>2, OnlyItsTurn

LEMMA AttemptHasOneRunnerKept ==
    ASSUME RunnerIInv, [WorkerNext]_allVars
    PROVE  AttemptHasOneRunner'
<1> USE DEF RunnerIInv
<1>t. /\ job \in [JobId -> Row] /\ con \in [Workers -> Consumer]
      /\ MaxAttempts \in Nat /\ MaxJobs \in Nat
      /\ \A j \in JobId : job[j].attempts \in Nat
  BY JobQueueAssumption DEF WorkerIInv, QueueIInv, QueueTypeOK, WorkerTypeOK, Row
<1>h. ASSUME NEW w \in Workers, Holds(w)
      PROVE  con[w].job \in JobId /\ con[w].att \in Nat
  BY <1>h DEF WorkerIInv, BusyHasJob, BetweenTurns, Holds, Attempt
<1>m. \A j \in JobId : job'[j].attempts \in Nat /\ job[j].attempts <= job'[j].attempts
  BY <1>t, EveryRow DEF RowOutcome
<1>1. ASSUME NEW w \in Workers, Holds(w)'
      PROVE  con'[w].att <= job'[con'[w].job].attempts
  <2>1. CASE Holds(w) /\ Same(w)
    <3>1. con[w].job \in JobId /\ con[w].att \in Nat
      BY <2>1, <1>h
    <3>2. con[w].att <= job[con[w].job].attempts
      BY <2>1 DEF AttemptHasOneRunner
    <3>3. QED
      BY <1>t, <1>m, <2>1, <3>1, <3>2 DEF Same
  <2>2. ASSUME NEW j \in JobId, Takes(w, j)
        PROVE  con'[w].att <= job'[con'[w].job].attempts
    BY <1>t, <2>2, TakingWrites
  <2>3. QED
    BY <1>1, <2>1, <2>2, HoldingStays
<1>2. ASSUME NEW v \in Workers, NEW w \in Workers, NEW j \in JobId,
             Takes(w, j), Holds(v), Same(v), con'[v].job = j
      PROVE  con'[v].att # con'[w].att
  <2>1. con[v].att \in Nat /\ con[v].job = j
    BY <1>h, <1>2 DEF Same
  <2>2. con[v].att <= job[j].attempts
    BY <1>2, <2>1 DEF AttemptHasOneRunner
  <2>3. con'[w].att = job[j].attempts + 1
    BY <1>2, TakingWrites
  <2>4. QED
    BY <1>t, <1>2, <2>1, <2>2, <2>3 DEF Same
<1>3. ASSUME NEW v \in Workers, NEW w \in Workers, NEW j \in JobId,
             Takes(w, j), Takes(v, j)
      PROVE  v = w
  BY <1>3, TakingWrites
<1>4. ASSUME NEW v \in Workers, NEW w \in Workers, v # w, Holds(v)', Holds(w)',
             con'[v].job = con'[w].job
      PROVE  con'[v].att # con'[w].att
  <2>1. CASE Holds(v) /\ Same(v) /\ Holds(w) /\ Same(w)
    BY <1>4, <2>1 DEF AttemptHasOneRunner, Same
  <2>2. ASSUME NEW j \in JobId, Takes(w, j)
        PROVE  con'[v].att # con'[w].att
    <3>1. con'[v].job = j
      BY <1>4, <2>2, TakingWrites
    <3>2. CASE Holds(v) /\ Same(v)
      BY <1>2, <2>2, <3>1, <3>2
    <3>3. ASSUME NEW k \in JobId, Takes(v, k)
          PROVE  FALSE
      BY <1>3, <1>4, <2>2, <3>1, <3>3, TakingWrites
    <3>4. QED
      BY <1>4, <3>2, <3>3, HoldingStays
  <2>3. ASSUME NEW j \in JobId, Takes(v, j), Holds(w), Same(w)
        PROVE  con'[v].att # con'[w].att
    <3>1. con'[w].job = j
      BY <1>4, <2>3, TakingWrites
    <3>2. QED
      BY <1>2, <2>3, <3>1
  <2>4. QED
    BY <1>4, <2>1, <2>2, <2>3, HoldingStays
<1>5. QED
  BY <1>1, <1>4 DEF AttemptHasOneRunner

-------------------------------------------------------------------------------
(* The answers in the conversation.                                        *)
(* Who writes a result, and which.                                         *)
Closes(w, j) ==
    /\ Alive(w) /\ con[w].pc \in Closing /\ con[w].job = j
    /\ job[j].status \in Active
    /\ job'[j].result = con[w].att
    /\ job'[j].status = "completed" =>
          con[w].out = "completed" /\ Processing(j) /\ ~job[j].cancel

Unanswered(j) == job'[j].result = 0 /\ job'[j].status # "completed"

LEMMA Closings ==
    ASSUME WorkerIInv, [WorkerNext]_allVars, NEW j \in JobId,
           \/ job'[j].result # job[j].result
           \/ job'[j].status = "completed" /\ job[j].status # "completed"
    PROVE  Unanswered(j) \/ \E w \in Workers : Closes(w, j)
<1>j. job \in [JobId -> Row] /\ con \in [Workers -> Consumer]
  BY DEF WorkerIInv, QueueIInv, QueueTypeOK, WorkerTypeOK
<1> USE <1>j DEF Row
<1>1. ASSUME NEW w \in Workers, Turno(w)
      PROVE  Unanswered(j) \/ Closes(w, j)
  <2>1. CASE Recuperando(w)
    <3>1. \/ UNCHANGED job
          \/ \E k \in JobId, s \in {"cancelled", "pending"} :
                job' = [job EXCEPT ![k].status = s, ![k].worker = NoWorker]
      BY <2>1 DEF Recuperando, RecuperarCancelar, RecuperarRecolocar, RecuperarFim
    <3>2. CASE UNCHANGED job
      BY <3>2
    <3>3. ASSUME NEW k \in JobId, NEW s \in {"cancelled", "pending"},
                 job' = [job EXCEPT ![k].status = s, ![k].worker = NoWorker]
          PROVE  FALSE
      <4>1. job'[k].status = s /\ job'[k].result = job[k].result
        BY <3>3
      <4>2. k # j => job'[j] = job[j]
        BY <3>3
      <4>3. QED
        BY <4>1, <4>2
    <3>4. QED
      BY <3>1, <3>2, <3>3
  <2>2. CASE FimDoTurno(w) \/ Ocioso(w) \/ Bater(w) \/ Comecar(w)
             \/ Interromper(w) \/ Receber(w) \/ NaoFechou(w)
    BY <2>2 DEF FimDoTurno, Ocioso, Bater, Comecar, Heartbeat, Interromper,
                Receber, NaoFechou, queueVars
  <2>3. CASE Pegar(w)
    BY <2>3, SMTT(240) DEF Pegar, Reservar, ReservarInvalido
  <2>4. CASE FinalizarCancelamento(w)
    BY <2>4 DEF FinalizarCancelamento, MarcarCancelado, Unanswered
  <2>5. CASE FecharProgresso(w)
    BY <2>5 DEF FecharProgresso, AtualizarProgresso
  <2>6. CASE FecharChecar(w)
    <3>1. PICK a \in {0, con[w].att} : MarcarCancelado(con[w].job, a)
      BY <2>6, SMTT(240) DEF FecharChecar, queueVars
    <3>2. /\ con[w].job = j /\ job[j].status \in Active
          /\ job'[j].status = "cancelled" /\ job'[j].result = a
      BY <3>1 DEF MarcarCancelado
    <3>3. Alive(w) /\ con[w].pc \in Closing
      BY <2>6 DEF FecharChecar, Closing
    <3>4. QED
      BY <3>2, <3>3 DEF Unanswered, Closes
  <2>7. CASE FecharAtualizar(w)
    <3> DEFINE a == IF con[w].out = "exception" THEN 0 ELSE con[w].att
    <3>1. Fechar(con[w].job, StatusFinal(w), a)
      BY <2>7 DEF FecharAtualizar
    <3>2. /\ con[w].job = j /\ PodeFechar(j)
          /\ job'[j].status = StatusFinal(w) /\ job'[j].result = a
      BY <3>1 DEF Fechar
    <3>3. Alive(w) /\ con[w].pc \in Closing
      BY <2>7 DEF FecharAtualizar, Closing
    <3>4. QED
      BY <3>2, <3>3
         DEF Unanswered, Closes, StatusFinal, PodeFechar, Processing, Active
  <2>8. QED
    BY <1>1, <2>1, <2>2, <2>3, <2>4, <2>5, <2>6, <2>7 DEF Turno
<1>2. ASSUME NEW w \in Workers, Iniciar(w) \/ Filho(w) \/ Matar(w) \/ Atrasar(w)
      PROVE  FALSE
  BY <1>2 DEF Iniciar, RecuperarLer, Filho, FilhoResponder, FilhoTerminar,
              AtualizarProgresso, Matar, Morrer, Atrasar, Envelhecer, queueVars
<1>3. ASSUME NEW k \in JobId, Cliente(k)
      PROVE  Unanswered(j)
  <2>1. ASSUME NEW valid \in BOOLEAN, Enviar(k, valid)
        PROVE  Unanswered(j)
    <3> DEFINE new == [NoRow EXCEPT !.status = "pending", !.valid = valid]
    <3>1. new.status = "pending" /\ new.result = 0
      BY DEF NoRow
    <3>2. job' = [job EXCEPT ![k] = new]
      BY <2>1 DEF Enviar, Adicionar
    <3> HIDE DEF new
    <3>3. QED
      BY <3>1, <3>2 DEF Unanswered
  <2>2. CASE Cancelar(k)
    BY <2>2 DEF Cancelar, CancelarJob, CancelarPendente, SinalizarCancelamento
  <2>3. CASE RemoverRespostas(k)
    BY <2>3 DEF RemoverRespostas, queueVars
  <2>4. QED
    BY <1>3, <2>1, <2>2, <2>3 DEF Cliente
<1>4. CASE UNCHANGED allVars
  BY <1>4 DEF allVars, queueVars
<1>5. QED
  BY <1>1, <1>2, <1>3, <1>4 DEF WorkerNext

LEMMA ChildrenServeKept ==
    ASSUME RunnerIInv, [WorkerNext]_allVars
    PROVE  ChildrenServe'
<1> USE DEF RunnerIInv
<1>t. con \in [Workers -> Consumer] /\ child \in [Workers -> Child]
  BY DEF WorkerIInv, WorkerTypeOK
<1>1. ASSUME NEW w \in Workers, Iniciar(w)
      PROVE  ChildrenServe'
  BY <1>1, GoingIsLocal DEF Iniciar, ChildrenServe
<1>2. ASSUME NEW w \in Workers, Turno(w)
      PROVE  ChildrenServe'
  <2>1. ASSUME con'[w].pc = "running"
        PROVE  /\ child'[w].st # "none"
               /\ child'[w].job = con'[w].job /\ child'[w].att = con'[w].att
    <3>1. GoesOn(w)
      BY <1>2, TurnsGoOn
    <3>2. QED
      <4>1. ~\E j \in JobId : Takes(w, j)
        BY <2>1, TakingReserves
      <4>2. /\ con'[w].job = con[w].job /\ con'[w].att = con[w].att
            /\ \/ con[w].pc = "running" /\ child'[w] = child[w]
               \/ child'[w] = [st |-> "running", job |-> con[w].job,
                               att |-> con[w].att, out |-> "none"]
        BY <2>1, <3>1, <4>1 DEF GoesOn
      <4>3. QED
        BY <4>2 DEF ChildrenServe
  <2>2. QED
    BY <1>2, <2>1, TurnsAreLocal DEF TurnEffect, ChildrenServe
<1>3. ASSUME NEW w \in Workers, Filho(w)
      PROVE  ChildrenServe'
  BY <1>3, <1>t DEF Filho, FilhoResponder, FilhoTerminar, ChildrenServe, Child
<1>4. CASE \/ UNCHANGED allVars
           \/ \E w \in Workers : Matar(w) \/ Atrasar(w)
           \/ \E j \in JobId : Cliente(j)
  BY <1>4 DEF allVars, workerVars, Matar, Atrasar, Cliente, Enviar, Cancelar,
              RemoverRespostas, ChildrenServe
<1>5. QED
  BY <1>1, <1>2, <1>3, <1>4 DEF WorkerNext

AnsweredThen(j, att) == asked'[j] # "no" \/ <<j, att>> \in replies'

(* Nothing takes an answer out of the conversation but a purge.            *)
LEMMA AnswersStay ==
    ASSUME WorkerIInv, AnswersAreStored, [WorkerNext]_allVars,
           NEW j \in JobId, NEW att, Answered(j, att)
    PROVE  AnsweredThen(j, att)
<1>t. asked \in [JobId -> {"no", "heard", "overtaken"}]
  BY DEF WorkerIInv, WorkerTypeOK
<1>1. ASSUME NEW w \in Workers,
             Iniciar(w) \/ Turno(w) \/ Matar(w) \/ Atrasar(w)
      PROVE  UNCHANGED <<asked, replies>>
  BY <1>1, TurnsAreLocal DEF TurnEffect, Iniciar, GoTo, Matar, Atrasar, workerVars
<1>2. ASSUME NEW w \in Workers, Filho(w)
      PROVE  asked' = asked /\ replies \subseteq replies'
  BY <1>2 DEF Filho, FilhoResponder, FilhoTerminar
<1>3. ASSUME NEW k \in JobId, Cliente(k)
      PROVE  AnsweredThen(j, att)
  <2>1. CASE \E valid \in BOOLEAN : Enviar(k, valid)
    BY <2>1 DEF Enviar, Answered, AnsweredThen, workerVars
  <2>2. CASE Cancelar(k)
    BY <1>t, <2>2 DEF Cancelar, Answered, AnsweredThen
  <2>3. CASE RemoverRespostas(k)
    BY <2>3 DEF RemoverRespostas, Answered, AnsweredThen, AnswersAreStored
  <2>4. QED
    BY <1>3, <2>1, <2>2, <2>3 DEF Cliente
<1>4. CASE UNCHANGED allVars
  BY <1>4 DEF allVars, workerVars, Answered, AnsweredThen
<1>5. QED
  BY <1>1, <1>2, <1>3, <1>4 DEF WorkerNext, Answered, AnsweredThen

LEMMA ChildAnswersKept ==
    ASSUME RunnerIInv, [WorkerNext]_allVars, NEW w \in Workers,
           \/ child'[w].st = "replied"
           \/ child'[w].st = "sent" /\ child'[w].out = "completed"
    PROVE  AnsweredThen(child[w].job, child[w].att)
           /\ child'[w].job = child[w].job /\ child'[w].att = child[w].att
<1> USE DEF RunnerIInv
<1>t. child \in [Workers -> Child]
  BY DEF WorkerIInv, WorkerTypeOK
<1>1. CASE child'[w] = child[w]
  <2>1. child[w].job \in JobId /\ Answered(child[w].job, child[w].att)
    BY <1>1 DEF AnswersAreStored, WorkerIInv, BusyHasJob
  <2>2. QED
    BY <1>1, <2>1, AnswersStay
<1>2. CASE FilhoResponder(w)
  BY <1>t, <1>2 DEF FilhoResponder, AnsweredThen, Child
<1>3. ASSUME NEW out \in {"completed", "failed", "exception"},
             FilhoTerminar(w, out)
      PROVE  /\ child[w].st = "replied"
             /\ child'[w].job = child[w].job /\ child'[w].att = child[w].att
  BY <1>t, <1>3 DEF FilhoTerminar, Child
<1>4. ASSUME child[w].st = "replied"
      PROVE  AnsweredThen(child[w].job, child[w].att)
  BY <1>4, AnswersStay DEF AnswersAreStored, WorkerIInv, BusyHasJob
<1>5. ASSUME NEW v \in Workers, Turno(v)
      PROVE  child'[w] = child[w]
  BY <1>5, TurnsAreLocal, TurnsGoOn DEF TurnEffect, ChildSettles
<1>6. ASSUME NEW v \in Workers, v # w, Filho(v)
      PROVE  child'[w] = child[w]
  BY <1>t, <1>6 DEF Filho, FilhoResponder, FilhoTerminar
<1>7. CASE \/ UNCHANGED allVars
           \/ \E v \in Workers : Iniciar(v) \/ Matar(v) \/ Atrasar(v)
           \/ \E j \in JobId : Cliente(j)
  BY <1>1, <1>7 DEF allVars, workerVars, Iniciar, GoTo, Matar, Atrasar,
                    Cliente, Enviar, Cancelar, RemoverRespostas
<1>8. QED
  BY <1>1, <1>2, <1>3, <1>4, <1>5, <1>6, <1>7 DEF WorkerNext, Filho

LEMMA AnswersAreStoredKept ==
    ASSUME RunnerIInv, [WorkerNext]_allVars
    PROVE  AnswersAreStored'
<1> USE DEF RunnerIInv
<1>1. ASSUME NEW w \in Workers,
             \/ child'[w].st = "replied"
             \/ child'[w].st = "sent" /\ child'[w].out = "completed"
      PROVE  AnsweredThen(child[w].job, child[w].att)
  BY <1>1, ChildAnswersKept
<1>2. ASSUME NEW w \in Workers, con'[w].pc \in Closing,
             con'[w].out = "completed"
      PROVE  AnsweredThen(con[w].job, con[w].att)
             /\ con'[w].job = con[w].job /\ con'[w].att = con[w].att
  <2>1. CASE con'[w] = con[w]
    <3>1. con[w].job \in JobId /\ Answered(con[w].job, con[w].att)
      BY <1>2, <2>1 DEF AnswersAreStored, Closing, WorkerIInv, BusyHasJob,
                        BetweenTurns
    <3>2. QED
      BY <2>1, <3>1, AnswersStay
  <2>2. CASE Turno(w)
    <3>1. /\ con'[w].job = con[w].job /\ con'[w].att = con[w].att
          /\ \/ con[w].pc \in Closing /\ con'[w].out = con[w].out
             \/ /\ con[w].pc = "running" /\ child[w].st = "sent"
                /\ con'[w].out = child[w].out
      <4>1. ~\E j \in JobId : Takes(w, j)
        BY <1>2, TakingReserves DEF Closing
      <4>2. GoesOn(w)
        BY <2>2, TurnsGoOn
      <4>3. QED
        BY <1>2, <4>1, <4>2 DEF GoesOn
    <3>2. con[w].job \in JobId /\ Answered(con[w].job, con[w].att)
      BY <1>2, <3>1 DEF AnswersAreStored, Closing, WorkerIInv, BusyHasJob,
                        BetweenTurns, ChildrenServe
    <3>3. QED
      BY <3>1, <3>2, AnswersStay
  <2>3. ASSUME NEW v \in Workers, Iniciar(v)
        PROVE  con'[w] = con[w]
    BY <1>2, <2>3, GoingIsLocal DEF Iniciar, Closing
  <2>4. ASSUME NEW v \in Workers, Turno(v), v # w
        PROVE  con'[w] = con[w]
    BY <2>4, TurnsAreLocal DEF TurnEffect
  <2>5. QED
    BY <2>1, <2>2, <2>3, <2>4, OthersAreLocal DEF WorkerNext
<1>3. ASSUME NEW j \in JobId, job'[j].status = "completed"
      PROVE  AnsweredThen(j, job'[j].result)
  <2>1. CASE job'[j] = job[j]
    BY <1>3, <2>1, AnswersStay DEF AnswersAreStored
  <2>2. CASE RowOutcome(job[j], job'[j])
    <3>1. job[j].status # "completed"
      BY <2>2 DEF RowOutcome, Terminal
    <3>2. PICK w \in Workers : Closes(w, j)
      BY <1>3, <3>1, Closings DEF Unanswered
    <3>3. Answered(j, con[w].att)
      BY <1>3, <3>2 DEF Closes, AnswersAreStored, Closing
    <3>4. job'[j].result = con[w].att
      BY <3>2 DEF Closes
    <3>5. QED
      BY <3>3, <3>4, AnswersStay
  <2>3. QED
    BY <2>1, <2>2, EveryRow
<1>4. \A j \in purge' : asked'[j] # "no"
  <2>t. asked \in [JobId -> {"no", "heard", "overtaken"}] /\ purge \subseteq JobId
    BY DEF WorkerIInv, WorkerTypeOK
  <2>1. ASSUME NEW w \in Workers,
               Iniciar(w) \/ Turno(w) \/ Filho(w) \/ Matar(w) \/ Atrasar(w)
        PROVE  UNCHANGED <<purge, asked>>
    BY <2>1, TurnsAreLocal
       DEF TurnEffect, Iniciar, GoTo, Filho, FilhoResponder, FilhoTerminar,
           Matar, Atrasar, workerVars
  <2>2. ASSUME NEW k \in JobId, Cliente(k)
        PROVE  \A j \in purge' : asked'[j] # "no"
    BY <2>t, <2>2 DEF Cliente, Enviar, Cancelar, RemoverRespostas, workerVars,
                      AnswersAreStored
  <2>3. CASE UNCHANGED allVars
    BY <2>3 DEF allVars, workerVars, AnswersAreStored
  <2>4. QED
    BY <2>1, <2>2, <2>3 DEF WorkerNext, AnswersAreStored
<1>5. \A w \in Workers :
         child'[w].st = "replied" \/ (child'[w].st = "sent" /\ child'[w].out = "completed")
            => child'[w].job = child[w].job /\ child'[w].att = child[w].att
  BY ChildAnswersKept
<1>6. QED
  BY <1>1, <1>2, <1>3, <1>4, <1>5 DEF AnswersAreStored, Answered, AnsweredThen,
                                         Closing

LEMMA RunnerInitOK == WorkerInit => RunnerIInv
<1> SUFFICES ASSUME WorkerInit PROVE RunnerIInv
  OBVIOUS
<1>1. WorkerIInv
  BY WorkerInitOK
<1>2. RequestStands
  BY DEF WorkerInit, RequestStands
<1>3. HolderHasTheJob
  BY DEF WorkerInit, QueueInit, HolderHasTheJob, Processing, NoRow
<1>4. MissedIsAsked /\ AttemptHasOneRunner
  BY DEF WorkerInit, MissedIsAsked, AttemptHasOneRunner, Holds, Idle
<1>5. ChildrenServe /\ AnswersAreStored
  BY DEF WorkerInit, QueueInit, ChildrenServe, AnswersAreStored, Idle, NoChild,
         NoRow
<1>6. QED
  BY <1>1, <1>2, <1>3, <1>4, <1>5 DEF RunnerIInv

LEMMA RunnerStepOK ==
    ASSUME RunnerIInv, [WorkerNext]_allVars
    PROVE  RunnerIInv'
<1>1. WorkerIInv' /\ RequestStands'
  BY WorkerStepOK, RequestsStand DEF RunnerIInv
<1>2. HolderHasTheJob' /\ MissedIsAsked' /\ AttemptHasOneRunner'
  BY HolderHasTheJobKept, MissedIsAskedKept, AttemptHasOneRunnerKept
<1>3. ChildrenServe' /\ AnswersAreStored'
  BY ChildrenServeKept, AnswersAreStoredKept
<1>4. QED
  BY <1>1, <1>2, <1>3 DEF RunnerIInv

-------------------------------------------------------------------------------
(* Every step of the workers, their children and the clients is a call of  *)
(* the open job table, or leaves it alone (worker.py makes no other use of *)
(* queue.py than its functions).                                           *)
LEMMA WorkersUseTheTable == WorkerSpec => QueueSpec
<1>1. WorkerInit => QueueInit
  BY DEF WorkerInit
<1>2. WorkerIInv /\ [WorkerNext]_allVars => [QueueNext]_queueVars
  BY StepIsTableStep
<1>3. WorkerIInv /\ [WorkerNext]_allVars => WorkerIInv'
  BY WorkerStepOK
<1>4. QED
  BY WorkerInitOK, <1>1, <1>2, <1>3, PTL DEF WorkerSpec, QueueSpec

(* Every variable of the workers has its type, and a busy consumer or      *)
(* child has a job.                                                        *)
THEOREM WorkersAreTyped == WorkerSpec => [](WorkerTypeOK /\ BusyHasJob)
<1>1. WorkerIInv /\ [WorkerNext]_allVars => WorkerIInv'
  BY WorkerStepOK
<1>2. WorkerIInv => WorkerTypeOK /\ BusyHasJob
  BY DEF WorkerIInv
<1>3. QED
  BY WorkerInitOK, <1>1, <1>2, PTL DEF WorkerSpec

(* An accepted request to cancel a job decides it, in any circumstances:   *)
(* workers that die or are late, processes that start side by side.        *)
THEOREM CancellationDecides == WorkerSpec => []CancelDecides
<1>1. WorkerInit => RequestStands
  BY DEF WorkerInit, RequestStands
<1>2. WorkerIInv /\ RequestStands /\ [WorkerNext]_allVars
         => WorkerIInv' /\ RequestStands'
  BY WorkerStepOK, RequestsStand
<1>3. RequestStands => CancelDecides
  BY DEF RequestStands, CancelDecides, Processing
<1>4. QED
  BY WorkerInitOK, <1>1, <1>2, <1>3, PTL DEF WorkerSpec

(* So no job is completed or failed while a request to cancel it stands,   *)
(* a closed job is never touched again, and the table seen by the clients  *)
(* of the whole system lives the simple life cycle.                        *)
THEOREM WorkersKeepTheTable ==
    WorkerSpec => []CancelBeatsResult /\ ClosedJobIsFinal /\ LifecycleSpec
<1>1. QED
  BY WorkersUseTheTable, CancelWins, ClosedIsFinal, ImplementsLifecycle

(* In any circumstance, late workers that go on after another one took     *)
(* their job included: the recorded holder of a running job has it in hand *)
(* and no attempt of a job has two runners (proximo,                       *)
(* recuperar_interrompidos).                                               *)
THEOREM RunnersTheorem == WorkerSpec => []RunnersMatchRows
<1>1. RunnerIInv /\ [WorkerNext]_allVars => RunnerIInv'
  BY RunnerStepOK
<1>2. RunnerIInv => RunnersMatchRows
  BY DEF RunnerIInv, WorkerIInv, RunnersMatchRows
<1>3. QED
  BY RunnerInitOK, <1>1, <1>2, PTL DEF WorkerSpec

(* In any circumstance a completed job has its answer in the conversation, *)
(* that of the attempt that completed it, a late one's included, unless a  *)
(* recovery undid a request to cancel it (concluir, registrar_conclusao).  *)
THEOREM ReplyTheorem == WorkerSpec => []CompletedHasReply
<1>1. RunnerIInv /\ [WorkerNext]_allVars => RunnerIInv'
  BY RunnerStepOK
<1>2. RunnerIInv => CompletedHasReply
  <2> SUFFICES ASSUME RunnerIInv, NEW j \in JobId,
                      job[j].status = "completed", asked[j] # "overtaken"
               PROVE  <<j, job[j].result>> \in replies
    BY DEF CompletedHasReply
  <2>1. asked[j] \in {"no", "heard"}
    BY DEF RunnerIInv, WorkerIInv, WorkerTypeOK
  <2>2. asked[j] # "heard"
    BY DEF RunnerIInv, RequestStands, Processing
  <2>3. QED
    BY <2>1, <2>2 DEF RunnerIInv, AnswersAreStored, Answered
<1>3. QED
  BY RunnerInitOK, <1>1, <1>2, PTL DEF WorkerSpec

-------------------------------------------------------------------------------
(* The conversation file.  Nothing is assumed of the job table: the        *)
(* workers may be any client of it, and the copy to Chat Memory may end in *)
(* any way.                                                                *)

(* Whoever carries a snapshot (a request between its two halves, the       *)
(* payload of a job): it was taken when its own message was the newest.    *)
Past(p) == \A f \in p.frozen : f[2] <= p.uid

(* An empty place holds nothing, and ids are given without gaps from 1 on, *)
(* so an id never exceeds the number of messages ever recorded.            *)
PlacesOK ==
    \A i \in MsgId :
        /\ msgs[i].uid <= born
        /\ Present(i) => i <= born
        /\ ~Present(i) => ~msgs[i].pdel

(* A clear that found no active job is one of those the bound allows.      *)
ClearOK == clear = "free" => conv <= MaxClears

ConversationIInv ==
    /\ ConversationTypeOK
    /\ PlacesOK
    /\ ClearOK
    /\ \A p \in post : Past(p)
    /\ \A j \in JobId : Past(payload[j])

-------------------------------------------------------------------------------
(* A nonempty set of naturals with a bound has a greatest element.         *)
LEMMA GreatestExists ==
    ASSUME NEW N \in Nat, NEW S \in SUBSET (0..N), S # {}
    PROVE  /\ Max(S) \in S
           /\ \A x \in S : x <= Max(S)
<1> DEFINE T == {n \in Nat : \E x \in S : n = N - x}
<1>1. T # {}
  <2>1. PICK x \in S : TRUE
    OBVIOUS
  <2>2. N - x \in T
    BY <2>1
  <2>3. QED
    BY <2>2
<1> DEFINE Less == {nn \in Nat \X Nat : nn[1] < nn[2]}
<1>w. IsWellFoundedOn(Less, Nat)
  BY NatLessThanWellFounded, Zenon DEF OpToRel
<1>t. T \subseteq Nat
  OBVIOUS
<1> HIDE DEF Less
<1>2. PICK n \in T : \A m \in T : ~(<<m, n>> \in Less)
  BY <1>1, <1>t, <1>w, WFMin, Zenon
<1>3. \A m \in T : n <= m
  <2> TAKE m \in T
  <2>1. <<m, n>> \in Nat \X Nat /\ ~(m < n)
    BY <1>2, <1>t DEF Less
  <2>2. QED
    BY <2>1
<1>4. PICK x \in S : n = N - x
  OBVIOUS
<1>5. \A y \in S : y <= x
  <2> TAKE y \in S
  <2>1. N - y \in T
    OBVIOUS
  <2>2. n <= N - y
    BY <1>3, <2>1
  <2>3. QED
    BY <1>4, <2>2
<1>6. \E y \in S : \A z \in S : y >= z
  BY <1>5
<1>7. Max(S) \in S /\ \A z \in S : Max(S) >= z
  BY <1>6 DEF Max
<1>8. QED
  BY <1>7

(* The next id is free, and at most one more than the messages recorded.   *)
LEMMA NextIdIsFree ==
    ASSUME ConversationIInv, born < MaxMsgs
    PROVE  NovoId \in MsgId /\ NovoId <= born + 1 /\ ~Present(NovoId)
<1> DEFINE S == {0} \union {i \in MsgId : Present(i)}
<1> USE ConversationAssumption
    DEF ConversationIInv, ConversationTypeOK, PlacesOK, MsgId
<1>1. S \in SUBSET (0..MaxMsgs) /\ S # {}
  OBVIOUS
<1>2. \A x \in S : x \in Nat /\ x <= born
  OBVIOUS
<1>3. Max(S) \in S /\ \A x \in S : x <= Max(S)
  BY <1>1, GreatestExists
<1>4. NovoId = 1 + Max(S)
  BY DEF NovoId
<1> HIDE DEF S
<1>5. NovoId \in MsgId /\ NovoId <= born + 1
  BY <1>2, <1>3, <1>4
<1>6. ~Present(NovoId)
  <2>1. SUFFICES ASSUME Present(NovoId) PROVE FALSE
    OBVIOUS
  <2>2. NovoId \in S
    BY <1>5, <2>1 DEF S
  <2>3. QED
    <3>1. NovoId <= Max(S)
      BY <1>3, <2>2
    <3>2. Max(S) \in Nat
      BY <1>2, <1>3
    <3>3. QED
      BY <1>4, <3>1, <3>2
<1>7. QED
  BY <1>5, <1>6

(* What one message becomes keeps the file in order: nothing, or itself    *)
(* with other deletion marks.                                              *)
Marked(m, old) ==
    \/ m = NoMsg
    \/ m \in Message /\ m.uid = old.uid /\ old.uid # 0

LEMMA MarkingKeeps ==
    ASSUME ConversationIInv,
           msgs' \in [MsgId -> Message], UNCHANGED born,
           \A i \in MsgId : msgs'[i] = msgs[i] \/ Marked(msgs'[i], msgs[i])
    PROVE  PlacesOK'
<1> SUFFICES ASSUME NEW i \in MsgId
             PROVE  /\ msgs'[i].uid <= born
                    /\ msgs'[i].uid # 0 => i <= born
                    /\ ~(msgs'[i].uid # 0) => ~msgs'[i].pdel
  BY DEF PlacesOK, Present
<1>1. CASE \/ msgs'[i] = msgs[i]
           \/ msgs'[i].uid = msgs[i].uid /\ msgs[i].uid # 0
  BY <1>1 DEF ConversationIInv, PlacesOK, Present
<1>2. CASE msgs'[i] = NoMsg
  BY <1>2 DEF ConversationIInv, ConversationTypeOK, NoMsg
<1>3. \/ msgs'[i] = msgs[i] \/ msgs'[i] = NoMsg
      \/ msgs'[i].uid = msgs[i].uid /\ msgs[i].uid # 0
  BY DEF Marked
<1>4. QED
  BY <1>1, <1>2, <1>3

LEMMA NothingIsAMessage == NoMsg \in Message
  BY ConversationAssumption, JobQueueAssumption DEF NoMsg, Message

(* Recording a message: a new one at the free id.                          *)
LEMMA RecordingKeeps ==
    ASSUME ConversationIInv, NEW j \in 0..MaxJobs,
           NEW copy \in Copies, Registrar(j, copy)
    PROVE  /\ msgs' \in [MsgId -> Message] /\ born' \in 0..MaxMsgs
           /\ born' = born + 1
           /\ lost' \in 0..MaxLosses /\ memory' \in [NodeId -> 0..MaxMsgs]
           /\ \A i \in MsgId \ {NovoId} : msgs'[i] = msgs[i]
           /\ msgs'[NovoId].uid = born' /\ ~msgs'[NovoId].pdel
           /\ PlacesOK'
<1> USE ConversationAssumption DEF ConversationIInv, ConversationTypeOK
<1>1. NovoId \in MsgId /\ NovoId <= born + 1 /\ ~Present(NovoId)
  BY NextIdIsFree DEF Registrar
<1>2. born + 1 \in 0..MaxMsgs /\ born' = born + 1 /\ born \in Nat
  BY DEF Registrar
<1> DEFINE m == [NoMsg EXCEPT !.uid = born + 1, !.job = j, !.copy = copy]
<1>3. m \in Message /\ m.uid = born + 1 /\ m.pdel = FALSE
  <2>1. NoMsg \in Message /\ NoMsg.pdel = FALSE
    BY NothingIsAMessage DEF NoMsg
  <2>2. QED
    BY <1>2, <2>1 DEF Message
<1>4. msgs' = [msgs EXCEPT ![NovoId] = m]
  BY DEF Registrar
<1> HIDE DEF m
<1>5. msgs' \in [MsgId -> Message]
  BY <1>3, <1>4
<1>6. /\ \A i \in MsgId \ {NovoId} : msgs'[i] = msgs[i]
      /\ msgs'[NovoId] = m
  BY <1>1, <1>4
<1>7. lost' \in 0..MaxLosses /\ memory' \in [NodeId -> 0..MaxMsgs]
  BY <1>2 DEF Registrar, Ingerir
<1>8. PlacesOK'
  <2> SUFFICES ASSUME NEW i \in MsgId
               PROVE  /\ msgs'[i].uid <= born'
                      /\ msgs'[i].uid # 0 => i <= born'
                      /\ ~(msgs'[i].uid # 0) => ~msgs'[i].pdel
    BY DEF PlacesOK, Present
  <2>1. CASE i = NovoId
    BY <1>1, <1>2, <1>3, <1>6, <2>1 DEF MsgId
  <2>2. CASE i # NovoId
    <3>1. msgs[i] \in Message /\ i \in Nat
      BY DEF MsgId
    <3>2. QED
      BY <1>2, <1>6, <2>2, <3>1 DEF PlacesOK, Present, Message
  <2>3. QED
    BY <2>1, <2>2
<1>9. QED
  BY <1>1, <1>2, <1>3, <1>5, <1>6, <1>7, <1>8

(* What a job submitted now would freeze is of messages already recorded.  *)
LEMMA SnapshotTakenNow ==
    ASSUME NEW m \in [MsgId -> Message], NEW n \in Nat,
           \A i \in MsgId : m[i].uid <= n
    PROVE  /\ Historico(m) \subseteq MsgId \X Uid
           /\ \A f \in Historico(m) : f[2] <= n
  BY ConversationAssumption, SMTT(240) DEF Historico, Message, Uid, MsgId

(* finalizar_remocoes_pendentes only shortens the lists and removes.       *)
LEMMA FinishingMarks ==
    ASSUME ConversationIInv
    PROVE  /\ Finalizadas \in [MsgId -> Message]
           /\ \A i \in MsgId : \/ Finalizadas[i] = msgs[i]
                               \/ Marked(Finalizadas[i], msgs[i])
<1> USE DEF ConversationIInv, ConversationTypeOK
<1> SUFFICES ASSUME NEW i \in MsgId
             PROVE  /\ Finalizadas[i] \in Message
                    /\ \/ Finalizadas[i] = msgs[i]
                       \/ Marked(Finalizadas[i], msgs[i])
  BY DEF Finalizadas
<1>1. msgs[i] \in Message /\ AindaAtivos(i) \subseteq JobId
  BY DEF AindaAtivos, Message
<1> DEFINE m == [msgs[i] EXCEPT !.after = AindaAtivos(i)]
<1>2. m \in Message /\ m.uid = msgs[i].uid
  BY <1>1 DEF Message
<1>3. msgs[i].pdel => msgs[i].uid # 0
  BY DEF PlacesOK, Present
<1>4. Finalizadas[i] = IF ~msgs[i].pdel THEN msgs[i]
                       ELSE IF AindaAtivos(i) = {} THEN NoMsg ELSE m
  BY DEF Finalizadas
<1> HIDE DEF m
<1>5. QED
  BY <1>1, <1>2, <1>3, <1>4, NothingIsAMessage DEF Marked

-------------------------------------------------------------------------------
LEMMA ConversationInitOK == ConversationInit => ConversationIInv
<1> SUFFICES ASSUME ConversationInit PROVE ConversationIInv
  OBVIOUS
<1> USE ConversationAssumption, NothingIsAMessage DEF ConversationInit
<1>1. ConversationTypeOK
  <2>1. NoPayload \in Payload /\ NoDel \in Deletion
    BY DEF NoPayload, Payload, NoDel, Deletion
  <2>2. QED
    BY <2>1 DEF ConversationTypeOK
<1>2. PlacesOK /\ ClearOK
  BY DEF PlacesOK, ClearOK, NoMsg, Present, MsgId
<1>3. /\ \A p \in post : Past(p)
      /\ \A j \in JobId : Past(payload[j])
  BY DEF Past, NoPayload
<1>4. QED
  BY <1>1, <1>2, <1>3 DEF ConversationIInv

(* The request: the snapshot is taken under the lock that recorded its     *)
(* message, which is then the newest.                                      *)
LEMMA PostingKeeps ==
    ASSUME ConversationIInv, NEW copy \in Copies, PostMensagem(copy)
    PROVE  ConversationIInv'
<1> USE DEF ConversationIInv
<1>0. 0 \in 0..MaxJobs
  BY JobQueueAssumption
<1>1. /\ msgs' \in [MsgId -> Message] /\ born' \in 0..MaxMsgs
      /\ lost' \in 0..MaxLosses /\ memory' \in [NodeId -> 0..MaxMsgs]
      /\ PlacesOK' /\ born' = born + 1
  BY <1>0, RecordingKeeps DEF PostMensagem
<1>2. NovoId \in MsgId /\ born \in Nat
  BY NextIdIsFree, ConversationAssumption
     DEF PostMensagem, Registrar, ConversationTypeOK
<1> DEFINE p == [uid |-> born + 1, id |-> NovoId, frozen |-> Historico(msgs')]
<1>3. /\ Historico(msgs') \subseteq MsgId \X Uid
      /\ \A f \in Historico(msgs') : f[2] <= born'
  <2>1. born' \in Nat /\ \A i \in MsgId : msgs'[i].uid <= born'
    BY <1>1, <1>2 DEF PlacesOK
  <2>2. QED
    BY <1>1, <2>1, SnapshotTakenNow
<1>4. p \in Payload /\ Past(p)
  <2>1. born + 1 \in 0..MaxMsgs /\ NovoId \in 0..MaxMsgs
    BY <1>1, <1>2, ConversationAssumption DEF MsgId
  <2>2. QED
    BY <1>1, <1>3, <2>1 DEF Payload, Past
<1>5. post' = post \/ post' = post \union {p}
  BY DEF PostMensagem
<1> HIDE DEF p
<1>6. UNCHANGED <<conv, payload, answered, del, clear>>
  BY DEF PostMensagem
<1>7. ConversationTypeOK'
  BY <1>1, <1>4, <1>5, <1>6 DEF ConversationTypeOK
<1>8. (\A q \in post : Past(q))' /\ (\A j \in JobId : Past(payload[j]))'
  BY <1>4, <1>5, <1>6 DEF Past
<1>9. QED
  BY <1>1, <1>6, <1>7, <1>8 DEF ClearOK

(* Its second half hands the same snapshot to the job, however late.       *)
LEMMA SubmittingKeeps ==
    ASSUME ConversationIInv, NEW p \in post,
           \/ PostPerdido(p)
           \/ \E j \in JobId : PostJob(p, j)
    PROVE  ConversationIInv'
<1> USE DEF ConversationIInv, ConversationTypeOK
<1>1. UNCHANGED <<msgs, born, conv, answered, del, clear, memory>>
      /\ post' \subseteq post
  BY DEF PostPerdido, PostJob
<1>2. lost' \in 0..MaxLosses
  <2>1. lost \in 0..MaxLosses /\ MaxLosses \in Nat
    BY ConversationAssumption
  <2>2. CASE PostPerdido(p)
    <3>1. lost < MaxLosses /\ lost' = lost + 1
      BY <2>2 DEF PostPerdido
    <3>2. QED
      BY <2>1, <3>1
  <2>3. CASE ~PostPerdido(p)
    <3>1. lost' = lost
      BY <2>3 DEF PostJob
    <3>2. QED
      BY <2>1, <3>1
  <2>4. QED
    BY <2>2, <2>3
<1>3. /\ payload' \in [JobId -> Payload]
      /\ \A j \in JobId : payload'[j] = payload[j] \/ payload'[j] = p
  BY DEF PostPerdido, PostJob
<1>4. QED
  BY <1>1, <1>2, <1>3 DEF PlacesOK, ClearOK, Past, Present

(* A step that leaves the snapshots alone and only marks messages.         *)
Untouched == UNCHANGED <<born, conv, post, payload, answered, clear, lost, memory>>

LEMMA MarkingStep ==
    ASSUME ConversationIInv, Untouched,
           del' \in [Deleters -> Deletion],
           msgs' \in [MsgId -> Message],
           \A i \in MsgId : msgs'[i] = msgs[i] \/ Marked(msgs'[i], msgs[i])
    PROVE  ConversationIInv'
<1>1. PlacesOK'
  BY MarkingKeeps DEF Untouched
<1>2. QED
  BY <1>1 DEF ConversationIInv, ConversationTypeOK, ClearOK, Past, Untouched

LEMMA WorkKeeps ==
    ASSUME ConversationIInv, NEW j \in JobId, Trabalho(j)
    PROVE  ConversationIInv'
<1> USE DEF ConversationIInv, ConversationTypeOK
<1>1. CASE UNCHANGED convVars
  BY <1>1 DEF convVars, PlacesOK, ClearOK, Past, Present
<1>2. ASSUME NEW copy \in Copies, Responder(j, copy)
      PROVE  ConversationIInv'
  <2>1. j \in 0..MaxJobs
    BY JobQueueAssumption DEF JobId
  <2>2. /\ msgs' \in [MsgId -> Message] /\ born' \in 0..MaxMsgs
        /\ lost' \in 0..MaxLosses /\ memory' \in [NodeId -> 0..MaxMsgs]
        /\ PlacesOK'
    BY <1>2, <2>1, RecordingKeeps DEF Responder
  <2>3. UNCHANGED <<conv, post, payload, del, clear>> /\ answered' \subseteq JobId
    BY <1>2 DEF Responder
  <2>4. QED
    BY <2>2, <2>3 DEF ClearOK, Past
<1>3. QED
  BY <1>1, <1>2 DEF Trabalho, Rodar, Concluir, Parar

LEMMA DeletingKeeps ==
    ASSUME ConversationIInv, NEW d \in Deleters,
           Apagar(d) \/ \E i \in MsgId : Solicitar(d, i)
    PROVE  ConversationIInv'
<1> USE DEF ConversationIInv, ConversationTypeOK
<1>d. del[d] \in Deletion /\ NoMsg \in Message
  BY NothingIsAMessage
<1>1. CASE ListarJobs(d)
  <2>1. [del[d] EXCEPT !.pc = "cancel",
                       !.jobs = {j \in JobId : ActiveJob(j)
                                    /\ payload[j].id = del[d].id}] \in Deletion
    BY <1>d DEF Deletion
  <2>2. QED
    BY <1>1, <2>1, MarkingStep, SMTT(240) DEF ListarJobs, Untouched
<1>2. CASE Bloqueadores(d)
  <2> DEFINE wait == Usando(del[d].id) \ del[d].cancelled
             k == [del[d] EXCEPT !.pc = IF wait # {} THEN "mark" ELSE "remove",
                                 !.jobs = wait]
  <2>1. wait \subseteq JobId
    BY DEF Usando
  <2>2. del' = [del EXCEPT ![d] = k]
    BY <1>2 DEF Bloqueadores
  <2> HIDE DEF wait
  <2>3. k \in Deletion
    BY <1>d, <2>1 DEF Deletion
  <2> HIDE DEF k
  <2>4. QED
    BY <1>2, <2>2, <2>3, MarkingStep, ZenonT(240) DEF Bloqueadores, Untouched
<1>3. CASE MarcarOuRemover(d)
  <2>1. [del[d] EXCEPT !.pc = "finish"] \in Deletion
    BY <1>d DEF Deletion
  <2>2. del' \in [Deleters -> Deletion] /\ Untouched
    BY <1>3, <2>1 DEF MarcarOuRemover, Untouched
  <2> DEFINE i == del[d].id
             m == [msgs[i] EXCEPT !.pdel = TRUE, !.after = @ \union del[d].jobs]
  <2>3. CASE msgs' = msgs
    BY <2>2, <2>3, MarkingStep
  <2>4. CASE msgs' # msgs
    <3>1. i \in MsgId /\ Present(i)
      BY <1>3, <2>4 DEF MarcarOuRemover
    <3>2. m \in Message /\ m.uid = msgs[i].uid
      BY <1>d, <3>1 DEF Message, Deletion
    <3>3. msgs' = [msgs EXCEPT ![i] = NoMsg] \/ msgs' = [msgs EXCEPT ![i] = m]
      BY <1>3, <2>4 DEF MarcarOuRemover
    <3> HIDE DEF m, i
    <3>4. QED
      BY <1>d, <2>2, <3>1, <3>2, <3>3, MarkingStep DEF Marked, Present
  <2>5. QED
    BY <2>3, <2>4
<1>4. CASE FinalizarPedido(d)
  <2>1. [NoDel EXCEPT !.pc = "done"] \in Deletion
    BY ConversationAssumption DEF NoDel, Deletion
  <2>2. QED
    BY <1>4, <2>1, FinishingMarks, MarkingStep DEF FinalizarPedido, Untouched
<1>5. ASSUME NEW j \in JobId, CancelarUm(d, j)
      PROVE  ConversationIInv'
  <2>1. \E k \in Deletion : del' = [del EXCEPT ![d] = k]
    <3> DEFINE ok == ActiveJob(j) \/ job[j].status = "cancelled"
               k == [del[d] EXCEPT
                        !.jobs = @ \ {j},
                        !.cancelled = IF ok THEN @ \union {j} ELSE @,
                        !.purge = IF ok THEN @ \union {j} ELSE @]
    <3>1. del' = [del EXCEPT ![d] = k]
      BY <1>5 DEF CancelarUm
    <3>2. k \in Deletion
      BY <1>d DEF Deletion
    <3>3. QED
      BY <3>1, <3>2
  <2>2. QED
    BY <1>5, <2>1, MarkingStep, ZenonT(240) DEF CancelarUm, Untouched
<1>6. ASSUME NEW j \in JobId, RemoverRespostasDoJob(d, j)
      PROVE  ConversationIInv'
  <2>1. [del[d] EXCEPT !.purge = @ \ {j}] \in Deletion
    BY <1>d DEF Deletion
  <2>2. del' \in [Deleters -> Deletion] /\ Untouched
    BY <1>6, <2>1 DEF RemoverRespostasDoJob, Untouched
  <2>3. /\ msgs' \in [MsgId -> Message]
        /\ \A i \in MsgId : msgs'[i] = msgs[i] \/ msgs'[i] = NoMsg
    BY <1>6, <1>d DEF RemoverRespostasDoJob
  <2>4. QED
    BY <2>2, <2>3, MarkingStep DEF Marked
<1>7. ASSUME NEW i \in MsgId, Solicitar(d, i)
      PROVE  ConversationIInv'
  <2>1. [del[d] EXCEPT !.pc = "list", !.id = i] \in Deletion
    <3>1. i \in 0..MaxMsgs
      BY ConversationAssumption DEF MsgId
    <3>2. QED
      BY <1>d, <3>1 DEF Deletion
  <2>2. del' \in [Deleters -> Deletion] /\ Untouched
    BY <1>7, <2>1 DEF Solicitar, Untouched
  <2> DEFINE m == [msgs[i] EXCEPT !.pdel = TRUE]
  <2>3. m \in Message /\ m.uid = msgs[i].uid /\ msgs[i].uid # 0
    <3>1. msgs[i] \in Message
      OBVIOUS
    <3>2. msgs[i].uid # 0
      BY <1>7 DEF Solicitar, Present
    <3>3. QED
      BY <3>1, <3>2 DEF Message
  <2>4. msgs' = [msgs EXCEPT ![i] = m]
    BY <1>7 DEF Solicitar
  <2> HIDE DEF m
  <2>5. QED
    BY <2>2, <2>3, <2>4, MarkingStep DEF Marked
<1>8. QED
  BY <1>1, <1>2, <1>3, <1>4, <1>5, <1>6, <1>7 DEF Apagar

LEMMA ConversationStepOK ==
    ASSUME ConversationIInv, [ConversationNext]_cVars
    PROVE  ConversationIInv'
<1> USE DEF ConversationIInv, ConversationTypeOK
<1>1. CASE UNCHANGED cVars
  BY <1>1 DEF cVars, convVars, PlacesOK, ClearOK, Past, Present
<1>2. CASE FinalizarRemocoes
  BY <1>2, FinishingMarks, MarkingStep DEF FinalizarRemocoes, Untouched
<1>3. CASE LimparVerificar
  BY <1>3 DEF LimparVerificar, PlacesOK, ClearOK, Past, Present
<1>4. CASE LimparConversa
  BY <1>4, NothingIsAMessage, ConversationAssumption
     DEF LimparConversa, PlacesOK, ClearOK, Past, Present, NoMsg
<1>5. QED
  BY <1>1, <1>2, <1>3, <1>4, PostingKeeps, SubmittingKeeps, WorkKeeps,
     DeletingKeeps DEF ConversationNext

-------------------------------------------------------------------------------
(* Every variable of the conversation has its type, and a job never sees a *)
(* message recorded after the one that started it, however many requests   *)
(* are in flight (registrar_mensagem_com_snapshot).                        *)
THEOREM SnapshotTheorem == ConversationSpec => []SnapshotsAreSound
<1>1. ConversationIInv /\ [ConversationNext]_cVars => ConversationIInv'
  BY ConversationStepOK
<1>2. ConversationIInv => SnapshotsAreSound
  BY DEF ConversationIInv, SnapshotsAreSound, SnapshotIsPast, Past
<1>3. QED
  BY ConversationInitOK, <1>1, <1>2, PTL DEF ConversationSpec

(* No step takes away a message whose deletion waits for a job, except a   *)
(* clear of the conversation and a request that had found no such job.     *)
WaitsFor(i) ==
    msgs[i].pdel /\ AindaAtivos(i) # {} /\ msgs[i].job = 0
       => \/ msgs'[i].uid = msgs[i].uid \/ conv' # conv
          \/ \E d \in Deleters : del[d].pc = "remove" /\ del[d].id = i

LEMMA WaitingStays ==
    ASSUME ConversationIInv, ConversationNext, NEW i \in MsgId
    PROVE  WaitsFor(i)
<1> USE DEF ConversationIInv, ConversationTypeOK
<1> SUFFICES ASSUME msgs[i].pdel, AindaAtivos(i) # {}, msgs[i].job = 0
             PROVE  \/ msgs'[i].uid = msgs[i].uid \/ conv' # conv
                    \/ \E d \in Deleters :
                          del[d].pc = "remove" /\ del[d].id = i
  BY DEF WaitsFor
<1>p. Present(i) /\ msgs[i] \in Message
  BY DEF PlacesOK
<1>1. ASSUME NEW j \in 0..MaxJobs, NEW copy \in Copies, Registrar(j, copy)
      PROVE  msgs'[i].uid = msgs[i].uid
  <2>1. i # NovoId
    BY <1>1, <1>p, NextIdIsFree DEF Registrar
  <2>2. QED
    BY <1>1, <2>1, RecordingKeeps
<1>2. ASSUME msgs' = Finalizadas
      PROVE  msgs'[i].uid = msgs[i].uid
  BY <1>2, <1>p DEF Finalizadas, Message
<1>3. ASSUME NEW copy \in Copies, PostMensagem(copy)
      PROVE  msgs'[i].uid = msgs[i].uid
  BY <1>1, <1>3, JobQueueAssumption DEF PostMensagem
<1>4. ASSUME NEW p \in post, PostPerdido(p) \/ \E j \in JobId : PostJob(p, j)
      PROVE  msgs'[i].uid = msgs[i].uid
  BY <1>4 DEF PostPerdido, PostJob
<1>5. ASSUME NEW j \in JobId, Trabalho(j)
      PROVE  msgs'[i].uid = msgs[i].uid
  BY <1>1, <1>5, JobQueueAssumption
     DEF Trabalho, Rodar, Responder, Concluir, Parar, convVars, JobId
<1>6. ASSUME NEW d \in Deleters, Apagar(d)
      PROVE  \/ msgs'[i].uid = msgs[i].uid
             \/ del[d].pc = "remove" /\ del[d].id = i
  <2>1. CASE MarcarOuRemover(d)
    <3>1. CASE del[d].id = i /\ del[d].pc = "mark"
      <4>1. msgs'[i] = [msgs[i] EXCEPT !.pdel = TRUE,
                                       !.after = @ \union del[d].jobs]
        BY <1>p, <2>1, <3>1 DEF MarcarOuRemover
      <4>2. QED
        BY <1>p, <4>1 DEF Message
    <3>2. CASE del[d].id # i
      BY <2>1, <3>2 DEF MarcarOuRemover
    <3>3. QED
      BY <2>1, <3>1, <3>2 DEF MarcarOuRemover
  <2>2. CASE FinalizarPedido(d)
    BY <1>2, <2>2 DEF FinalizarPedido
  <2>3. ASSUME NEW j \in JobId, RemoverRespostasDoJob(d, j)
        PROVE  msgs'[i].uid = msgs[i].uid
    BY <2>3, JobQueueAssumption DEF RemoverRespostasDoJob, JobId
  <2>4. QED
    BY <1>6, <2>1, <2>2, <2>3, ZenonT(240) DEF Apagar, ListarJobs, Bloqueadores, CancelarUm
<1>7. ASSUME NEW d \in Deleters, NEW k \in MsgId, Solicitar(d, k)
      PROVE  msgs'[i].uid = msgs[i].uid
  BY <1>7, <1>p DEF Solicitar, Message
<1>8. CASE FinalizarRemocoes
  BY <1>2, <1>8 DEF FinalizarRemocoes
<1>9. CASE LimparVerificar
  BY <1>9 DEF LimparVerificar
<1>10. CASE LimparConversa
  BY <1>10, ConversationAssumption DEF LimparConversa
<1>11. QED
  BY <1>3, <1>4, <1>5, <1>6, <1>7, <1>8, <1>9, <1>10 DEF ConversationNext

(* Once a deletion has written down the jobs it waits for, the message     *)
(* stays until all of them have ended (finalizar_remocoes_pendentes and    *)
(* solicitar_remocao_mensagem), whoever else reads or deletes.             *)
THEOREM DeletionTheorem == ConversationSpec => DeferredDeleteWaits
<1>1. ConversationIInv /\ [ConversationNext]_cVars => ConversationIInv'
  BY ConversationStepOK
<1>2. ConversationIInv /\ [ConversationNext]_cVars
         => [\A i \in MsgId : WaitsFor(i)]_cVars
  BY WaitingStays
<1>3. QED
  BY ConversationInitOK, <1>1, <1>2, PTL
     DEF ConversationSpec, DeferredDeleteWaits, WaitsFor

===============================================================================
