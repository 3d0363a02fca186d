----------------------------- MODULE Continuation -----------------------------
(***************************************************************************)
(* Which continuation a job resumes (eyle/runtime/service.py, processar and*)
(* carregar_agent_pendente).  Every job has an execution id of its own; the*)
(* service keeps one checkpoint file for each execution and one file for   *)
(* each gate, where a confirmation or a choice waits for the user.  A job  *)
(* first looks for a checkpoint, then for the gate its text refers to, and *)
(* otherwise starts a fresh run.  The jobs run one process at a time in    *)
(* each of Slots slots; a process may be killed, and its job is then run   *)
(* again, or was cancelled and is not; an exception may escape a run, and  *)
(* its job has failed.  The user may clear the conversation, and with it   *)
(* every file.                                                             *)
(*                                                                         *)
(* What a run does is left to AgentSession: here it ends, returns a        *)
(* checkpoint or opens a gate.  A run belongs to the execution of the      *)
(* session it holds, which is not the job's own once it resumed something. *)
(***************************************************************************)
EXTENDS Integers, FiniteSets

CONSTANTS
    MaxJobs,   \* bound: jobs; job j has the execution id j
    Slots,     \* max_parallel_jobs
    MaxSaves,  \* bound: checkpoints and gates ever saved
    MaxKills   \* bound: processes killed

ASSUME ContinuationAssumption ==
    MaxJobs \in Nat /\ Slots \in Nat \ {0} /\ MaxSaves \in Nat /\ MaxKills \in Nat

VARIABLES
    jobs,    \* the state, the text and the run of each job
    ckpts,   \* the checkpoint file of each execution
    gates,   \* the files of the gates
    saves,   \* files saved so far; the id of the next one is the next number
    wiping,  \* a request that clears the conversation found no job active
    kills,   \* processes killed so far
    lost,    \* history: checkpoints of runs that were killed or failed
    wiped    \* history: files that went with a cleared conversation

history == <<kills, lost, wiped>>
vars    == <<jobs, ckpts, gates, saves, wiping, history>>

Job    == 1..MaxJobs
FileId == 1..MaxSaves
Word   == MaxSaves + 1  \* a word that looks like a code and is none ("2024")
Kind   == {"confirm", "choice"}

(* What the user writes: a control word or not, with a code or without.    *)
Text == [control : {"none", "aplicar", "cancelar"}, code : {0, Word} \union FileId]

NoFile == [id |-> 0, by |-> 0]
File   == [id : {0} \union FileId, by : {0} \union Job]  \* by: the job that saved it
Gate   == [id : FileId, kind : Kind, exec : Job]

(* The run of a job: the execution it belongs to, and the file it resumed. *)
Run    == [exec : Job, from : {"nothing", "ckpt", "gate"}, id : {0} \union FileId]
FreshRun(j) == [exec |-> j, from |-> "nothing", id |-> 0]

JobState == [pc : {"new", "queued", "lookup", "gate", "think", "replace", "clear",
                   "closed"},
             text : Text, run : Run,
             held : {0} \union FileId]  \* the checkpoint just saved
NoText   == [control |-> "none", code |-> 0]

(* A job that no process runs, in a given state with a given text.         *)
Waiting(j, pc, text) == [pc |-> pc, text |-> text, run |-> FreshRun(j), held |-> 0]

ContinuationInit ==
    /\ jobs = [j \in Job |-> Waiting(j, "new", NoText)]
    /\ ckpts = [e \in Job |-> NoFile]
    /\ gates = {} /\ saves = 0 /\ wiping = FALSE
    /\ kills = 0 /\ lost = {} /\ wiped = {}

Idle(j)     == jobs[j].pc \in {"new", "queued", "closed"}
Busy        == {j \in Job : ~Idle(j)}
Set(j, pc)  == jobs' = [jobs EXCEPT ![j].pc = pc]
Rests(j, pc, text) == jobs' = [jobs EXCEPT ![j] = Waiting(j, pc, text)]
Close(j)    == Rests(j, "closed", NoText)
Goes(j, pc, run) == jobs' = [jobs EXCEPT ![j].pc = pc, ![j].run = run, ![j].held = 0]
Begin(j, run) == Goes(j, "think", run)

(* A message becomes a job; the jobs start in their order.                 *)
Submit(j, text) ==
    /\ jobs[j].pc = "new"
    /\ \A k \in Job : k < j => jobs[k].pc # "new"
    /\ Rests(j, "queued", text)
    /\ UNCHANGED <<ckpts, gates, saves, wiping, history>>

Reserve(j) ==
    /\ jobs[j].pc = "queued" /\ Cardinality(Busy) < Slots
    /\ \A k \in Job : jobs[k].pc = "queued" => j <= k
    /\ Set(j, "lookup")
    /\ UNCHANGED <<ckpts, gates, saves, wiping, history>>

-------------------------------------------------------------------------------
Recoverable == {e \in Job : ckpts[e] # NoFile}

(* Mutant of FoundCkpt: only the checkpoint of the job's own execution.    *)
SoExato(j) == IF j \in Recoverable THEN {j} ELSE {}

(* The checkpoint a job resumes: that of its own execution; else the only  *)
(* one there is, whoever saved it.                                         *)
FoundCkpt(j) == IF j \in Recoverable THEN {j}
                ELSE IF Cardinality(Recoverable) = 1 THEN Recoverable ELSE {}

(* Mutant of FoundGate: a code that is not found is forgotten.             *)
UnicaPendencia(text) ==
    IF Cardinality(gates) = 1 THEN gates ELSE {g \in gates : g.id = text.code}

(* The gate a text refers to: the one it names; with no code in the text,  *)
(* the only one there is.                                                  *)
FoundGate(text) ==
    IF text.code # 0 THEN {g \in gates : g.id = text.code}
    ELSE IF Cardinality(gates) = 1 THEN gates ELSE {}

ResumeCkpt(j, e) ==
    /\ jobs[j].pc = "lookup" /\ e \in FoundCkpt(j)
    /\ Begin(j, [exec |-> e, from |-> "ckpt", id |-> ckpts[e].id])
    /\ UNCHANGED <<ckpts, gates, saves, wiping, history>>

(* The checkpoint does not fit this provider or schema: it is removed.     *)
DropCkpt(j, e) ==
    /\ jobs[j].pc = "lookup" /\ e \in FoundCkpt(j)
    /\ ckpts' = [ckpts EXCEPT ![e] = NoFile]
    /\ Set(j, "gate")
    /\ UNCHANGED <<gates, saves, wiping, history>>

NoCkpt(j) ==
    /\ jobs[j].pc = "lookup" /\ FoundCkpt(j) = {}
    /\ Set(j, "gate")
    /\ UNCHANGED <<ckpts, gates, saves, wiping, history>>

-------------------------------------------------------------------------------
(* The gate of the text, which may have expired: then it is removed.       *)
At(j) == jobs[j].pc = "gate"
Said(j) == jobs[j].text

(* A control with nothing to control is answered; any other text is a new  *)
(* request.                                                                *)
StartOrReply(j) ==
    IF Said(j).control = "none" THEN Begin(j, FreshRun(j)) ELSE Close(j)

NoGate(j) ==
    /\ At(j) /\ FoundGate(Said(j)) = {}
    /\ StartOrReply(j)
    /\ UNCHANGED <<ckpts, gates, saves, wiping, history>>

Expired(j, g) ==
    /\ At(j) /\ g \in FoundGate(Said(j))
    /\ gates' = gates \ {g}
    /\ StartOrReply(j)
    /\ UNCHANGED <<ckpts, saves, wiping, history>>

(* Mutant of GateRun: the execution of the gate is lost.                   *)
SemExecucao(g) == [exec |-> 0, from |-> "gate", id |-> g.id]

GateRun(g) == [exec |-> g.exec, from |-> "gate", id |-> g.id]

(* The user confirms, or chooses: the run of the gate goes on.             *)
Resumed(j, g) ==
    /\ At(j) /\ g \in FoundGate(Said(j))
    /\ Said(j).control = (IF g.kind = "confirm" THEN "aplicar" ELSE "none")
    /\ Begin(j, GateRun(g))
    /\ UNCHANGED <<ckpts, gates, saves, wiping, history>>

(* The user cancels: the run of the gate ends.                             *)
Cancelled(j, g) ==
    /\ At(j) /\ g \in FoundGate(Said(j))
    /\ Said(j).control = "cancelar"
    /\ Goes(j, "clear", GateRun(g))
    /\ UNCHANGED <<ckpts, gates, saves, wiping, history>>

(* The text resolves no option: the gate stays.                            *)
Unresolved(j, g) ==
    /\ At(j) /\ g \in FoundGate(Said(j)) /\ g.kind = "choice"
    /\ Said(j).control # "cancelar"
    /\ Close(j)
    /\ UNCHANGED <<ckpts, gates, saves, wiping, history>>

(* A new request supersedes a proposal that was not applied.               *)
Superseded(j, g) ==
    /\ At(j) /\ g \in FoundGate(Said(j)) /\ g.kind = "confirm"
    /\ Said(j).control = "none"
    /\ gates' = gates \ {g}
    /\ Begin(j, FreshRun(j))
    /\ UNCHANGED <<ckpts, saves, wiping, history>>

-------------------------------------------------------------------------------
(* The run ends, or its state is saved: a checkpoint in the file of its    *)
(* execution, a gate in a file of its own.  Then what it had resumed goes. *)
Ends(j) ==
    /\ jobs[j].pc = "think"
    /\ Set(j, "clear")
    /\ UNCHANGED <<ckpts, gates, saves, wiping, history>>

SaveCkpt(j) ==
    /\ jobs[j].pc = "think" /\ saves < MaxSaves
    /\ saves' = saves + 1
    /\ ckpts' = [ckpts EXCEPT ![jobs[j].run.exec] = [id |-> saves + 1, by |-> j]]
    /\ jobs' = [jobs EXCEPT ![j].pc = "replace", ![j].held = saves + 1]
    /\ UNCHANGED <<gates, wiping, history>>

SaveGate(j, kind) ==
    /\ jobs[j].pc = "think" /\ saves < MaxSaves
    /\ saves' = saves + 1
    /\ gates' = gates \union {[id |-> saves + 1, kind |-> kind, exec |-> jobs[j].run.exec]}
    /\ Set(j, "clear")
    /\ UNCHANGED <<ckpts, wiping, history>>

(* Mutants of Limpar: nothing is cleared; the files of the execution are,  *)
(* whatever their id.                                                      *)
SemLimpar(run) == UNCHANGED <<ckpts, gates>>

PelaExecucao(run) ==
    /\ ckpts' = [ckpts EXCEPT ![run.exec] = NoFile]
    /\ gates' = {g \in gates : g.exec # run.exec}

(* limpar_agent_pendente: the file with this id and this execution.        *)
Limpar(run) ==
    /\ ckpts' = [e \in Job |-> IF run.from = "ckpt" /\ e = run.exec /\ ckpts[e].id = run.id
                               THEN NoFile ELSE ckpts[e]]
    /\ gates' = {g \in gates : ~(run.from = "gate" /\ g.id = run.id)}

(* The checkpoint just saved, held in memory, is resumed at once.          *)
Replace(j) ==
    /\ jobs[j].pc = "replace"
    /\ Limpar(jobs[j].run)
    /\ Begin(j, [exec |-> jobs[j].run.exec, from |-> "ckpt", id |-> jobs[j].held])
    /\ UNCHANGED <<saves, wiping, history>>

Clear(j) ==
    /\ jobs[j].pc = "clear"
    /\ Limpar(jobs[j].run)
    /\ Close(j)
    /\ UNCHANGED <<saves, wiping, history>>

(* The job that will clear the checkpoint of an execution, or replace it.  *)
Holds(j, e) ==
    /\ jobs[j].run.exec = e
    /\ \/ jobs[j].pc = "replace" /\ jobs[j].held = ckpts[e].id
       \/ /\ jobs[j].pc \in {"think", "clear"} /\ jobs[j].run.from = "ckpt"
          /\ jobs[j].run.id = ckpts[e].id

(* The run is gone, and the files stay as they are.                        *)
Lose(j) ==
    /\ ~Idle(j)
    /\ lost' = lost \union {ckpts[e].id : e \in {f \in Recoverable : Holds(j, f)}}
    /\ UNCHANGED <<ckpts, gates, saves, wiping, wiped>>

(* The process of the job is killed: the job is run again, or it had been  *)
(* cancelled (or was out of attempts) and is closed.                       *)
Kill(j) ==
    /\ Lose(j) /\ kills < MaxKills
    /\ kills' = kills + 1
    /\ \/ Rests(j, "queued", jobs[j].text)
       \/ Close(j)

(* An error of the model call or an exception leaves the run by the way of *)
(* no clearing: the job is answered, or fails.                             *)
Fails(j) == Lose(j) /\ Close(j) /\ UNCHANGED kills

(* The user clears the conversation: refused while a job is active, which  *)
(* is seen some time before every pending file is removed, one by one.     *)
LimparConversa ==
    /\ ~wiping /\ \A j \in Job : jobs[j].pc \in {"new", "closed"}
    /\ wiping' = TRUE
    /\ UNCHANGED <<jobs, ckpts, gates, saves, history>>

LimparPendencia ==
    /\ wiping
    /\ \/ \E e \in Recoverable :
              /\ ckpts' = [ckpts EXCEPT ![e] = NoFile]
              /\ wiped' = wiped \union {ckpts[e].id} /\ UNCHANGED gates
       \/ \E g \in gates :
              /\ gates' = gates \ {g}
              /\ wiped' = wiped \union {g.id} /\ UNCHANGED ckpts
    /\ UNCHANGED <<jobs, saves, wiping, kills, lost>>

ConversaLimpa ==
    /\ wiping /\ wiping' = FALSE
    /\ UNCHANGED <<jobs, ckpts, gates, saves, history>>

Wipe == LimparConversa \/ LimparPendencia \/ ConversaLimpa

Resume(j) ==
    \/ NoCkpt(j) \/ NoGate(j)
    \/ \E e \in Job : ResumeCkpt(j, e) \/ DropCkpt(j, e)
    \/ \E g \in gates : \/ Expired(j, g) \/ Resumed(j, g) \/ Cancelled(j, g)
                        \/ Unresolved(j, g) \/ Superseded(j, g)

Work(j) ==
    \/ Resume(j) \/ Ends(j) \/ SaveCkpt(j) \/ Replace(j) \/ Clear(j)
    \/ \E kind \in Kind : SaveGate(j, kind)

JobStep(j) ==
    Reserve(j) \/ Work(j) \/ Kill(j) \/ Fails(j) \/ \E text \in Text : Submit(j, text)

Next == Wipe \/ \E j \in Job : JobStep(j)

ContinuationSpec == ContinuationInit /\ [][Next]_vars

-------------------------------------------------------------------------------
(* Every variable keeps its type, and a run that holds a gate or a         *)
(* checkpoint names a file that was saved.                                 *)
ContinuationTypeOK ==
    /\ jobs \in [Job -> JobState]
    /\ ckpts \in [Job -> File] /\ gates \subseteq Gate
    /\ saves \in 0..MaxSaves /\ wiping \in BOOLEAN
    /\ kills \in 0..MaxKills /\ lost \subseteq FileId /\ wiped \subseteq FileId
    /\ \A j \in Job : jobs[j].run.id <= saves

(* With one slot there is at most one checkpoint on disk, kills included:  *)
(* this is why a job that resumed a gate of another execution finds its own*)
(* checkpoint again, by elimination (carregar_agent_pendente).             *)
OneCheckpoint == Slots = 1 => Cardinality(Recoverable) <= 1

(* A job that is run again after it saved a checkpoint resumes one: it     *)
(* never goes on to a gate or a fresh run past a checkpoint of its own     *)
(* (docs/recoverable-continuity.md:27).                                    *)
RerunResumes ==
    [][ \A j \in Job : NoCkpt(j) => \A e \in Job : ckpts[e].by # j ]_vars

(* A run that came from a checkpoint can be lost at any moment: with one   *)
(* slot the checkpoint it came from is on disk, until a newer one is, or   *)
(* the user cleared it away (salvar before limpar, by id and execution).   *)
RunsAreBacked ==
    Slots = 1 => \A j \in Job :
        jobs[j].pc = "think" /\ jobs[j].run.from = "ckpt"
            => \/ ckpts[jobs[j].run.exec].id = jobs[j].run.id
               \/ jobs[j].run.id \in wiped

(* Nothing is left behind: a checkpoint on disk is the one that some run   *)
(* has just saved or came from, and will replace or clear, or that run was *)
(* killed or failed (limpar_agent_pendente).                               *)
CheckpointsAreHeld ==
    \A e \in Recoverable : ckpts[e].id \in lost \/ \E j \in Job : Holds(j, e)

(* Every run names a file that was saved, and no checkpoint outlives the   *)
(* run that needs it, unless that run never came to its end.               *)
FilesAreRuns == ContinuationTypeOK /\ CheckpointsAreHeld

(* With one slot the one checkpoint on disk is the one a run needs that    *)
(* came from it, whenever its process is killed.                           *)
CheckpointBacksRun == OneCheckpoint /\ RunsAreBacked

(* A text with a code acts on the gate of that code and on no other; a     *)
(* gate goes only for the job that took it, or with the conversation       *)
(* (carregar_agent_pendente, limpar_agent_pendente).                       *)
GatesGoByName ==
    [][ \A g \in gates \ gates' :
            \/ g.id \in wiped'
            \/ \E j \in Job : ~Idle(j) /\ Said(j).code \in {0, g.id} ]_vars

(* A continuation is taken and cleared for the job that it is meant for,   *)
(* whatever the texts of the jobs say and whichever process was killed.    *)
ContinuationsGoByName == RerunResumes /\ GatesGoByName

(* A job resumes only a checkpoint it saved itself                         *)
(* (docs/recoverable-continuity.md:27).                                    *)
ResumesOwnExecution ==
    [][ \A j, e \in Job : ResumeCkpt(j, e) => ckpts[e].by = j ]_vars
===============================================================================
