-------------------------- MODULE ContinuationProofs --------------------------
(***************************************************************************)
(* The promises of Continuation, proved for any number of jobs, files and  *)
(* kills: that files are left for runs and gates are used by name for any  *)
(* number of slots, and that a checkpoint is found again by elimination    *)
(* for the one slot of the default configuration.                          *)
(*                                                                         *)
(* None of the promises is inductive.  What makes them so: the files are   *)
(* numbered in the order they are saved, a run that saves has not cleared  *)
(* what it came from, and with one slot the run and the checkpoint are one *)
(* and the same execution's.                                               *)
(***************************************************************************)
EXTENDS Continuation, FiniteSetTheorems, TLAPS

TypesOK ==
    /\ jobs \in [Job -> JobState] /\ ckpts \in [Job -> File]
    /\ gates \subseteq Gate /\ saves \in 0..MaxSaves /\ wiping \in BOOLEAN
    /\ kills \in 0..MaxKills /\ lost \in SUBSET FileId /\ wiped \in SUBSET FileId

(* A file has a number that was given, a run the number of a file it came  *)
(* from, and the checkpoint in memory a later one.                         *)
NumbersOK ==
    /\ \A e \in Job : /\ ckpts[e].id <= saves
                      /\ ckpts[e] # NoFile => ckpts[e].id # 0
    /\ \A g \in gates : g.id <= saves
    /\ \A j \in Job :
          /\ jobs[j].run.id <= saves /\ jobs[j].held <= saves
          /\ jobs[j].pc = "replace" => jobs[j].run.id < jobs[j].held

(* A run that came from a gate has a text that may name it.                *)
TextsOK ==
    \A j \in Job : jobs[j].run.from = "gate" =>
        /\ ~Idle(j)
        /\ jobs[j].text.code \in {0, jobs[j].run.id}

(* With one slot, one run at a time and one checkpoint: that of the run,   *)
(* unless it went with the conversation.                                   *)
OneAtATime ==
    Slots = 1 =>
        /\ \A j, k \in Busy : j = k
        /\ \A e, f \in Recoverable : e = f
        /\ \A j \in Job :
              /\ jobs[j].pc = "gate" => Recoverable = {}
              /\ jobs[j].pc \in {"think", "replace"} =>
                    Recoverable \subseteq {jobs[j].run.exec}
              /\ jobs[j].pc = "think" /\ jobs[j].run.from = "ckpt" =>
                    \/ ckpts[jobs[j].run.exec].id = jobs[j].run.id
                    \/ jobs[j].run.id \in wiped
              /\ jobs[j].pc = "replace" =>
                    \/ ckpts[jobs[j].run.exec].id = jobs[j].held
                    \/ jobs[j].held \in wiped

ContinuationIInv ==
    TypesOK /\ NumbersOK /\ TextsOK /\ CheckpointsAreHeld /\ OneAtATime
-------------------------------------------------------------------------------
(* A step of one job.                                                      *)
OthersStay(j) == \A k \in Job \ {j} : jobs'[k] = jobs[k]

LEMMA NumberTypes ==
    /\ saves \in 0..MaxSaves => /\ saves \in Nat
                                /\ saves < MaxSaves => saves + 1 \in FileId
    /\ \A x \in {0} \union FileId : x \in Nat
    /\ kills \in 0..MaxKills => kills \in Nat
  BY ContinuationAssumption DEF FileId

LEMMA SetEffect ==
    ASSUME TypesOK, NEW j \in Job, NEW pc, Set(j, pc),
           pc \in {"lookup", "gate", "clear"}
    PROVE  /\ jobs' \in [Job -> JobState] /\ OthersStay(j)
           /\ jobs'[j].pc = pc /\ jobs'[j].text = jobs[j].text
           /\ jobs'[j].run = jobs[j].run /\ jobs'[j].held = jobs[j].held
<1>1. jobs' = [jobs EXCEPT ![j].pc = pc] /\ jobs[j] \in JobState
  BY DEF Set, TypesOK
<1>2. QED
  BY <1>1 DEF TypesOK, OthersStay, JobState

LEMMA GoesEffect ==
    ASSUME TypesOK, NEW j \in Job, NEW pc \in {"think", "clear"},
           NEW run \in Run, Goes(j, pc, run)
    PROVE  /\ jobs' \in [Job -> JobState] /\ OthersStay(j)
           /\ jobs'[j].pc = pc /\ jobs'[j].text = jobs[j].text
           /\ jobs'[j].run = run /\ jobs'[j].held = 0
<1>1. jobs' = [jobs EXCEPT ![j].pc = pc, ![j].run = run, ![j].held = 0]
      /\ jobs[j] \in JobState
  BY DEF Goes, TypesOK
<1>2. QED
  BY <1>1 DEF TypesOK, OthersStay, JobState

LEMMA WaitEffect ==
    ASSUME TypesOK, NEW j \in Job, NEW pc \in {"new", "queued", "closed"},
           NEW text \in Text, Rests(j, pc, text)
    PROVE  /\ jobs' \in [Job -> JobState] /\ OthersStay(j)
           /\ jobs'[j].pc = pc /\ jobs'[j].text = text
           /\ jobs'[j].run.id = 0 /\ jobs'[j].run.from = "nothing"
           /\ jobs'[j].run.exec = j /\ jobs'[j].held = 0
<1>1. Waiting(j, pc, text) \in JobState
  BY DEF Waiting, FreshRun, JobState, Run
<1>2. jobs'[j] = Waiting(j, pc, text) /\ OthersStay(j)
      /\ jobs' \in [Job -> JobState]
  BY <1>1 DEF Rests, TypesOK, OthersStay
<1>3. QED
  BY <1>2 DEF Waiting, FreshRun

LEMMA NoTextType == NoText \in Text /\ \A j \in Job : FreshRun(j) \in Run
  BY DEF NoText, Text, FreshRun, Run

LEMMA FoundTypes ==
    ASSUME TypesOK, NEW j \in Job
    PROVE  /\ FoundGate(Said(j)) \subseteq gates /\ Said(j) \in Text
           /\ \A g \in FoundGate(Said(j)) :
                 Said(j).code \in {0, g.id} /\ GateRun(g) \in Run
           /\ FoundCkpt(j) \subseteq Recoverable
<1>1. Said(j) \in Text
  BY DEF Said, TypesOK, JobState
<1>2. FoundGate(Said(j)) \subseteq gates
      /\ \A g \in FoundGate(Said(j)) : Said(j).code \in {0, g.id}
  BY DEF FoundGate
<1>3. \A g \in gates : GateRun(g) \in Run
  BY DEF TypesOK, Gate, GateRun, Run
<1>4. QED
  BY <1>1, <1>2, <1>3 DEF FoundCkpt

LEMMA BusyIsFinite == IsFiniteSet(Busy) /\ IsFiniteSet(Recoverable) /\ IsFiniteSet(Job)
<1>1. IsFiniteSet(Job)
  BY FS_Interval, ContinuationAssumption DEF Job
<1>2. QED
  BY <1>1, FS_Subset DEF Busy, Recoverable

(* With one slot, a job starts when no other is busy; and a job that finds *)
(* no checkpoint is a job for which there is none.                         *)
LEMMA SlotIsFree ==
    ASSUME Slots = 1, Cardinality(Busy) < Slots
    PROVE  Busy = {}
<1>1. Cardinality(Busy) \in Nat
  BY BusyIsFinite, FS_CardinalityType
<1>2. Cardinality(Busy) = 0
  BY <1>1
<1>3. QED
  BY <1>2, BusyIsFinite, FS_EmptySet

LEMMA NothingFound ==
    ASSUME OneAtATime, Slots = 1, NEW j \in Job, FoundCkpt(j) = {}
    PROVE  Recoverable = {}
<1> SUFFICES ASSUME NEW e \in Recoverable PROVE FALSE
  OBVIOUS
<1>1. Recoverable = {e}
  BY DEF OneAtATime
<1>2. Cardinality(Recoverable) = 1
  BY <1>1, FS_Singleton
<1>3. QED
  BY <1>2 DEF FoundCkpt
-------------------------------------------------------------------------------
LEMMA ContinuationStarts == ContinuationInit => ContinuationIInv
<1> SUFFICES ASSUME ContinuationInit PROVE ContinuationIInv
  OBVIOUS
<1>1. \A j \in Job :
        /\ jobs[j] \in JobState /\ jobs[j].pc = "new" /\ jobs[j].held = 0
        /\ jobs[j].run.id = 0 /\ jobs[j].run.from = "nothing"
  BY NoTextType DEF ContinuationInit, Waiting, FreshRun, JobState, Run
<1>2. \A e \in Job : ckpts[e] = NoFile /\ ckpts[e].id = 0
  BY DEF ContinuationInit, NoFile
<1>3. Recoverable = {} /\ Busy = {}
  BY <1>1, <1>2 DEF Recoverable, Busy, Idle
<1>4. TypesOK
  <2>1. NoFile \in File
    BY DEF NoFile, File
  <2>2. /\ jobs \in [Job -> JobState] /\ ckpts \in [Job -> File] /\ gates \subseteq Gate
        /\ wiping \in BOOLEAN /\ lost \in SUBSET FileId /\ wiped \in SUBSET FileId
    BY <1>1, <2>1 DEF ContinuationInit
  <2>3. saves \in 0..MaxSaves /\ kills \in 0..MaxKills
    BY ContinuationAssumption DEF ContinuationInit
  <2>4. QED
    BY <2>2, <2>3 DEF TypesOK
<1>5. NumbersOK /\ TextsOK
  BY <1>1, <1>2 DEF NumbersOK, TextsOK, ContinuationInit
<1>6. CheckpointsAreHeld /\ OneAtATime
  BY <1>1, <1>3 DEF CheckpointsAreHeld, OneAtATime
<1>7. QED
  BY <1>4, <1>5, <1>6 DEF ContinuationIInv

(* A job that waits from now on, and had no checkpoint to clear, or has it *)
(* no longer.                                                              *)
LEMMA JobWaits ==
    ASSUME ContinuationIInv, NEW j \in Job,
           NEW pc \in {"new", "queued", "closed"}, NEW text \in Text,
           Rests(j, pc, text),
           UNCHANGED <<ckpts, saves, wiping, wiped>>, gates' \subseteq gates,
           kills' \in 0..MaxKills, lost \subseteq lost', lost' \in SUBSET FileId,
           \A e \in Recoverable : Holds(j, e) => ckpts[e].id \in lost'
    PROVE  ContinuationIInv'
<1> USE DEF ContinuationIInv, history
<1>1. /\ jobs' \in [Job -> JobState] /\ OthersStay(j)
      /\ jobs'[j].pc = pc /\ jobs'[j].text = text
      /\ jobs'[j].run.id = 0 /\ jobs'[j].run.from = "nothing"
      /\ jobs'[j].run.exec = j /\ jobs'[j].held = 0
  BY WaitEffect
<1>2. TypesOK'
  BY <1>1 DEF TypesOK
<1>3. saves \in Nat
  BY NumberTypes DEF TypesOK
<1>4. NumbersOK' /\ TextsOK'
  BY <1>1, <1>3 DEF NumbersOK, TextsOK, OthersStay, Idle
<1>5. CheckpointsAreHeld'
  <2> SUFFICES ASSUME NEW e \in Recoverable, ckpts[e].id \notin lost'
               PROVE  \E k \in Job : Holds(k, e)'
    BY DEF CheckpointsAreHeld, Recoverable
  <2>1. PICK k \in Job : Holds(k, e)
    BY DEF CheckpointsAreHeld
  <2>2. k # j
    BY <2>1
  <2>3. QED
    BY <1>1, <2>1, <2>2 DEF Holds, OthersStay
<1>6. OneAtATime'
  <2>1. Busy' \subseteq Busy
    BY <1>1 DEF Busy, Idle, OthersStay
  <2>2. QED
    BY <1>1, <2>1 DEF OneAtATime, OthersStay, Recoverable
<1>7. QED
  BY <1>2, <1>4, <1>5, <1>6

(* A job at a gate goes on, with the run of the gate or with a fresh one.  *)
LEMMA GateOpens ==
    ASSUME ContinuationIInv, NEW j \in Job, jobs[j].pc = "gate",
           NEW pc \in {"think", "clear"}, NEW run \in Run, Goes(j, pc, run),
           run.id <= saves, run.from # "ckpt",
           run.from = "gate" => Said(j).code \in {0, run.id},
           UNCHANGED <<ckpts, saves, wiping, history>>, gates' \subseteq gates
    PROVE  ContinuationIInv'
<1> USE DEF ContinuationIInv, history
<1>1. /\ jobs' \in [Job -> JobState] /\ OthersStay(j)
      /\ jobs'[j].pc = pc /\ jobs'[j].text = jobs[j].text
      /\ jobs'[j].run = run /\ jobs'[j].held = 0
  BY GoesEffect
<1>2. TypesOK'
  BY <1>1 DEF TypesOK
<1>3. saves \in Nat
  BY NumberTypes DEF TypesOK
<1>4. NumbersOK' /\ TextsOK'
  BY <1>1, <1>3 DEF NumbersOK, TextsOK, OthersStay, Idle, Said
<1>5. CheckpointsAreHeld'
  <2> SUFFICES ASSUME NEW e \in Recoverable, ckpts[e].id \notin lost
               PROVE  \E k \in Job : Holds(k, e)'
    BY DEF CheckpointsAreHeld, Recoverable
  <2>1. PICK k \in Job : Holds(k, e)
    BY DEF CheckpointsAreHeld
  <2>2. k # j
    BY <2>1 DEF Holds
  <2>3. QED
    BY <1>1, <2>1, <2>2 DEF Holds, OthersStay
<1>6. OneAtATime'
  <2>1. Busy' = Busy
    BY <1>1 DEF Busy, Idle, OthersStay
  <2>2. QED
    BY <1>1, <2>1 DEF OneAtATime, OthersStay, Recoverable
<1>7. QED
  BY <1>2, <1>4, <1>5, <1>6

-------------------------------------------------------------------------------
(* The step of each action.                                                *)
LEMMA StepWaits ==
    ASSUME ContinuationIInv, NEW j \in Job,
           \/ \E text \in Text : Submit(j, text)
           \/ Kill(j) \/ Fails(j)
           \/ \E g \in gates : Unresolved(j, g)
    PROVE  ContinuationIInv'
<1> USE DEF ContinuationIInv, history
<1>1. /\ kills \in Nat /\ jobs[j].text \in Text
      /\ kills < MaxKills => kills + 1 \in 0..MaxKills
      /\ \A e \in Recoverable : ckpts[e].id \in FileId
  BY NumberTypes, ContinuationAssumption
     DEF TypesOK, JobState, Recoverable, NumbersOK, File
<1>2. ASSUME NEW text \in Text, Submit(j, text) PROVE ContinuationIInv'
  <2>1. \A e \in Recoverable : ~Holds(j, e)
    BY <1>2 DEF Submit, Holds
  <2>2. QED
    BY <1>1, <1>2, <2>1, JobWaits DEF Submit, TypesOK
<1>3. CASE Kill(j) \/ Fails(j)
  <2>1. /\ UNCHANGED <<ckpts, gates, saves, wiping, wiped>>
        /\ lost' = lost \union
                      {ckpts[e].id : e \in {f \in Recoverable : Holds(j, f)}}
        /\ kills' \in 0..MaxKills
        /\ \/ Rests(j, "queued", jobs[j].text)
           \/ Rests(j, "closed", NoText)
    BY <1>1, <1>3 DEF Kill, Fails, Lose, Close, TypesOK
  <2>2. /\ lost \subseteq lost' /\ lost' \in SUBSET FileId
        /\ \A e \in Recoverable : Holds(j, e) => ckpts[e].id \in lost'
    BY <1>1, <2>1 DEF TypesOK
  <2>3. CASE Rests(j, "queued", jobs[j].text)
    BY <1>1, <2>1, <2>2, <2>3, JobWaits
  <2>4. CASE Rests(j, "closed", NoText)
    BY <2>1, <2>2, <2>4, NoTextType, JobWaits
  <2>5. QED
    BY <2>1, <2>3, <2>4
<1>4. ASSUME NEW g \in gates, Unresolved(j, g) PROVE ContinuationIInv'
  <2>1. \A e \in Recoverable : ~Holds(j, e)
    BY <1>4 DEF Unresolved, At, Holds
  <2>2. QED
    BY <1>1, <1>4, <2>1, NoTextType, JobWaits DEF Unresolved, Close, TypesOK
<1>5. QED
  BY <1>2, <1>3, <1>4

(* A request that is new: a fresh run, or an answer at once.               *)
LEMMA StartsOrReplies ==
    ASSUME ContinuationIInv, NEW j \in Job, At(j), StartOrReply(j),
           UNCHANGED <<ckpts, saves, wiping, history>>, gates' \subseteq gates
    PROVE  ContinuationIInv'
<1> USE DEF ContinuationIInv, history
<1>1. /\ jobs[j].pc = "gate" /\ FreshRun(j) \in Run
      /\ FreshRun(j).id = 0 /\ FreshRun(j).from = "nothing"
      /\ kills \in 0..MaxKills /\ kills \in Nat /\ saves \in Nat
  BY NoTextType, NumberTypes DEF At, FreshRun, TypesOK
<1>2. CASE Goes(j, "think", FreshRun(j))
  BY <1>1, <1>2, GateOpens
<1>3. CASE Close(j)
  <2>1. \A e \in Recoverable : ~Holds(j, e)
    BY <1>1 DEF Holds
  <2>2. QED
    BY <1>1, <1>3, <2>1, NoTextType, JobWaits DEF Close, TypesOK
<1>4. QED
  BY <1>2, <1>3 DEF StartOrReply, Begin

LEMMA StepAtGate ==
    ASSUME ContinuationIInv, NEW j \in Job,
           \/ NoGate(j)
           \/ \E g \in gates : \/ Expired(j, g) \/ Resumed(j, g)
                               \/ Cancelled(j, g) \/ Superseded(j, g)
    PROVE  ContinuationIInv'
<1> USE DEF ContinuationIInv, history
<1>1. CASE NoGate(j)
  BY <1>1, StartsOrReplies DEF NoGate
<1>2. ASSUME NEW g \in gates, Expired(j, g) PROVE ContinuationIInv'
  BY <1>2, StartsOrReplies DEF Expired
<1>3. ASSUME NEW g \in gates,
             Resumed(j, g) \/ Cancelled(j, g)
      PROVE  ContinuationIInv'
  <2>1. g \in FoundGate(Said(j)) /\ jobs[j].pc = "gate"
        /\ UNCHANGED <<ckpts, gates, saves, wiping, history>>
        /\ \E pc \in {"think", "clear"} : Goes(j, pc, GateRun(g))
    BY <1>3 DEF Resumed, Cancelled, At, Begin
  <2>2. /\ GateRun(g) \in Run /\ GateRun(g).id = g.id
        /\ GateRun(g).from = "gate" /\ Said(j).code \in {0, g.id}
    BY <2>1, FoundTypes DEF GateRun
  <2>3. g.id <= saves
    BY DEF NumbersOK
  <2>4. QED
    BY <2>1, <2>2, <2>3, GateOpens
<1>4. ASSUME NEW g \in gates, Superseded(j, g) PROVE ContinuationIInv'
  <2>1. /\ jobs[j].pc = "gate" /\ FreshRun(j) \in Run
        /\ FreshRun(j).id = 0 /\ FreshRun(j).from = "nothing" /\ saves \in Nat
    BY <1>4, NoTextType, NumberTypes DEF Superseded, At, FreshRun, TypesOK
  <2>2. QED
    BY <1>4, <2>1, GateOpens DEF Superseded, Begin
<1>5. QED
  BY <1>1, <1>2, <1>3, <1>4

(* A job starts; with one slot, when no other runs.                        *)
LEMMA StepReserve ==
    ASSUME ContinuationIInv, NEW j \in Job, Reserve(j)
    PROVE  ContinuationIInv'
<1> USE DEF ContinuationIInv, history
<1>1. /\ jobs' \in [Job -> JobState] /\ OthersStay(j)
      /\ jobs'[j].pc = "lookup" /\ jobs'[j].text = jobs[j].text
      /\ jobs'[j].run = jobs[j].run /\ jobs'[j].held = jobs[j].held
      /\ jobs[j].pc = "queued" /\ UNCHANGED <<ckpts, gates, saves, wiping, history>>
  BY SetEffect DEF Reserve
<1>2. TypesOK' /\ NumbersOK' /\ TextsOK'
  BY <1>1 DEF TypesOK, NumbersOK, TextsOK, OthersStay, Idle
<1>3. CheckpointsAreHeld'
  BY <1>1 DEF CheckpointsAreHeld, Holds, OthersStay, Recoverable
<1>4. OneAtATime'
  <2> SUFFICES ASSUME Slots = 1 PROVE OneAtATime'
    BY DEF OneAtATime
  <2>1. Busy = {}
    BY SlotIsFree DEF Reserve
  <2>2. Busy' = {j}
    BY <1>1, <2>1 DEF Busy, Idle, OthersStay
  <2>3. QED
    BY <1>1, <2>2 DEF OneAtATime, OthersStay, Recoverable
<1>5. QED
  BY <1>2, <1>3, <1>4

(* A job looks for a checkpoint, and resumes or removes what it finds.     *)
LEMMA StepLookup ==
    ASSUME ContinuationIInv, NEW j \in Job,
           NoCkpt(j) \/ \E e \in Job : ResumeCkpt(j, e) \/ DropCkpt(j, e)
    PROVE  ContinuationIInv'
<1> USE DEF ContinuationIInv, history
<1>1. jobs[j].pc = "lookup" /\ UNCHANGED <<gates, saves, wiping, history>> /\ j \in Busy
  BY DEF NoCkpt, ResumeCkpt, DropCkpt, Busy, Idle
<1>2. CASE NoCkpt(j)
  <2>1. /\ jobs' \in [Job -> JobState] /\ OthersStay(j)
        /\ jobs'[j].pc = "gate" /\ jobs'[j].text = jobs[j].text
        /\ jobs'[j].run = jobs[j].run /\ jobs'[j].held = jobs[j].held
        /\ UNCHANGED ckpts /\ FoundCkpt(j) = {}
    BY <1>2, SetEffect DEF NoCkpt
  <2>2. TypesOK' /\ NumbersOK' /\ TextsOK' /\ CheckpointsAreHeld'
    BY <1>1, <2>1 DEF TypesOK, NumbersOK, TextsOK, CheckpointsAreHeld, Holds,
                      OthersStay, Idle, Recoverable
  <2>3. Busy' = Busy /\ Recoverable' = Recoverable
    BY <1>1, <2>1 DEF Busy, Idle, OthersStay, Recoverable
  <2>4. Slots = 1 => Recoverable = {}
    BY <2>1, NothingFound
  <2>5. OneAtATime'
    BY <1>1, <2>1, <2>3, <2>4 DEF OneAtATime, OthersStay
  <2>6. QED
    BY <2>2, <2>5
<1>3. ASSUME NEW e \in Job, ResumeCkpt(j, e) PROVE ContinuationIInv'
  <2> DEFINE run == [exec |-> e, from |-> "ckpt", id |-> ckpts[e].id]
  <2>1. run \in Run /\ e \in Recoverable /\ ckpts[e].id <= saves
    <3>1. e \in Recoverable
      BY <1>3, FoundTypes DEF ResumeCkpt
    <3>2. run \in Run
      BY DEF TypesOK, File, Run
    <3>3. ckpts[e].id <= saves
      BY <1>3 DEF NumbersOK
    <3>4. QED
      BY <3>1, <3>2, <3>3
  <2>2. Goes(j, "think", run) /\ UNCHANGED ckpts
    BY <1>3 DEF ResumeCkpt, Begin
  <2>3. /\ jobs' \in [Job -> JobState] /\ OthersStay(j)
        /\ jobs'[j].pc = "think" /\ jobs'[j].text = jobs[j].text
        /\ jobs'[j].run = run /\ jobs'[j].held = 0
    BY <2>1, <2>2, GoesEffect
  <2>4. TypesOK' /\ NumbersOK' /\ TextsOK'
    BY <1>1, <2>1, <2>2, <2>3, NumberTypes
       DEF TypesOK, NumbersOK, TextsOK, OthersStay, Idle
  <2>5. CheckpointsAreHeld'
    BY <1>1, <2>2, <2>3
       DEF CheckpointsAreHeld, Holds, OthersStay, Recoverable
  <2>6. Busy' = Busy /\ Recoverable' = Recoverable
    BY <1>1, <2>2, <2>3 DEF Busy, Idle, OthersStay, Recoverable
  <2>7. OneAtATime'
    BY <1>1, <2>1, <2>2, <2>3, <2>6 DEF OneAtATime, OthersStay
  <2>8. QED
    BY <2>4, <2>5, <2>7
<1>4. ASSUME NEW e \in Job, DropCkpt(j, e) PROVE ContinuationIInv'
  <2>1. /\ jobs' \in [Job -> JobState] /\ OthersStay(j)
        /\ jobs'[j].pc = "gate" /\ jobs'[j].text = jobs[j].text
        /\ jobs'[j].run = jobs[j].run /\ jobs'[j].held = jobs[j].held
    BY <1>4, SetEffect DEF DropCkpt
  <2>2. ckpts' = [ckpts EXCEPT ![e] = NoFile] /\ e \in Recoverable
    BY <1>4, FoundTypes DEF DropCkpt
  <2>3. /\ ckpts' \in [Job -> File] /\ ckpts'[e] = NoFile /\ ckpts'[e].id = 0
        /\ \A f \in Job \ {e} : ckpts'[f] = ckpts[f]
    BY <2>2 DEF TypesOK, File, NoFile
  <2>4. Recoverable' = Recoverable \ {e}
    BY <2>3 DEF Recoverable
  <2>5. TypesOK' /\ NumbersOK' /\ TextsOK'
    BY <1>1, <2>1, <2>3, NumberTypes, SMTT(240)
       DEF TypesOK, NumbersOK, TextsOK, OthersStay, Idle
  <2>6. CheckpointsAreHeld'
    <3> SUFFICES ASSUME NEW f \in Recoverable \ {e}, ckpts'[f].id \notin lost
                 PROVE  \E k \in Job : Holds(k, f)'
      BY <1>1, <2>4 DEF CheckpointsAreHeld
    <3>3. f \in Job \ {e}
      BY DEF Recoverable
    <3>1. PICK k \in Job : Holds(k, f)
      BY <2>3, <3>3 DEF CheckpointsAreHeld
    <3>2. k # j
      BY <1>1, <3>1 DEF Holds
    <3>4. QED
      BY <2>1, <2>3, <3>1, <3>2, <3>3 DEF Holds, OthersStay
  <2>7. OneAtATime'
    <3> SUFFICES ASSUME Slots = 1 PROVE OneAtATime'
      BY DEF OneAtATime
    <3>1. Busy' = Busy /\ \A k \in Job \ {j} : k \notin Busy
      BY <1>1, <2>1 DEF Busy, Idle, OthersStay, OneAtATime
    <3>2. Recoverable' = {}
      BY <2>2, <2>4 DEF OneAtATime
    <3>3. \A k \in Job : jobs'[k].pc \notin {"think", "replace"}
      BY <1>1, <2>1, <3>1 DEF Busy, Idle, OthersStay
    <3>4. QED
      BY <3>1, <3>2, <3>3 DEF OneAtATime
  <2>8. QED
    BY <2>5, <2>6, <2>7
<1>5. QED
  BY <1>2, <1>3, <1>4

(* A run ends, or opens a gate: what it resumed is still to be cleared.    *)
LEMMA StepEnds ==
    ASSUME ContinuationIInv, NEW j \in Job,
           Ends(j) \/ \E kind \in Kind : SaveGate(j, kind)
    PROVE  ContinuationIInv'
<1> USE DEF ContinuationIInv, history
<1>1. /\ jobs' \in [Job -> JobState] /\ OthersStay(j)
      /\ jobs'[j].pc = "clear" /\ jobs'[j].text = jobs[j].text
      /\ jobs'[j].run = jobs[j].run /\ jobs'[j].held = jobs[j].held
      /\ jobs[j].pc = "think" /\ UNCHANGED <<ckpts, wiping, history>>
  BY SetEffect DEF Ends, SaveGate
<1>2. /\ saves' \in 0..MaxSaves /\ saves <= saves' /\ saves \in Nat
      /\ gates' \subseteq Gate /\ \A g \in gates' : g.id <= saves'
  <2>1. CASE Ends(j)
    BY <2>1, NumberTypes DEF Ends, TypesOK, NumbersOK
  <2>2. ASSUME NEW kind \in Kind, SaveGate(j, kind)
        PROVE  /\ saves' \in 0..MaxSaves /\ saves <= saves' /\ saves \in Nat
               /\ gates' \subseteq Gate /\ \A g \in gates' : g.id <= saves'
    <3>1. /\ saves \in Nat /\ saves + 1 \in FileId /\ saves' = saves + 1
          /\ gates' = gates \union {[id |-> saves + 1, kind |-> kind,
                                     exec |-> jobs[j].run.exec]}
      BY <2>2, NumberTypes DEF SaveGate, TypesOK
    <3>2. [id |-> saves + 1, kind |-> kind, exec |-> jobs[j].run.exec] \in Gate
      BY <3>1 DEF TypesOK, JobState, Run, Gate
    <3>3. \A g \in Gate : g.id \in Nat
      BY DEF Gate, FileId
    <3>4. QED
      BY <3>1, <3>2, <3>3 DEF TypesOK, NumbersOK, FileId
  <2>3. QED
    BY <2>1, <2>2
<1>3. /\ \A e \in Job : ckpts[e].id \in Nat
      /\ \A k \in Job : jobs[k].run.id \in Nat /\ jobs[k].held \in Nat
  BY NumberTypes DEF TypesOK, File, JobState, Run
<1>4. TypesOK' /\ NumbersOK' /\ TextsOK'
  BY <1>1, <1>2, <1>3
     DEF TypesOK, NumbersOK, TextsOK, OthersStay, Idle
<1>5. CheckpointsAreHeld'
  BY <1>1 DEF CheckpointsAreHeld, Holds, OthersStay, Recoverable
<1>6. Busy' = Busy /\ Recoverable' = Recoverable
  BY <1>1 DEF Busy, Idle, OthersStay, Recoverable
<1>7. OneAtATime'
  BY <1>1, <1>6 DEF OneAtATime, OthersStay
<1>8. QED
  BY <1>4, <1>5, <1>7

(* A run saves a checkpoint in the file of its execution.                  *)
LEMMA StepSaves ==
    ASSUME ContinuationIInv, NEW j \in Job, SaveCkpt(j)
    PROVE  ContinuationIInv'
<1> USE DEF ContinuationIInv, history
<1> DEFINE exec == jobs[j].run.exec
<1>1. /\ jobs[j].pc = "think" /\ saves \in Nat /\ saves + 1 \in FileId
      /\ saves' = saves + 1 /\ UNCHANGED <<gates, wiping, history>>
      /\ jobs[j] \in JobState /\ exec \in Job
  BY NumberTypes DEF SaveCkpt, TypesOK, JobState, Run
<1>2. /\ jobs' \in [Job -> JobState] /\ OthersStay(j)
      /\ jobs'[j].pc = "replace" /\ jobs'[j].text = jobs[j].text
      /\ jobs'[j].run = jobs[j].run /\ jobs'[j].held = saves + 1
  <2>1. jobs' = [jobs EXCEPT ![j].pc = "replace", ![j].held = saves + 1]
    BY DEF SaveCkpt
  <2>2. QED
    BY <1>1, <2>1 DEF TypesOK, OthersStay, JobState
<1>3. /\ ckpts' \in [Job -> File] /\ ckpts'[exec].id = saves + 1
      /\ \A e \in Job \ {exec} : ckpts'[e] = ckpts[e]
  <2>1. ckpts' = [ckpts EXCEPT ![exec] = [id |-> saves + 1, by |-> j]]
    BY DEF SaveCkpt
  <2>2. [id |-> saves + 1, by |-> j] \in File
    BY <1>1 DEF File
  <2>3. QED
    BY <1>1, <2>1, <2>2 DEF TypesOK
<1>4. /\ \A e \in Job : ckpts[e].id \in Nat
      /\ \A k \in Job : jobs[k].run.id \in Nat /\ jobs[k].held \in Nat
      /\ \A g \in gates : g.id \in Nat
  BY NumberTypes DEF TypesOK, File, JobState, Run, Gate
<1>5. TypesOK'
  BY <1>1, <1>2, <1>3 DEF TypesOK, FileId
<1>6. NumbersOK'
  <2>1. \A e \in Job : /\ ckpts'[e].id <= saves'
                       /\ ckpts'[e] # NoFile => ckpts'[e].id # 0
    <3>1. \A e \in Job : /\ ckpts[e].id <= saves
                         /\ ckpts[e] # NoFile => ckpts[e].id # 0
      BY DEF NumbersOK
    <3>2. QED
      BY <1>1, <1>3, <1>4, <3>1
  <2>2. \A k \in Job : /\ jobs'[k].run.id <= saves' /\ jobs'[k].held <= saves'
                       /\ jobs'[k].pc = "replace" =>
                             jobs'[k].run.id < jobs'[k].held
    BY <1>1, <1>2, <1>4 DEF NumbersOK, OthersStay
  <2>3. QED
    <3>1. \A g \in gates' : g.id <= saves'
      BY <1>1, <1>4 DEF NumbersOK
    <3>2. QED
      BY <2>1, <2>2, <3>1 DEF NumbersOK
<1>7. TextsOK'
  BY <1>1, <1>2 DEF TextsOK, OthersStay, Idle
<1>8. CheckpointsAreHeld'
  <2> SUFFICES ASSUME NEW e \in Recoverable', ckpts'[e].id \notin lost
               PROVE  \E k \in Job : Holds(k, e)'
    BY <1>1 DEF CheckpointsAreHeld
  <2>1. CASE e = exec
    BY <1>2, <1>3, <2>1 DEF Holds
  <2>2. CASE e # exec
    <3>1. /\ e \in Recoverable /\ e \in Job \ {exec}
          /\ ckpts[e].id \notin lost
      BY <1>3, <2>2 DEF Recoverable
    <3>2. PICK k \in Job : Holds(k, e)
      BY <3>1 DEF CheckpointsAreHeld
    <3>3. k # j
      BY <2>2, <3>2 DEF Holds
    <3>4. QED
      BY <1>2, <1>3, <3>1, <3>2, <3>3 DEF Holds, OthersStay
  <2>3. QED
    BY <2>1, <2>2
<1>9. OneAtATime'
  <2> SUFFICES ASSUME Slots = 1 PROVE OneAtATime'
    BY DEF OneAtATime
  <2>1. Busy' = Busy /\ \A k \in Job \ {j} : k \notin Busy
    BY <1>1, <1>2 DEF Busy, Idle, OthersStay, OneAtATime
  <2>2. Recoverable' \subseteq {exec}
    BY <1>1, <1>3 DEF OneAtATime, Recoverable
  <2>3. \A k \in Job \ {j} : jobs'[k].pc \notin {"gate", "think", "replace"}
    BY <1>2, <2>1 DEF Busy, Idle, OthersStay
  <2>4. QED
    BY <1>2, <1>3, <2>1, <2>2, <2>3 DEF OneAtATime
<1>10. QED
  BY <1>5, <1>6, <1>7, <1>8, <1>9

(* What is cleared: the file a run came from, if it is still that file.    *)
LEMMA LimparEffect ==
    ASSUME TypesOK, NEW run \in Run, Limpar(run)
    PROVE  /\ ckpts' \in [Job -> File] /\ gates' \subseteq gates
           /\ \A e \in Job :
                 ckpts'[e] = IF run.from = "ckpt" /\ e = run.exec
                                /\ ckpts[e].id = run.id
                             THEN NoFile ELSE ckpts[e]
  BY DEF Limpar, TypesOK, File, NoFile

LEMMA StepReplaces ==
    ASSUME ContinuationIInv, NEW j \in Job, Replace(j)
    PROVE  ContinuationIInv'
<1> USE DEF ContinuationIInv, history
<1> DEFINE run == [exec |-> jobs[j].run.exec, from |-> "ckpt",
                   id |-> jobs[j].held]
<1>1. /\ jobs[j].pc = "replace" /\ jobs[j].run \in Run /\ run \in Run
      /\ Limpar(jobs[j].run) /\ Goes(j, "think", run)
      /\ UNCHANGED <<saves, wiping, history>> /\ saves \in Nat
  BY NumberTypes DEF Replace, Begin, TypesOK, JobState, Run
<1>2. /\ jobs' \in [Job -> JobState] /\ OthersStay(j)
      /\ jobs'[j].pc = "think" /\ jobs'[j].text = jobs[j].text
      /\ jobs'[j].run = run /\ jobs'[j].held = 0
  BY <1>1, GoesEffect
<1>3. /\ ckpts' \in [Job -> File] /\ gates' \subseteq gates
      /\ \A e \in Job : ckpts'[e] \in {ckpts[e], NoFile}
      /\ \A e \in Job : e # jobs[j].run.exec => ckpts'[e] = ckpts[e]
      /\ \A e \in Job : ckpts[e].id # jobs[j].run.id => ckpts'[e] = ckpts[e]
  BY <1>1, LimparEffect
<1>4. NoFile.id = 0 /\ Recoverable' \subseteq Recoverable
      /\ \A e \in Recoverable' : ckpts'[e] = ckpts[e]
  BY <1>3 DEF Recoverable, NoFile
<1>5. TypesOK' /\ NumbersOK' /\ TextsOK'
  <2>1. NumbersOK'
    BY <1>1, <1>2, <1>3, <1>4 DEF NumbersOK, OthersStay
  <2>2. TypesOK' /\ TextsOK'
    BY <1>1, <1>2, <1>3 DEF TypesOK, TextsOK, OthersStay, Idle
  <2>3. QED
    BY <2>1, <2>2
<1>6. CheckpointsAreHeld'
  <2> SUFFICES ASSUME NEW e \in Recoverable', ckpts'[e].id \notin lost
               PROVE  \E k \in Job : Holds(k, e)'
    BY <1>1 DEF CheckpointsAreHeld
  <2>1. PICK k \in Job : Holds(k, e)
    BY <1>4 DEF CheckpointsAreHeld
  <2>2. CASE k = j
    BY <1>1, <1>2, <1>4, <2>1, <2>2 DEF Holds
  <2>3. CASE k # j
    BY <1>2, <1>4, <2>1, <2>3 DEF Holds, OthersStay
  <2>4. QED
    BY <2>2, <2>3
<1>7. OneAtATime'
  <2> SUFFICES ASSUME Slots = 1 PROVE OneAtATime'
    BY DEF OneAtATime
  <2>1. Busy' = Busy /\ \A k \in Job \ {j} : k \notin Busy
    BY <1>1, <1>2 DEF Busy, Idle, OthersStay, OneAtATime
  <2>2. /\ Recoverable \subseteq {jobs[j].run.exec}
        /\ \/ ckpts[jobs[j].run.exec].id = jobs[j].held
           \/ jobs[j].held \in wiped
        /\ jobs[j].run.id < jobs[j].held /\ jobs[j].run.exec \in Job
    BY <1>1 DEF OneAtATime, NumbersOK, Run
  <2>3. jobs[j].run.id # jobs[j].held
    <3>1. jobs[j].run.id \in Nat /\ jobs[j].held \in Nat
      BY NumberTypes DEF TypesOK, JobState, Run
    <3>2. QED
      BY <2>2, <3>1
  <2>4. \/ ckpts'[jobs[j].run.exec].id = jobs[j].held
        \/ jobs[j].held \in wiped
    BY <1>3, <2>2, <2>3
  <2>5. \A k \in Job \ {j} : jobs'[k].pc \notin {"gate", "think", "replace"}
    BY <1>2, <2>1 DEF Busy, Idle, OthersStay
  <2>6. Recoverable' \subseteq {jobs[j].run.exec}
    BY <1>4, <2>2
  <2>7. QED
    BY <1>1, <1>2, <2>1, <2>4, <2>5, <2>6 DEF OneAtATime
<1>8. QED
  BY <1>5, <1>6, <1>7

LEMMA StepClears ==
    ASSUME ContinuationIInv, NEW j \in Job, Clear(j)
    PROVE  ContinuationIInv'
<1> USE DEF ContinuationIInv, history
<1>1. /\ jobs[j].pc = "clear" /\ jobs[j].run \in Run /\ Limpar(jobs[j].run)
      /\ Rests(j, "closed", NoText) /\ UNCHANGED <<saves, wiping, history>>
      /\ saves \in Nat
  BY NumberTypes DEF Clear, Close, TypesOK, JobState
<1>2. /\ jobs' \in [Job -> JobState] /\ OthersStay(j)
      /\ jobs'[j].pc = "closed" /\ jobs'[j].run.from = "nothing"
      /\ jobs'[j].run.id = 0 /\ jobs'[j].held = 0
  BY <1>1, NoTextType, WaitEffect
<1>3. /\ ckpts' \in [Job -> File] /\ gates' \subseteq gates
      /\ \A e \in Job :
            ckpts'[e] = IF jobs[j].run.from = "ckpt" /\ e = jobs[j].run.exec
                           /\ ckpts[e].id = jobs[j].run.id
                        THEN NoFile ELSE ckpts[e]
  BY <1>1, LimparEffect
<1>4. NoFile.id = 0 /\ Recoverable' \subseteq Recoverable
      /\ \A e \in Recoverable' : ckpts'[e] = ckpts[e] /\ ~Holds(j, e)
  BY <1>1, <1>3 DEF Recoverable, NoFile, Holds
<1>5. TypesOK' /\ TextsOK'
  BY <1>1, <1>2, <1>3 DEF TypesOK, TextsOK, OthersStay, Idle
<1>6. NumbersOK'
  BY <1>1, <1>2, <1>3, <1>4 DEF NumbersOK, OthersStay
<1>7. CheckpointsAreHeld'
  <2> SUFFICES ASSUME NEW e \in Recoverable', ckpts'[e].id \notin lost
               PROVE  \E k \in Job : Holds(k, e)'
    BY <1>1 DEF CheckpointsAreHeld
  <2>1. PICK k \in Job : Holds(k, e)
    BY <1>4 DEF CheckpointsAreHeld
  <2>2. k # j
    BY <1>4, <2>1
  <2>3. QED
    BY <1>2, <1>4, <2>1, <2>2 DEF Holds, OthersStay
<1>8. OneAtATime'
  <2> SUFFICES ASSUME Slots = 1 PROVE OneAtATime'
    BY DEF OneAtATime
  <2>1. Busy' \subseteq Busy /\ \A k \in Job \ {j} : k \notin Busy
    BY <1>1, <1>2 DEF Busy, Idle, OthersStay, OneAtATime
  <2>2. \A k \in Job : jobs'[k].pc \notin {"gate", "think", "replace"}
    BY <1>2, <2>1 DEF Busy, Idle, OthersStay
  <2>3. QED
    BY <1>4, <2>1, <2>2 DEF OneAtATime
<1>9. QED
  BY <1>5, <1>6, <1>7, <1>8
-------------------------------------------------------------------------------
(* The conversation is cleared, one file at a time.                        *)
LEMMA StepWipes ==
    ASSUME ContinuationIInv, Wipe
    PROVE  ContinuationIInv'
<1> USE DEF ContinuationIInv, history
<1>1. CASE LimparConversa \/ ConversaLimpa
  <2>1. wiping' \in BOOLEAN /\ UNCHANGED <<jobs, ckpts, gates, saves, history>>
    BY <1>1 DEF LimparConversa, ConversaLimpa
  <2>2. QED
    BY <2>1 DEF TypesOK, NumbersOK, TextsOK, Idle, Busy, CheckpointsAreHeld, Holds,
                OneAtATime, Recoverable
<1>2. CASE LimparPendencia
  <2>1. /\ UNCHANGED <<jobs, saves, wiping, kills, lost>>
        /\ gates' \subseteq gates
        /\ \/ UNCHANGED ckpts /\ \E g \in gates : wiped' = wiped \union {g.id}
           \/ \E e \in Recoverable : /\ ckpts' = [ckpts EXCEPT ![e] = NoFile]
                                     /\ wiped' = wiped \union {ckpts[e].id}
    BY <1>2 DEF LimparPendencia
  <2>2. /\ wiped' \in SUBSET FileId /\ wiped \subseteq wiped'
        /\ ckpts' \in [Job -> File] /\ NoFile.id = 0
        /\ \A e \in Job : \/ ckpts'[e] = ckpts[e]
                          \/ ckpts'[e] = NoFile /\ ckpts[e].id \in wiped'
    BY <2>1, NumberTypes DEF TypesOK, NumbersOK, Recoverable, File, Gate, NoFile
  <2>3. Recoverable' \subseteq Recoverable /\ Busy' = Busy
        /\ \A e \in Recoverable' : ckpts'[e] = ckpts[e]
    BY <2>1, <2>2 DEF Recoverable, Busy, Idle
  <2>4. TypesOK' /\ NumbersOK' /\ TextsOK'
    BY <2>1, <2>2, NumberTypes DEF TypesOK, NumbersOK, TextsOK, Idle
  <2>5. CheckpointsAreHeld'
    BY <2>1, <2>3 DEF CheckpointsAreHeld, Holds
  <2>6. OneAtATime'
    <3> SUFFICES ASSUME Slots = 1 PROVE OneAtATime'
      BY DEF OneAtATime
    <3>1. \A j \in Job : jobs[j].run.exec \in Job
      BY DEF TypesOK, JobState, Run
    <3>2. \A j \in Job :
             /\ jobs[j].pc = "think" /\ jobs[j].run.from = "ckpt" =>
                   \/ ckpts'[jobs[j].run.exec].id = jobs[j].run.id
                   \/ jobs[j].run.id \in wiped'
             /\ jobs[j].pc = "replace" =>
                   \/ ckpts'[jobs[j].run.exec].id = jobs[j].held
                   \/ jobs[j].held \in wiped'
      BY <2>2, <3>1 DEF OneAtATime
    <3>3. QED
      BY <2>1, <2>3, <3>2 DEF OneAtATime
  <2>7. QED
    BY <2>4, <2>5, <2>6
<1>3. QED
  BY <1>1, <1>2 DEF Wipe

LEMMA ContinuationStep == ContinuationIInv /\ [Next]_vars => ContinuationIInv'
<1> SUFFICES ASSUME ContinuationIInv, [Next]_vars PROVE ContinuationIInv'
  OBVIOUS
<1>1. CASE UNCHANGED vars
  BY <1>1 DEF vars, history, ContinuationIInv, TypesOK, NumbersOK, TextsOK, Idle, Busy,
              CheckpointsAreHeld, Holds, OneAtATime, Recoverable
<1>2. ASSUME NEW j \in Job, JobStep(j)
      PROVE  ContinuationIInv'
  BY <1>2, StepWaits, StepAtGate, StepReserve, StepLookup, StepEnds, StepSaves,
     StepReplaces, StepClears DEF JobStep, Work, Resume
<1>3. QED
  BY <1>1, <1>2, StepWipes DEF Next

THEOREM ContinuationInvariance == ContinuationSpec => []ContinuationIInv
  BY ContinuationStarts, ContinuationStep, PTL DEF ContinuationSpec

(* Every run names a file that was saved, and a checkpoint on disk is the  *)
(* one that some run resumed or has just saved, and will clear, or that run*)
(* was killed or failed; for any number of slots.                          *)
THEOREM FilesTheorem == ContinuationSpec => []FilesAreRuns
<1>1. ContinuationIInv => FilesAreRuns
  BY DEF ContinuationIInv, TypesOK, NumbersOK, ContinuationTypeOK, FilesAreRuns
<1>2. QED
  BY <1>1, ContinuationInvariance, PTL

(* With one slot there is one checkpoint at most, and it is the one that a *)
(* run needs that came from it, whenever its process is killed: it is      *)
(* saved before the older one is cleared, by number.                       *)
THEOREM BackingTheorem == ContinuationSpec => []CheckpointBacksRun
<1>1. ContinuationIInv => CheckpointBacksRun
  <2> SUFFICES ASSUME ContinuationIInv PROVE CheckpointBacksRun
    OBVIOUS
  <2>1. OneCheckpoint
    <3> SUFFICES ASSUME Slots = 1 PROVE Cardinality(Recoverable) <= 1
      BY DEF OneCheckpoint
    <3>1. CASE Recoverable = {}
      BY <3>1, FS_EmptySet
    <3>2. ASSUME NEW e \in Recoverable PROVE Cardinality(Recoverable) <= 1
      <4>1. Recoverable = {e}
        BY DEF ContinuationIInv, OneAtATime
      <4>2. Cardinality(Recoverable) = 1
        BY <4>1, FS_Singleton
      <4>3. QED
        BY <4>2
    <3>3. QED
      BY <3>1, <3>2
  <2>2. RunsAreBacked
    BY DEF ContinuationIInv, OneAtATime, RunsAreBacked
  <2>3. QED
    BY <2>1, <2>2 DEF CheckpointBacksRun
<1>2. QED
  BY <1>1, ContinuationInvariance, PTL

-------------------------------------------------------------------------------
(* A gate goes for the job that was answered with it or came from it.      *)
LEMMA GatesStep ==
    ASSUME ContinuationIInv, [Next]_vars, NEW g \in gates, g \notin gates'
    PROVE  \/ g.id \in wiped'
           \/ \E j \in Job : ~Idle(j) /\ Said(j).code \in {0, g.id}
<1> USE DEF ContinuationIInv, history
<1>1. Next
  BY DEF vars
<1>w. CASE Wipe
  BY <1>w DEF Wipe, LimparConversa, LimparPendencia, ConversaLimpa
<1> SUFFICES ASSUME ~Wipe
             PROVE  \E j \in Job : ~Idle(j) /\ Said(j).code \in {0, g.id}
  BY <1>w
<1>2. PICK j \in Job : JobStep(j)
  BY <1>1 DEF Next
<1>3. CASE \E h \in gates : Expired(j, h) \/ Superseded(j, h)
  <2>1. PICK h \in gates : /\ At(j) /\ h \in FoundGate(Said(j))
                           /\ gates' = gates \ {h}
    BY <1>3 DEF Expired, Superseded
  <2>2. g = h /\ ~Idle(j) /\ Said(j).code \in {0, h.id}
    BY <2>1, FoundTypes DEF At, Idle
  <2>3. QED
    BY <2>2
<1>4. CASE Replace(j) \/ Clear(j)
  <2>1. Limpar(jobs[j].run) /\ ~Idle(j)
    BY <1>4 DEF Replace, Clear, Idle
  <2>2. jobs[j].run.from = "gate" /\ g.id = jobs[j].run.id
    BY <2>1 DEF Limpar
  <2>3. QED
    BY <2>1, <2>2 DEF TextsOK, Said
<1>5. CASE ~(\E h \in gates : Expired(j, h) \/ Superseded(j, h))
           /\ ~(Replace(j) \/ Clear(j))
  <2>1. gates \subseteq gates'
    BY <1>2, <1>5
       DEF JobStep, Work, Resume, Reserve, Kill, Fails, Lose, Submit, NoCkpt, NoGate, ResumeCkpt,
           DropCkpt, Resumed, Cancelled, Unresolved, Ends, SaveCkpt, SaveGate
  <2>2. QED
    BY <2>1
<1>6. QED
  BY <1>3, <1>4, <1>5

(* A text with a code acts on the gate of that code and on no other, for   *)
(* any number of slots.                                                    *)
THEOREM GatesTheorem == ContinuationSpec => GatesGoByName
<1> DEFINE ByName == \A g \in gates \ gates' :
                        \/ g.id \in wiped'
                        \/ \E j \in Job : ~Idle(j) /\ Said(j).code \in {0, g.id}
<1>1. ContinuationIInv /\ [Next]_vars => [ByName]_vars
  BY GatesStep
<1>2. QED
  BY <1>1, ContinuationInvariance, PTL DEF ContinuationSpec, GatesGoByName

(* With one slot a job that is run again never goes past a checkpoint it   *)
(* saved, whatever execution that belongs to, and gates go by their names. *)
THEOREM NamesTheorem ==
    ASSUME Slots = 1
    PROVE  ContinuationSpec => ContinuationsGoByName
<1> DEFINE Resumes == \A j \in Job : NoCkpt(j) =>
                          \A e \in Job : ckpts[e].by # j
<1>1. ContinuationIInv /\ [Next]_vars => [Resumes]_vars
  <2> SUFFICES ASSUME ContinuationIInv, NEW j \in Job, NoCkpt(j), NEW e \in Job
               PROVE  ckpts[e].by # j
    OBVIOUS
  <2>1. Recoverable = {}
    BY NothingFound DEF NoCkpt, ContinuationIInv
  <2>2. ckpts[e].by = 0 /\ j # 0
    BY <2>1, ContinuationAssumption DEF Recoverable, NoFile, Job
  <2>3. QED
    BY <2>2
<1>2. ContinuationSpec => RerunResumes
  BY <1>1, ContinuationInvariance, PTL DEF ContinuationSpec, RerunResumes
<1>3. QED
  BY <1>2, GatesTheorem DEF ContinuationsGoByName

===============================================================================
